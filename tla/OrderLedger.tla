----------------------------- MODULE OrderLedger ------------------------------
(***************************************************************************)
(* What the fill ledger promises of each order row: executed shares are    *)
(* only ever added to its fills, never beyond the ordered quantity, and a  *)
(* row reported filled stays closed with the fills it has.                 *)
(***************************************************************************)
EXTENDS Naturals

CONSTANTS Rows, MaxQty

VARIABLES ordered,   \* shares each row ordered, 0 before the row exists
          recorded,  \* shares recorded in fills
          closed     \* rows reported filled

vars == <<ordered, recorded, closed>>

Init == /\ ordered = [r \in Rows |-> 0]
        /\ recorded = [r \in Rows |-> 0]
        /\ closed = {}

Order(r, q) == /\ ordered[r] = 0
               /\ ordered' = [ordered EXCEPT ![r] = q]
               /\ UNCHANGED <<recorded, closed>>

Record(r, n, close) ==
  /\ r \notin closed
  /\ n \in recorded[r] .. ordered[r]
  /\ recorded' = [recorded EXCEPT ![r] = n]
  /\ closed' = closed \cup close
  /\ UNCHANGED ordered

Next == \E r \in Rows :
  \/ \E q \in 1 .. MaxQty : Order(r, q)
  \/ \E n \in 0 .. MaxQty, close \in {{}, {r}} : Record(r, n, close)

Spec == Init /\ [][Next]_vars
===============================================================================
