---------------------------- MODULE MCEntryDefense -----------------------------
(* An instance of EntryDefense for TLC: KOSPI changes in half percents.        *)
EXTENDS EntryDefense

MCLevels == {-4, -3, 0, 1}
MCCrash  == -4
MCDown   == -3

\* Two SETs may match a weak market, one of them closes entries.
MCSetsFor == [r \in Regimes |->
                CASE r = "volatile" -> {"closed"}
                  [] r = "risk_off" -> {"closed", "wary"}
                  [] OTHER          -> {"open"}]
===============================================================================
