SPECIFICATION Spec
CONSTANTS
  c1 = c1
  c2 = c2
  r1 = r1
  r2 = r2
  r3 = r3
  NoRunner = NoRunner
  Callers <- TwoCallers
  Runners <- ThreeRunners
  FailLimit = 2
  MaxDays = 2
  MaxRestarts = 1
SYMMETRY FeedSymmetry
INVARIANTS TypeOK OneRunner LastCallWins OutageBlocks BlockIsOutage
