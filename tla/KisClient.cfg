SPECIFICATION FairSpec
CONSTANTS
  c1 = c1
  c2 = c2
  Renewal = Renewal
  Callers <- TwoCallers
  Baselines <- OneBaseline
  Retries = 2
  TokenTries = 2
  Pace = 1
  MaxPace = 2
  MaxTokens = 2
INVARIANTS TypeOK NewestToken
PROPERTIES Paced ResentWithNewer EveryCallEnds
CHECK_DEADLOCK FALSE
