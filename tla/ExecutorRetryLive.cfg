CONSTANTS
  NSteps = 2
  Writes = {1, 2}
  KeyOf <- TwinKeys
  Deps <- NoDeps
  Need <- LastNeedsOne
  Refused = {}
  StepBudget = 2
  MaxRetries = 2
  w1 = w1
  w2 = w2
  r1 = r1
  Workers = {w1}
  Retriers = {r1}
  WorkerId <- InlineIds
  Approvers = {}
  NoOne = NoOne
  MaxMishaps = 1
  LostAcks = TRUE
SPECIFICATION FairSpec
INVARIANT ExactlyOnce
PROPERTIES Settles LeaseKept
