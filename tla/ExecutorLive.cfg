CONSTANTS
  NSteps = 3
  Writes = {1, 3}
  KeyOf <- ChainKeys
  Deps <- ChainDeps
  Need <- NoSignature
  Refused = {}
  StepBudget = 2
  MaxRetries = 2
  w1 = w1
  w2 = w2
  r1 = r1
  Workers = {w1, w2}
  Retriers = {}
  WorkerId <- OwnIds
  Approvers = {}
  NoOne = NoOne
  MaxMishaps = 3
  LostAcks = TRUE
SPECIFICATION FairSpec
INVARIANT WithinLimits
PROPERTY Settles
CHECK_DEADLOCK FALSE
