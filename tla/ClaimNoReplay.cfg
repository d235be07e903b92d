CONSTANTS
  NSteps = 2
  Writes = {1, 2}
  KeyOf <- ChainKeys
  Deps <- ChainDeps
  Need <- NoSignature
  Refused = {}
  StepBudget = 2
  MaxRetries = 1
  w1 = w1
  c1 = c1
  c2 = c2
  r1 = r1
  Workers = {w1}
  Retriers = {r1}
  Compensators = {c1}
  Automatic = FALSE
  Undoable = {1, 2}
  Verdict <- AllAllowed
  WorkerId <- OwnIds
  Approvers = {}
  NoOne = NoOne
  MaxMishaps = 0
  LostAcks = FALSE
SPECIFICATION SagaSpec
PROPERTY NoWriteAfterUndo
CHECK_DEADLOCK FALSE
