CONSTANTS
  NSteps = 4
  Writes = {1, 2, 3, 4}
  KeyOf <- ChainKeys
  Deps <- ChainDeps
  Need <- NoSignature
  Refused = {4}
  StepBudget = 4
  MaxRetries = 2
  w1 = w1
  c1 = c1
  c2 = c2
  r1 = r1
  Workers = {w1}
  Retriers = {}
  Compensators = {c1, c2}
  Automatic = TRUE
  Undoable = {1, 2, 4}
  Verdict <- FirstConfirmed
  WorkerId <- OwnIds
  Approvers = {}
  NoOne = NoOne
  MaxMishaps = 2
  LostAcks = FALSE
SPECIFICATION SagaSpec
INVARIANTS CompensatedIsClean UndoneNotDriven FailClosed
PROPERTIES UndoKeepsPromise UndoesInOrder
SYMMETRY Requests
CHECK_DEADLOCK FALSE
