CONSTANTS
  NSteps = 2
  Writes = {1, 2}
  KeyOf <- ChainKeys
  Deps <- ChainDeps
  Need <- NoSignature
  Refused = {}
  StepBudget = 2
  MaxRetries = 2
  w1 = w1
  w2 = w2
  r1 = r1
  Workers = {w1, w2}
  Retriers = {r1}
  WorkerId <- OwnIds
  Approvers = {}
  NoOne = NoOne
  MaxMishaps = 1
  LostAcks = TRUE
SPECIFICATION Spec
INVARIANTS TypeOK ExactlyOnce AtomicRecord RowsVouched SucceededIsComplete CheckpointBacked
PROPERTIES LeaseKept KeepsPromise
SYMMETRY Replicas
