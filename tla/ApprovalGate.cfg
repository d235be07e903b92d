CONSTANTS
  NSteps = 1
  Writes = {1}
  KeyOf <- ChainKeys
  Deps <- ChainDeps
  Need <- LastNeedsTwo
  Refused = {}
  StepBudget = 1
  MaxRetries = 1
  w1 = w1
  w2 = w2
  ann = ann
  bob = bob
  eve = eve
  dan = dan
  bot = bot
  Workers = {w1, w2}
  Retriers = {}
  WorkerId <- OwnIds
  Approvers = {ann, bob, eve, dan, bot}
  Role <- TwoRoles
  Actor = dan
  Agents = {bot}
  AgentsMaySign = FALSE
  NoOne = NoOne
  MaxMishaps = 1
  LostAcks = TRUE
SPECIFICATION ApprovalSpec
INVARIANTS GateHolds DistinctRoles
CHECK_DEADLOCK FALSE
