CONSTANTS
  c1 = c1
  c2 = c2
  w1 = w1
  w2 = w2
  q1 = q1
  Callers = {c1}
  Workers = {w1}
  Requests = {q1}
  WorkerId <- Ids
  NoOne = NoOne
  Kinds <- YoungerStopped
  MaxRetries = 2
  MaxMishaps = 1
SPECIFICATION FleetSpec
INVARIANTS OneDriver AnsweredTruly
PROPERTY RunsSettle
CHECK_DEADLOCK FALSE
