CONSTANTS
  s1 = s1
  s2 = s2
  k1 = k1
  Steps = {s1, s2}
  Closers = {k1}
  Total = 2
  Amounts = {1}
  Threshold = 1
  Limit = 0
  Trust = 4
  MaxTickets = 2
  None = None
  Unreadable = Unreadable
  Referred = Referred
  Unknown = Unknown
SPECIFICATION RefundSpec
INVARIANTS RefundTypeOK QuotaOfUndisturbed GatedIfCalm OneTicketPerStep
SYMMETRY EitherStep
CHECK_DEADLOCK FALSE
