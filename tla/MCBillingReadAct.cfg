SPECIFICATION Spec
CONSTANTS
  Owner = {o1}
  TestOwner = {}
  Attempt = {a1, a2}
  NoAttempt = NoAttempt
  MonthTerm = 2
  YearTerm = 4
  BonusTerm = 1
  Grace = 1
  Retention = 1
  Asks <- StandardOnly
  Limit = 2
  TestLimit = 0
  MayFail = FALSE
  MaxTime = 3
  MaxWebhooks = 0
INVARIANT SuspendedTimeIsFree
CHECK_DEADLOCK FALSE
