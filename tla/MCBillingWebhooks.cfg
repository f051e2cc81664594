SPECIFICATION Spec
CONSTANTS
  Owner = {o1}
  TestOwner = {}
  Attempt = {a1, a2}
  NoAttempt = NoAttempt
  MonthTerm = 2
  YearTerm = 4
  BonusTerm = 1
  Grace = 1
  Retention = 1
  Asks <- StandardOnly
  Limit = 2
  TestLimit = 0
  MayFail = TRUE
  MaxTime = 3
  MaxWebhooks = 1
SYMMETRY Symmetry
INVARIANTS
  PaymentNotForgotten
  NoPaymentConflict
  NoUnpaidEntitlement
PROPERTY
  EntitlementKept
CHECK_DEADLOCK FALSE
