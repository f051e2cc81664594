SPECIFICATION AccountSpec
CONSTANTS
  Owner = {o1, o2}
  TestOwner = {o1, o2}
  Attempt = {a1, a2}
  NoAttempt = NoAttempt
  MonthTerm = 2
  YearTerm = 4
  BonusTerm = 1
  Grace = 1
  Retention = 1
  Asks <- AllAsks
  Limit = 2
  TestLimit = 1
  MayFail = TRUE
  MaxTime = 5
  MaxWebhooks = 0
INVARIANTS
  TypeOK
  ChargedOnce
  OnePendingCheckout
  SuspendedIsUncollectible
  ClosingIsUnpayable
  BonusOnce
  DataRetained
  CapacityRespected
  TestPlacesRespected
PROPERTIES
  ContractKept
CHECK_DEADLOCK FALSE
