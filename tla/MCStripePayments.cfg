SPECIFICATION FairSpec
CONSTANTS
  Checkout = {c1}
  Handler = {h1, h2}
  PlanCredits = {"subscription"}
  MaxInvoice = 1
  MaxFaults = 1
INVARIANTS TypeOK AcknowledgedIsDone PaidIsCollected CalmBooks
PROPERTIES PaymentRecorded PurchaseCredited
CHECK_DEADLOCK FALSE
