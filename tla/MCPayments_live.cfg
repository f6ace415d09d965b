\* One attempt, under the fairness of the cron command.
SPECIFICATION FairSpec
CONSTANTS
  Invoices = {i1}
  Attempts = {a1}
  Browsers = {b1}
  Jobs = {j1}
  Balances = {50, 250}
  Multiplier = 1
  MinRial = 2
  RefAnswers = {"ref_number"}
  OddAnswers = {"denied", "no_amount"}
  IncludeAbandoned = TRUE
  None = None
PROPERTIES
  PaidIsCredited
  AbandonedIsVerified
