\* The callback and the cron command, one attempt: can a paid row become failed?
SPECIFICATION Spec
CONSTANTS
  Invoices = {i1}
  Attempts = {a1}
  Browsers = {b1}
  Jobs = {j1}
  Balances = {250}
  Multiplier = 1
  MinRial = 2
  RefAnswers = {"ref_number"}
  OddAnswers = {}
  IncludeAbandoned = TRUE
  None = None
PROPERTIES
  PaidIsNeverFailed
