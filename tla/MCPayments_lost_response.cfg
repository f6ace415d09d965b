\* The cron command alone: does a row left as paid end up recorded?
SPECIFICATION FairSpec
CONSTANTS
  Invoices = {i1}
  Attempts = {a1}
  Browsers = {}
  Jobs = {j1}
  Balances = {250}
  Multiplier = 1
  MinRial = 2
  RefAnswers = {"ref_number"}
  OddAnswers = {}
  IncludeAbandoned = TRUE
  None = None
PROPERTIES
  PaidIsRecorded
