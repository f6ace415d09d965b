\* Two attempts to pay one invoice, a callback and the cron command racing over
\* them, with a gateway that names the same reference every time.
SPECIFICATION Spec
CONSTANTS
  Invoices = {i1}
  Attempts = {a1, a2}
  Browsers = {b1}
  Jobs = {j1}
  Balances = {100, 275}
  Multiplier = 1
  MinRial = 2
  RefAnswers = {"ref_number"}
  OddAnswers = {"denied"}
  IncludeAbandoned = TRUE
  None = None
SYMMETRY Symmetry
INVARIANTS
  TypeOK
  CreditOnlyMoneyTaken
  CreditIsWorthTheMoney
  RecordedIsCredited
  SuccessIsTrue
  CreditedOnce
  
PROPERTIES
  RecordedIsFinal
  KeepsPromise
