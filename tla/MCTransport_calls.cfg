\* Every action, with two retries as configured.
SPECIFICATION FairSpec
CONSTANTS
  Asked <- AllActions
  MaxRetries = 2
INVARIANTS
  TypeOK
  WriteAppliedOnce
  OutcomeIsKnown
PROPERTIES
  CallIsOneStep
  CallReturns
CHECK_DEADLOCK FALSE
