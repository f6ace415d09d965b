\* One reader, one writer, one background refresh, two changes of the data; the
\* counter may be absent at first, and may expire.
SPECIFICATION FairSpec
CONSTANTS
  Readers = {r1}
  Writers = {w1}
  Tasks = {t1}
  MaxVersion = 2
  MaxChanges = 2
INVARIANTS
  TypeOK
  ReadYourWrites
  InvalidationRetires
PROPERTIES
  KeepsPromise
  StaleIsRefreshed
