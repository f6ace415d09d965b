\* Two threads, dashboards of two sections, one refresher, and just enough
\* connections: (2 - 1) * 2 + 1 + 1.
SPECIFICATION FairSpec
CONSTANTS
  Threads = {t1, t2}
  Sections = {s1, s2}
  Refreshers = {r1}
  MaxConnections = 4
  MaxRetries = 1
INVARIANTS
  TypeOK
  UnavailableIsExplained
  CallsAreNotStarved
PROPERTIES
  RequestsReturn
