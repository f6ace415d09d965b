\* Three processes over two keys, or without any, and one message; every basket
\* of at most two lines.
SPECIFICATION Spec
CONSTANTS
  Posts = {q1, q2, q3}
  Keys = {k1, k2}
  Tasks = {t1}
  None = None
  Names <- HostNames
  MAX_ITEMS = 2
  Baskets <- AllBaskets
  Routes <- AllRoutes
SYMMETRY Symmetry
INVARIANTS
  TypeOK
  OneOrderPerKey
  TaskBuysOnce
  ReplayIsOriginal
  RejectedIsNotPlaced
  OrderIsAsAsked
CHECK_DEADLOCK FALSE
