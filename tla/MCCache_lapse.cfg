\* The counter expires while entries of its version are alive.
SPECIFICATION Spec
CONSTANTS
  Readers = {r1}
  Writers = {w1}
  Tasks = {t1}
  MaxVersion = 2
  MaxChanges = 1
SYMMETRY Symmetry
INVARIANTS
  NothingOlderSurvives
