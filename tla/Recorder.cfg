SPECIFICATION Spec
CONSTANTS
  Task = {t1, t2}
  Node = {n1, n2}
  Worker = {w1, w2}
  Nothing = Nothing
  Grace = TRUE
  Sampling = TRUE
  MaxRefusals = 0
  MaxResets = 0
SYMMETRY Symmetry
CHECK_DEADLOCK FALSE
INVARIANTS TypeOK ReplayAgrees Lifecycle RowAgreesWithLog
