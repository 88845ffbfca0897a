SPECIFICATION FairSpec
CONSTANTS
  Task = {t1}
  Node = {n1}
  Worker = {w1}
  Nothing = Nothing
  Grace = TRUE
  Sampling = FALSE
  MaxRefusals = 1
  MaxResets = 1
CHECK_DEADLOCK FALSE
INVARIANT RecordedIsLogged
PROPERTY InflightReleased
