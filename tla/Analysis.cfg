SPECIFICATION Spec
CONSTANTS
  t1 = t1
  t2 = t2
  n1 = n1
  n2 = n2
  Task = {t1, t2}
  Node = {n1, n2}
  Nothing = Nothing
  ClassOf <- MCClassOf
  MemoryOf <- MCMemoryOf
  AcceptsOf <- MCAcceptsOf
  UsableOf <- MCUsableOf
  Edge1 = n1
  Edge2 = n2
  Edge34 <- MCEdge34
  NumClasses = 2
  Scale = 12
  Saturation = 4
  NaN = NaN
  Items <- MCItems
  Longest <- MCLongest
  Ordered <- MCOrdered
  Trials = {1, 2}
  Offsets = {0, 1, 2, 3, 4}
INVARIANTS
  
  TimelineFaithful
  RowConsistent
  TestFair
  PlotsFaithful
  ReportTellsAll
CHECK_DEADLOCK FALSE
