SPECIFICATION Spec
CONSTANTS
  large = large
  small = small
  alien = alien
  block = block
  NoCall = NoCall
  Call = {c1, c2, c3}
  Task <- MCTask
  Accepted <- MCAccepted
  MemoryKb <- MCMemoryKb
  Cores <- MCCores
  Block <- MCBlock
  BlockKb <- MCBlockKb
  UsableRam = 3
  CpuCores = 1
  HistoryCap = 2
  MaxResets = 1
CHECK_DEADLOCK FALSE
SYMMETRY CallSymmetry
PROPERTY WokenReleasesOwn
