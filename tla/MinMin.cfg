SPECIFICATION Spec
CONSTANTS
  near = near
  far = far
  big = big
  tiny = tiny
  Nothing = Nothing
  Node = {near, far}
  Task = {big, tiny}
  Demand <- MCDemand
  Profile <- MCProfile
  Registered <- MCRegistered
  DemandOf <- MCDemandOf
  NodeRank <- MCNodeRank
  UnitTime = 1
  Paces = {2}
  MaxTime = 1
  MaxReady = 1
INVARIANT TypeOK
INVARIANT ReservedFits
INVARIANT AnswerIsPlan
INVARIANT RefusesOnlyRenewed
INVARIANT LoopsFindBest
PROPERTY SameUnderPrior
