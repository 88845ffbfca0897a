SPECIFICATION TrialSpec
CONSTANTS
  near = near
  far = far
  big = big
  tiny = tiny
  Nothing = Nothing
  Node <- BothNodes
  Task <- BothTasks
  Demand <- MCDemand
  Profile <- MCProfile
  DemandOf <- MCDemandOf
  ProfileOf <- MCProfileOf
  Registered <- FarOverstated
  Call <- TwoCalls
  TaskOf <- MCTaskOf
  Pressured = {far}
  MaxWorkers = 2
  Lossy = {}
  Prompt = FALSE
  MaxResets = 0
CHECK_DEADLOCK FALSE
INVARIANT MirrorNeverRefuses
INVARIANT OnlyPressureRefuses
INVARIANT ExecutedOnce
