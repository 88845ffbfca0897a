SPECIFICATION TrialSpec
CONSTANTS
  near = near
  far = far
  big = big
  tiny = tiny
  Nothing = Nothing
  Node <- BothNodes
  Task <- OneTask
  Demand <- MCDemand
  Profile <- MCProfile
  DemandOf <- MCDemandOf
  ProfileOf <- MCProfileOf
  Registered <- FarOverstated
  Call <- TwoCalls
  TaskOf <- MCTaskOf
  Pressured = {near}
  MaxWorkers = 2
  Lossy = {"execute", "status"}
  Prompt = FALSE
  MaxResets = 0
CHECK_DEADLOCK FALSE
INVARIANT OnePlace
INVARIANT ReservationHasOwner
PROPERTY EdgesHonourContract
