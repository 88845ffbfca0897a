SPECIFICATION FairTrialSpec
CONSTANTS
  near = near
  far = far
  big = big
  tiny = tiny
  Nothing = Nothing
  Node <- BothNodes
  Task <- BothTasks
  Demand <- MCDemand
  Profile <- MCProfile
  DemandOf <- MCDemandOf
  ProfileOf <- MCProfileOf
  Registered <- AsTheyAre
  Call <- OneCall
  TaskOf <- MCTaskOf
  Pressured = {}
  MaxWorkers = 1
  Lossy = {}
  Prompt = TRUE
  MaxResets = 0
CHECK_DEADLOCK FALSE
PROPERTY EveryTaskSettles
PROPERTY DriftCorrected
