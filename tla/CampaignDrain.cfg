SPECIFICATION CampaignSpec
CONSTANTS
  near = near
  big = big
  tiny = tiny
  Nothing = Nothing
  Node = {near}
  Task = {tiny}
  Demand <- MCDemand
  Profile <- MCProfile
  DemandOf <- MCDemandOf
  ProfileOf <- MCProfileOf
  Registered <- AsTheyAre
  Call <- OneCall
  TaskOf <- MCTaskOf
  Pressured = {}
  MaxWorkers = 2
  Lossy = {}
  Prompt = FALSE
  MaxResets = 1
  Verifying = FALSE
  Faulty = FALSE
  Rounds = 1
CHECK_DEADLOCK FALSE
PROPERTY DrainedMeans
