SPECIFICATION CampaignSpec
CONSTANTS
  near = near
  big = big
  tiny = tiny
  Nothing = Nothing
  Node = {near}
  Task = {tiny}
  Demand <- MCDemand
  Profile <- MCProfile
  DemandOf <- MCDemandOf
  ProfileOf <- MCProfileOf
  Registered <- AsTheyAre
  Call <- MCCall
  TaskOf <- MCTaskOf
  Pressured = {near}
  MaxWorkers = 2
  Lossy = {"reset"}
  Prompt = FALSE
  MaxResets = 2
  Verifying = TRUE
  Faulty = TRUE
  Rounds = 2
CHECK_DEADLOCK FALSE
INVARIANT CampaignTypeOK
INVARIANT ProjectedIsSum
INVARIANT StartNeverRefused
INVARIANT CleanTrialsAlike
PROPERTY NothingOnNodesWhenDrained
