SPECIFICATION FairSpec
CONSTANTS
  c1 = c1  c2 = c2  c3 = c3  e1 = e1  e2 = e2  e3 = e3  e4 = e4
  None = None
  Escs = {e1, e2, e3, e4}
  Coordinators = {c1, c2}
  Listens <- TwoLevels
  Path <- Paths
  Timeouts = {e3}
  Resolvable <- Handlers
  MaxFailures = 0
  MaxStops = 0
PROPERTY ReachesHuman
CHECK_DEADLOCK FALSE
