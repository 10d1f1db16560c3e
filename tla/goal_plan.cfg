SPECIFICATION FairSpec
CONSTANTS
  g1 = g1  g2 = g2   w1 = w1  w2 = w2
  None = None
  Goals = {g1, g2}
  Workers = {w1, w2}
  Routes <- OneOrTwo
  MaxTasks = 2
  MaxFaults = 2
INVARIANTS TypeOK PlannedWhole AnsweredPlanned Accounted DecomposedAgain
PROPERTIES QueueKept Settled
CHECK_DEADLOCK FALSE
