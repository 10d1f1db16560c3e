SPECIFICATION FairSpec
CONSTANTS
  a1 = a1  a2 = a2  q1 = q1  q2 = q2  t1 = t1  t2 = t2  w1 = w1  w2 = w2
  None = None
  Agents = {a1, a2}
  Queues = {q1, q2}
  Tasks = {t1, t2}
  Workers = {w1, w2}
  AgentOf <- Single
  Listens <- Together
  QueueOf <- OneQueue
  Verdicts <- AllVerdicts
  Expirable = {t1}
  Replied = {t1}
  MaxAttempts <- Attempts
  Faults = {"crash", "ack", "publish", "subscribe"}
  MaxRuns = 2
  MaxCrashes = 1
  Restarted = {a2}
INVARIANTS TypeOK NothingLost ResultsExplained
PROPERTIES QueueKept Drained
CHECK_DEADLOCK FALSE
