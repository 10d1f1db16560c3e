SPECIFICATION Spec
CONSTANTS
  a1 = a1  a2 = a2  q1 = q1  q2 = q2  t1 = t1  t2 = t2  w1 = w1  w2 = w2
  None = None
  Agents = {a1, a2}
  Queues = {q1, q2}
  Tasks = {t1, t2}
  Workers = {w1, w2}
  AgentOf <- Single
  Listens <- Apart
  QueueOf <- TwoQueues
  Verdicts <- AlwaysRetry
  Expirable = {}
  Replied = {t1, t2}
  MaxAttempts <- Attempts
  Faults = {}
  MaxRuns = 4
  MaxCrashes = 0
  Restarted = {a2}
INVARIANT RetriesBounded
CHECK_DEADLOCK FALSE
