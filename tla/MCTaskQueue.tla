---------------------------- MODULE MCTaskQueue ----------------------------
EXTENDS TaskQueue, TLC

CONSTANTS a1, a2, q1, q2, t1, t2, w1, w2

\* An agent for each of two queues ...
Single == w1 :> a1 @@ w2 :> a2
Apart == w1 :> q1 @@ w2 :> q2
\* ... or two agents of a team on one queue.
Together == w1 :> q1 @@ w2 :> q1

TwoQueues == t1 :> q1 @@ t2 :> q2
OneQueue == t1 :> q1 @@ t2 :> q1

\* Every way an execution ends.
AllVerdicts == t1 :> Verdict @@ t2 :> {"finish", "retry"}
\* The first task may be tried three times, the second once.
Attempts == t1 :> 3 @@ t2 :> 1

AlwaysRetry == t1 :> {"retry"} @@ t2 :> {"finish"}
=============================================================================
