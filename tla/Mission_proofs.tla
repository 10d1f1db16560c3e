---------------------------- MODULE Mission_proofs ----------------------------
(***************************************************************************)
(* What holds of the decomposition of goals for any number of goals,        *)
(* subjects, tasks and faults.                                              *)
(***************************************************************************)
EXTENDS Mission, TLAPS

-----------------------------------------------------------------------------
(* The inductive invariant *)

Busy(w) == pc[w] # "idle"

\* A worker has the message of the goal it works on, which is of its subject.
Assigned ==
    \A w \in Workers : Busy(w) => subject[goal[w]] = w /\ msg[goal[w]] = "held"

\* How far the work on a goal has come, in the record and in the streams.
Progress ==
    \A w \in Workers : Busy(w) =>
        /\ pc[w] \in {"asking", "publishing"} => status[goal[w]] = "planning"
        /\ pc[w] = "asking" => published[goal[w]] = {}
        /\ pc[w] = "publishing" => /\ next[w] <= size[w] + 1
                                   /\ published[goal[w]] = 1 .. (next[w] - 1)
        /\ pc[w] = "answering" /\ llm => status[goal[w]] = "in_progress"
        /\ pc[w] # "acking" => <<goal[w], runs[goal[w]]>> \notin answered
        /\ pc[w] = "acking" => Ended(goal[w])

\* The runs of a goal, and those that were answered.
Counted ==
    /\ \A g \in Goals : msg[g] \in {"none", "queued"} => runs[g] <= faults
    /\ \A g \in Goals, r \in Run : <<g, r>> \in answered => r <= runs[g]

IInv == TypeOK /\ Assigned /\ Progress /\ Counted
        /\ PlannedWhole /\ AnsweredPlanned /\ Accounted /\ DecomposedAgain

-----------------------------------------------------------------------------

LEMMA InitInv == Init => IInv
  BY MissionAssumption
  DEF Init, IInv, TypeOK, Run, Tasks, Assigned, Progress, Busy, Counted, PlannedWhole,
      AnsweredPlanned, Accounted, DecomposedAgain, Ended

LEMMA NextType == ASSUME IInv, [Next]_vars PROVE TypeOK'
<1> USE MissionAssumption DEF Run, Tasks
<1>0. TypeOK /\ Progress /\ Counted BY DEF IInv
<1>1. ASSUME NEW g \in Goals, Submit(g) PROVE TypeOK'
  BY <1>0, <1>1 DEF TypeOK, Submit, given, record, work, outcome
<1>2. ASSUME NEW g \in Goals, Expire(g) PROVE TypeOK'
  BY <1>0, <1>2 DEF TypeOK, Expire, given, record, Continue
<1>3. ASSUME NEW g \in Goals, Take(g) PROVE TypeOK'
  <2>1. runs[g] + 1 \in Run BY <1>0, <1>3 DEF Take, Counted, TypeOK
  <2> QED BY <1>0, <1>3, <2>1 DEF TypeOK, Take, Continue, given, outcome
<1>4. ASSUME NEW w \in Workers, Decompose(w) PROVE TypeOK'
  BY <1>0, <1>4 DEF TypeOK, Decompose, Continue, given, record, outcome
<1>5. ASSUME NEW w \in Workers, NoLLM(w) PROVE TypeOK'
  BY <1>0, <1>5 DEF TypeOK, NoLLM, Continue, given, record, outcome
<1>6. ASSUME NEW w \in Workers, LLMFails(w) PROVE TypeOK'
  BY <1>0, <1>6 DEF TypeOK, LLMFails, Continue, given, record, outcome
<1>7. ASSUME NEW w \in Workers, DecompositionFails(w) PROVE TypeOK'
  <2>1. PICK tasks \in SUBSET Tasks : FailsWith(w, tasks) /\ pc[w] # "idle"
    BY <1>0, <1>7 DEF DecompositionFails, TypeOK
  <2> QED BY <1>0, <2>1 DEF TypeOK, FailsWith, Continue, given, outcome
<1>8. ASSUME NEW w \in Workers, CreateWorkerTask(w) PROVE TypeOK'
  <2>1. next[w] \in Tasks /\ next[w] + 1 \in 1 .. MaxTasks + 1
    BY <1>0, <1>8 DEF CreateWorkerTask, TypeOK
  <2> QED BY <1>0, <1>8, <2>1 DEF TypeOK, CreateWorkerTask, given, record, outcome
<1>9. ASSUME NEW w \in Workers, Planned(w) PROVE TypeOK'
  BY <1>0, <1>9 DEF TypeOK, Planned, Continue, given, outcome
<1>10. ASSUME NEW w \in Workers, Answer(w) PROVE TypeOK'
  BY <1>0, <1>10 DEF TypeOK, Answer, Continue, given, record
<1>11. ASSUME NEW w \in Workers, Ack(w) PROVE TypeOK'
  BY <1>0, <1>11 DEF TypeOK, Ack, Finished, Continue, given, record, outcome
<1>12. ASSUME NEW w \in Workers, Redeliver(w) PROVE TypeOK'
  BY <1>0, <1>12 DEF TypeOK, Redeliver, Finished, Continue, given, record, outcome
<1>13. ASSUME NEW w \in Workers, Escalate(w) PROVE TypeOK'
  BY <1>0, <1>13 DEF TypeOK, Escalate, Continue, given, record
<1>14. ASSUME Crash PROVE TypeOK'
  BY <1>0, <1>14 DEF TypeOK, Crash, given, outcome
<1>15. ASSUME UNCHANGED vars PROVE TypeOK'
  BY <1>0, <1>15 DEF TypeOK, vars, given, record, work, outcome
<1> QED
  BY <1>1, <1>2, <1>3, <1>4, <1>5, <1>6, <1>7, <1>8, <1>9, <1>10, <1>11, <1>12, <1>13, <1>14,
     <1>15 DEF Next, Step

LEMMA NextAssigned == ASSUME IInv, [Next]_vars, TypeOK' PROVE Assigned'
<1> USE MissionAssumption DEF Run, Tasks, Busy
<1>0. TypeOK /\ Assigned /\ Progress /\ Counted /\ PlannedWhole /\ AnsweredPlanned
      /\ Accounted /\ DecomposedAgain
  BY DEF IInv
<1>1. ASSUME NEW g \in Goals, Submit(g) PROVE Assigned'
  BY <1>0, <1>1 DEF TypeOK, Assigned, Submit, given, record, work, outcome
<1>2. ASSUME NEW g \in Goals, Expire(g) PROVE Assigned'
  BY <1>0, <1>2 DEF TypeOK, Assigned, Expire, given, record, Continue
<1>3. ASSUME NEW g \in Goals, Take(g) PROVE Assigned'
  BY <1>0, <1>3 DEF TypeOK, Assigned, Take, given, outcome, Continue
<1>4. ASSUME NEW w \in Workers, Decompose(w) PROVE Assigned'
  BY <1>0, <1>4 DEF TypeOK, Assigned, Decompose, given, record, outcome, Continue
<1>5. ASSUME NEW w \in Workers, NoLLM(w) PROVE Assigned'
  BY <1>0, <1>5 DEF TypeOK, Assigned, NoLLM, given, record, outcome, Continue
<1>6. ASSUME NEW w \in Workers, LLMFails(w) PROVE Assigned'
  BY <1>0, <1>6 DEF TypeOK, Assigned, LLMFails, given, record, outcome, Continue
<1>7. ASSUME NEW w \in Workers, DecompositionFails(w) PROVE Assigned'
  <2>1. PICK tasks \in SUBSET Tasks : FailsWith(w, tasks) /\ pc[w] \in {"asking", "publishing"}
    BY <1>0, <1>7 DEF DecompositionFails, TypeOK
  <2> QED BY <1>0, <2>1 DEF TypeOK, Assigned, FailsWith, Continue, given, outcome
<1>8. ASSUME NEW w \in Workers, CreateWorkerTask(w) PROVE Assigned'
  BY <1>0, <1>8 DEF TypeOK, Assigned, CreateWorkerTask, given, record, outcome
<1>9. ASSUME NEW w \in Workers, Planned(w) PROVE Assigned'
  BY <1>0, <1>9 DEF TypeOK, Assigned, Planned, given, outcome, Continue
<1>10. ASSUME NEW w \in Workers, Answer(w) PROVE Assigned'
  BY <1>0, <1>10 DEF TypeOK, Assigned, Answer, given, record, Continue
<1>11. ASSUME NEW w \in Workers, Ack(w) PROVE Assigned'
  BY <1>0, <1>11 DEF TypeOK, Assigned, Ack, given, record, outcome, Finished, Continue
<1>12. ASSUME NEW w \in Workers, Redeliver(w) PROVE Assigned'
  BY <1>0, <1>12 DEF TypeOK, Assigned, Redeliver, given, record, outcome, Finished, Continue
<1>13. ASSUME NEW w \in Workers, Escalate(w) PROVE Assigned'
  BY <1>0, <1>13 DEF TypeOK, Assigned, Escalate, Continue, given, record, Finished, Continue
<1>14. ASSUME Crash PROVE Assigned'
  BY <1>0, <1>14 DEF TypeOK, Assigned, Crash, given, outcome
<1>15. ASSUME UNCHANGED vars PROVE Assigned'
  BY <1>0, <1>15 DEF TypeOK, Assigned, vars, given, record, work, outcome
<1> QED
  BY <1>1, <1>2, <1>3, <1>4, <1>5, <1>6, <1>7, <1>8, <1>9, <1>10, <1>11, <1>12, <1>13, <1>14, <1>15
  DEF Next, Step

LEMMA NextProgress == ASSUME IInv, [Next]_vars, TypeOK' PROVE Progress'
<1> USE MissionAssumption DEF Run, Tasks, Busy, Ended
<1>0. TypeOK /\ Assigned /\ Progress /\ Counted /\ PlannedWhole /\ AnsweredPlanned
      /\ Accounted /\ DecomposedAgain
  BY DEF IInv
<1>1. ASSUME NEW g \in Goals, Submit(g) PROVE Progress'
  BY <1>0, <1>1 DEF TypeOK, Assigned, Progress, Counted, Submit, given, record, work, outcome
<1>2. ASSUME NEW g \in Goals, Expire(g) PROVE Progress'
  BY <1>0, <1>2 DEF TypeOK, Assigned, Progress, Counted, Expire, given, record, Continue
<1>3. ASSUME NEW g \in Goals, Take(g) PROVE Progress'
  BY <1>0, <1>3 DEF TypeOK, Assigned, Progress, Counted, Take, given, outcome, Continue
<1>4. ASSUME NEW w \in Workers, Decompose(w) PROVE Progress'
  <2>1. PICK n \in 0 .. MaxTasks : size' = [size EXCEPT ![w] = n] BY <1>4 DEF Decompose
  <2>2. \A v \in Workers \ {w} : Busy(v) => goal[v] # goal[w]
    BY <1>0, <1>4 DEF Assigned, Decompose
  <2>3. 1 .. (1 - 1) = {} OBVIOUS
  <2>e. \A g \in Goals : Ended(g) <=> Ended(g)' BY <1>4 DEF Decompose, outcome
  <2> HIDE DEF Ended
  <2> QED BY <1>0, <1>4, <2>e, <2>1, <2>2, <2>3 DEF TypeOK, Progress, Decompose, given, record, outcome, Continue
<1>5. ASSUME NEW w \in Workers, NoLLM(w) PROVE Progress'
  BY <1>0, <1>5 DEF TypeOK, Assigned, Progress, Counted, NoLLM, given, record, outcome, Continue
<1>6. ASSUME NEW w \in Workers, LLMFails(w) PROVE Progress'
  BY <1>0, <1>6 DEF TypeOK, Assigned, Progress, Counted, LLMFails, given, record, outcome, Continue
<1>7. ASSUME NEW w \in Workers, DecompositionFails(w) PROVE Progress'
  <2>1. PICK tasks \in SUBSET Tasks : FailsWith(w, tasks) /\ pc[w] \in {"asking", "publishing"}
    BY <1>0, <1>7 DEF DecompositionFails, TypeOK
  <2> QED BY <1>0, <2>1 DEF TypeOK, Assigned, Progress, Counted, FailsWith, Continue, given, outcome
<1>8. ASSUME NEW w \in Workers, CreateWorkerTask(w) PROVE Progress'
  <2> DEFINE k == next[w]
  <2>1. k \in 1 .. MaxTasks /\ k <= size[w] /\ size[w] \in 0 .. MaxTasks
    BY <1>0, <1>8 DEF TypeOK, CreateWorkerTask
  <2>2. (1 .. (k - 1)) \cup {k} = 1 .. ((k + 1) - 1) BY <2>1
  <2>3. \A v \in Workers \ {w} : Busy(v) => goal[v] # goal[w]
    BY <1>0, <1>8 DEF Assigned, CreateWorkerTask
  <2>8. pc[w] = "publishing" /\ goal[w] \in Goals
    BY <1>0, <1>8 DEF TypeOK, CreateWorkerTask
  <2>9. published[goal[w]] = 1 .. (k - 1) BY <1>0, <2>8 DEF Progress
  <2>4. /\ goal[w] \in Goals /\ pc[w] = "publishing" /\ published[goal[w]] = 1 .. (k - 1)
        /\ published'[goal[w]] = (1 .. (k - 1)) \cup {k} /\ next'[w] = k + 1
        /\ \A g \in Goals \ {goal[w]} : published'[g] = published[g]
        /\ \A v \in Workers \ {w} : next'[v] = next[v]
        /\ UNCHANGED <<llm, pc, goal, size, status, runs, answered>>
    BY <1>0, <1>8, <2>8, <2>9 DEF TypeOK, CreateWorkerTask, given, record, outcome
  <2>5. ASSUME NEW v \in Workers \ {w}, Busy(v) PROVE published'[goal[v]] = published[goal[v]]
    BY <1>0, <2>3, <2>4, <2>5 DEF TypeOK
  <2> HIDE DEF k
  <2>6. k + 1 <= size[w] + 1 BY <2>1
  <2>e. \A g \in Goals : Ended(g) <=> Ended(g)' BY <1>8 DEF CreateWorkerTask, outcome
  <2> HIDE DEF Ended
  <2>7. \A v \in Workers : goal[v] \in Goals \/ ~Busy(v) BY <1>0 DEF TypeOK
  <2> QED BY <1>0, <2>e, <2>2, <2>4, <2>5, <2>6, <2>7 DEF Progress
<1>9. ASSUME NEW w \in Workers, Planned(w) PROVE Progress'
  <2>1. /\ pc[w] = "publishing" /\ pc' = [pc EXCEPT ![w] = "answering"]
        /\ status' = [status EXCEPT ![goal[w]] = "in_progress"] /\ goal[w] \in Goals
        /\ UNCHANGED <<llm, runs, goal, size, next, published, answered>>
    BY <1>0, <1>9 DEF TypeOK, Planned, given, outcome, Continue
  <2>2. \A v \in Workers \ {w} : Busy(v) => goal[v] # goal[w]
    BY <1>0, <2>1 DEF Assigned
  <2>3. \A v \in Workers \ {w} : pc'[v] = pc[v] /\ (Busy(v) => status'[goal[v]] = status[goal[v]])
    BY <1>0, <2>1, <2>2 DEF TypeOK
  <2>4. status'[goal[w]] = "in_progress" /\ pc'[w] = "answering"
    BY <1>0, <2>1 DEF TypeOK
  <2>e. \A g \in Goals : Ended(g) <=> Ended(g)' BY <1>9 DEF Planned, outcome
  <2> HIDE DEF Ended
  <2>5. \A v \in Workers : goal[v] \in Goals \/ ~Busy(v) BY <1>0 DEF TypeOK
  <2>6. goal' = goal /\ \A v \in Workers : Busy(v)' <=> Busy(v)
    BY <1>0, <2>1 DEF TypeOK
  <2> DEFINE At(v) ==
        /\ pc[v] \in {"asking", "publishing"} => status[goal[v]] = "planning"
        /\ pc[v] = "asking" => published[goal[v]] = {}
        /\ pc[v] = "publishing" => /\ next[v] <= size[v] + 1
                                   /\ published[goal[v]] = 1 .. (next[v] - 1)
        /\ pc[v] = "answering" /\ llm => status[goal[v]] = "in_progress"
        /\ pc[v] # "acking" => <<goal[v], runs[goal[v]]>> \notin answered
        /\ pc[v] = "acking" => Ended(goal[v])
  <2>7. \A v \in Workers : Busy(v) => At(v) BY <1>0 DEF Progress
  <2>8. At(w)' BY <2>1, <2>4, <2>7
  <2>9. ASSUME NEW v \in Workers \ {w}, Busy(v) PROVE At(v)'
    BY <2>e, <2>1, <2>3, <2>5, <2>6, <2>7, <2>9
  <2> QED BY <2>6, <2>8, <2>9 DEF Progress
<1>10. ASSUME NEW w \in Workers, Answer(w) PROVE Progress'
  BY <1>0, <1>10 DEF TypeOK, Assigned, Progress, Counted, Answer, given, record, Continue
<1>11. ASSUME NEW w \in Workers, Ack(w) PROVE Progress'
  BY <1>0, <1>11 DEF TypeOK, Assigned, Progress, Counted, Ack, given, record, outcome, Finished, Continue
<1>12. ASSUME NEW w \in Workers, Redeliver(w) PROVE Progress'
  BY <1>0, <1>12 DEF TypeOK, Assigned, Progress, Counted, Redeliver, given, record, outcome, Finished, Continue
<1>13. ASSUME NEW w \in Workers, Escalate(w) PROVE Progress'
  BY <1>0, <1>13 DEF TypeOK, Assigned, Progress, Counted, Escalate, Continue, given, record, Finished, Continue
<1>14. ASSUME Crash PROVE Progress'
  BY <1>0, <1>14 DEF TypeOK, Assigned, Progress, Counted, Crash, given, outcome
<1>15. ASSUME UNCHANGED vars PROVE Progress'
  BY <1>0, <1>15 DEF TypeOK, Assigned, Progress, Counted, vars, given, record, work, outcome
<1> QED
  BY <1>1, <1>2, <1>3, <1>4, <1>5, <1>6, <1>7, <1>8, <1>9, <1>10, <1>11, <1>12, <1>13, <1>14, <1>15
  DEF Next, Step

LEMMA NextCounted == ASSUME IInv, [Next]_vars, TypeOK' PROVE Counted'
<1> USE MissionAssumption DEF Run, Tasks, Busy
<1>0. TypeOK /\ Assigned /\ Progress /\ Counted /\ PlannedWhole /\ AnsweredPlanned
      /\ Accounted /\ DecomposedAgain
  BY DEF IInv
<1>1. ASSUME NEW g \in Goals, Submit(g) PROVE Counted'
  BY <1>0, <1>1 DEF TypeOK, Counted, DecomposedAgain, Submit, given, record, work, outcome
<1>2. ASSUME NEW g \in Goals, Expire(g) PROVE Counted'
  BY <1>0, <1>2 DEF TypeOK, Counted, DecomposedAgain, Expire, given, record, Continue
<1>3. ASSUME NEW g \in Goals, Take(g) PROVE Counted'
  BY <1>0, <1>3 DEF TypeOK, Counted, DecomposedAgain, Take, given, outcome, Continue
<1>4. ASSUME NEW w \in Workers, Decompose(w) PROVE Counted'
  BY <1>0, <1>4 DEF TypeOK, Counted, DecomposedAgain, Decompose, given, record, outcome, Continue
<1>5. ASSUME NEW w \in Workers, NoLLM(w) PROVE Counted'
  BY <1>0, <1>5 DEF TypeOK, Counted, DecomposedAgain, NoLLM, given, record, outcome, Continue
<1>6. ASSUME NEW w \in Workers, LLMFails(w) PROVE Counted'
  BY <1>0, <1>6 DEF TypeOK, Counted, DecomposedAgain, LLMFails, given, record, outcome, Continue
<1>7. ASSUME NEW w \in Workers, DecompositionFails(w) PROVE Counted'
  <2>1. PICK tasks \in SUBSET Tasks : FailsWith(w, tasks) /\ pc[w] \in {"asking", "publishing"}
    BY <1>0, <1>7 DEF DecompositionFails, TypeOK
  <2> QED BY <1>0, <2>1 DEF TypeOK, Counted, DecomposedAgain, FailsWith, Continue, given, outcome
<1>8. ASSUME NEW w \in Workers, CreateWorkerTask(w) PROVE Counted'
  BY <1>0, <1>8 DEF TypeOK, Counted, DecomposedAgain, CreateWorkerTask, given, record, outcome
<1>9. ASSUME NEW w \in Workers, Planned(w) PROVE Counted'
  BY <1>0, <1>9 DEF TypeOK, Counted, DecomposedAgain, Planned, given, outcome, Continue
<1>10. ASSUME NEW w \in Workers, Answer(w) PROVE Counted'
  BY <1>0, <1>10 DEF TypeOK, Counted, DecomposedAgain, Answer, given, record, Continue
<1>11. ASSUME NEW w \in Workers, Ack(w) PROVE Counted'
  BY <1>0, <1>11 DEF TypeOK, Counted, DecomposedAgain, Ack, given, record, outcome, Finished, Continue
<1>12. ASSUME NEW w \in Workers, Redeliver(w) PROVE Counted'
  BY <1>0, <1>12 DEF TypeOK, Counted, DecomposedAgain, Redeliver, given, record, outcome, Finished, Continue
<1>13. ASSUME NEW w \in Workers, Escalate(w) PROVE Counted'
  BY <1>0, <1>13 DEF TypeOK, Counted, DecomposedAgain, Escalate, Continue, given, record, Finished, Continue
<1>14. ASSUME Crash PROVE Counted'
  BY <1>0, <1>14 DEF TypeOK, Counted, DecomposedAgain, Crash, given, outcome
<1>15. ASSUME UNCHANGED vars PROVE Counted'
  BY <1>0, <1>15 DEF TypeOK, Counted, DecomposedAgain, vars, given, record, work, outcome
<1> QED
  BY <1>1, <1>2, <1>3, <1>4, <1>5, <1>6, <1>7, <1>8, <1>9, <1>10, <1>11, <1>12, <1>13, <1>14, <1>15
  DEF Next, Step

LEMMA NextWhole == ASSUME IInv, [Next]_vars, TypeOK' PROVE PlannedWhole'
<1> USE MissionAssumption DEF Run, Tasks, Busy
<1>0. TypeOK /\ Assigned /\ Progress /\ Counted /\ PlannedWhole /\ AnsweredPlanned
      /\ Accounted /\ DecomposedAgain
  BY DEF IInv
<1>1. ASSUME NEW g \in Goals, Submit(g) PROVE PlannedWhole'
  BY <1>0, <1>1 DEF TypeOK, Assigned, Progress, PlannedWhole, Submit, given, record, work, outcome
<1>2. ASSUME NEW g \in Goals, Expire(g) PROVE PlannedWhole'
  BY <1>0, <1>2 DEF TypeOK, Assigned, Progress, PlannedWhole, Expire, given, record, Continue
<1>3. ASSUME NEW g \in Goals, Take(g) PROVE PlannedWhole'
  BY <1>0, <1>3 DEF TypeOK, Assigned, Progress, PlannedWhole, Take, given, outcome, Continue
<1>4. ASSUME NEW w \in Workers, Decompose(w) PROVE PlannedWhole'
  BY <1>0, <1>4 DEF TypeOK, Assigned, Progress, PlannedWhole, Decompose, given, record, outcome, Continue
<1>5. ASSUME NEW w \in Workers, NoLLM(w) PROVE PlannedWhole'
  BY <1>0, <1>5 DEF TypeOK, Assigned, Progress, PlannedWhole, NoLLM, given, record, outcome, Continue
<1>6. ASSUME NEW w \in Workers, LLMFails(w) PROVE PlannedWhole'
  BY <1>0, <1>6 DEF TypeOK, Assigned, Progress, PlannedWhole, LLMFails, given, record, outcome, Continue
<1>7. ASSUME NEW w \in Workers, DecompositionFails(w) PROVE PlannedWhole'
  <2>1. PICK tasks \in SUBSET Tasks : FailsWith(w, tasks) /\ pc[w] \in {"asking", "publishing"}
    BY <1>0, <1>7 DEF DecompositionFails, TypeOK
  <2> QED BY <1>0, <2>1 DEF TypeOK, Assigned, Progress, PlannedWhole, FailsWith, Continue, given, outcome
<1>8. ASSUME NEW w \in Workers, CreateWorkerTask(w) PROVE PlannedWhole'
  <2>1. status[goal[w]] = "planning" /\ goal[w] \in Goals
    BY <1>0, <1>8 DEF TypeOK, Progress, CreateWorkerTask
  <2>2. \A g \in Goals \ {goal[w]} : published'[g] = published[g]
    BY <1>0, <1>8 DEF TypeOK, CreateWorkerTask
  <2>3. UNCHANGED <<status, total>> BY <1>8 DEF CreateWorkerTask, record
  <2> QED BY <1>0, <2>1, <2>2, <2>3 DEF PlannedWhole
<1>9. ASSUME NEW w \in Workers, Planned(w) PROVE PlannedWhole'
  <2>8. /\ pc[w] = "publishing" /\ next[w] > size[w] /\ goal[w] \in Goals
        /\ size[w] \in Nat /\ next[w] \in Nat
    BY <1>0, <1>9 DEF TypeOK, Planned
  <2>9. next[w] <= size[w] + 1 /\ published[goal[w]] = 1 .. (next[w] - 1)
    BY <1>0, <2>8 DEF Progress
  <2>1. /\ pc[w] = "publishing" /\ next[w] > size[w] /\ next[w] <= size[w] + 1
        /\ published[goal[w]] = 1 .. (next[w] - 1) /\ goal[w] \in Goals
        /\ size[w] \in Nat /\ next[w] \in Nat
    BY <2>8, <2>9
  <2>2. next[w] - 1 = size[w] BY <2>1
  <2>3. published[goal[w]] = 1 .. size[w] BY <2>1, <2>2
  <2>4. /\ total'[goal[w]] = size[w] /\ UNCHANGED published
        /\ \A g \in Goals \ {goal[w]} : status'[g] = status[g] /\ total'[g] = total[g]
    BY <1>0, <1>9, <2>1 DEF TypeOK, Planned
  <2> QED BY <1>0, <2>3, <2>4 DEF PlannedWhole
<1>10. ASSUME NEW w \in Workers, Answer(w) PROVE PlannedWhole'
  BY <1>0, <1>10 DEF TypeOK, Assigned, Progress, PlannedWhole, Answer, given, record, Continue
<1>11. ASSUME NEW w \in Workers, Ack(w) PROVE PlannedWhole'
  BY <1>0, <1>11 DEF TypeOK, Assigned, Progress, PlannedWhole, Ack, given, record, outcome, Finished, Continue
<1>12. ASSUME NEW w \in Workers, Redeliver(w) PROVE PlannedWhole'
  BY <1>0, <1>12 DEF TypeOK, Assigned, Progress, PlannedWhole, Redeliver, given, record, outcome, Finished, Continue
<1>13. ASSUME NEW w \in Workers, Escalate(w) PROVE PlannedWhole'
  BY <1>0, <1>13 DEF TypeOK, Assigned, Progress, PlannedWhole, Escalate, Continue, given, record, Finished, Continue
<1>14. ASSUME Crash PROVE PlannedWhole'
  BY <1>0, <1>14 DEF TypeOK, Assigned, Progress, PlannedWhole, Crash, given, outcome
<1>15. ASSUME UNCHANGED vars PROVE PlannedWhole'
  BY <1>0, <1>15 DEF TypeOK, Assigned, Progress, PlannedWhole, vars, given, record, work, outcome
<1> QED
  BY <1>1, <1>2, <1>3, <1>4, <1>5, <1>6, <1>7, <1>8, <1>9, <1>10, <1>11, <1>12, <1>13, <1>14, <1>15
  DEF Next, Step

LEMMA NextAnswered == ASSUME IInv, [Next]_vars, TypeOK' PROVE AnsweredPlanned'
<1> USE MissionAssumption DEF Run, Tasks, Busy
<1>0. TypeOK /\ Assigned /\ Progress /\ Counted /\ PlannedWhole /\ AnsweredPlanned
      /\ Accounted /\ DecomposedAgain
  BY DEF IInv
<1>1. ASSUME NEW g \in Goals, Submit(g) PROVE AnsweredPlanned'
  BY <1>0, <1>1 DEF TypeOK, Assigned, Progress, Counted, AnsweredPlanned, Submit, given, record, work, outcome
<1>2. ASSUME NEW g \in Goals, Expire(g) PROVE AnsweredPlanned'
  BY <1>0, <1>2 DEF TypeOK, Assigned, Progress, Counted, AnsweredPlanned, Expire, given, record, Continue
<1>3. ASSUME NEW g \in Goals, Take(g) PROVE AnsweredPlanned'
  BY <1>0, <1>3 DEF TypeOK, Assigned, Progress, Counted, AnsweredPlanned, Take, given, outcome, Continue
<1>4. ASSUME NEW w \in Workers, Decompose(w) PROVE AnsweredPlanned'
  BY <1>0, <1>4 DEF TypeOK, Assigned, Progress, Counted, AnsweredPlanned, Decompose, given, record, outcome, Continue
<1>5. ASSUME NEW w \in Workers, NoLLM(w) PROVE AnsweredPlanned'
  BY <1>0, <1>5 DEF TypeOK, Assigned, Progress, Counted, AnsweredPlanned, NoLLM, given, record, outcome, Continue
<1>6. ASSUME NEW w \in Workers, LLMFails(w) PROVE AnsweredPlanned'
  BY <1>0, <1>6 DEF TypeOK, Assigned, Progress, Counted, AnsweredPlanned, LLMFails, given, record, outcome, Continue
<1>7. ASSUME NEW w \in Workers, DecompositionFails(w) PROVE AnsweredPlanned'
  <2>1. PICK tasks \in SUBSET Tasks : FailsWith(w, tasks) /\ pc[w] \in {"asking", "publishing"}
    BY <1>0, <1>7 DEF DecompositionFails, TypeOK
  <2>2. <<goal[w], runs[goal[w]]>> \notin answered BY <1>0, <2>1 DEF Progress
  <2>3. /\ UNCHANGED <<llm, runs, answered>>
        /\ \A g \in Goals \ {goal[w]} : status'[g] = status[g]
    BY <1>0, <2>1 DEF TypeOK, FailsWith, given, outcome
  <2> QED BY <1>0, <2>2, <2>3 DEF AnsweredPlanned
<1>8. ASSUME NEW w \in Workers, CreateWorkerTask(w) PROVE AnsweredPlanned'
  BY <1>0, <1>8 DEF TypeOK, Assigned, Progress, Counted, AnsweredPlanned, CreateWorkerTask, given, record, outcome
<1>9. ASSUME NEW w \in Workers, Planned(w) PROVE AnsweredPlanned'
  BY <1>0, <1>9 DEF TypeOK, Assigned, Progress, Counted, AnsweredPlanned, Planned, given, outcome, Continue
<1>10. ASSUME NEW w \in Workers, Answer(w) PROVE AnsweredPlanned'
  BY <1>0, <1>10 DEF TypeOK, Assigned, Progress, Counted, AnsweredPlanned, Answer, given, record, Continue
<1>11. ASSUME NEW w \in Workers, Ack(w) PROVE AnsweredPlanned'
  BY <1>0, <1>11 DEF TypeOK, Assigned, Progress, Counted, AnsweredPlanned, Ack, given, record, outcome, Finished, Continue
<1>12. ASSUME NEW w \in Workers, Redeliver(w) PROVE AnsweredPlanned'
  BY <1>0, <1>12 DEF TypeOK, Assigned, Progress, Counted, AnsweredPlanned, Redeliver, given, record, outcome, Finished, Continue
<1>13. ASSUME NEW w \in Workers, Escalate(w) PROVE AnsweredPlanned'
  BY <1>0, <1>13 DEF TypeOK, Assigned, Progress, Counted, AnsweredPlanned, Escalate, Continue, given, record, Finished, Continue
<1>14. ASSUME Crash PROVE AnsweredPlanned'
  BY <1>0, <1>14 DEF TypeOK, Assigned, Progress, Counted, AnsweredPlanned, Crash, given, outcome
<1>15. ASSUME UNCHANGED vars PROVE AnsweredPlanned'
  BY <1>0, <1>15 DEF TypeOK, Assigned, Progress, Counted, AnsweredPlanned, vars, given, record, work, outcome
<1> QED
  BY <1>1, <1>2, <1>3, <1>4, <1>5, <1>6, <1>7, <1>8, <1>9, <1>10, <1>11, <1>12, <1>13, <1>14, <1>15
  DEF Next, Step

LEMMA NextAccounted == ASSUME IInv, [Next]_vars, TypeOK' PROVE Accounted'
<1> USE MissionAssumption DEF Run, Tasks, Busy, Ended
<1>0. TypeOK /\ Assigned /\ Progress /\ Counted /\ PlannedWhole /\ AnsweredPlanned
      /\ Accounted /\ DecomposedAgain
  BY DEF IInv
<1>1. ASSUME NEW g \in Goals, Submit(g) PROVE Accounted'
  BY <1>0, <1>1 DEF TypeOK, Assigned, Progress, Accounted, Submit, given, record, work, outcome
<1>2. ASSUME NEW g \in Goals, Expire(g) PROVE Accounted'
  BY <1>0, <1>2 DEF TypeOK, Assigned, Progress, Accounted, Expire, given, record, Continue
<1>3. ASSUME NEW g \in Goals, Take(g) PROVE Accounted'
  BY <1>0, <1>3 DEF TypeOK, Assigned, Progress, Accounted, Take, given, outcome, Continue
<1>4. ASSUME NEW w \in Workers, Decompose(w) PROVE Accounted'
  BY <1>0, <1>4 DEF TypeOK, Assigned, Progress, Accounted, Decompose, given, record, outcome, Continue
<1>5. ASSUME NEW w \in Workers, NoLLM(w) PROVE Accounted'
  BY <1>0, <1>5 DEF TypeOK, Assigned, Progress, Accounted, NoLLM, given, record, outcome, Continue
<1>6. ASSUME NEW w \in Workers, LLMFails(w) PROVE Accounted'
  BY <1>0, <1>6 DEF TypeOK, Assigned, Progress, Accounted, LLMFails, given, record, outcome, Continue
<1>7. ASSUME NEW w \in Workers, DecompositionFails(w) PROVE Accounted'
  <2>1. PICK tasks \in SUBSET Tasks : FailsWith(w, tasks) /\ pc[w] \in {"asking", "publishing"}
    BY <1>0, <1>7 DEF DecompositionFails, TypeOK
  <2> QED BY <1>0, <2>1 DEF TypeOK, Assigned, Progress, Accounted, FailsWith, Continue, given, outcome
<1>8. ASSUME NEW w \in Workers, CreateWorkerTask(w) PROVE Accounted'
  BY <1>0, <1>8 DEF TypeOK, Assigned, Progress, Accounted, CreateWorkerTask, given, record, outcome
<1>9. ASSUME NEW w \in Workers, Planned(w) PROVE Accounted'
  BY <1>0, <1>9 DEF TypeOK, Assigned, Progress, Accounted, Planned, given, outcome, Continue
<1>10. ASSUME NEW w \in Workers, Answer(w) PROVE Accounted'
  BY <1>0, <1>10 DEF TypeOK, Assigned, Progress, Accounted, Answer, given, record, Continue
<1>11. ASSUME NEW w \in Workers, Ack(w) PROVE Accounted'
  BY <1>0, <1>11 DEF TypeOK, Assigned, Progress, Accounted, Ack, given, record, outcome, Finished, Continue
<1>12. ASSUME NEW w \in Workers, Redeliver(w) PROVE Accounted'
  <2>1. msg'[goal[w]] = "queued" /\ \A g \in Goals \ {goal[w]} : msg'[g] = msg[g]
    BY <1>0, <1>12 DEF TypeOK, Redeliver
  <2>2. UNCHANGED <<answered, escalated, expired, dropped>> BY <1>12 DEF Redeliver, outcome
  <2> QED BY <1>0, <2>1, <2>2 DEF Accounted
<1>13. ASSUME NEW w \in Workers, Escalate(w) PROVE Accounted'
  BY <1>0, <1>13 DEF TypeOK, Assigned, Progress, Accounted, Escalate, Continue, given, record, Finished, Continue
<1>14. ASSUME Crash PROVE Accounted'
  BY <1>0, <1>14 DEF TypeOK, Assigned, Progress, Accounted, Crash, given, outcome
<1>15. ASSUME UNCHANGED vars PROVE Accounted'
  BY <1>0, <1>15 DEF TypeOK, Assigned, Progress, Accounted, vars, given, record, work, outcome
<1> QED
  BY <1>1, <1>2, <1>3, <1>4, <1>5, <1>6, <1>7, <1>8, <1>9, <1>10, <1>11, <1>12, <1>13, <1>14, <1>15
  DEF Next, Step

LEMMA NextRuns == ASSUME IInv, [Next]_vars, TypeOK' PROVE DecomposedAgain'
<1> USE MissionAssumption DEF Run, Tasks, Busy
<1>0. TypeOK /\ Assigned /\ Progress /\ Counted /\ PlannedWhole /\ AnsweredPlanned
      /\ Accounted /\ DecomposedAgain
  BY DEF IInv
<1>1. ASSUME NEW g \in Goals, Submit(g) PROVE DecomposedAgain'
  BY <1>0, <1>1 DEF TypeOK, Counted, DecomposedAgain, Submit, given, record, work, outcome
<1>2. ASSUME NEW g \in Goals, Expire(g) PROVE DecomposedAgain'
  BY <1>0, <1>2 DEF TypeOK, Counted, DecomposedAgain, Expire, given, record, Continue
<1>3. ASSUME NEW g \in Goals, Take(g) PROVE DecomposedAgain'
  BY <1>0, <1>3 DEF TypeOK, Counted, DecomposedAgain, Take, given, outcome, Continue
<1>4. ASSUME NEW w \in Workers, Decompose(w) PROVE DecomposedAgain'
  BY <1>0, <1>4 DEF TypeOK, Counted, DecomposedAgain, Decompose, given, record, outcome, Continue
<1>5. ASSUME NEW w \in Workers, NoLLM(w) PROVE DecomposedAgain'
  BY <1>0, <1>5 DEF TypeOK, Counted, DecomposedAgain, NoLLM, given, record, outcome, Continue
<1>6. ASSUME NEW w \in Workers, LLMFails(w) PROVE DecomposedAgain'
  BY <1>0, <1>6 DEF TypeOK, Counted, DecomposedAgain, LLMFails, given, record, outcome, Continue
<1>7. ASSUME NEW w \in Workers, DecompositionFails(w) PROVE DecomposedAgain'
  <2>1. PICK tasks \in SUBSET Tasks : FailsWith(w, tasks) /\ pc[w] \in {"asking", "publishing"}
    BY <1>0, <1>7 DEF DecompositionFails, TypeOK
  <2> QED BY <1>0, <2>1 DEF TypeOK, Counted, DecomposedAgain, FailsWith, Continue, given, outcome
<1>8. ASSUME NEW w \in Workers, CreateWorkerTask(w) PROVE DecomposedAgain'
  BY <1>0, <1>8 DEF TypeOK, Counted, DecomposedAgain, CreateWorkerTask, given, record, outcome
<1>9. ASSUME NEW w \in Workers, Planned(w) PROVE DecomposedAgain'
  BY <1>0, <1>9 DEF TypeOK, Counted, DecomposedAgain, Planned, given, outcome, Continue
<1>10. ASSUME NEW w \in Workers, Answer(w) PROVE DecomposedAgain'
  BY <1>0, <1>10 DEF TypeOK, Counted, DecomposedAgain, Answer, given, record, Continue
<1>11. ASSUME NEW w \in Workers, Ack(w) PROVE DecomposedAgain'
  BY <1>0, <1>11 DEF TypeOK, Counted, DecomposedAgain, Ack, given, record, outcome, Finished, Continue
<1>12. ASSUME NEW w \in Workers, Redeliver(w) PROVE DecomposedAgain'
  BY <1>0, <1>12 DEF TypeOK, Counted, DecomposedAgain, Redeliver, given, record, outcome, Finished, Continue
<1>13. ASSUME NEW w \in Workers, Escalate(w) PROVE DecomposedAgain'
  BY <1>0, <1>13 DEF TypeOK, Counted, DecomposedAgain, Escalate, Continue, given, record, Finished, Continue
<1>14. ASSUME Crash PROVE DecomposedAgain'
  BY <1>0, <1>14 DEF TypeOK, Counted, DecomposedAgain, Crash, given, outcome
<1>15. ASSUME UNCHANGED vars PROVE DecomposedAgain'
  BY <1>0, <1>15 DEF TypeOK, Counted, DecomposedAgain, vars, given, record, work, outcome
<1> QED
  BY <1>1, <1>2, <1>3, <1>4, <1>5, <1>6, <1>7, <1>8, <1>9, <1>10, <1>11, <1>12, <1>13, <1>14, <1>15
  DEF Next, Step

-----------------------------------------------------------------------------
(* The theorems *)

\* The inductive invariant of the coordinator.
THEOREM Inductive == Spec => []IInv
<1>1. IInv /\ [Next]_vars => IInv'
  <2> SUFFICES ASSUME IInv, [Next]_vars PROVE IInv' OBVIOUS
  <2>1. TypeOK' BY NextType
  <2> QED BY <2>1, NextAssigned, NextProgress, NextCounted, NextWhole, NextAnswered,
             NextAccounted, NextRuns DEF IInv
<1> QED BY InitInv, <1>1, PTL DEF Spec

\* The variables keep their types.
THEOREM TypeCorrect == Spec => []TypeOK
<1>1. IInv => TypeOK BY DEF IInv
<1> QED BY Inductive, <1>1, PTL

\* A goal that is IN_PROGRESS has all of its tasks in the streams.
THEOREM GoalsPlannedWhole == Spec => []PlannedWhole
<1>1. IInv => PlannedWhole BY DEF IInv
<1> QED BY Inductive, <1>1, PTL

\* With an LLM, "completed" is answered only of a goal that became IN_PROGRESS.
THEOREM AnsweredArePlanned == Spec => []AnsweredPlanned
<1>1. IInv => AnsweredPlanned BY DEF IInv
<1> QED BY Inductive, <1>1, PTL

\* No goal's message is gone without an answer, an escalation, or a reason.
THEOREM GoalsAccounted == Spec => []Accounted
<1>1. IInv => Accounted BY DEF IInv
<1> QED BY Inductive, <1>1, PTL

\* A goal is decomposed at most once more than there are faults.
THEOREM DecomposedOnceWithoutFaults == Spec => []DecomposedAgain
<1>1. IInv => DecomposedAgain BY DEF IInv
<1> QED BY Inductive, <1>1, PTL

-----------------------------------------------------------------------------
(* The promise of a work queue *)

PromiseNow == [Queue!Next]_<<Waiting, Over, Working, Worked>>

\* Messages, outcomes and workers that stay as they are for the queue.
LEMMA NothingHappens ==
    ASSUME UNCHANGED <<msg, outcome, goal>>,
           \A w \in Workers : pc'[w] = "idle" <=> pc[w] = "idle"
    PROVE  UNCHANGED <<Waiting, Over, Working, Worked>>
BY DEF Waiting, Over, Working, Worked, outcome

\* A worker that ends with its goal, in whatever state it leaves the message.
LEMMA WorkerEnds ==
    ASSUME TypeOK, NEW w \in Workers, Finished(w)
    PROVE  Working' = [Working EXCEPT ![w] = None]
<1>1. \A v \in Workers : Working'[v] = IF v = w THEN None ELSE Working[v]
  BY DEF TypeOK, Finished, Continue, Working
<1> QED BY <1>1 DEF Working

\* The message of a goal that is gone.
LEMMA MessageGone ==
    ASSUME TypeOK, NEW g \in Goals, msg[g] \in {"queued", "held"},
           msg' = [msg EXCEPT ![g] = "done"]
    PROVE  g \in Waiting /\ Waiting' = Waiting \ {g} /\ Over' = Over \cup {g}
BY DEF TypeOK, Waiting, Over

\* A worker works on the goal it is busy with, which nobody else has.
LEMMA BusyWith ==
    ASSUME TypeOK, Assigned, NEW w \in Workers, Busy(w)
    PROVE  Working[w] = goal[w] /\ goal[w] \in Goals /\ Working[w] # None /\ msg[goal[w]] = "held"
BY MissionAssumption DEF TypeOK, Assigned, Busy, Working

LEMMA NobodyWorksOn ==
    ASSUME TypeOK, Assigned, NEW g \in Goals, msg[g] # "held"
    PROVE  Queue!Free(g)
BY MissionAssumption DEF TypeOK, Assigned, Busy, Working, Queue!Free

LEMMA GoalPromise ==
    ASSUME IInv, NEW g \in Goals, Submit(g) \/ Expire(g) \/ Take(g)
    PROVE  PromiseNow
<1>0. TypeOK /\ Assigned BY DEF IInv
<1>1. CASE Submit(g)
  <2>1. g \notin Waiting \cup Over /\ Waiting' = Waiting \cup {g} /\ Over' = Over
    BY <1>0, <1>1 DEF Submit, TypeOK, Waiting, Over
  <2>2. Working' = Working /\ Worked' = Worked
    BY <1>0, <1>1 DEF TypeOK, Submit, work, outcome, Working, Worked
  <2> QED BY <2>1, <2>2 DEF Queue!Publish, PromiseNow, Queue!Next
<1>2. ASSUME Expire(g) \/ Take(g) PROVE PromiseNow
  <2> DEFINE w == subject[g]
  <2>1. w \in Workers /\ msg[g] = "queued" /\ pc[w] = "idle"
    BY <1>0, <1>2 DEF Expire, Take, TypeOK
  <2>2. g \in Waiting /\ Waiting' = Waiting /\ Over' = Over
    BY <1>0, <1>2 DEF Expire, Take, TypeOK, Waiting, Over
  <2>3. Queue!Free(g) BY <1>0, <2>1, NobodyWorksOn
  <2>4. \A v \in Workers : Working'[v] = IF v = w THEN g ELSE Working[v]
    BY <1>0, <1>2, <2>1 DEF Expire, Take, Continue, TypeOK, Working
  <2>5. Working' = [Working EXCEPT ![w] = g] BY <2>4 DEF Working
  <2>6. Working[w] = None BY <2>1 DEF Working
  <2>7. Worked' = Worked
    BY <1>0, <1>2 DEF Expire, Take, TypeOK, outcome, Worked
  <2>8. Queue!Take(w, g) BY <2>2, <2>3, <2>5, <2>6, <2>7 DEF Queue!Take
  <2> QED BY <2>1, <2>8 DEF PromiseNow, Queue!Next
<1> QED BY <1>1, <1>2

LEMMA StepPromise ==
    ASSUME IInv, NEW w \in Workers, Step(w)
    PROVE  PromiseNow
<1>0. TypeOK /\ Assigned /\ Progress BY DEF IInv
<1>1. ASSUME Decompose(w) \/ NoLLM(w) \/ LLMFails(w) \/ CreateWorkerTask(w) \/ Planned(w)
      PROVE  PromiseNow
  <2>1. UNCHANGED <<msg, outcome, goal>> /\ \A v \in Workers : pc'[v] = "idle" <=> pc[v] = "idle"
    BY <1>0, <1>1 DEF TypeOK, Decompose, NoLLM, LLMFails, CreateWorkerTask, Planned, Continue
  <2> QED BY <2>1, NothingHappens DEF PromiseNow
<1>2. CASE DecompositionFails(w)
  <2>1. PICK tasks : FailsWith(w, tasks) /\ pc[w] \in {"asking", "publishing"}
    BY <1>2 DEF DecompositionFails
  <2>2. UNCHANGED <<msg, outcome, goal>> /\ \A v \in Workers : pc'[v] = "idle" <=> pc[v] = "idle"
    BY <1>0, <2>1 DEF TypeOK, FailsWith, Continue
  <2> QED BY <2>2, NothingHappens DEF PromiseNow
<1>3. ASSUME Answer(w) \/ Escalate(w) PROVE PromiseNow
  <2>1. Busy(w) BY <1>3 DEF Answer, Escalate, Busy
  <2>2. goal[w] \in Goals /\ runs[goal[w]] \in Run BY <1>0, <2>1, BusyWith DEF TypeOK
  <2>3. Worked' = Worked \cup {goal[w]}
    <3>1. CASE Answer(w) BY <2>2, <3>1 DEF Answer, Worked
    <3>2. CASE Escalate(w) BY <2>2, <3>2 DEF Escalate, Worked
    <3> QED BY <1>3, <3>1, <3>2
  <2>4. Waiting' = Waiting /\ Over' = Over /\ Working' = Working
    BY <1>0, <1>3 DEF Answer, Escalate, Continue, TypeOK, Waiting, Over, Working
  <2>5. Queue!Settle(w) BY <1>0, <2>1, <2>3, <2>4, BusyWith DEF Queue!Settle
  <2> QED BY <2>5 DEF PromiseNow, Queue!Next
<1>4. CASE Ack(w)
  <2>1. Busy(w) /\ Finished(w) /\ msg' = [msg EXCEPT ![goal[w]] = "done"] /\ UNCHANGED outcome
    BY <1>4 DEF Ack, Busy
  <2>2. /\ goal[w] \in Waiting /\ Waiting' = Waiting \ {goal[w]}
        /\ Over' = Over \cup {goal[w]}
    BY <1>0, <2>1, BusyWith, MessageGone
  <2>3. Worked' = Worked \cup {goal[w]}
    <3>1. Ended(goal[w]) BY <1>0, <1>4, <2>1 DEF Ack, Progress
    <3>2. \A g \in Goals : msg'[g] = IF g = goal[w] THEN "done" ELSE msg[g]
      BY <1>0, <2>1 DEF TypeOK
    <3> QED BY <1>0, <2>1, <3>1, <3>2, BusyWith DEF Worked, Ended, outcome
  <2>4. Queue!Finish(w)
    BY <1>0, <2>1, <2>2, <2>3, BusyWith, WorkerEnds DEF Queue!Finish, Queue!Gone
  <2> QED BY <2>4 DEF PromiseNow, Queue!Next
<1>5. CASE Redeliver(w)
  <2>1. Busy(w) /\ Finished(w) /\ msg' = [msg EXCEPT ![goal[w]] = "queued"]
    BY <1>5 DEF Redeliver, Busy
  <2>2. Waiting' = Waiting /\ Over' = Over
    BY <1>0, <2>1, BusyWith DEF TypeOK, Waiting, Over
  <2>3. Working' = [Working EXCEPT ![w] = None] BY <1>0, <2>1, WorkerEnds
  <2>4. Working' = [v \in Workers |-> IF v \in {w} THEN None ELSE Working[v]]
    BY <2>3 DEF Working
  <2>5. Worked' = Worked
    BY <1>0, <2>1, BusyWith, <1>5 DEF Redeliver, TypeOK, outcome, Worked
  <2>6. Queue!Leave({w}) BY <2>2, <2>4, <2>5 DEF Queue!Leave
  <2> QED BY <2>6 DEF PromiseNow, Queue!Next
<1> QED BY <1>1, <1>2, <1>3, <1>4, <1>5 DEF Step

LEMMA NextPromise == ASSUME IInv, [Next]_vars PROVE PromiseNow
<1>1. CASE Crash
  <2>1. Waiting' = Waiting /\ Over' = Over
    BY <1>1 DEF Crash, IInv, TypeOK, Waiting, Over
  <2>2. Working' = [w \in Workers |-> IF w \in Workers THEN None ELSE Working[w]]
    BY <1>1 DEF Crash, Working
  <2>3. Worked' = Worked BY <1>1 DEF Crash, IInv, TypeOK, outcome, Worked
  <2>4. Queue!Leave(Workers) BY <2>1, <2>2, <2>3 DEF Queue!Leave
  <2> QED BY <2>4 DEF PromiseNow, Queue!Next
<1>2. CASE UNCHANGED vars
  BY <1>2, NothingHappens DEF vars, work, PromiseNow
<1> QED BY <1>1, <1>2, GoalPromise, StepPromise DEF Next

\* The coordinator keeps the promise of WorkQueue (_handle_message,
\* _decompose_goal): a goal is decomposed by one worker at a time, and never
\* again once its message is gone.  What was answered or escalated and whose
\* acknowledgement was lost is not gone.
THEOREM QueuePromiseKept == Spec => QueueKept
<1>1. Init => Queue!Init
  BY MissionAssumption DEF Init, Queue!Init, Waiting, Over, Working, Worked
<1>2. IInv /\ [Next]_vars => [Queue!Next]_<<Waiting, Over, Working, Worked>>
  BY NextPromise DEF PromiseNow
<1> QED BY <1>1, <1>2, Inductive, PTL DEF Spec, QueueKept, Queue!Spec, Queue!vars

=============================================================================
