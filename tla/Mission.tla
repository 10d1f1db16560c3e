------------------------------ MODULE Mission ------------------------------
(***************************************************************************)
(* A mission coordinator that decomposes goals into tasks for the workers   *)
(* (enterprise/coordinator/service.py, goal.py, goal_ingress.py).  A goal   *)
(* comes as a message of a task queue, which the coordinator works on as    *)
(* any agent does (TaskQueue.tla): one message of a subject at a time.  The *)
(* record of a goal is in memory only; the tasks it became are not.         *)
(***************************************************************************)
EXTENDS Integers, FiniteSets

CONSTANTS Goals, None,
          Workers,    \* the subjects of the coordinator
          Routes,     \* how goals may be submitted to them
          MaxTasks,   \* bound on the tasks of a decomposition
          MaxFaults   \* bound on crashes, lost acknowledgements and failing answers

ASSUME MissionAssumption ==
    /\ None \notin Goals
    /\ Routes \subseteq [Goals -> Workers]
    /\ MaxTasks \in Nat /\ MaxFaults \in Nat

VARIABLES llm,       \* whether the coordinator has an LLM
          subject,   \* the subject a goal is submitted to
          msg,       \* the message of a goal
          runs,      \* how often the goal was taken up
          status,    \* GoalStatus of the coordinator's record, if it has one
          total,     \* its metrics.total_tasks
          pc, goal,  \* what a worker does, and for which goal
          size, next, \* the tasks of the decomposition, and the one to publish
          published, \* the tasks of its last decomposition in the streams of the workers
          answered,  \* <<goal, run>> with a result "completed"
          escalated, \* goals whose task was escalated
          expired,   \* goals whose message was found too old
          dropped,   \* goals whose escalation failed
          faults

given == <<llm, subject>>
record == <<status, total>>
work == <<pc, goal, size, next>>
outcome == <<answered, escalated, expired, dropped>>
vars == <<given, msg, runs, record, work, published, outcome, faults>>

Run == 0 .. MaxFaults + 1
Tasks == 1 .. MaxTasks

TypeOK ==
    /\ llm \in BOOLEAN /\ subject \in [Goals -> Workers]
    /\ msg \in [Goals -> {"none", "queued", "held", "done"}]
    /\ runs \in [Goals -> Run]
    /\ status \in [Goals -> {"unknown", "planning", "in_progress", "failed"}]
    /\ total \in [Goals -> 0 .. MaxTasks]
    /\ pc \in [Workers -> {"idle", "asking", "publishing", "answering", "acking", "escalating"}]
    /\ goal \in [Workers -> Goals \cup {None}]
    /\ \A w \in Workers : pc[w] # "idle" => goal[w] \in Goals
    /\ size \in [Workers -> 0 .. MaxTasks] /\ next \in [Workers -> 1 .. MaxTasks + 1]
    /\ published \in [Goals -> SUBSET Tasks]
    /\ answered \subseteq Goals \X Run
    /\ escalated \subseteq Goals /\ expired \subseteq Goals /\ dropped \subseteq Goals
    /\ faults \in 0 .. MaxFaults

Init ==
    /\ llm \in BOOLEAN /\ subject \in Routes
    /\ msg = [g \in Goals |-> "none"]
    /\ runs = [g \in Goals |-> 0]
    /\ status = [g \in Goals |-> "unknown"]
    /\ total = [g \in Goals |-> 0]
    /\ pc = [w \in Workers |-> "idle"]
    /\ goal = [w \in Workers |-> None]
    /\ size = [w \in Workers |-> 0] /\ next = [w \in Workers |-> 1]
    /\ published = [g \in Goals |-> {}] /\ answered = {}
    /\ escalated = {} /\ expired = {} /\ dropped = {}
    /\ faults = 0

-----------------------------------------------------------------------------
(* The message of a goal *)

\* build_goal_decomposition_task, published by who submits the goal
Submit(g) ==
    /\ msg[g] = "none"
    /\ msg' = [msg EXCEPT ![g] = "queued"]
    /\ UNCHANGED <<given, runs, record, work, published, outcome, faults>>

Continue(w, step) == pc' = [pc EXCEPT ![w] = step]

\* A goal that has expired is acknowledged, and no more.
Expire(g) ==
    LET w == subject[g]
    IN  /\ msg[g] = "queued" /\ pc[w] = "idle"
        /\ msg' = [msg EXCEPT ![g] = "held"]
        /\ expired' = expired \cup {g}
        /\ goal' = [goal EXCEPT ![w] = g]
        /\ Continue(w, "acking")
        /\ UNCHANGED <<given, runs, record, size, next, published, answered, escalated, dropped, faults>>

\* _decompose_goal, to the call of the LLM: the goal of the message replaces a
\* record of an earlier delivery.
Take(g) ==
    LET w == subject[g]
    IN  /\ msg[g] = "queued" /\ pc[w] = "idle" /\ g \notin expired
        /\ msg' = [msg EXCEPT ![g] = "held"]
        /\ runs' = [runs EXCEPT ![g] = @ + 1]
        /\ status' = [status EXCEPT ![g] = "planning"]
        /\ total' = [total EXCEPT ![g] = 0]
        /\ goal' = [goal EXCEPT ![w] = g]
        /\ Continue(w, "asking")
        /\ published' = [published EXCEPT ![g] = {}]
        /\ UNCHANGED <<given, size, next, outcome, faults>>

\* _handle_message, from the Finish of the task to its acknowledgement
Answer(w) ==
    /\ pc[w] = "answering"
    /\ answered' = answered \cup {<<goal[w], runs[goal[w]]>>}
    /\ Continue(w, "acking")
    /\ UNCHANGED <<given, msg, runs, record, goal, size, next, published, escalated, expired, dropped, faults>>

Finished(w) ==
    /\ Continue(w, "idle")
    /\ size' = [size EXCEPT ![w] = 0] /\ next' = [next EXCEPT ![w] = 1]
    /\ goal' = [goal EXCEPT ![w] = None]

\* Variant: the message is not acknowledged.
AckNot(w) ==
    /\ pc[w] = "acking"
    /\ Finished(w)
    /\ UNCHANGED <<given, msg, runs, record, published, outcome, faults>>

Ack(w) ==
    /\ pc[w] = "acking"
    /\ msg' = [msg EXCEPT ![goal[w]] = "done"]
    /\ Finished(w)
    /\ UNCHANGED <<given, runs, record, published, outcome, faults>>

\* Any acknowledgement may be lost; a result that cannot be published has the
\* message redelivered.
Redeliver(w) ==
    /\ pc[w] \in {"answering", "acking"}
    /\ faults < MaxFaults /\ faults' = faults + 1
    /\ msg' = [msg EXCEPT ![goal[w]] = "queued"]
    /\ Finished(w)
    /\ UNCHANGED <<given, runs, record, published, outcome>>

\* Variant: the message of a failing goal is left to be redelivered.
EscalateAgain(w) ==
    /\ pc[w] = "escalating"
    /\ escalated' = escalated \cup {goal[w]}
    /\ msg' = [msg EXCEPT ![goal[w]] = "queued"]
    /\ Finished(w)
    /\ UNCHANGED <<given, runs, record, published, answered, expired, dropped, faults>>

\* Variant: the message of a failing goal is acknowledged, and no more.
EscalateNot(w) ==
    /\ pc[w] = "escalating"
    /\ Continue(w, "acking")
    /\ UNCHANGED <<given, msg, runs, record, goal, size, next, published, outcome, faults>>

\* _escalate_task, which goes on when the publication fails
Escalate(w) ==
    /\ pc[w] = "escalating"
    /\ \/ escalated' = escalated \cup {goal[w]} /\ UNCHANGED dropped
       \/ dropped' = dropped \cup {goal[w]} /\ UNCHANGED escalated
    /\ Continue(w, "acking")
    /\ UNCHANGED <<given, msg, runs, record, goal, size, next, published, answered, expired, faults>>

-----------------------------------------------------------------------------
(* _decompose_goal, from the call of the LLM *)

Decompose(w) ==
    /\ pc[w] = "asking" /\ llm
    /\ size' \in {[size EXCEPT ![w] = n] : n \in 0 .. MaxTasks}
    /\ next' = [next EXCEPT ![w] = 1]
    /\ Continue(w, "publishing")
    /\ UNCHANGED <<given, msg, runs, record, goal, published, outcome, faults>>

\* Variant: the goal is answered before its tasks are published.
AnswerAtOnce(w) ==
    /\ pc[w] = "publishing"
    /\ Continue(w, "answering")
    /\ UNCHANGED <<given, msg, runs, record, goal, size, next, published, outcome, faults>>

\* A coordinator without an LLM answers without a task, and leaves the goal PLANNING.
NoLLM(w) ==
    /\ pc[w] = "asking" /\ ~llm
    /\ Continue(w, "answering")
    /\ UNCHANGED <<given, msg, runs, record, goal, size, next, published, outcome, faults>>

\* The call of the LLM fails: nothing is noted of the goal.
LLMFails(w) ==
    /\ pc[w] = "asking" /\ llm
    /\ Continue(w, "escalating")
    /\ UNCHANGED <<given, msg, runs, record, goal, size, next, published, outcome, faults>>

FailsWith(w, tasks) ==
    /\ status' = [status EXCEPT ![goal[w]] = "failed"]
    /\ published' = [published EXCEPT ![goal[w]] = @ \cup tasks]
    /\ Continue(w, "escalating")
    /\ UNCHANGED <<given, msg, runs, total, goal, size, next, outcome, faults>>

\* The response cannot be parsed, or the publication of a task fails, stored or not:
\* the goal is FAILED, and what was published stays.
DecompositionFails(w) ==
    \/ pc[w] = "asking" /\ llm /\ FailsWith(w, {})
    \/ /\ pc[w] = "publishing" /\ next[w] <= size[w]
       /\ \E tasks \in {{}, {next[w]}} : FailsWith(w, tasks)

\* Variant: a task that cannot be published is passed over.
PassOver(w) ==
    /\ pc[w] = "publishing" /\ next[w] <= size[w]
    /\ \E tasks \in {{}, {next[w]}} :
          published' = [published EXCEPT ![goal[w]] = @ \cup tasks]
    /\ next' = [next EXCEPT ![w] = @ + 1]
    /\ UNCHANGED <<given, msg, runs, record, pc, goal, size, outcome, faults>>

\* Variant: one task too many is published.
CreateOneMore(w) ==
    /\ pc[w] = "publishing" /\ next[w] <= size[w] + 1
    /\ published' = [published EXCEPT ![goal[w]] = @ \cup {next[w]}]
    /\ next' = [next EXCEPT ![w] = @ + 1]
    /\ UNCHANGED <<given, msg, runs, record, pc, goal, size, outcome, faults>>

\* _create_worker_task
CreateWorkerTask(w) ==
    /\ pc[w] = "publishing" /\ next[w] <= size[w]
    /\ published' = [published EXCEPT ![goal[w]] = @ \cup {next[w]}]
    /\ next' = [next EXCEPT ![w] = @ + 1]
    /\ UNCHANGED <<given, msg, runs, record, pc, goal, size, outcome, faults>>

Planned(w) ==
    /\ pc[w] = "publishing" /\ next[w] > size[w]
    /\ status' = [status EXCEPT ![goal[w]] = "in_progress"]
    /\ total' = [total EXCEPT ![goal[w]] = size[w]]
    /\ Continue(w, "answering")
    /\ UNCHANGED <<given, msg, runs, goal, size, next, published, outcome, faults>>

-----------------------------------------------------------------------------

\* Variant: the other one gets a consumer of its own, which starts with the first message.
CrashReplays ==
    /\ faults < MaxFaults /\ faults' = faults + 1
    /\ msg' = [g \in Goals |-> IF msg[g] \in {"held", "done"} THEN "queued" ELSE msg[g]]
    /\ status' = [g \in Goals |-> "unknown"]
    /\ total' = [g \in Goals |-> 0]
    /\ pc' = [w \in Workers |-> "idle"]
    /\ size' = [w \in Workers |-> 0] /\ next' = [w \in Workers |-> 1]
    /\ goal' = [w \in Workers |-> None]
    /\ UNCHANGED <<given, runs, published, outcome>>

\* The coordinator ends; another starts with the same name and the same queues.
Crash ==
    /\ faults < MaxFaults /\ faults' = faults + 1
    /\ msg' = [g \in Goals |-> IF msg[g] = "held" THEN "queued" ELSE msg[g]]
    /\ status' = [g \in Goals |-> "unknown"]
    /\ total' = [g \in Goals |-> 0]
    /\ pc' = [w \in Workers |-> "idle"]
    /\ size' = [w \in Workers |-> 0] /\ next' = [w \in Workers |-> 1]
    /\ goal' = [w \in Workers |-> None]
    /\ UNCHANGED <<given, runs, published, outcome>>

Step(w) ==
    \/ Decompose(w) \/ NoLLM(w) \/ LLMFails(w) \/ DecompositionFails(w)
    \/ CreateWorkerTask(w) \/ Planned(w)
    \/ Answer(w) \/ Ack(w) \/ Redeliver(w) \/ Escalate(w)

Next ==
    \/ \E g \in Goals : Submit(g) \/ Expire(g) \/ Take(g)
    \/ \E w \in Workers : Step(w)
    \/ Crash

Spec == Init /\ [][Next]_vars

\* The event loop runs the workers; what they call returns or fails.
FairSpec ==
    /\ Spec
    /\ \A g \in Goals : WF_vars(Take(g) \/ Expire(g))
    /\ \A w \in Workers : WF_vars(Step(w))

-----------------------------------------------------------------------------
(* Properties *)

\* A goal that is IN_PROGRESS has the tasks its metrics count in the streams.
PlannedWhole ==
    \A g \in Goals : status[g] = "in_progress" => published[g] = 1 .. total[g]

\* A goal whose decomposition was answered as completed is IN_PROGRESS, or forgotten
\* by a coordinator that started again, if there is an LLM.
AnsweredPlanned ==
    \A g \in Goals : llm /\ <<g, runs[g]>> \in answered => status[g] \in {"in_progress", "unknown"}

\* What became of a goal.
Ended(g) ==
    g \in escalated \cup expired \cup dropped \/ \E r \in Run : <<g, r>> \in answered

\* A goal whose message is gone was answered or escalated, had expired, or its
\* escalation failed.
Accounted == \A g \in Goals : msg[g] = "done" => Ended(g)

\* A goal is taken up again, after whatever answer or escalation, only because of
\* a crash, a lost acknowledgement or a failing answer.
DecomposedAgain == \A g \in Goals : runs[g] <= 1 + faults

\* The promise of a queue: its messages, the goal each worker works on, and those settled.
Waiting == {g \in Goals : msg[g] \in {"queued", "held"}}
Over == {g \in Goals : msg[g] = "done"}

Working == [w \in Workers |-> IF pc[w] = "idle" THEN None ELSE goal[w]]

Worked == {g \in Goals : \/ g \in escalated \cup dropped
                         \/ g \in expired /\ msg[g] = "done"
                         \/ \E r \in Run : <<g, r>> \in answered}

\* The coordinator keeps to it: one worker at a time decomposes a goal, and none
\* takes it up again once its message is gone, however often it failed or was
\* redelivered before (base.py:173-247 with coordinator/service.py:175-290).
Queue == INSTANCE WorkQueue WITH
           Messages <- Goals, stream <- Waiting, gone <- Over,
           working <- Working, settled <- Worked
QueueKept == Queue!Spec

\* The message of every goal is settled some time, whatever fails on the way.
Settled == \A g \in Goals : msg[g] = "queued" ~> msg[g] = "done"

=============================================================================
