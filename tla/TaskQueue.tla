------------------------------ MODULE TaskQueue ------------------------------
(***************************************************************************)
(* Agents working on JetStream task queues (enterprise/agent/base.py).      *)
(* An agent process runs one worker coroutine for each of its queues.  The  *)
(* stream keeps a task until it is acknowledged, hands it out again when    *)
(* the acknowledgement is late or negative, and admits one consumer per     *)
(* queue (work-queue retention).  Acknowledgements are not confirmed;       *)
(* processes crash and start again.                                         *)
(***************************************************************************)
EXTENDS Integers

CONSTANTS Agents, Queues, Tasks, Workers,
          None,
          AgentOf,      \* the agent a worker belongs to
          Listens,      \* the queue a worker consumes
          QueueOf,      \* the queue a task is published on
          Verdicts,     \* how the steps of a task may end
          Restarted,    \* the agents the orchestrator starts, and starts again
          Expirable,    \* tasks that can be expired when they are delivered
          Replied,      \* tasks with a reply_to
          MaxAttempts,  \* Task.max_attempts of each task
          Faults,       \* which of "crash", "ack", "publish", "subscribe" occur
          MaxRuns,      \* bound on the deliveries of a task that retries, lost
                        \* acknowledgements and failing publications cause
          MaxCrashes    \* bound on the crashes of a behaviour

ASSUME WorkersAssumption ==
    /\ AgentOf \in [Workers -> Agents] /\ Listens \in [Workers -> Queues]
    /\ QueueOf \in [Tasks -> Queues]
    /\ None \notin Agents \cup Tasks

Verdict == {"finish", "exhaust", "retry", "escalate", "fail"}

ASSUME TasksAssumption ==
    /\ Verdicts \in [Tasks -> SUBSET Verdict]
    /\ Expirable \subseteq Tasks /\ Replied \subseteq Tasks /\ Restarted \subseteq Agents
    /\ MaxAttempts \in [Tasks -> Nat] /\ MaxRuns \in Nat /\ MaxCrashes \in Nat

VARIABLES stored,     \* tasks in the stream, not acknowledged
          delivered,  \* of those, the ones whose acknowledgement is awaited
          consumer,   \* the agent whose durable consumer a queue has
          up,         \* the agents whose process runs
          pc,         \* what each worker does
          job,        \* the task it holds
          attempt,    \* task.attempt of its copy of the task
          verdict,    \* how the execution of the task ended
          settled,    \* what became of a task, outside the stream
          results,    \* how many results of a task were published
          runs,       \* how often a task was delivered
          crashes,    \* how many crashes there were
          lost        \* how many acknowledgements did not arrive

stream == <<stored, delivered, consumer, runs>>
worker == <<pc, job, attempt, verdict>>
report == <<settled, results>>
faults == <<crashes, lost>>
vars == <<stream, worker, report, up, faults>>

\* pc: "down" no process; "starting" before its subscription; "off" returned
\* from _process_queue; "idle" fetching; "got" a task was delivered; "running"
\* in execute_step; "ended" with a verdict; "ack" and "nak" about to answer.
TypeOK ==
    /\ stored \subseteq Tasks
    /\ delivered \subseteq stored
    /\ consumer \in [Queues -> Agents \cup {None}]
    /\ up \subseteq Agents
    /\ pc \in [Workers -> {"down", "starting", "off", "idle", "got", "running",
                           "ended", "ack", "nak"}]
    /\ job \in [Workers -> Tasks \cup {None}]
    /\ \A w \in Workers :
         /\ pc[w] # "down" => AgentOf[w] \in up
         /\ pc[w] \in {"got", "running", "ended", "ack", "nak"} => job[w] \in Tasks
         /\ pc[w] \notin {"down", "starting", "off"} => consumer[Listens[w]] = AgentOf[w]
    /\ attempt \in [Workers -> Nat]
    /\ verdict \in [Workers -> Verdict \cup {"none"}]
    /\ settled \in [Tasks -> SUBSET {"result", "silent", "escalated", "dropped",
                                 "failed", "skipped"}]
    /\ results \in [Tasks -> Nat]
    /\ runs \in [Tasks -> Nat]
    /\ crashes \in Nat /\ lost \in Nat

Init ==
    /\ stored = Tasks
    /\ delivered = {}
    /\ consumer = [q \in Queues |-> None]
    /\ up = {}
    /\ pc = [w \in Workers |-> "down"]
    /\ job = [w \in Workers |-> None]
    /\ attempt = [w \in Workers |-> 0]
    /\ verdict = [w \in Workers |-> "none"]
    /\ settled = [t \in Tasks |-> {}]
    /\ results = [t \in Tasks |-> 0]
    /\ runs = [t \in Tasks |-> 0]
    /\ crashes = 0 /\ lost = 0

Goto(w, from, to) == pc[w] = from /\ pc' = [pc EXCEPT ![w] = to]

-----------------------------------------------------------------------------
(* The process and its subscriptions *)

Start(a) ==
    /\ a \notin up
    /\ up' = up \cup {a}
    /\ pc' = [w \in Workers |-> IF AgentOf[w] = a THEN "starting" ELSE pc[w]]
    /\ UNCHANGED <<stream, job, attempt, verdict, report, faults>>

\* Variant: the stream admits any number of consumers of a queue.
SubscribeAnyway(w) ==
    /\ Goto(w, "starting", "idle")
    /\ consumer' = [consumer EXCEPT ![Listens[w]] = AgentOf[w]]
    /\ UNCHANGED <<stored, delivered, runs, job, attempt, verdict, report, up, faults>>

\* ensure_stream() and pull_subscribe() with the durable name agent-<id>.
Subscribe(w) ==
    /\ Goto(w, "starting", "idle")
    /\ consumer[Listens[w]] \in {None, AgentOf[w]}
    /\ consumer' = [consumer EXCEPT ![Listens[w]] = AgentOf[w]]
    /\ UNCHANGED <<stored, delivered, runs, job, attempt, verdict, report, up, faults>>

\* The server refuses a second consumer of the queue, or the call fails: the
\* error is logged and _process_queue returns.
SubscribeFails(w) ==
    /\ Goto(w, "starting", "off")
    /\ \/ consumer[Listens[w]] \notin {None, AgentOf[w]}
       \/ "subscribe" \in Faults
    /\ UNCHANGED <<stream, job, attempt, verdict, report, up, faults>>

Crash(a) ==
    /\ "crash" \in Faults /\ crashes < MaxCrashes
    /\ a \in up
    /\ up' = up \ {a}
    /\ crashes' = crashes + 1
    /\ pc' = [w \in Workers |-> IF AgentOf[w] = a THEN "down" ELSE pc[w]]
    /\ UNCHANGED <<stream, job, attempt, verdict, report, lost>>

-----------------------------------------------------------------------------
(* _handle_message *)

\* The bound on what has a task delivered again.
Again(t) == runs[t] < MaxRuns

CanRetry(w) == attempt[w] < MaxAttempts[job[w]]

\* The copy of the task is parsed from the published bytes: its attempt is 0.
Fetch(w, t) ==
    /\ Goto(w, "idle", "got")
    /\ t \in stored \ delivered /\ QueueOf[t] = Listens[w]
    /\ delivered' = delivered \cup {t}
    /\ runs' = [runs EXCEPT ![t] = @ + 1]
    /\ job' = [job EXCEPT ![w] = t]
    /\ attempt' = [attempt EXCEPT ![w] = 0]
    /\ UNCHANGED <<stored, consumer, verdict, report, up, faults>>

\* A task that cannot be parsed or has expired is acknowledged, not executed.
Skip(w) ==
    /\ Goto(w, "got", "ack")
    /\ job[w] \in Expirable
    /\ settled' = [settled EXCEPT ![job[w]] = @ \cup {"skipped"}]
    /\ UNCHANGED <<stream, job, attempt, verdict, results, up, faults>>

\* Variant: the task is acknowledged when it is taken up.
BeginAcks(w) ==
    /\ Goto(w, "got", "running")
    /\ stored' = stored \ {job[w]} /\ delivered' = delivered \ {job[w]}
    /\ attempt' = [attempt EXCEPT ![w] = @ + 1]
    /\ UNCHANGED <<consumer, runs, job, verdict, report, up, faults>>

\* No task carries a checkpoint_id, so the trajectory is a new one.
Begin(w) ==
    /\ Goto(w, "got", "running")
    /\ attempt' = [attempt EXCEPT ![w] = @ + 1]
    /\ UNCHANGED <<stream, job, verdict, report, up, faults>>

\* execute_step: Finish, the iteration limit ("exhaust"), Retry, and Fail with or without
\* escalation; an unexpected exception of a step is a Fail with escalation.
End(w, v) ==
    /\ Goto(w, "running", "ended")
    /\ v \in Verdicts[job[w]] /\ (v = "retry" /\ CanRetry(w) => Again(job[w]))
    /\ verdict' = [verdict EXCEPT ![w] = v]
    /\ UNCHANGED <<stream, job, attempt, report, up, faults>>

\* Variant: a task that hit the limit is reported and delivered again.
PublishNaks(w) ==
    /\ \/ verdict[w] = "finish" /\ Goto(w, "ended", "ack")
       \/ verdict[w] = "exhaust" /\ Goto(w, "ended", "nak")
    /\ settled' = [settled EXCEPT ![job[w]] = @ \cup {"result"}]
    /\ results' = [results EXCEPT ![job[w]] = @ + 1]
    /\ UNCHANGED <<stream, job, attempt, verdict, up, faults>>

\* A result, of success or of the iteration limit, is published first, if the
\* task asks for one; an error of the publication has the task delivered again.
Publish(w) ==
    /\ verdict[w] \in {"finish", "exhaust"}
    /\ \/ /\ job[w] \notin Replied
          /\ Goto(w, "ended", "ack")
          /\ settled' = [settled EXCEPT ![job[w]] = @ \cup {"silent"}]
          /\ UNCHANGED results
       \/ /\ job[w] \in Replied
          /\ Goto(w, "ended", "ack")
          /\ settled' = [settled EXCEPT ![job[w]] = @ \cup {"result"}]
          /\ results' = [results EXCEPT ![job[w]] = @ + 1]
       \/ /\ job[w] \in Replied /\ "publish" \in Faults /\ Again(job[w])
          /\ Goto(w, "ended", "nak")
          /\ UNCHANGED report
    /\ UNCHANGED <<stream, job, attempt, verdict, up, faults>>

\* _escalate_task logs an error of the publication and returns as if it had
\* succeeded; the task is acknowledged either way.
Escalate(w) ==
    /\ \/ verdict[w] = "escalate"
       \/ verdict[w] = "retry" /\ ~ CanRetry(w)
    /\ Goto(w, "ended", "ack")
    /\ \/ settled' = [settled EXCEPT ![job[w]] = @ \cup {"escalated"}]
       \/ "publish" \in Faults /\ settled' = [settled EXCEPT ![job[w]] = @ \cup {"dropped"}]
    /\ UNCHANGED <<stream, job, attempt, verdict, results, up, faults>>

\* Variant: the task is executed again at once, and the attempt not counted.
RetryAtOnce(w) ==
    /\ verdict[w] = "retry" /\ CanRetry(w)
    /\ Goto(w, "ended", "running")
    /\ UNCHANGED <<stream, job, attempt, verdict, report, up, faults>>

Retry(w) ==
    /\ verdict[w] = "retry" /\ CanRetry(w)
    /\ Goto(w, "ended", "nak")
    /\ UNCHANGED <<stream, job, attempt, verdict, report, up, faults>>

\* Fail without escalation is only counted.
Fail(w) ==
    /\ verdict[w] = "fail"
    /\ Goto(w, "ended", "ack")
    /\ settled' = [settled EXCEPT ![job[w]] = @ \cup {"failed"}]
    /\ UNCHANGED <<stream, job, attempt, verdict, results, up, faults>>

\* msg.ack(): the stream deletes the task, unless the message does not arrive.
Ack(w) ==
    /\ Goto(w, "ack", "idle")
    /\ \/ stored' = stored \ {job[w]} /\ delivered' = delivered \ {job[w]} /\ lost' = lost
       \/ "ack" \in Faults /\ Again(job[w]) /\ lost' = lost + 1 /\ UNCHANGED <<stored, delivered>>
    /\ UNCHANGED <<consumer, runs, job, attempt, verdict, report, up, crashes>>

\* msg.nak(): the stream hands the task out again, after the delay.
Nak(w) ==
    /\ Goto(w, "nak", "idle")
    /\ delivered' = delivered \ {job[w]}
    /\ UNCHANGED <<stored, consumer, runs, job, attempt, verdict, report, up, faults>>

\* The server's ack_wait runs out.
AckWait(t) ==
    /\ t \in delivered
    /\ delivered' = delivered \ {t}
    /\ UNCHANGED <<stored, consumer, runs, worker, report, up, faults>>

-----------------------------------------------------------------------------

Handle(w) ==
    \/ Skip(w) \/ Begin(w) \/ Publish(w) \/ Escalate(w) \/ Retry(w) \/ Fail(w)
    \/ Ack(w) \/ Nak(w)
    \/ \E v \in Verdict : End(w, v)
    \/ \E t \in Tasks : Fetch(w, t)

Next ==
    \/ \E a \in Agents : Start(a) \/ Crash(a)
    \/ \E w \in Workers : Subscribe(w) \/ SubscribeFails(w) \/ Handle(w)
    \/ \E t \in Tasks : AckWait(t)

Spec == Init /\ [][Next]_vars

\* A running process schedules its coroutines, a step of the agent loop ends,
\* a timer of the server that is not stopped fires.
Progress ==
    /\ \A w \in Workers : WF_vars(Subscribe(w)) /\ WF_vars(SubscribeFails(w))
                          /\ WF_vars(Handle(w))
    /\ \A t \in Tasks : WF_vars(AckWait(t))

FairSpec == Spec /\ Progress /\ \A a \in Restarted : WF_vars(Start(a))

-----------------------------------------------------------------------------
(* Properties *)

\* A task leaves its stream only when it was worked off: a result was published
\* (or, "silent", nobody asked for one), it was escalated (or, "dropped", the error of that was logged), skipped, or
\* failed for good.
NothingLost == \A t \in Tasks : t \notin stored => settled[t] # {}

\* A task has another result only for a crash or a lost acknowledgement: a
\* delivery that overtakes the handler of an earlier one does not duplicate it.
ResultsExplained == \A t \in Tasks : results[t] <= 1 + crashes + lost

\* base.py:234 "Exhausted retries, escalate": a task that always asks to be
\* retried is not delivered more than max_attempts times.
RetriesBounded == \A t \in Tasks : runs[t] <= MaxAttempts[t]

\* What makes them inductive: a worker about to acknowledge has settled its task;
\* a held task is stored, and from the queue its worker listens to; a stored task
\* that nobody is about to acknowledge has no more results than there were crashes
\* and lost acknowledgements.
Settling == \A w \in Workers : pc[w] = "ack" => settled[job[w]] # {}

Held(w) == pc[w] \in {"got", "running", "ended", "ack", "nak"}

Holding ==
    \A w \in Workers : Held(w) => job[w] \in stored /\ QueueOf[job[w]] = Listens[w]

ResultPaid ==
    \A t \in Tasks : \/ t \notin stored
                     \/ \E w \in Workers : pc[w] = "ack" /\ job[w] = t
                     \/ results[t] <= crashes + lost

\* The promise of a queue: the task each worker works on, and those settled.
Working == [w \in Workers |-> IF Held(w) THEN job[w] ELSE None]

Worked == {t \in Tasks : settled[t] # {}}

\* One worker at a time works on a task, whatever the server's timer, crashes and
\* lost acknowledgements do, and a task is gone when its worker acknowledged it,
\* settled, and never comes back (base.py:173-247).
Queue == INSTANCE WorkQueue WITH Messages <- Tasks, stream <- stored, gone <- Tasks \ stored,
                                 working <- Working, settled <- Worked
QueueKept == Queue!Spec

\* A worker is there for the queue, or on its way: its process runs and its
\* subscription was not refused.
Served(q) == \E w \in Workers : Listens[w] = q /\ pc[w] \notin {"down", "off"}

\* Every task of a queue that keeps being served is worked off, whatever crashes,
\* lost acknowledgements, failing publications, retries and refused agents of the
\* team come between (_process_queue, _handle_message).
Drained == \A t \in Tasks : []<>Served(QueueOf[t]) => <>(t \notin stored)

=============================================================================
