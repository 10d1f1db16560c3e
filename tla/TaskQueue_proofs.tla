-------------------------- MODULE TaskQueue_proofs --------------------------
(***************************************************************************)
(* What holds of the task queues for any number of agents, queues, tasks    *)
(* and crashes.                                                             *)
(***************************************************************************)
EXTENDS TaskQueue, TLAPS

\* An agent starts one worker for each of its subjects (base.py, start).
OneWorkerPerQueue ==
    \A w1, w2 \in Workers :
        AgentOf[w1] = AgentOf[w2] /\ Listens[w1] = Listens[w2] => w1 = w2

-----------------------------------------------------------------------------
(* Type correctness *)

\* Handlers keep the types, and hold only tasks of a queue their agent
\* consumes.
LEMMA HandleType ==
    ASSUME TypeOK, NEW w \in Workers, Handle(w) PROVE TypeOK'
<1> USE WorkersAssumption, TasksAssumption
<1>1. CASE Skip(w) BY <1>1 DEF TypeOK, Skip, Goto, stream, faults
<1>2. CASE Begin(w) BY <1>2 DEF TypeOK, Begin, Goto, stream, report, faults
<1>3. CASE Publish(w) BY <1>3 DEF TypeOK, Publish, Goto, stream, report, faults
<1>4. CASE Escalate(w) BY <1>4 DEF TypeOK, Escalate, Goto, stream, faults
<1>5. CASE Retry(w) BY <1>5 DEF TypeOK, Retry, Goto, stream, report, faults
<1>6. CASE Fail(w) BY <1>6 DEF TypeOK, Fail, Goto, stream, faults
<1>7. CASE Ack(w) BY <1>7 DEF TypeOK, Ack, Goto, report, faults
<1>8. CASE Nak(w) BY <1>8 DEF TypeOK, Nak, Goto, report, faults
<1>9. ASSUME NEW v \in Verdict, End(w, v) PROVE TypeOK'
  BY <1>9 DEF TypeOK, End, Goto, stream, report, faults
<1>10. ASSUME NEW t \in Tasks, Fetch(w, t) PROVE TypeOK'
  BY <1>10 DEF TypeOK, Fetch, Goto, report, faults
<1> QED BY <1>1, <1>2, <1>3, <1>4, <1>5, <1>6, <1>7, <1>8, <1>9, <1>10 DEF Handle

LEMMA NextType == ASSUME TypeOK, [Next]_vars PROVE TypeOK'
<1> USE WorkersAssumption, TasksAssumption
<1>1. ASSUME NEW a \in Agents, Start(a) PROVE TypeOK'
  BY <1>1 DEF TypeOK, Start, stream, report, faults
<1>2. ASSUME NEW a \in Agents, Crash(a) PROVE TypeOK'
  BY <1>2 DEF TypeOK, Crash, stream, report, faults
<1>3. ASSUME NEW w \in Workers, Subscribe(w) PROVE TypeOK'
  BY <1>3 DEF TypeOK, Subscribe, Goto, report, faults
<1>4. ASSUME NEW w \in Workers, SubscribeFails(w) PROVE TypeOK'
  BY <1>4 DEF TypeOK, SubscribeFails, Goto, stream, report, faults
<1>5. ASSUME NEW t \in Tasks, AckWait(t) PROVE TypeOK'
  BY <1>5 DEF TypeOK, AckWait, worker, report, faults
<1>6. CASE UNCHANGED vars
  BY <1>6 DEF TypeOK, vars, stream, worker, report, faults
<1> QED BY <1>1, <1>2, <1>3, <1>4, <1>5, <1>6, HandleType DEF Next

\* The variables keep their types, and a worker past its subscription owns the
\* consumer of its queue (_process_queue).
THEOREM TypeCorrect == Spec => []TypeOK
<1>1. Init => TypeOK
  BY WorkersAssumption, TasksAssumption DEF Init, TypeOK
<1> QED BY <1>1, NextType, PTL DEF Spec

-----------------------------------------------------------------------------
(* No task is lost *)

LEMMA SettlesOne ==
    ASSUME TypeOK, Settling, NothingLost, NEW w \in Workers, job[w] \in Tasks, NEW x,
           pc' = [pc EXCEPT ![w] = "ack"], job' = job, stored' = stored,
           settled' = [settled EXCEPT ![job[w]] = @ \cup {x}]
    PROVE  Settling' /\ NothingLost'
<1>1. \A t \in Tasks : settled[t] # {} => settled'[t] # {} BY DEF TypeOK
<1>2. settled'[job[w]] # {} BY DEF TypeOK
<1>3. NothingLost' BY <1>1 DEF NothingLost
<1>4. \A v \in Workers : v # w => pc'[v] = pc[v] BY DEF TypeOK
<1>5. Settling' BY <1>1, <1>2, <1>4 DEF Settling, TypeOK
<1> QED BY <1>3, <1>5

\* A handler settles a task before it goes to acknowledge it.
LEMMA HandleSettles ==
    ASSUME TypeOK, Settling, NothingLost,
           NEW w \in Workers, Handle(w)
    PROVE  Settling' /\ NothingLost'
<1> USE WorkersAssumption DEF Goto
<1>0. pc[w] \in {"got", "ended"} => job[w] \in Tasks BY DEF TypeOK
<1>1. CASE Skip(w) BY <1>0, <1>1, SettlesOne DEF Skip, stream
<1>2. CASE Begin(w) BY <1>2 DEF Begin, stream, report, TypeOK, Settling, NothingLost
<1>3. CASE Publish(w)
  <2>1. CASE pc' = [pc EXCEPT ![w] = "nak"] /\ UNCHANGED report
    BY <1>3, <2>1 DEF Publish, stream, report, TypeOK, Settling, NothingLost
  <2> QED BY <1>0, <1>3, <2>1, SettlesOne DEF Publish, stream
<1>4. CASE Escalate(w) BY <1>0, <1>4, SettlesOne DEF Escalate, stream
<1>5. CASE Retry(w) BY <1>5 DEF Retry, stream, report, TypeOK, Settling, NothingLost
<1>6. CASE Fail(w) BY <1>0, <1>6, SettlesOne DEF Fail, stream
<1>7. CASE Ack(w) BY <1>7 DEF Ack, report, TypeOK, Settling, NothingLost
<1>8. CASE Nak(w) BY <1>8 DEF Nak, report, TypeOK, Settling, NothingLost
<1>9. ASSUME NEW v \in Verdict, End(w, v) PROVE Settling' /\ NothingLost'
  BY <1>9 DEF End, stream, report, TypeOK, Settling, NothingLost
<1>10. ASSUME NEW t \in Tasks, Fetch(w, t) PROVE Settling' /\ NothingLost'
  BY <1>10 DEF Fetch, report, TypeOK, Settling, NothingLost
<1> QED BY <1>1, <1>2, <1>3, <1>4, <1>5, <1>6, <1>7, <1>8, <1>9, <1>10 DEF Handle

LEMMA NextSettles ==
    ASSUME TypeOK, Settling, NothingLost, [Next]_vars
    PROVE  Settling' /\ NothingLost'
<1> USE WorkersAssumption DEF TypeOK, Settling, NothingLost, Goto, stream, report
<1>1. ASSUME NEW a \in Agents, Start(a) \/ Crash(a) PROVE Settling' /\ NothingLost'
  BY <1>1 DEF Start, Crash
<1>2. ASSUME NEW w \in Workers, Subscribe(w) \/ SubscribeFails(w)
      PROVE  Settling' /\ NothingLost'
  BY <1>2 DEF Subscribe, SubscribeFails
<1>3. ASSUME NEW t \in Tasks, AckWait(t) PROVE Settling' /\ NothingLost'
  BY <1>3 DEF AckWait, worker
<1>4. CASE UNCHANGED vars BY <1>4 DEF vars, worker
<1> QED BY <1>1, <1>2, <1>3, <1>4, HandleSettles DEF Next

\* A task leaves the stream only with a result published, or not asked for, an
\* escalation sent or at least tried, a failure or an expiry behind it, whatever
\* crashes or is acknowledged in vain (_handle_message).
THEOREM TasksAreKept == Spec => []NothingLost
<1>1. Init => Settling /\ NothingLost BY DEF Init, Settling, NothingLost
<1>2. TypeOK /\ Settling /\ NothingLost /\ [Next]_vars => (Settling /\ NothingLost)'
  BY NextSettles
<1> QED BY <1>1, <1>2, TypeCorrect, PTL DEF Spec

-----------------------------------------------------------------------------
(* A task has one result for each crash, and one more *)

\* A task is held by one worker: its holders listen to its queue, which has one
\* consumer.
LEMMA OneHolder ==
    ASSUME TypeOK, OneWorkerPerQueue, Holding,
           NEW w1 \in Workers, NEW w2 \in Workers,
           Held(w1), Held(w2), job[w1] = job[w2]
    PROVE  w1 = w2
BY WorkersAssumption DEF TypeOK, OneWorkerPerQueue, Holding, Held

LEMMA HandleHolds ==
    ASSUME TypeOK, OneWorkerPerQueue, Holding, NEW w \in Workers, Handle(w)
    PROVE  Holding'
<1> USE WorkersAssumption DEF TypeOK, Holding, Held, Goto
<1>1. CASE Skip(w) BY <1>1 DEF Skip, stream
<1>2. CASE Begin(w) BY <1>2 DEF Begin, stream
<1>3. CASE Publish(w) BY <1>3 DEF Publish, stream
<1>4. CASE Escalate(w) BY <1>4 DEF Escalate, stream
<1>5. CASE Retry(w) BY <1>5 DEF Retry, stream
<1>6. CASE Fail(w) BY <1>6 DEF Fail, stream
<1>7. CASE Ack(w)
  <2>1. /\ pc[w] = "ack" /\ pc' = [pc EXCEPT ![w] = "idle"] /\ job' = job /\ up' = up
        /\ stored' = stored \ {job[w]} \/ stored' = stored
    BY <1>7 DEF Ack
  <2>2. ASSUME NEW x \in Workers, x # w, Held(x) PROVE job[x] # job[w]
    BY <2>1, <2>2, OneHolder
  <2>3. ASSUME NEW x \in Workers, Held(x)' PROVE x # w /\ Held(x)
    BY <2>1, <2>3
  <2> QED BY <2>1, <2>2, <2>3
<1>8. CASE Nak(w) BY <1>8 DEF Nak
<1>9. ASSUME NEW v \in Verdict, End(w, v) PROVE Holding'
  <2>1. /\ pc[w] = "running" /\ pc' = [pc EXCEPT ![w] = "ended"]
        /\ job' = job /\ stored' = stored /\ up' = up
    BY <1>9 DEF End, stream
  <2> QED BY <2>1
<1>10. ASSUME NEW t \in Tasks, Fetch(w, t) PROVE Holding' BY <1>10 DEF Fetch
<1> QED BY <1>1, <1>2, <1>3, <1>4, <1>5, <1>6, <1>7, <1>8, <1>9, <1>10 DEF Handle

LEMMA NextHolds ==
    ASSUME TypeOK, OneWorkerPerQueue, Holding, [Next]_vars PROVE Holding'
<1> USE WorkersAssumption DEF TypeOK, Holding, Held, Goto
<1>1. ASSUME NEW a \in Agents, Start(a) \/ Crash(a) PROVE Holding'
  BY <1>1 DEF Start, Crash, stream
<1>2. ASSUME NEW w \in Workers, Subscribe(w) \/ SubscribeFails(w) PROVE Holding'
  BY <1>2 DEF Subscribe, SubscribeFails, stream
<1>3. ASSUME NEW t \in Tasks, AckWait(t) PROVE Holding' BY <1>3 DEF AckWait, worker
<1>4. CASE UNCHANGED vars BY <1>4 DEF vars, worker, stream
<1> QED BY <1>1, <1>2, <1>3, <1>4, HandleHolds DEF Next

\* Handlers other than Publish and Ack.
LEMMA HandlePays ==
    ASSUME TypeOK, OneWorkerPerQueue, Holding,
           ResultPaid, ResultsExplained, NEW w \in Workers, Handle(w)
    PROVE  ResultPaid' /\ ResultsExplained'
<1> USE WorkersAssumption DEF TypeOK, Holding, Held, ResultPaid, ResultsExplained, Goto
<1>1. CASE Skip(w) BY <1>1 DEF Skip, stream, faults
<1>2. CASE Begin(w) BY <1>2 DEF Begin, stream, report, faults
<1>3. CASE Publish(w)
  <2>1. CASE results' = results BY <1>3, <2>1 DEF Publish, stream, report, faults
  <2>2. CASE results' # results
    <3>1. /\ results' = [results EXCEPT ![job[w]] = @ + 1]
          /\ pc[w] = "ended" /\ pc' = [pc EXCEPT ![w] = "ack"]
          /\ job' = job /\ stored' = stored /\ faults' = faults
      BY <1>3, <2>2 DEF Publish, stream, report, faults
    <3>2. job[w] \in stored /\ job[w] \in Tasks BY <3>1
    <3>3. results[job[w]] <= crashes + lost BY <3>1, <3>2, OneHolder
    <3> QED BY <3>1, <3>2, <3>3 DEF faults
  <2> QED BY <2>1, <2>2
<1>4. CASE Escalate(w) BY <1>4 DEF Escalate, stream, faults
<1>5. CASE Retry(w) BY <1>5 DEF Retry, stream, report, faults
<1>6. CASE Fail(w) BY <1>6 DEF Fail, stream, faults
<1>7. CASE Ack(w) BY <1>7 DEF Ack, report, faults
<1>8. CASE Nak(w) BY <1>8 DEF Nak, report, faults
<1>9. ASSUME NEW v \in Verdict, End(w, v) PROVE ResultPaid' /\ ResultsExplained'
  BY <1>9 DEF End, stream, report, faults
<1>10. ASSUME NEW t \in Tasks, Fetch(w, t) PROVE ResultPaid' /\ ResultsExplained'
  BY <1>10 DEF Fetch, report, faults
<1> QED BY <1>1, <1>2, <1>3, <1>4, <1>5, <1>6, <1>7, <1>8, <1>9, <1>10 DEF Handle

LEMMA NextPays ==
    ASSUME TypeOK, OneWorkerPerQueue, Holding,
           ResultPaid, ResultsExplained, [Next]_vars
    PROVE  ResultPaid' /\ ResultsExplained'
<1> USE WorkersAssumption DEF TypeOK, ResultPaid, ResultsExplained, Goto, stream, report
<1>1. ASSUME NEW a \in Agents, Start(a) PROVE ResultPaid' /\ ResultsExplained'
  <2>1. \A w \in Workers : pc[w] = "ack" => pc'[w] = "ack"
    BY <1>1 DEF Start, faults
  <2> QED BY <1>1, <2>1 DEF Start, faults
<1>2. ASSUME NEW a \in Agents, Crash(a) PROVE ResultPaid' /\ ResultsExplained'
  BY <1>2 DEF Crash, faults
<1>3. ASSUME NEW w \in Workers, Subscribe(w) \/ SubscribeFails(w)
      PROVE  ResultPaid' /\ ResultsExplained'
  BY <1>3 DEF Subscribe, SubscribeFails, faults
<1>4. ASSUME NEW t \in Tasks, AckWait(t) PROVE ResultPaid' /\ ResultsExplained'
  BY <1>4 DEF AckWait, worker, faults
<1>5. CASE UNCHANGED vars BY <1>5 DEF vars, worker, faults
<1> QED BY <1>1, <1>2, <1>3, <1>4, <1>5, HandlePays DEF Next

\* A result is published again only after a crash between the publication and
\* the acknowledgement or a lost acknowledgement; deliveries that overtake a
\* slow handler add none (_handle_message).
THEOREM ResultsBounded ==
    ASSUME OneWorkerPerQueue PROVE Spec => []ResultsExplained
<1>1. Init => Holding /\ ResultPaid /\ ResultsExplained
  BY DEF Init, Holding, Held, ResultPaid, ResultsExplained
<1>2. TypeOK /\ Holding /\ ResultPaid /\ ResultsExplained /\ [Next]_vars
      => (Holding /\ ResultPaid /\ ResultsExplained)'
  BY NextHolds, NextPays
<1> QED BY <1>1, <1>2, TypeCorrect, PTL DEF Spec

-----------------------------------------------------------------------------
(* The promise of a work queue *)

\* What a step does to the worker's part of the mapping.
LEMMA WorksOn ==
    ASSUME TypeOK, NEW w \in Workers, NEW m, Held(w)' => job'[w] = m, ~ Held(w)' => m = None,
           \A v \in Workers \ {w} : (Held(v)' <=> Held(v)) /\ job'[v] = job[v]
    PROVE  Working' = [Working EXCEPT ![w] = m]
<1>1. \A v \in Workers : Working'[v] = IF v = w THEN m ELSE Working[v]
  BY DEF Working
<1> QED BY <1>1 DEF Working

\* A handler that keeps its task and the stream settles the task, or nothing.
LEMMA KeepsTask ==
    ASSUME TypeOK, NEW w \in Workers, Held(w), Held(w)', job' = job, stored' = stored,
           \A v \in Workers \ {w} : Held(v)' <=> Held(v),
           settled' = settled \/ \E x : settled' = [settled EXCEPT ![job[w]] = @ \cup {x}]
    PROVE  [Queue!Settle(w)]_<<stored, Tasks \ stored, Working, Worked>>
<1> USE WorkersAssumption
<1>1. Working' = Working BY DEF Working
<1>2. CASE settled' = settled BY <1>1, <1>2 DEF Worked
<1>3. CASE \E x : settled' = [settled EXCEPT ![job[w]] = @ \cup {x}]
  <2>1. Working[w] = job[w] /\ job[w] \in Tasks BY DEF Working, Held, TypeOK
  <2>2. PICK x : settled' = [settled EXCEPT ![job[w]] = @ \cup {x}]
    BY <1>3
  <2>3. \A t \in Tasks : settled'[t] # {} <=> settled[t] # {} \/ t = job[w]
    BY <2>1, <2>2 DEF TypeOK
  <2>4. Worked' = Worked \cup {job[w]} BY <2>1, <2>3 DEF Worked
  <2> QED BY <1>1, <2>1, <2>4 DEF Queue!Settle
<1> QED BY <1>2, <1>3

\* A worker that gives its task up, or ends.
LEMMA Leaves ==
    ASSUME TypeOK, NEW left \in SUBSET Workers, job' = job, stored' = stored, settled' = settled,
           \A v \in Workers : Held(v)' <=> Held(v) /\ v \notin left
    PROVE  Queue!Leave(left)
<1>1. Working' = [v \in Workers |-> IF v \in left THEN None ELSE Working[v]]
  BY DEF Working
<1> QED BY <1>1 DEF Queue!Leave, Worked

PromiseNow == [Queue!Next]_<<stored, Tasks \ stored, Working, Worked>>

LEMMA HandlePromise ==
    ASSUME TypeOK, OneWorkerPerQueue, Holding, Settling, NEW w \in Workers, Handle(w)
    PROVE  PromiseNow
<1> USE WorkersAssumption DEF Goto
<1>0. pc \in [Workers -> {"down", "starting", "off", "idle", "got", "running",
                          "ended", "ack", "nak"}]
  BY DEF TypeOK
<1>1. ASSUME Skip(w) \/ Begin(w) \/ Publish(w) \/ Escalate(w) \/ Retry(w) \/ Fail(w)
             \/ \E v \in Verdict : End(w, v)
      PROVE  PromiseNow
  <2>1. /\ Held(w) /\ Held(w)' /\ job' = job /\ stored' = stored
        /\ \A v \in Workers \ {w} : Held(v)' <=> Held(v)
    BY <1>0, <1>1 DEF Skip, Begin, Publish, Escalate, Retry, Fail, End, Held, stream
  <2>2. settled' = settled \/ \E x : settled' = [settled EXCEPT ![job[w]] = @ \cup {x}]
    BY <1>1 DEF Skip, Begin, Publish, Escalate, Retry, Fail, End, report
  <2> QED BY <2>1, <2>2, KeepsTask DEF PromiseNow, Queue!Next
<1>2. ASSUME Nak(w) PROVE PromiseNow
  <2>1. \A v \in Workers : Held(v)' <=> Held(v) /\ v \notin {w}
    BY <1>0, <1>2 DEF Nak, Held
  <2>2. Queue!Leave({w}) BY <1>2, <2>1, Leaves DEF Nak, report
  <2> QED BY <2>2 DEF PromiseNow, Queue!Next
<1>3. ASSUME Ack(w) PROVE PromiseNow
  <2>1. /\ \A v \in Workers : Held(v)' <=> Held(v) /\ v \notin {w}
        /\ job' = job /\ settled' = settled
    BY <1>0, <1>3 DEF Ack, Held, report
  <2>2. CASE stored' = stored
    <3>1. Queue!Leave({w}) BY <2>1, <2>2, Leaves
    <3> QED BY <3>1 DEF PromiseNow, Queue!Next
  <2>3. CASE stored' = stored \ {job[w]}
    <3>1. Held(w) /\ job[w] \in Tasks /\ job[w] \in stored /\ job[w] \in Worked
      BY <1>3 DEF Ack, Held, Holding, Settling, Worked, TypeOK
    <3>2. Working[w] = job[w] BY <3>1 DEF Working
    <3>3. Working' = [Working EXCEPT ![w] = None] BY <2>1, WorksOn
    <3>4. Worked' = Worked BY <2>1 DEF Worked
    <3>5. (Tasks \ stored)' = (Tasks \ stored) \cup {job[w]} BY <2>3, <3>1
    <3>6. Queue!Finish(w) BY <2>3, <3>1, <3>2, <3>3, <3>4, <3>5 DEF Queue!Finish, Queue!Gone
    <3> QED BY <3>6 DEF PromiseNow, Queue!Next
  <2> QED BY <1>3, <2>2, <2>3 DEF Ack
<1>4. ASSUME NEW t \in Tasks, Fetch(w, t) PROVE PromiseNow
  <2>1. /\ pc[w] = "idle" /\ t \in stored /\ QueueOf[t] = Listens[w]
        /\ pc' = [pc EXCEPT ![w] = "got"] /\ job' = [job EXCEPT ![w] = t]
        /\ stored' = stored /\ settled' = settled
    BY <1>4 DEF Fetch, report
  <2>2. ~ Held(w) /\ Held(w)' /\ job'[w] = t
        /\ \A v \in Workers \ {w} : (Held(v)' <=> Held(v)) /\ job'[v] = job[v]
    BY <1>0, <2>1 DEF Held, TypeOK
  <2>3. Working' = [Working EXCEPT ![w] = t] BY <2>2, WorksOn
  <2>4. ASSUME NEW v \in Workers, Working[v] = t PROVE FALSE
    <3>1. Held(v) /\ job[v] = t BY <2>4 DEF Working
    <3>2. Listens[v] = Listens[w] BY <2>1, <3>1 DEF Holding
    <3>3. AgentOf[v] = AgentOf[w] BY <2>1, <3>1, <3>2 DEF TypeOK, Held
    <3>4. v = w BY <3>2, <3>3 DEF OneWorkerPerQueue
    <3> QED BY <2>2, <3>1, <3>4
  <2>5. Queue!Take(w, t)
    BY <2>1, <2>2, <2>3, <2>4 DEF Queue!Take, Queue!Free, Working, Worked
  <2> QED BY <2>5 DEF PromiseNow, Queue!Next
<1> QED BY <1>1, <1>2, <1>3, <1>4 DEF Handle

LEMMA NextPromise ==
    ASSUME TypeOK, OneWorkerPerQueue, Holding, Settling, [Next]_vars PROVE PromiseNow
<1> USE WorkersAssumption DEF Goto
<1>0. pc \in [Workers -> {"down", "starting", "off", "idle", "got", "running",
                          "ended", "ack", "nak"}]
  BY DEF TypeOK
<1>1. ASSUME NEW a \in Agents, Start(a) \/ Crash(a) PROVE PromiseNow
  <2> DEFINE left == {v \in Workers : AgentOf[v] = a}
  <2>1. \A v \in Workers : Held(v)' <=> Held(v) /\ v \notin left
    BY <1>0, <1>1 DEF Start, Crash, Held, TypeOK
  <2>2. Queue!Leave(left) BY <1>1, <2>1, Leaves DEF Start, Crash, stream, report
  <2> QED BY <2>2 DEF PromiseNow, Queue!Next
<1>2. ASSUME NEW w \in Workers, Subscribe(w) \/ SubscribeFails(w) PROVE PromiseNow
  <2>1. /\ \A v \in Workers : Held(v)' <=> Held(v)
        /\ job' = job /\ stored' = stored /\ settled' = settled
    BY <1>0, <1>2 DEF Subscribe, SubscribeFails, Held, stream, report
  <2> QED BY <2>1 DEF PromiseNow, Working, Worked
<1>3. ASSUME NEW t \in Tasks, AckWait(t) PROVE PromiseNow
  BY <1>3 DEF AckWait, worker, report, PromiseNow, Working, Worked, Held
<1>4. CASE UNCHANGED vars
  BY <1>4 DEF vars, worker, stream, report, PromiseNow, Working, Worked, Held
<1> QED BY <1>1, <1>2, <1>3, <1>4, HandlePromise DEF Next

\* The agents keep the promise of WorkQueue if each has one worker for a queue:
\* the stream's one consumer for each queue, not its timer, is what leaves a task
\* to one worker, which may go on after the timer has run out (_process_queue).
THEOREM QueuePromiseKept == ASSUME OneWorkerPerQueue PROVE Spec => QueueKept
<1>1. Init => Holding /\ Settling /\ NothingLost /\ Queue!Init
  BY DEF Init, Holding, Held, Settling, NothingLost, Queue!Init, Working, Worked
<1>2. TypeOK /\ Holding /\ Settling /\ NothingLost /\ [Next]_vars
      => Holding' /\ Settling' /\ NothingLost'
         /\ [Queue!Next]_<<stored, Tasks \ stored, Working, Worked>>
  BY NextHolds, NextSettles, NextPromise DEF PromiseNow
<1> QED BY <1>1, <1>2, TypeCorrect, PTL DEF Spec, QueueKept, Queue!Spec, Queue!vars
=============================================================================
