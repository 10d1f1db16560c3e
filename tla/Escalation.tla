----------------------------- MODULE Escalation -----------------------------
(***************************************************************************)
(* Escalations between workers and coordinators                             *)
(* (enterprise/coordinator/escalation.py).  They travel as core NATS        *)
(* messages: every coordinator subscribed to the subject of a level gets    *)
(* one, in order, and it is not kept for those that are gone.  (A stream of *)
(* these subjects, which the task queue of a coordinator makes, is read by  *)
(* that queue alone.)  A coordinator queues what it receives in memory and  *)
(* works on one escalation at a time; what it cannot resolve it publishes   *)
(* again.                                                                   *)
(***************************************************************************)
EXTENDS Integers, Sequences

CONSTANTS Escs, Coordinators,
          None,
          Listens,      \* the levels whose subject a coordinator subscribes to
          Path,         \* the level an escalation is first published for
          Timeouts,     \* escalations whose reason contains "timeout"
          Resolvable,   \* those that a coordinator's registered handlers may resolve
          MaxFailures,  \* bound on the publications that fail
          MaxStops      \* bound on the coordinators that stop

Level == {"team", "department", "senior", "human"}

ASSUME EscalationAssumption ==
    /\ Listens \in [Coordinators -> SUBSET Level]
    /\ Path \in [Escs -> Level]
    /\ Timeouts \subseteq Escs /\ Resolvable \in [Coordinators -> SUBSET Escs]
    /\ MaxFailures \in Nat /\ MaxStops \in Nat

VARIABLES raised,    \* the escalations published by workers
          inbox,     \* messages on the way to a subscription of a coordinator
          queue,     \* EscalationHandler.queue
          work,      \* the escalation in _process_escalation
          level,     \* and the level of its record
          pc,        \* where in it the coordinator is
          running,
          notified,  \* how often the resolution of an escalation was published
          human,     \* those published to escalations.human
          unheard,   \* those published with nobody subscribed
          doubled,   \* those published with several coordinators subscribed
          failures, stops

current == <<work, level, pc>>
outside == <<notified, human, unheard, doubled>>
vars == <<raised, inbox, queue, current, running, outside, failures, stops>>

\* pc: "idle"; "assigned"; "resolved", about to notify; "open", about to
\* re-escalate; "error", about to re-escalate in the exception handler.
TypeOK ==
    /\ raised \subseteq Escs
    /\ inbox \in [Coordinators -> [Level -> Seq(Escs)]]
    /\ queue \in [Coordinators -> Seq(Escs)]
    /\ work \in [Coordinators -> Escs \cup {None}]
    /\ level \in [Coordinators -> Level]
    /\ pc \in [Coordinators -> {"idle", "assigned", "resolved", "open", "error"}]
    /\ \A c \in Coordinators :
         /\ pc[c] # "idle" => work[c] \in Escs
         /\ pc[c] \in {"assigned", "resolved", "open"} => level[c] = "team"
         /\ pc[c] = "error" => level[c] \in {"team", "department"}
    /\ running \subseteq Coordinators
    /\ notified \in [Escs -> Nat]
    /\ human \subseteq Escs /\ unheard \subseteq Escs /\ doubled \subseteq Escs
    /\ failures \in Nat /\ stops \in Nat

Init ==
    /\ raised = {}
    /\ inbox = [c \in Coordinators |-> [l \in Level |-> <<>>]]
    /\ queue = [c \in Coordinators |-> <<>>]
    /\ work = [c \in Coordinators |-> None]
    /\ level = [c \in Coordinators |-> "team"]
    /\ pc = [c \in Coordinators |-> "idle"]
    /\ running = Coordinators
    /\ notified = [e \in Escs |-> 0]
    /\ human = {} /\ unheard = {} /\ doubled = {}
    /\ failures = 0 /\ stops = 0

-----------------------------------------------------------------------------
(* Messages *)

Subscribers(l) == {c \in running : l \in Listens[c]}

\* nc.publish(): the message goes to the operators, or to every subscriber;
\* coordinators subscribe without a queue group.
Publish(e, l) ==
    /\ inbox' = [c \in Coordinators |->
                   IF c \in Subscribers(l)
                   THEN [inbox[c] EXCEPT ![l] = Append(@, e)] ELSE inbox[c]]
    /\ human' = IF l = "human" THEN human \cup {e} ELSE human
    /\ unheard' = IF Subscribers(l) = {} /\ l # "human" THEN unheard \cup {e} ELSE unheard
    /\ doubled' = IF \E c, d \in Subscribers(l) : c # d THEN doubled \cup {e} ELSE doubled

\* A worker escalates a task (EnterpriseAgent._escalate_task).
Raise(e) ==
    /\ e \notin raised
    /\ raised' = raised \cup {e}
    /\ Publish(e, Path[e])
    /\ UNCHANGED <<queue, current, running, notified, failures, stops>>

\* Variant: the newest escalation is taken up first.
ReceiveInFront(c, l) ==
    /\ c \in running /\ inbox[c][l] # <<>>
    /\ inbox' = [inbox EXCEPT ![c][l] = Tail(@)]
    /\ queue' = [queue EXCEPT ![c] = <<Head(inbox[c][l])>> \o @]
    /\ UNCHANGED <<raised, current, running, outside, failures, stops>>

\* _handle_escalation_message: a new record, at TEAM whatever level the message
\* names or was published for, is queued.
Receive(c, l) ==
    /\ c \in running /\ inbox[c][l] # <<>>
    /\ inbox' = [inbox EXCEPT ![c][l] = Tail(@)]
    /\ queue' = [queue EXCEPT ![c] = Append(@, Head(inbox[c][l]))]
    /\ UNCHANGED <<raised, current, running, outside, failures, stops>>

-----------------------------------------------------------------------------
(* The processor *)

\* _process_loop takes the next escalation and assigns it.
Take(c) ==
    /\ c \in running /\ pc[c] = "idle" /\ queue[c] # <<>>
    /\ work' = [work EXCEPT ![c] = Head(queue[c])]
    /\ level' = [level EXCEPT ![c] = "team"]
    /\ queue' = [queue EXCEPT ![c] = Tail(@)]
    /\ pc' = [pc EXCEPT ![c] = "assigned"]
    /\ UNCHANGED <<raised, inbox, running, outside, failures, stops>>

\* _attempt_resolution: a registered handler may resolve it; failing that,
\* timeouts are resolved by a recommendation and nothing else is.
Attempt(c) ==
    /\ c \in running /\ pc[c] = "assigned"
    /\ \/ /\ work[c] \in Timeouts \cup Resolvable[c]
          /\ pc' = [pc EXCEPT ![c] = "resolved"]
       \/ /\ work[c] \notin Timeouts
          /\ pc' = [pc EXCEPT ![c] = "open"]
    /\ UNCHANGED <<raised, inbox, queue, work, level, running, outside, failures, stops>>

\* Variant: a resolved escalation is re-escalated as well.
NotifyAndGoOn(c) ==
    /\ c \in running /\ pc[c] = "resolved"
    /\ notified' = [notified EXCEPT ![work[c]] = @ + 1]
    /\ pc' = [pc EXCEPT ![c] = "open"]
    /\ UNCHANGED <<raised, inbox, queue, work, level, running, human, unheard, doubled,
                   failures, stops>>

\* _notify_resolution
Notify(c) ==
    /\ c \in running /\ pc[c] = "resolved"
    /\ notified' = [notified EXCEPT ![work[c]] = @ + 1]
    /\ pc' = [pc EXCEPT ![c] = "idle"]
    /\ UNCHANGED <<raised, inbox, queue, work, level, running, human, unheard, doubled,
                   failures, stops>>

Fails == failures < MaxFailures /\ failures' = failures + 1

\* An error of the notification re-escalates what was resolved.
NotifyFails(c) ==
    /\ c \in running /\ pc[c] = "resolved"
    /\ Fails
    /\ pc' = [pc EXCEPT ![c] = "error"]
    /\ UNCHANGED <<raised, inbox, queue, work, level, running, outside, stops>>

Above == [team |-> "department", department |-> "senior", senior |-> "human"]

\* _re_escalate; a record is at TEAM here or, after an error, at DEPARTMENT.
ReEscalate(c) ==
    /\ c \in running /\ pc[c] \in {"open", "error"}
    /\ Publish(work[c], Above[level[c]])
    /\ pc' = [pc EXCEPT ![c] = "idle"]
    /\ UNCHANGED <<raised, queue, work, level, running, notified, failures, stops>>

\* Variant: an error of the publication is logged at once.
GiveUp(c) ==
    /\ c \in running /\ pc[c] \in {"open", "error"}
    /\ Fails
    /\ pc' = [pc EXCEPT ![c] = "idle"]
    /\ UNCHANGED <<raised, inbox, queue, work, level, running, outside, stops>>

\* Variant: it is tried again after every error.
KeepTrying(c) ==
    /\ c \in running /\ pc[c] \in {"open", "error"}
    /\ Fails
    /\ level' = [level EXCEPT ![c] = Above[@]]
    /\ pc' = [pc EXCEPT ![c] = "error"]
    /\ UNCHANGED <<raised, inbox, queue, work, running, outside, stops>>

\* An error of the publication has it called again, with the level raised; a
\* second error is logged by _process_loop, and the escalation is gone.
ReEscalateFails(c) ==
    /\ c \in running /\ pc[c] \in {"open", "error"}
    /\ Fails
    /\ level' = [level EXCEPT ![c] = Above[@]]
    /\ pc' = [pc EXCEPT ![c] = IF pc[c] = "open" THEN "error" ELSE "idle"]
    /\ UNCHANGED <<raised, inbox, queue, work, running, outside, stops>>

\* stop(), or the process ends: what it received is gone.
Stop(c) ==
    /\ c \in running /\ stops < MaxStops
    /\ running' = running \ {c}
    /\ stops' = stops + 1
    /\ inbox' = [inbox EXCEPT ![c] = [l \in Level |-> <<>>]]
    /\ queue' = [queue EXCEPT ![c] = <<>>]
    /\ pc' = [pc EXCEPT ![c] = "idle"]
    /\ UNCHANGED <<raised, work, level, outside, failures>>

-----------------------------------------------------------------------------

Process(c) == Take(c) \/ Attempt(c) \/ Notify(c) \/ ReEscalate(c)

Next ==
    \/ \E e \in Escs : Raise(e)
    \/ \E c \in Coordinators :
         \/ Process(c) \/ NotifyFails(c) \/ ReEscalateFails(c) \/ Stop(c)
         \/ \E l \in Level : Receive(c, l)

Spec == Init /\ [][Next]_vars

\* The event loop of a running coordinator runs its callbacks and its
\* processor; handlers return.
FairSpec ==
    /\ Spec
    /\ \A c \in Coordinators : WF_vars(Process(c)) /\ \A l \in Level : WF_vars(Receive(c, l))

-----------------------------------------------------------------------------
(* Properties *)

In(e, s) == \E i \in 1..Len(s) : s[i] = e

Held(c, e) ==
    \/ \E l \in Level : In(e, inbox[c][l])
    \/ In(e, queue[c])
    \/ pc[c] # "idle" /\ work[c] = e

\* An escalation is with a coordinator, with the operators, or answered, unless
\* a coordinator stopped, two publications failed, or nobody was subscribed.
Accounted ==
    \A e \in raised : \/ notified[e] > 0 \/ e \in human \cup unheard
                      \/ \E c \in Coordinators : Held(c, e)
                      \/ failures >= 2 \/ stops > 0

\* An agent is told of one resolution of its escalation, however it circles,
\* publications fail and coordinators stop, unless a message about it went to two
\* coordinators of one level (escalation.py:143-146; coordinator/service.py:5
\* "Multiple coordinators can run").
NotifiedOnce == \A e \in Escs \ doubled : notified[e] <= 1

\* escalation.py:4 "Escalations flow up the hierarchy", to a human operator.
ReachesHuman == \A e \in Escs : e \in raised ~> (notified[e] > 0 \/ e \in human)

\* Timeouts that reach a coordinator are answered, also while escalations that
\* nobody can resolve keep coming back.
TimeoutsAnswered ==
    \A e \in Timeouts : e \in raised ~> \/ notified[e] > 0 \/ e \in human \cup unheard
                                        \/ failures > 0 \/ stops > 0

=============================================================================
