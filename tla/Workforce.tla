----------------------------- MODULE Workforce -----------------------------
(***************************************************************************)
(* A pool of agents of one type, kept by a coordinator                      *)
(* (enterprise/coordinator/workforce.py).  The maintenance loop and those   *)
(* who ask for agents share the pool across the calls they make to the      *)
(* provisioner; heartbeats come in between.  Time is abstracted: a record   *)
(* is fresh until two minutes without a heartbeat pass (Lapse).             *)
(*                                                                          *)
(* A vm_id is compared only with the vm_ids of the same identity, so it is  *)
(* a number that is new among those, given when the identity is.            *)
(***************************************************************************)
EXTENDS Integers, FiniteSets

CONSTANTS Agents,     \* the identities the provisioner can assign
          Callers,    \* the tasks that ask for an agent
          Manager,    \* the maintenance loop
          None,
          MinSize, MaxSize,
          VMs         \* bound on the vm_ids of an identity in use at a time

Procs == Callers \cup {Manager}

ASSUME WorkforceAssumption ==
    /\ 1 \in VMs /\ VMs \subseteq Nat \ {0}
    /\ Manager \notin Callers /\ None \notin Agents
    /\ MinSize \in Nat /\ MaxSize \in Nat
    /\ IsFiniteSet(Agents) /\ IsFiniteSet(Callers)

VARIABLES pool,     \* the identities AgentPool.agents has a record of
          state, fresh,
          vm,       \* the vm_id of a record, 0 if it has none
          lease,    \* the provisioner's leases: the VM of an identity, or 0
          maint,    \* what the maintenance loop does
          task,     \* what a caller does
          given,    \* the agent it was given
          call,     \* the call a coroutine waits for
          subject,  \* the identity of the call
          sent,     \* the vm_id of the call
          untold    \* identities whose lease ended without the coordinator's
                    \* knowing it of the VM it has, or will have, in the record

pools == <<pool, state, fresh, vm>>
calls == <<call, subject, sent>>
outside == <<lease, untold>>
vars == <<pools, calls, outside, maint, task, given>>

States == {"idle", "working", "offline", "starting"}
CallStates == {"no", "provision", "provisioned", "refused", "release", "released"}

TypeOK ==
    /\ pool \subseteq Agents /\ fresh \subseteq pool /\ untold \subseteq Agents
    /\ state \in [Agents -> States]
    /\ vm \in [Agents -> VMs \cup {0}] /\ lease \in [Agents -> VMs \cup {0}]
    /\ maint \in {"asleep", "balancing", "waiting", "stopped"}
    /\ task \in [Callers -> {"none", "waiting", "given", "working"}]
    /\ given \in [Callers -> Agents \cup {None}]
    /\ call \in [Procs -> CallStates]
    /\ subject \in [Procs -> Agents \cup {None}] /\ sent \in [Procs -> VMs \cup {0}]
    /\ \A p \in Procs : /\ call[p] = "provisioned" => sent[p] \in VMs
                        /\ call[p] \in {"provisioned", "release", "released"} =>
                               subject[p] \in Agents

Init ==
    /\ pool = {} /\ fresh = {} /\ untold = {}
    /\ state = [a \in Agents |-> "offline"]
    /\ vm = [a \in Agents |-> 0]
    /\ lease \in [Agents -> {0, 1}]
    /\ maint = "asleep"
    /\ task = [c \in Callers |-> "none"]
    /\ given = [c \in Callers |-> None]
    /\ call = [p \in Procs |-> "no"]
    /\ subject = [p \in Procs |-> None]
    /\ sent = [p \in Procs |-> 0]

-----------------------------------------------------------------------------
(* AgentPool *)

Largest(a, b) == IF a > b THEN a ELSE b
Size == Cardinality(pool)
Available == {a \in pool : state[a] = "idle"}

\* needs_scale_up, with the default headroom of 20%
NeedsScaleUp(size, available) ==
    size < MaxSize /\ available < Largest(1, size \div 5)

\* Variant: the minimal size is given up.
CanScaleDownToo(size, available) == available > Largest(1, size \div 2)

CanScaleDown(size, available) ==
    size > MinSize /\ available > Largest(1, size \div 2)

-----------------------------------------------------------------------------
(* The calls of a coroutine *)

Waits(p) == IF p = Manager THEN maint' = "waiting" /\ UNCHANGED task
                           ELSE task' = [task EXCEPT ![p] = "waiting"] /\ UNCHANGED maint

\* The call is over, and with it the request or the round of maintenance.
Returns(p) ==
    /\ IF p = Manager THEN maint' = "asleep" /\ UNCHANGED task
                      ELSE task' = [task EXCEPT ![p] = "none"] /\ UNCHANGED maint
    /\ call' = [call EXCEPT ![p] = "no"]
    /\ subject' = [subject EXCEPT ![p] = None]
    /\ sent' = [sent EXCEPT ![p] = 0]

\* _scale_up, to its call
ScaleUp(p) ==
    /\ Waits(p)
    /\ call' = [call EXCEPT ![p] = "provision"]
    /\ UNCHANGED <<pools, subject, sent, outside, given>>

\* _scale_up, from its answer: the agent is registered as STARTING.
Register(p) ==
    /\ call[p] = "provisioned"
    /\ Returns(p)
    /\ LET a == subject[p]
       IN  /\ pool' = pool \cup {a} /\ fresh' = fresh \cup {a}
           /\ state' = [state EXCEPT ![a] = "starting"]
           /\ vm' = [vm EXCEPT ![a] = sent[p]]
           /\ untold' = IF lease[a] = sent[p] /\ \A q \in Procs \ {p} : subject[q] # a
                        THEN untold \ {a} ELSE untold
    /\ UNCHANGED <<lease, given>>

\* An error of a call is logged.  What the provisioner did stays done.
CallFails(p) ==
    /\ call[p] # "no"
    /\ Returns(p)
    /\ untold' = IF call[p] = "released" THEN untold \cup {subject[p]}
                                             ELSE untold
    /\ UNCHANGED <<pools, lease, given>>

\* _scale_down, to its call, with the vm_id of the record if it has one
ScaleDown(a) ==
    /\ Waits(Manager)
    /\ call' = [call EXCEPT ![Manager] = "release"]
    /\ subject' = [subject EXCEPT ![Manager] = a]
    /\ sent' = [sent EXCEPT ![Manager] = vm[a]]
    /\ UNCHANGED <<pools, outside, given>>

\* A record, and what is known of it, is deleted.
Forget(a) ==
    /\ pool' = pool \ {a} /\ fresh' = fresh \ {a}
    /\ state' = [state EXCEPT ![a] = "offline"]
    /\ vm' = [vm EXCEPT ![a] = 0]

\* Variant: the record of a released agent is kept, as offline.
DeleteLater ==
    /\ call[Manager] = "released"
    /\ Returns(Manager)
    /\ state' = [state EXCEPT ![subject[Manager]] = "offline"]
    /\ UNCHANGED <<pool, fresh, vm, outside, given>>

\* _scale_down, from its answer
Delete ==
    /\ call[Manager] = "released"
    /\ Returns(Manager)
    /\ Forget(subject[Manager])
    /\ UNCHANGED <<outside, given>>

-----------------------------------------------------------------------------
(* The maintenance loop *)

\* _check_agent_health
CheckHealth ==
    /\ maint = "asleep"
    /\ maint' = "balancing"
    /\ state' = [a \in Agents |-> IF a \in fresh THEN state[a] ELSE "offline"]
    /\ UNCHANGED <<pool, fresh, vm, calls, outside, task, given>>

\* _balance_pools; _scale_down releases an agent that is idle and responsive
BalanceUp ==
    /\ maint = "balancing"
    /\ NeedsScaleUp(Size, Cardinality(Available))
    /\ ScaleUp(Manager)

BalanceDown ==
    /\ maint = "balancing"
    /\ ~NeedsScaleUp(Size, Cardinality(Available))
    /\ CanScaleDown(Size, Cardinality(Available))
    /\ \E a \in Available \cap fresh : ScaleDown(a)

Balanced ==
    /\ maint = "balancing"
    /\ ~NeedsScaleUp(Size, Cardinality(Available))
    /\ CanScaleDown(Size, Cardinality(Available)) => Available \cap fresh = {}
    /\ maint' = "asleep"
    /\ UNCHANGED <<pools, calls, outside, task, given>>

\* stop() cancels the maintenance, also when it waits for an answer, and closes
\* the client the calls are made with.
Stop ==
    /\ maint # "stopped"
    /\ maint' = "stopped"
    /\ call' = [call EXCEPT ![Manager] = "no"]
    /\ subject' = [subject EXCEPT ![Manager] = None]
    /\ sent' = [sent EXCEPT ![Manager] = 0]
    /\ untold' = IF call[Manager] = "released" THEN untold \cup {subject[Manager]} ELSE untold
    /\ UNCHANGED <<pools, lease, task, given>>

-----------------------------------------------------------------------------
(* Those who ask for agents *)

\* request_agent gives an available agent, without reserving it ...
Request(c) ==
    /\ task[c] = "none"
    /\ \E a \in Available \cap fresh : given' = [given EXCEPT ![c] = a]
    /\ task' = [task EXCEPT ![c] = "given"]
    /\ UNCHANGED <<pools, calls, outside, maint>>

\* Variant: the pool is scaled up whatever its size.
RequestMoreAlways(c) ==
    /\ task[c] = "none" /\ maint # "stopped"
    /\ ScaleUp(c)

\* ... or, when there is none or it does not meet the requirements, scales the
\* pool up and gives none.
RequestMore(c) ==
    /\ task[c] = "none" /\ maint # "stopped"
    /\ NeedsScaleUp(Size, Cardinality(Available))
    /\ ScaleUp(c)

\* Variant: the record is taken to be there.
TouchAlways(c, s) ==
    /\ state' = [state EXCEPT ![given[c]] = s]
    /\ fresh' = fresh \cup {given[c]}

\* mark_agent_working and release_agent change a record that is still there.
Touch(c, s) ==
    IF given[c] \in pool
    THEN /\ state' = [state EXCEPT ![given[c]] = s]
         /\ fresh' = fresh \cup {given[c]}
    ELSE UNCHANGED <<state, fresh>>

MarkWorking(c) ==
    /\ task[c] = "given"
    /\ task' = [task EXCEPT ![c] = "working"]
    /\ Touch(c, "working")
    /\ UNCHANGED <<pool, vm, calls, outside, maint, given>>

\* Variant: the record of an agent that has worked is deleted.
ReleaseAndForget(c) ==
    /\ task[c] = "working"
    /\ task' = [task EXCEPT ![c] = "none"]
    /\ given' = [given EXCEPT ![c] = None]
    /\ Forget(given[c])
    /\ UNCHANGED <<outside, calls, maint>>

Release(c) ==
    /\ task[c] = "working"
    /\ task' = [task EXCEPT ![c] = "none"]
    /\ given' = [given EXCEPT ![c] = None]
    /\ Touch(c, "idle")
    /\ UNCHANGED <<pool, vm, calls, outside, maint>>

-----------------------------------------------------------------------------
(* The provisioner and the VMs *)

\* An identity that is free is leased to a VM nobody here knows of.
Leased(a, v) ==
    /\ lease[a] = 0
    /\ v \notin {vm[a]} \cup {sent[q] : q \in {r \in Procs : subject[r] = a}}
    /\ lease' = [lease EXCEPT ![a] = v]

\* POST /provision leases an identity to the VM of the request ...
Provision(p) ==
    /\ call[p] = "provision"
    /\ \E a \in Agents, v \in VMs :
          /\ Leased(a, v)
          /\ subject' = [subject EXCEPT ![p] = a]
          /\ sent' = [sent EXCEPT ![p] = v]
    /\ call' = [call EXCEPT ![p] = "provisioned"]
    /\ UNCHANGED <<pools, untold, maint, task, given>>

\* ... or refuses.
Refuse(p) ==
    /\ call[p] = "provision"
    /\ call' = [call EXCEPT ![p] = "refused"]
    /\ UNCHANGED <<pools, subject, sent, outside, maint, task, given>>

\* POST /release ends the lease of the VM of the request, or whosever lease it
\* is if the request names none.
EndLease ==
    /\ call[Manager] = "release"
    /\ LET a == subject[Manager]
       IN  /\ lease' = IF sent[Manager] \in {0, lease[a]} THEN [lease EXCEPT ![a] = 0]
                                                          ELSE lease
           /\ untold' = IF sent[Manager] = 0 THEN untold \cup {a} ELSE untold
    /\ call' = [call EXCEPT ![Manager] = "released"]
    /\ UNCHANGED <<pools, subject, sent, maint, task, given>>

\* Other clients of the provisioner take identities and release them by name, and
\* a lease has a term, which nothing here renews.
Elsewhere(a) ==
    /\ \E v \in VMs : Leased(a, v)
    /\ UNCHANGED <<pools, calls, untold, maint, task, given>>

Expire(a) ==
    /\ lease[a] # 0
    /\ lease' = [lease EXCEPT ![a] = 0]
    /\ untold' = untold \cup {a}
    /\ UNCHANGED <<pools, calls, maint, task, given>>

\* _handle_heartbeat registers an agent it has no record of.  The VM of an
\* identity may have been started by an earlier coordinator, and may run on
\* after the release of its lease.
Heartbeat(a) ==
    /\ fresh' = fresh \cup {a}
    /\ IF a \in pool
       THEN UNCHANGED <<pool, state>>
       ELSE /\ pool' = pool \cup {a}
            /\ state' = [state EXCEPT ![a] = "idle"]
    /\ UNCHANGED <<vm, calls, outside, maint, task, given>>

Lapse(a) ==
    /\ a \in fresh
    /\ fresh' = fresh \ {a}
    /\ UNCHANGED <<pool, state, vm, calls, outside, maint, task, given>>

-----------------------------------------------------------------------------

Maintain == CheckHealth \/ BalanceUp \/ BalanceDown \/ Balanced \/ Delete

Answer(p) == Provision(p) \/ Refuse(p) \/ (p = Manager /\ EndLease)

Next ==
    \/ Maintain \/ Stop
    \/ \E c \in Callers : Request(c) \/ RequestMore(c) \/ MarkWorking(c) \/ Release(c)
    \/ \E p \in Procs : Register(p) \/ CallFails(p) \/ Answer(p)
    \/ \E a \in Agents : Heartbeat(a) \/ Lapse(a) \/ Elsewhere(a) \/ Expire(a)

Spec == Init /\ [][Next]_vars

-----------------------------------------------------------------------------
(* Properties *)

\* del pool.agents[...] after the answer of a release finds the record, and a
\* caller waits only for a call of its own.
CallsMatch ==
    /\ call[Manager] \in {"release", "released"} => subject[Manager] \in pool
    /\ call[Manager] # "no" <=> maint = "waiting"
    /\ \A c \in Callers : /\ call[c] # "no" <=> task[c] = "waiting"
                          /\ call[c] \notin {"release", "released"}

\* The VM a record names has the lease of the identity, except while its release
\* is answered, or after a release that was reported as failed or named no VM, or
\* after the term of the lease.
PoolLeased ==
    \A a \in pool : \/ vm[a] \in {0, lease[a]}
                    \/ call[Manager] = "released" /\ subject[Manager] = a
                    \/ a \in untold

\* The agents a pool scaled up to, with those it has asked for, exceed its maximum
\* by no more than those who ask at the same time.
WithVM == {a \in pool : vm[a] # 0}
Asking == {p \in Procs : call[p] \in {"provision", "provisioned"}}
Overshoot ==
    Cardinality(WithVM) + Cardinality(Asking) <= MaxSize + Cardinality(Callers)

\* Scaling down leaves the pool its minimal size.
MinKept == [][pool' # pool /\ pool' \subseteq pool => Cardinality(pool') >= MinSize]_vars

=============================================================================
