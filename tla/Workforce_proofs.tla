--------------------------- MODULE Workforce_proofs ---------------------------
(***************************************************************************)
(* What holds of a pool for any number of agents, callers and VMs, and for  *)
(* any size limits.                                                         *)
(***************************************************************************)
EXTENDS Workforce, FiniteSetTheorems, TLAPS

-----------------------------------------------------------------------------
(* Type correctness *)

LEMMA ReturnsType ==
    ASSUME TypeOK, NEW p \in Procs, Returns(p)
    PROVE  /\ maint' \in {"asleep", "balancing", "waiting", "stopped"}
           /\ task' \in [Callers -> {"none", "waiting", "given", "working"}]
           /\ call' \in [Procs -> CallStates]
           /\ subject' \in [Procs -> Agents \cup {None}] /\ sent' \in [Procs -> VMs \cup {0}]
           /\ \A q \in Procs : /\ call'[q] = "provisioned" => sent'[q] \in VMs
                               /\ call'[q] \in {"provisioned", "release", "released"} =>
                                      subject'[q] \in Agents
  BY DEF TypeOK, Returns, CallStates, Procs

LEMMA WaitsType ==
    ASSUME TypeOK, NEW p \in Procs, Waits(p)
    PROVE  /\ maint' \in {"asleep", "balancing", "waiting", "stopped"}
           /\ task' \in [Callers -> {"none", "waiting", "given", "working"}]
  BY DEF TypeOK, Waits, Procs

LEMMA TouchType ==
    ASSUME TypeOK, NEW c \in Callers, NEW s \in States, Touch(c, s), UNCHANGED pool
    PROVE  state' \in [Agents -> States] /\ fresh' \subseteq pool'
  BY DEF TypeOK, Touch

LEMMA NextType == ASSUME TypeOK, [Next]_vars PROVE TypeOK'
<1> USE WorkforceAssumption
<1>1. ASSUME CheckHealth PROVE TypeOK'
  BY <1>1 DEF TypeOK, CheckHealth, calls, outside, States
<1>2. ASSUME NEW p \in Procs, ScaleUp(p) PROVE TypeOK'
  BY <1>2, WaitsType DEF TypeOK, ScaleUp, pools, outside, CallStates
<1>3. ASSUME BalanceDown PROVE TypeOK'
  <2>1. PICK a \in Available \cap fresh : ScaleDown(a) BY <1>3 DEF BalanceDown
  <2>2. Manager \in Procs /\ a \in Agents BY DEF Procs, Available, TypeOK
  <2> QED BY <2>1, <2>2, WaitsType DEF TypeOK, ScaleDown, pools, outside, CallStates
<1>4. ASSUME Balanced PROVE TypeOK'
  BY <1>4 DEF TypeOK, Balanced, pools, calls, outside
<1>5. ASSUME Delete PROVE TypeOK'
  BY <1>5, ReturnsType DEF TypeOK, Delete, Forget, outside, Procs, States
<1>6. ASSUME NEW c \in Callers, Request(c) PROVE TypeOK'
  BY <1>6 DEF TypeOK, Request, Available, pools, calls, outside
<1>7. ASSUME NEW c \in Callers, MarkWorking(c) PROVE TypeOK'
  BY <1>7, TouchType DEF TypeOK, MarkWorking, calls, outside, States
<1>8. ASSUME NEW c \in Callers, Release(c) PROVE TypeOK'
  BY <1>8, TouchType DEF TypeOK, Release, calls, outside, States
<1>9. ASSUME NEW p \in Procs, Register(p) PROVE TypeOK'
  BY <1>9, ReturnsType DEF TypeOK, Register, States
<1>10. ASSUME NEW p \in Procs, CallFails(p) PROVE TypeOK'
  <2>1. untold' \subseteq Agents BY <1>10 DEF TypeOK, CallFails
  <2> QED BY <1>10, <2>1, ReturnsType DEF TypeOK, CallFails, pools
<1>11. ASSUME NEW p \in Procs, Provision(p) PROVE TypeOK'
  BY <1>11 DEF TypeOK, Provision, Leased, pools, CallStates
<1>12. ASSUME NEW p \in Procs, Refuse(p) PROVE TypeOK'
  BY <1>12 DEF TypeOK, Refuse, pools, outside, CallStates
<1>13. ASSUME EndLease PROVE TypeOK'
  BY <1>13 DEF TypeOK, EndLease, pools, CallStates, Procs
<1>14. ASSUME NEW a \in Agents, Heartbeat(a) PROVE TypeOK'
  BY <1>14 DEF TypeOK, Heartbeat, calls, outside, States
<1>15. ASSUME NEW a \in Agents, Lapse(a) PROVE TypeOK'
  BY <1>15 DEF TypeOK, Lapse, calls, outside
<1>16. ASSUME UNCHANGED vars PROVE TypeOK'
  BY <1>16 DEF TypeOK, vars, pools, calls, outside
<1>17. Manager \in Procs /\ Callers \subseteq Procs BY DEF Procs
<1>18. ASSUME Stop PROVE TypeOK'
  <2>1. untold' \subseteq Agents BY <1>18, <1>17 DEF TypeOK, Stop
  <2> QED BY <1>17, <1>18, <2>1 DEF TypeOK, Stop, pools, CallStates
<1>19. ASSUME NEW a \in Agents, Elsewhere(a) PROVE TypeOK'
  BY <1>19 DEF TypeOK, Elsewhere, Leased, pools, calls
<1>20. ASSUME NEW a \in Agents, Expire(a) PROVE TypeOK'
  BY <1>20 DEF TypeOK, Expire, pools, calls
<1> QED
  BY <1>1, <1>2, <1>3, <1>4, <1>5, <1>6, <1>7, <1>8, <1>9, <1>10, <1>11, <1>12, <1>13, <1>14,
     <1>15, <1>16, <1>17, <1>18, <1>19, <1>20 DEF Next, Maintain, Answer, BalanceUp, RequestMore

-----------------------------------------------------------------------------
(* The calls of the coroutines, and the size of the pool *)

\* A pool that is about to shrink has more than its minimal size.
RoomToShrink == call[Manager] \in {"release", "released"} => Size > MinSize

LEMMA PoolFinite ==
    ASSUME TypeOK PROVE IsFiniteSet(pool) /\ Cardinality(pool) \in Nat
  BY WorkforceAssumption, FS_Subset, FS_CardinalityType DEF TypeOK

\* A pool that gains a record is not smaller.
LEMMA PoolGrows ==
    ASSUME TypeOK, NEW a \in Agents, RoomToShrink,
           pool' = pool \/ pool' = pool \cup {a},
           call'[Manager] \in {"release", "released"} => call[Manager] \in {"release", "released"}
    PROVE  RoomToShrink'
<1>0. IsFiniteSet(pool) /\ Cardinality(pool) \in Nat BY PoolFinite
<1>a. Cardinality(pool \cup {a}) = IF a \in pool THEN Cardinality(pool) ELSE Cardinality(pool) + 1
  BY <1>0, FS_AddElement, Zenon
<1>1. Cardinality(pool \cup {a}) >= Cardinality(pool) BY <1>0, <1>a
<1>2. MinSize \in Nat /\ Cardinality(pool) \in Nat BY PoolFinite, WorkforceAssumption
<1>3. Cardinality(pool \cup {a}) \in Nat BY PoolFinite, FS_AddElement, FS_CardinalityType
<1>4. Cardinality(pool') >= Cardinality(pool) /\ Cardinality(pool') \in Nat BY <1>1, <1>2, <1>3
<1> QED BY <1>2, <1>4 DEF RoomToShrink, Size

LEMMA NextCalls ==
    ASSUME TypeOK, CallsMatch, RoomToShrink, [Next]_vars
    PROVE  CallsMatch' /\ RoomToShrink'
<1> USE WorkforceAssumption
<1>0. Manager \in Procs /\ Callers \subseteq Procs /\ Manager \notin Callers BY DEF Procs
<1>1. ASSUME UNCHANGED <<calls, maint, task>>, pool' = pool \/ \E a \in Agents : pool' = pool \cup {a}
      PROVE  CallsMatch' /\ RoomToShrink'
  <2>1. pool \subseteq pool' BY <1>1
  <2>2. RoomToShrink' BY <1>1, PoolGrows DEF calls, RoomToShrink, Size
  <2> QED BY <1>1, <2>1, <2>2 DEF CallsMatch, calls
<1>2. ASSUME CheckHealth PROVE CallsMatch' /\ RoomToShrink'
  BY <1>2 DEF CallsMatch, RoomToShrink, Size, CheckHealth, calls
<1>3. ASSUME Balanced PROVE CallsMatch' /\ RoomToShrink'
  BY <1>3 DEF CallsMatch, RoomToShrink, Size, Balanced, calls, pools
<1>4. ASSUME NEW p \in Procs, ScaleUp(p), p = Manager => maint = "balancing" PROVE CallsMatch' /\ RoomToShrink'
  <2>1. CASE p = Manager
    BY <1>0, <1>4, <2>1 DEF CallsMatch, RoomToShrink, TypeOK, ScaleUp, Waits, pools
  <2>2. CASE p \in Callers
    BY <1>0, <1>4, <2>2 DEF CallsMatch, RoomToShrink, Size, TypeOK, ScaleUp, Waits, pools
  <2> QED BY <2>1, <2>2 DEF Procs
<1>5. ASSUME BalanceDown PROVE CallsMatch' /\ RoomToShrink'
  <2>1. PICK a \in Available \cap fresh : ScaleDown(a) BY <1>5 DEF BalanceDown
  <2>2. Size > MinSize BY <1>5 DEF BalanceDown, CanScaleDown
  <2>3. a \in pool BY DEF Available
  <2> QED BY <1>0, <2>1, <2>2, <2>3
          DEF CallsMatch, RoomToShrink, Size, TypeOK, ScaleDown, Waits, pools
<1>6. ASSUME Delete PROVE CallsMatch' /\ RoomToShrink'
  BY <1>0, <1>6 DEF CallsMatch, RoomToShrink, TypeOK, Delete, Returns
<1>7. ASSUME NEW c \in Callers, Request(c) PROVE CallsMatch' /\ RoomToShrink'
  BY <1>0, <1>7 DEF CallsMatch, RoomToShrink, Size, TypeOK, Request, pools, calls
<1>8. ASSUME NEW c \in Callers, MarkWorking(c) \/ Release(c) PROVE CallsMatch' /\ RoomToShrink'
  BY <1>0, <1>8 DEF CallsMatch, RoomToShrink, Size, TypeOK, MarkWorking, Release, calls
<1>9. ASSUME NEW p \in Procs, Returns(p), pool' = pool \/ \E a \in Agents : pool' = pool \cup {a}
      PROVE  CallsMatch' /\ RoomToShrink'
  <2>1. call'[Manager] \in {"release", "released"} => call[Manager] \in {"release", "released"}
    BY <1>0, <1>9 DEF TypeOK, Returns
  <2>2. RoomToShrink'
    BY <1>9, <2>1, PoolGrows DEF RoomToShrink, Size
  <2>3. CASE p = Manager BY <1>0, <1>9, <2>2, <2>3 DEF CallsMatch, TypeOK, Returns
  <2>4. CASE p \in Callers BY <1>0, <1>9, <2>2, <2>4 DEF CallsMatch, TypeOK, Returns
  <2> QED BY <2>3, <2>4 DEF Procs
<1>10. ASSUME NEW p \in Procs, Register(p) PROVE CallsMatch' /\ RoomToShrink'
  <2>1. Returns(p) /\ subject[p] \in Agents /\ pool' = pool \cup {subject[p]}
    BY <1>10 DEF TypeOK, Register
  <2> QED BY <1>9, <2>1
<1>11. ASSUME NEW p \in Procs, CallFails(p) PROVE CallsMatch' /\ RoomToShrink'
  BY <1>9, <1>11 DEF CallFails, pools
<1>12. ASSUME NEW p \in Procs, Provision(p) \/ Refuse(p) PROVE CallsMatch' /\ RoomToShrink'
  <2>1. /\ UNCHANGED <<pool, maint, task>>
        /\ \A q \in Procs \ {p} : call'[q] = call[q] /\ subject'[q] = subject[q]
        /\ call[p] = "provision" /\ call'[p] \in {"provisioned", "refused"}
    BY <1>12 DEF TypeOK, Provision, Refuse, pools
  <2>2. CASE p = Manager BY <1>0, <2>1, <2>2 DEF CallsMatch, RoomToShrink
  <2>3. CASE p \in Callers BY <1>0, <2>1, <2>3 DEF CallsMatch, RoomToShrink, Size
  <2> QED BY <2>2, <2>3 DEF Procs
<1>13. ASSUME EndLease PROVE CallsMatch' /\ RoomToShrink'
  BY <1>0, <1>13 DEF CallsMatch, RoomToShrink, Size, TypeOK, EndLease, pools
<1>14. ASSUME NEW a \in Agents, Heartbeat(a) \/ Lapse(a) \/ Elsewhere(a) \/ Expire(a)
       PROVE  CallsMatch' /\ RoomToShrink'
  BY <1>1, <1>14 DEF Heartbeat, Lapse, Elsewhere, Expire, calls, pools
<1>15. ASSUME UNCHANGED vars PROVE CallsMatch' /\ RoomToShrink'
  BY <1>1, <1>15 DEF vars, calls, pools
<1>16. ASSUME BalanceUp PROVE CallsMatch' /\ RoomToShrink'
  BY <1>0, <1>4, <1>16 DEF BalanceUp
<1>17. ASSUME NEW c \in Callers, RequestMore(c) PROVE CallsMatch' /\ RoomToShrink'
  BY <1>0, <1>4, <1>17 DEF RequestMore
<1>18. ASSUME Stop PROVE CallsMatch' /\ RoomToShrink'
  BY <1>0, <1>18 DEF CallsMatch, RoomToShrink, TypeOK, Stop, pools
<1> QED
  BY <1>2, <1>3, <1>5, <1>6, <1>7, <1>8, <1>10, <1>11, <1>12, <1>13, <1>14, <1>15, <1>16, <1>17,
     <1>18 DEF Next, Maintain, Answer

-----------------------------------------------------------------------------
(* Leases *)

Pending(p) == call[p] = "provisioned"

\* What the answers of the provisioner say of the leases: calls for the same
\* identity are for VMs of their own, which the record does not name yet, and the
\* lease is that of the call unless it ended by name.
Answers ==
    \A p \in Procs : Pending(p) =>
        /\ vm[subject[p]] # sent[p]
        /\ lease[subject[p]] = sent[p] \/ subject[p] \in untold
        /\ \A q \in Procs \ {p} : subject[q] = subject[p] => sent[q] # sent[p]

NoRecordNoVM == \A a \in Agents : a \notin pool => vm[a] = 0

LInv == TypeOK /\ CallsMatch /\ Answers /\ NoRecordNoVM /\ PoolLeased

\* A step that changes no vm_id, no call and no lease keeps what is known of them.
LEMMA SameLeases ==
    ASSUME LInv, TypeOK', UNCHANGED <<vm, calls, outside>>, pool \subseteq pool'
    PROVE  Answers' /\ NoRecordNoVM' /\ PoolLeased'
<1>1. Answers' BY DEF LInv, Answers, Pending, calls, outside
<1>2. NoRecordNoVM' BY DEF LInv, NoRecordNoVM
<1>3. ASSUME NEW a \in Agents, a \in pool'
      PROVE  \/ vm'[a] \in {0, lease'[a]}
             \/ call'[Manager] = "released" /\ subject'[Manager] = a
             \/ a \in untold'
  BY <1>3 DEF LInv, PoolLeased, NoRecordNoVM, calls, outside
<1>4. PoolLeased' BY <1>3 DEF PoolLeased, TypeOK
<1> QED BY <1>1, <1>2, <1>4

\* The end of a call leaves the other calls what they are.
LEMMA ReturnsOthers ==
    ASSUME TypeOK, NEW p \in Procs, Returns(p)
    PROVE  /\ call'[p] = "no" /\ subject'[p] = None /\ sent'[p] = 0
           /\ \A q \in Procs \ {p} : /\ call'[q] = call[q] /\ subject'[q] = subject[q]
                                     /\ sent'[q] = sent[q]
  BY DEF TypeOK, Returns

LEMMA NextLeases ==
    ASSUME LInv, [Next]_vars, TypeOK' PROVE Answers' /\ NoRecordNoVM' /\ PoolLeased'
<1> USE WorkforceAssumption DEF Pending
<1> DEFINE Kept == Answers' /\ NoRecordNoVM' /\ PoolLeased'
<1>0. /\ Manager \in Procs /\ Callers \subseteq Procs /\ Manager \notin Callers
      /\ TypeOK /\ CallsMatch /\ Answers /\ NoRecordNoVM /\ PoolLeased
      /\ \A p \in Procs : Pending(p) => subject[p] \in Agents /\ sent[p] \in VMs /\ sent[p] # 0
  BY DEF Procs, LInv, TypeOK
<1>1. ASSUME CheckHealth \/ Balanced PROVE Kept
  BY <1>1, SameLeases DEF CheckHealth, Balanced, pools
<1>2. ASSUME NEW p \in Procs, ScaleUp(p), p = Manager => maint = "balancing" PROVE Kept
  <2>1. /\ UNCHANGED <<pool, vm, subject, sent, lease, untold>> /\ call'[p] = "provision"
        /\ \A q \in Procs \ {p} : call'[q] = call[q]
    BY <1>0, <1>2 DEF TypeOK, ScaleUp, pools, outside
  <2>2. Answers' BY <1>0, <2>1 DEF Answers
  <2>3. call[Manager] = "released" => call'[Manager] = "released"
    <3>1. CASE p = Manager BY <1>0, <1>2, <3>1 DEF CallsMatch
    <3> QED BY <1>0, <2>1, <3>1
  <2> QED BY <1>0, <2>1, <2>2, <2>3 DEF NoRecordNoVM, PoolLeased, TypeOK
<1>3. ASSUME BalanceDown PROVE Kept
  <2>1. PICK a \in Available \cap fresh : ScaleDown(a) BY <1>3 DEF BalanceDown
  <2>2. a \in Agents BY <1>0 DEF Available, TypeOK
  <2>3. /\ call'[Manager] = "release" /\ subject'[Manager] = a /\ sent'[Manager] = vm[a]
        /\ \A q \in Procs \ {Manager} : /\ call'[q] = call[q] /\ subject'[q] = subject[q]
                                        /\ sent'[q] = sent[q]
        /\ UNCHANGED <<pool, vm, lease, untold>> /\ maint = "balancing"
    BY <1>0, <1>3, <2>1 DEF TypeOK, ScaleDown, BalanceDown, pools, outside
  <2>4. Answers' BY <1>0, <2>3 DEF Answers
  <2>5. call[Manager] = "no" BY <1>0, <2>3 DEF CallsMatch
  <2> QED BY <1>0, <2>3, <2>4, <2>5 DEF NoRecordNoVM, PoolLeased, TypeOK
<1>4. ASSUME Delete PROVE Kept
  <2>1. /\ subject[Manager] \in Agents /\ UNCHANGED <<lease, untold>>
        /\ pool' = pool \ {subject[Manager]}
        /\ vm' = [vm EXCEPT ![subject[Manager]] = 0]
        /\ Returns(Manager)
    BY <1>0, <1>4 DEF TypeOK, Delete, Forget, outside
  <2>2. Answers' BY <1>0, <2>1, ReturnsOthers DEF Answers, TypeOK
  <2>3. NoRecordNoVM' BY <1>0, <2>1 DEF NoRecordNoVM, TypeOK
  <2>4. PoolLeased' BY <1>0, <2>1 DEF PoolLeased, TypeOK
  <2> QED BY <2>2, <2>3, <2>4
<1>5. ASSUME NEW c \in Callers, Request(c) \/ MarkWorking(c) \/ Release(c) PROVE Kept
  BY <1>5, SameLeases DEF Request, MarkWorking, Release, pools
<1>6. ASSUME NEW p \in Procs, Register(p) PROVE Kept
  <2> DEFINE a == subject[p]
  <2>1. /\ Returns(p) /\ Pending(p) /\ a \in Agents /\ UNCHANGED lease
        /\ pool' = pool \cup {a} /\ vm' = [vm EXCEPT ![a] = sent[p]]
        /\ untold' = IF lease[a] = sent[p] /\ \A q \in Procs \ {p} : subject[q] # a
                     THEN untold \ {a} ELSE untold
    BY <1>0, <1>6 DEF Register
  <2>2. ASSUME NEW q \in Procs, Pending(q)'
        PROVE  /\ vm'[subject'[q]] # sent'[q]
               /\ lease'[subject'[q]] = sent'[q] \/ subject'[q] \in untold'
               /\ \A r \in Procs \ {q} : subject'[r] = subject'[q] => sent'[r] # sent'[q]
    <3>1. q # p /\ Pending(q) /\ subject'[q] = subject[q] /\ sent'[q] = sent[q] /\ subject[q] \in Agents
      BY <1>0, <2>1, <2>2, ReturnsOthers
    <3>2. vm'[subject[q]] # sent[q]
      <4>1. CASE subject[q] = a BY <1>0, <2>1, <3>1, <4>1 DEF Answers, TypeOK
      <4>2. CASE subject[q] # a BY <1>0, <2>1, <3>1, <4>2 DEF Answers, TypeOK
      <4> QED BY <4>1, <4>2
    <3>3. lease[subject[q]] = sent[q] \/ subject[q] \in untold'
      BY <1>0, <2>1, <3>1 DEF Answers
    <3>4. \A r \in Procs \ {q} : subject'[r] = subject'[q] => sent'[r] # sent'[q]
      BY <1>0, <2>1, <3>1, ReturnsOthers DEF Answers
    <3> QED BY <2>1, <3>1, <3>2, <3>3, <3>4
  <2>3. Answers' BY <2>2 DEF Answers
  <2>4. NoRecordNoVM' BY <1>0, <2>1 DEF NoRecordNoVM, TypeOK
  <2>5. ASSUME NEW b \in Agents, b \in pool'
        PROVE  \/ vm'[b] \in {0, lease'[b]}
               \/ call'[Manager] = "released" /\ subject'[Manager] = b
               \/ b \in untold'
    <3>1. CASE b = a
      BY <1>0, <2>1, <3>1 DEF Answers, TypeOK
    <3>2. CASE b # a
      <4>1. b \in pool /\ vm'[b] = vm[b] BY <1>0, <2>1, <2>5, <3>2 DEF TypeOK
      <4>2. call[Manager] = "released" => /\ call'[Manager] = "released"
                                          /\ subject'[Manager] = subject[Manager]
        BY <1>0, <2>1, ReturnsOthers
      <4> QED BY <1>0, <2>1, <3>2, <4>1, <4>2 DEF PoolLeased
    <3> QED BY <3>1, <3>2
  <2>6. PoolLeased' BY <2>5 DEF PoolLeased, TypeOK
  <2> QED BY <2>3, <2>4, <2>6
<1>7. ASSUME NEW p \in Procs, CallFails(p) PROVE Kept
  <2>1. /\ Returns(p) /\ UNCHANGED <<pool, vm, lease>>
        /\ untold' = IF call[p] = "released" THEN untold \cup {subject[p]} ELSE untold
    BY <1>7 DEF CallFails, pools
  <2>2. Answers' BY <1>0, <2>1, ReturnsOthers DEF Answers
  <2>3. call[Manager] = "released" => \/ subject[Manager] \in untold'
                                      \/ /\ call'[Manager] = "released"
                                         /\ subject'[Manager] = subject[Manager]
    BY <1>0, <2>1, ReturnsOthers
  <2>4. untold \subseteq untold' BY <2>1
  <2> QED BY <1>0, <2>1, <2>2, <2>3, <2>4 DEF NoRecordNoVM, PoolLeased, TypeOK
<1>8. ASSUME NEW p \in Procs, Provision(p) PROVE Kept
  <2>1. PICK a \in Agents, v \in VMs :
          /\ lease[a] = 0
          /\ v \notin {vm[a]} \cup {sent[q] : q \in {r \in Procs : subject[r] = a}}
          /\ lease' = [lease EXCEPT ![a] = v]
          /\ subject' = [subject EXCEPT ![p] = a]
          /\ sent' = [sent EXCEPT ![p] = v]
    BY <1>8 DEF Provision, Leased
  <2>2. /\ call[p] = "provision" /\ call'[p] = "provisioned"
        /\ \A q \in Procs \ {p} : call'[q] = call[q]
        /\ UNCHANGED <<pool, vm, untold>>
    BY <1>0, <1>8 DEF Provision, TypeOK, pools
  <2>3. /\ subject'[p] = a /\ sent'[p] = v
        /\ \A q \in Procs \ {p} : subject'[q] = subject[q] /\ sent'[q] = sent[q]
        /\ \A q \in Procs : subject[q] = a => sent[q] # v
        /\ vm[a] # v /\ lease'[a] = v /\ \A b \in Agents \ {a} : lease'[b] = lease[b]
    BY <1>0, <2>1 DEF TypeOK
  <2>4. ASSUME NEW q \in Procs, Pending(q)'
        PROVE  /\ vm'[subject'[q]] # sent'[q]
               /\ lease'[subject'[q]] = sent'[q] \/ subject'[q] \in untold'
               /\ \A r \in Procs \ {q} : subject'[r] = subject'[q] => sent'[r] # sent'[q]
    <3>1. CASE q = p BY <2>2, <2>3, <3>1
    <3>2. CASE q # p
      <4>1. Pending(q) /\ subject[q] \in Agents /\ sent[q] # 0 BY <1>0, <2>2, <2>4, <3>2
      <4>2. subject[q] = a => subject[q] \in untold BY <1>0, <2>1, <4>1 DEF Answers
      <4>3. \A r \in Procs \ {q} : subject'[r] = subject'[q] => sent'[r] # sent'[q]
        BY <1>0, <2>3, <3>2, <4>1 DEF Answers
      <4> QED BY <1>0, <2>2, <2>3, <3>2, <4>1, <4>2, <4>3 DEF Answers
    <3> QED BY <3>1, <3>2
  <2>5. Answers' BY <2>4 DEF Answers
  <2>6. call[Manager] = "released" => /\ call'[Manager] = "released"
                                      /\ subject'[Manager] = subject[Manager]
    BY <1>0, <2>2, <2>3
  <2>7. PoolLeased' BY <1>0, <2>1, <2>2, <2>3, <2>6 DEF PoolLeased, TypeOK
  <2> QED BY <1>0, <2>2, <2>5, <2>7 DEF NoRecordNoVM
<1>9. ASSUME NEW p \in Procs, Refuse(p) PROVE Kept
  <2>1. /\ call[p] = "provision" /\ call'[p] = "refused"
        /\ \A q \in Procs \ {p} : call'[q] = call[q]
        /\ UNCHANGED <<pool, vm, subject, sent, lease, untold>>
    BY <1>0, <1>9 DEF Refuse, TypeOK, pools, outside
  <2>2. call[Manager] = "released" => call'[Manager] = "released" BY <1>0, <2>1
  <2> QED BY <1>0, <2>1, <2>2 DEF Answers, NoRecordNoVM, PoolLeased, TypeOK
<1>10. ASSUME EndLease PROVE Kept
  <2> DEFINE a == subject[Manager]
  <2>1. /\ a \in Agents /\ call[Manager] = "release" /\ call'[Manager] = "released"
        /\ \A q \in Procs \ {Manager} : call'[q] = call[q]
        /\ UNCHANGED <<pool, vm, subject, sent>>
        /\ lease' = IF sent[Manager] \in {0, lease[a]} THEN [lease EXCEPT ![a] = 0] ELSE lease
        /\ untold' = IF sent[Manager] = 0 THEN untold \cup {a} ELSE untold
    BY <1>0, <1>10 DEF EndLease, TypeOK, pools
  <2>2. ASSUME NEW q \in Procs, Pending(q)'
        PROVE  lease'[subject[q]] = sent[q] \/ subject[q] \in untold'
    <3>1. q # Manager /\ Pending(q) /\ subject[q] \in Agents BY <1>0, <2>1, <2>2
    <3>2. CASE subject[q] # a BY <1>0, <2>1, <3>1, <3>2 DEF Answers, TypeOK
    <3>3. CASE subject[q] = a
      <4>1. sent[Manager] # sent[q] BY <1>0, <3>1, <3>3 DEF Answers
      <4>2. lease[a] = sent[q] \/ a \in untold BY <1>0, <3>1, <3>3 DEF Answers
      <4> QED BY <2>1, <3>3, <4>1, <4>2
    <3> QED BY <3>2, <3>3
  <2>3. Answers' BY <1>0, <2>1, <2>2 DEF Answers
  <2>4. PoolLeased' BY <1>0, <2>1 DEF PoolLeased, TypeOK
  <2> QED BY <1>0, <2>1, <2>3, <2>4 DEF NoRecordNoVM
<1>11. ASSUME NEW a \in Agents, Heartbeat(a) \/ Lapse(a) PROVE Kept
  BY <1>11, SameLeases DEF Heartbeat, Lapse
<1>12. ASSUME UNCHANGED vars PROVE Kept
  BY <1>12, SameLeases DEF vars, pools
<1>13. ASSUME BalanceUp PROVE Kept BY <1>0, <1>2, <1>13 DEF BalanceUp
<1>14. ASSUME NEW c \in Callers, RequestMore(c) PROVE Kept BY <1>0, <1>2, <1>14 DEF RequestMore
<1>15. ASSUME Stop PROVE Kept
  <2>1. /\ call'[Manager] = "no" /\ subject'[Manager] = None /\ sent'[Manager] = 0
        /\ \A q \in Procs \ {Manager} : /\ call'[q] = call[q] /\ subject'[q] = subject[q]
                                        /\ sent'[q] = sent[q]
        /\ UNCHANGED <<pool, vm, lease>>
        /\ untold' = IF call[Manager] = "released" THEN untold \cup {subject[Manager]}
                                                   ELSE untold
    BY <1>0, <1>15 DEF TypeOK, Stop, pools
  <2>2. Answers' BY <1>0, <2>1 DEF Answers
  <2> QED BY <1>0, <2>1, <2>2 DEF NoRecordNoVM, PoolLeased, TypeOK
<1>16. ASSUME NEW a \in Agents, Elsewhere(a) PROVE Kept
  <2>1. PICK v \in VMs : lease[a] = 0 /\ lease' = [lease EXCEPT ![a] = v]
    BY <1>16 DEF Elsewhere, Leased
  <2>2. UNCHANGED <<pool, vm, call, subject, sent, untold>>
    BY <1>16 DEF Elsewhere, pools, calls
  <2>3. Answers' BY <1>0, <2>1, <2>2 DEF Answers, TypeOK
  <2>4. PoolLeased' BY <1>0, <2>1, <2>2 DEF PoolLeased, TypeOK
  <2> QED BY <1>0, <2>2, <2>3, <2>4 DEF NoRecordNoVM
<1>17. ASSUME NEW a \in Agents, Expire(a) PROVE Kept
  <2>1. /\ lease' = [lease EXCEPT ![a] = 0] /\ untold' = untold \cup {a}
        /\ UNCHANGED <<pool, vm, call, subject, sent>>
    BY <1>17 DEF Expire, pools, calls
  <2>2. Answers' BY <1>0, <2>1 DEF Answers, TypeOK
  <2>3. PoolLeased' BY <1>0, <2>1 DEF PoolLeased, TypeOK
  <2> QED BY <1>0, <2>1, <2>2, <2>3 DEF NoRecordNoVM
<1> QED
  BY <1>0, <1>1, <1>3, <1>4, <1>5, <1>6, <1>7, <1>8, <1>9, <1>10, <1>11, <1>12, <1>13, <1>14, <1>15,
     <1>16, <1>17 DEF Next, Maintain, Answer

-----------------------------------------------------------------------------
(* The size of the pool *)

LEMMA Sizes ==
    ASSUME TypeOK
    PROVE  /\ IsFiniteSet(WithVM) /\ Cardinality(WithVM) \in Nat
           /\ Cardinality(WithVM) <= Cardinality(pool) /\ Cardinality(pool) \in Nat
           /\ IsFiniteSet(Asking) /\ Cardinality(Asking) \in Nat
           /\ Cardinality(Callers) \in Nat /\ MaxSize \in Nat
<1>1. IsFiniteSet(Procs) BY WorkforceAssumption, FS_AddElement DEF Procs
<1>2. IsFiniteSet(pool) /\ Cardinality(pool) \in Nat BY PoolFinite
<1>3. WithVM \subseteq pool /\ Asking \subseteq Procs BY DEF WithVM, Asking
<1>4. IsFiniteSet(WithVM) /\ Cardinality(WithVM) <= Cardinality(pool) BY <1>2, <1>3, FS_Subset
<1>5. IsFiniteSet(Asking) BY <1>1, <1>3, FS_Subset
<1> QED BY <1>2, <1>4, <1>5, FS_CardinalityType, WorkforceAssumption

\* Those that ask are among all coroutines, and one of them is not asking yet.
LEMMA OneMore ==
    ASSUME TypeOK, NEW p \in Procs, p \notin Asking
    PROVE  Cardinality(Asking) <= Cardinality(Callers)
<1>1. IsFiniteSet(Procs) /\ Cardinality(Procs) = Cardinality(Callers) + 1
  BY WorkforceAssumption, FS_AddElement DEF Procs
<1>2. IsFiniteSet(Procs \ {p}) /\ Cardinality(Procs \ {p}) = Cardinality(Procs) - 1
  BY <1>1, FS_RemoveElement
<1>3. Asking \subseteq Procs \ {p} BY DEF Asking
<1>4. Cardinality(Asking) <= Cardinality(Procs \ {p}) BY <1>2, <1>3, FS_Subset
<1> QED BY <1>1, <1>2, <1>4, Sizes

\* Fewer VMs and fewer that ask keep the count.
LEMMA NoMore ==
    ASSUME TypeOK, Overshoot, WithVM' \subseteq WithVM, Asking' \subseteq Asking
    PROVE  Overshoot'
<1>1. /\ Cardinality(WithVM') <= Cardinality(WithVM) /\ Cardinality(Asking') <= Cardinality(Asking)
      /\ Cardinality(WithVM') \in Nat /\ Cardinality(Asking') \in Nat
  BY Sizes, FS_Subset, FS_CardinalityType
<1> QED BY <1>1, Sizes DEF Overshoot

LEMMA NextCount == ASSUME TypeOK, NoRecordNoVM, CallsMatch, Overshoot, [Next]_vars PROVE Overshoot'
<1> USE WorkforceAssumption
<1>0. Manager \in Procs /\ Callers \subseteq Procs /\ Manager \notin Callers BY DEF Procs
<1>1. ASSUME NEW p \in Procs, ScaleUp(p), p \notin Asking,
             NeedsScaleUp(Size, Cardinality(Available))
      PROVE  Overshoot'
  <2>1. WithVM' = WithVM /\ Asking' = Asking \cup {p}
    BY <1>1 DEF TypeOK, ScaleUp, WithVM, Asking, pools
  <2>2. Cardinality(Asking') = Cardinality(Asking) + 1 BY <1>1, <2>1, Sizes, FS_AddElement
  <2>3. Cardinality(pool) < MaxSize BY <1>1 DEF NeedsScaleUp, Size
  <2>4. Cardinality(Asking) <= Cardinality(Callers) BY <1>1, OneMore
  <2> QED BY <2>1, <2>2, <2>3, <2>4, Sizes DEF Overshoot
<1>2. ASSUME BalanceUp PROVE Overshoot'
  <2>1. Manager \notin Asking BY <1>2 DEF BalanceUp, CallsMatch, Asking
  <2> QED BY <1>0, <1>1, <1>2, <2>1 DEF BalanceUp
<1>3. ASSUME NEW c \in Callers, RequestMore(c) PROVE Overshoot'
  <2>1. c \notin Asking BY <1>3 DEF RequestMore, CallsMatch, Asking
  <2> QED BY <1>0, <1>1, <1>3, <2>1 DEF RequestMore
<1>4. ASSUME NEW p \in Procs, Register(p) PROVE Overshoot'
  <2>1. /\ p \in Asking /\ subject[p] \in Agents /\ Returns(p)
        /\ pool' = pool \cup {subject[p]} /\ vm' = [vm EXCEPT ![subject[p]] = sent[p]]
    BY <1>4 DEF TypeOK, Register, Asking
  <2>2. WithVM' \subseteq WithVM \cup {subject[p]} BY <2>1 DEF TypeOK, WithVM
  <2>3. Asking' = Asking \ {p} BY <2>1 DEF TypeOK, Asking, Returns
  <2>4. Cardinality(Asking') = Cardinality(Asking) - 1 BY <2>1, <2>3, Sizes, FS_RemoveElement
  <2>5. /\ IsFiniteSet(WithVM \cup {subject[p]})
        /\ Cardinality(WithVM \cup {subject[p]}) =
               IF subject[p] \in WithVM THEN Cardinality(WithVM) ELSE Cardinality(WithVM) + 1
    BY Sizes, FS_AddElement, Zenon
  <2>6. IsFiniteSet(WithVM') /\ Cardinality(WithVM') <= Cardinality(WithVM \cup {subject[p]})
    BY <2>2, <2>5, FS_Subset
  <2>7. Cardinality(WithVM') \in Nat BY <2>6, FS_CardinalityType
  <2> QED BY <2>4, <2>5, <2>6, <2>7, Sizes DEF Overshoot
<1>5. ASSUME NEW p \in Procs, CallFails(p) PROVE Overshoot'
  BY <1>5, NoMore DEF TypeOK, CallFails, Returns, WithVM, Asking, pools
<1>6. ASSUME BalanceDown PROVE Overshoot'
  <2>1. PICK a \in Available \cap fresh : ScaleDown(a) BY <1>6 DEF BalanceDown
  <2> QED BY <1>0, <2>1, NoMore DEF TypeOK, ScaleDown, WithVM, Asking, pools
<1>7. ASSUME Delete PROVE Overshoot'
  BY <1>0, <1>7, NoMore DEF TypeOK, Delete, Forget, Returns, WithVM, Asking
<1>8. ASSUME NEW p \in Procs, Provision(p) \/ Refuse(p) PROVE Overshoot'
  BY <1>8, NoMore DEF TypeOK, Provision, Refuse, WithVM, Asking, pools
<1>9. ASSUME EndLease PROVE Overshoot'
  BY <1>0, <1>9, NoMore DEF TypeOK, EndLease, WithVM, Asking, pools
<1>10. ASSUME \/ UNCHANGED <<pool, vm, call>>
              \/ \E a \in Agents : pool' = pool \cup {a} /\ UNCHANGED <<vm, call>>
       PROVE  Overshoot'
  BY <1>10, NoMore DEF NoRecordNoVM, TypeOK, WithVM, Asking
<1>11. ASSUME CheckHealth \/ Balanced \/ UNCHANGED vars PROVE Overshoot'
  BY <1>10, <1>11 DEF CheckHealth, Balanced, vars, pools, calls
<1>12. ASSUME NEW c \in Callers, Request(c) \/ MarkWorking(c) \/ Release(c) PROVE Overshoot'
  BY <1>10, <1>12 DEF Request, MarkWorking, Release, pools, calls
<1>13. ASSUME NEW a \in Agents, Heartbeat(a) \/ Lapse(a) \/ Elsewhere(a) \/ Expire(a)
       PROVE  Overshoot'
  BY <1>10, <1>13 DEF Heartbeat, Lapse, Elsewhere, Expire, calls, pools
<1>14. ASSUME Stop PROVE Overshoot'
  BY <1>0, <1>14, NoMore DEF TypeOK, Stop, WithVM, Asking, pools
<1> QED
  BY <1>0, <1>2, <1>3, <1>4, <1>5, <1>6, <1>7, <1>8, <1>9, <1>11, <1>12, <1>13, <1>14
  DEF Next, Maintain, Answer

-----------------------------------------------------------------------------
(* The theorems *)

IInv ==
    /\ TypeOK /\ CallsMatch /\ RoomToShrink
    /\ Answers /\ NoRecordNoVM /\ PoolLeased /\ Overshoot

LEMMA InitInv == Init => IInv
<1> SUFFICES ASSUME Init PROVE IInv OBVIOUS
<1> USE WorkforceAssumption
<1>1. TypeOK BY DEF Init, TypeOK, States, CallStates, Procs
<1>2. CallsMatch /\ RoomToShrink /\ Answers /\ NoRecordNoVM /\ PoolLeased
  BY DEF Init, CallsMatch, RoomToShrink, Answers, Pending, NoRecordNoVM, PoolLeased, Procs
<1>3. WithVM = {} /\ Asking = {} BY DEF Init, WithVM, Asking
<1>4. Overshoot BY <1>1, <1>3, FS_EmptySet, Sizes DEF Overshoot
<1> QED BY <1>1, <1>2, <1>4 DEF IInv

\* The inductive invariant of a pool.
THEOREM Inductive == Spec => []IInv
<1>1. IInv /\ [Next]_vars => IInv'
  BY NextType, NextCalls, NextLeases, NextCount DEF IInv, LInv
<1> QED BY InitInv, <1>1, PTL DEF Spec

\* The variables keep their types.
THEOREM TypeCorrect == Spec => []TypeOK
<1>1. IInv => TypeOK BY DEF IInv
<1> QED BY Inductive, <1>1, PTL

\* The record a release was asked for is there when its answer comes: the deletion
\* of a record never fails (workforce.py:438).
THEOREM CallsMatched == Spec => []CallsMatch
<1>1. IInv => CallsMatch BY DEF IInv
<1> QED BY Inductive, <1>1, PTL

\* Outside the answer of a release, a VM the pool knows has the lease of its
\* identity, unless that ended by name, at its term or with a failing answer.
THEOREM RecordsAreLeased == Spec => []PoolLeased
<1>1. IInv => PoolLeased BY DEF IInv
<1> QED BY Inductive, <1>1, PTL

\* The maximal size is exceeded by at most one agent for each caller, those that
\* are asked for included.
THEOREM OvershootBounded == Spec => []Overshoot
<1>1. IInv => Overshoot
  BY DEF IInv
<1> QED BY Inductive, <1>1, PTL

\* Scaling down never takes a pool below its minimal size.
THEOREM MinimumKept == Spec => MinKept
<1> DEFINE Shrinks == pool' # pool /\ pool' \subseteq pool
<1>1. ASSUME IInv, [Next]_vars, Shrinks PROVE Cardinality(pool') >= MinSize
  <2>1. TypeOK /\ CallsMatch /\ RoomToShrink BY <1>1 DEF IInv
  <2>2. Delete
    BY <1>1 DEF Next, Maintain, Answer, CheckHealth, BalanceUp, BalanceDown, Balanced, ScaleUp,
         ScaleDown, Request, RequestMore, MarkWorking, Release, Register, CallFails, Provision,
         Refuse, EndLease, Elsewhere, Expire, Heartbeat, Lapse, Stop, vars, pools
  <2>3. pool' = pool \ {subject[Manager]} /\ subject[Manager] \in pool /\ Size > MinSize
    BY <2>1, <2>2 DEF Delete, Forget, CallsMatch, RoomToShrink
  <2>4. Cardinality(pool') = Cardinality(pool) - 1 /\ Cardinality(pool) \in Nat
    BY <2>1, <2>3, PoolFinite, FS_RemoveElement
  <2> QED BY <2>3, <2>4, WorkforceAssumption DEF Size
<1>2. IInv /\ [Next]_vars => [Shrinks => Cardinality(pool') >= MinSize]_vars BY <1>1
<1> QED BY Inductive, <1>2, PTL DEF Spec, MinKept

=============================================================================
