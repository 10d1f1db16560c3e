-------------------------- MODULE Escalation_proofs --------------------------
(***************************************************************************)
(* What holds of escalations for any number of coordinators and levels they *)
(* listen to.                                                               *)
(***************************************************************************)
EXTENDS Escalation, TLAPS

USE DEF Level

-----------------------------------------------------------------------------
(* Type correctness *)

LEMMA PublishType ==
    ASSUME TypeOK, NEW e \in Escs, NEW l \in Level, Publish(e, l)
    PROVE  /\ inbox' \in [Coordinators -> [Level -> Seq(Escs)]]
           /\ human' \subseteq Escs /\ unheard' \subseteq Escs /\ doubled' \subseteq Escs
<1>1. ASSUME NEW c \in Coordinators
      PROVE  [inbox[c] EXCEPT ![l] = Append(@, e)] \in [Level -> Seq(Escs)]
  BY DEF TypeOK
<1>2. inbox' \in [Coordinators -> [Level -> Seq(Escs)]]
  BY <1>1 DEF TypeOK, Publish
<1> QED BY <1>2 DEF TypeOK, Publish

LEMMA ReceiveType ==
    ASSUME TypeOK, NEW c \in Coordinators, NEW l \in Level, Receive(c, l)
    PROVE  /\ inbox' \in [Coordinators -> [Level -> Seq(Escs)]]
           /\ queue' \in [Coordinators -> Seq(Escs)]
<1>1. /\ inbox[c] \in [Level -> Seq(Escs)] /\ inbox[c][l] \in Seq(Escs)
      /\ inbox[c][l] # <<>> /\ queue[c] \in Seq(Escs)
  BY DEF TypeOK, Receive
<1>2. Tail(inbox[c][l]) \in Seq(Escs) /\ Append(queue[c], Head(inbox[c][l])) \in Seq(Escs)
  BY <1>1
<1>3. [inbox[c] EXCEPT ![l] = Tail(@)] \in [Level -> Seq(Escs)]
  BY <1>1, <1>2
<1> QED BY <1>2, <1>3 DEF TypeOK, Receive

LEMMA NextType == ASSUME TypeOK, [Next]_vars PROVE TypeOK'
<1> USE EscalationAssumption
<1>1. ASSUME NEW e \in Escs, Raise(e) PROVE TypeOK'
  <2>1. Path[e] \in Level /\ Publish(e, Path[e]) BY <1>1 DEF Raise
  <2>2. /\ inbox' \in [Coordinators -> [Level -> Seq(Escs)]]
        /\ human' \subseteq Escs /\ unheard' \subseteq Escs /\ doubled' \subseteq Escs
    BY <2>1, PublishType
  <2>3. /\ raised' = raised \cup {e}
        /\ UNCHANGED <<queue, current, running, notified, failures, stops>>
    BY <1>1 DEF Raise
  <2> QED BY <2>2, <2>3 DEF TypeOK, current
<1>2. ASSUME NEW c \in Coordinators, NEW l \in Level, Receive(c, l) PROVE TypeOK'
  <2>1. inbox' \in [Coordinators -> [Level -> Seq(Escs)]] BY <1>2, ReceiveType
  <2>2. queue' \in [Coordinators -> Seq(Escs)] BY <1>2, ReceiveType
  <2>3. UNCHANGED <<raised, current, running, outside, failures, stops>>
    BY <1>2 DEF Receive
  <2> QED BY <2>1, <2>2, <2>3 DEF TypeOK, current, outside
<1>3. ASSUME NEW c \in Coordinators, Take(c) PROVE TypeOK'
  <2>1. queue[c] \in Seq(Escs) /\ queue[c] # <<>> BY <1>3 DEF TypeOK, Take
  <2>2. Head(queue[c]) \in Escs /\ Tail(queue[c]) \in Seq(Escs) BY <2>1
  <2> QED BY <1>3, <2>2 DEF TypeOK, Take, outside
<1>4. ASSUME NEW c \in Coordinators, Attempt(c) PROVE TypeOK'
  BY <1>4 DEF TypeOK, Attempt, outside
<1>5. ASSUME NEW c \in Coordinators, Notify(c) PROVE TypeOK'
  <2>1. /\ notified' \in [Escs -> Nat]
        /\ pc' = [pc EXCEPT ![c] = "idle"]
        /\ UNCHANGED <<raised, inbox, queue, work, level, running, human, unheard, doubled,
                       failures, stops>>
    BY <1>5 DEF TypeOK, Notify
  <2> QED BY <2>1 DEF TypeOK
<1>6. ASSUME NEW c \in Coordinators, NotifyFails(c) PROVE TypeOK'
  BY <1>6 DEF TypeOK, NotifyFails, Fails, outside
<1>7. ASSUME NEW c \in Coordinators, ReEscalate(c) PROVE TypeOK'
  <2>1. work[c] \in Escs /\ Above[level[c]] \in Level
    BY <1>7 DEF TypeOK, ReEscalate, Above
  <2>2. /\ inbox' \in [Coordinators -> [Level -> Seq(Escs)]]
        /\ human' \subseteq Escs /\ unheard' \subseteq Escs /\ doubled' \subseteq Escs
    BY <1>7, <2>1, PublishType DEF ReEscalate
  <2>3. /\ pc' = [pc EXCEPT ![c] = "idle"]
        /\ UNCHANGED <<raised, queue, work, level, running, notified, failures, stops>>
    BY <1>7 DEF ReEscalate
  <2> QED BY <2>2, <2>3 DEF TypeOK
<1>8. ASSUME NEW c \in Coordinators, ReEscalateFails(c) PROVE TypeOK'
  BY <1>8 DEF TypeOK, ReEscalateFails, Fails, Above, outside
<1>9. ASSUME NEW c \in Coordinators, Stop(c) PROVE TypeOK'
  BY <1>9 DEF TypeOK, Stop, outside
<1>10. CASE UNCHANGED vars
  BY <1>10 DEF TypeOK, vars, current, outside
<1> QED
  BY <1>1, <1>2, <1>3, <1>4, <1>5, <1>6, <1>7, <1>8, <1>9, <1>10 DEF Next, Process

\* The variables keep their types; a record is at TEAM until an error raises it
\* to DEPARTMENT, and is never above (_re_escalate).
THEOREM TypeCorrect == Spec => []TypeOK
<1>1. Init => TypeOK BY EscalationAssumption DEF Init, TypeOK
<1> QED BY <1>1, NextType, PTL DEF Spec

-----------------------------------------------------------------------------
(* Escalations are accounted for *)

LEMMA InAppend ==
    ASSUME NEW s \in Seq(Escs), NEW x \in Escs
    PROVE  In(x, Append(s, x)) /\ \A e \in Escs : In(e, s) => In(e, Append(s, x))
<1>1. Len(Append(s, x)) = Len(s) + 1 /\ Append(s, x)[Len(s) + 1] = x
      /\ \A i \in 1..Len(s) : Append(s, x)[i] = s[i]
  OBVIOUS
<1> QED BY <1>1 DEF In

LEMMA InTail ==
    ASSUME NEW s \in Seq(Escs), s # <<>>, NEW e \in Escs, In(e, s)
    PROVE  e = Head(s) \/ In(e, Tail(s))
<1>1. PICK i \in 1..Len(s) : s[i] = e BY DEF In
<1>2. CASE i = 1 BY <1>1, <1>2
<1>3. CASE i > 1
  <2>1. i - 1 \in 1..Len(Tail(s)) /\ Tail(s)[i - 1] = e BY <1>1, <1>3
  <2> QED BY <2>1 DEF In
<1> QED BY <1>1, <1>2, <1>3

\* What was published is with a subscriber, the operators, or nobody; what was
\* on its way still is.
LEMMA Published ==
    ASSUME TypeOK, NEW x \in Escs, NEW l \in Level, Publish(x, l)
    PROVE  /\ x \in human' \cup unheard' \/ \E c \in Coordinators : In(x, inbox'[c][l])
           /\ human \subseteq human' /\ unheard \subseteq unheard'
           /\ \A c \in Coordinators, k \in Level, e \in Escs :
                In(e, inbox[c][k]) => In(e, inbox'[c][k])
<1>1. ASSUME NEW c \in Coordinators, NEW k \in Level
      PROVE  /\ inbox[c][k] \in Seq(Escs)
             /\ inbox'[c][k] = IF c \in Subscribers(l) /\ k = l
                               THEN Append(inbox[c][l], x) ELSE inbox[c][k]
  BY DEF TypeOK, Publish
<1>2. ASSUME NEW c \in Coordinators, NEW k \in Level, NEW e \in Escs, In(e, inbox[c][k])
      PROVE  In(e, inbox'[c][k])
  BY <1>1, <1>2, InAppend
<1>3. ASSUME NEW c \in Subscribers(l) PROVE c \in Coordinators /\ In(x, inbox'[c][l])
  <2>1. c \in Coordinators BY DEF TypeOK, Subscribers
  <2> QED BY <2>1, <1>1, InAppend
<1>4. /\ x \in human' \cup unheard' \/ \E c \in Coordinators : c \in Subscribers(l)
      /\ human \subseteq human' /\ unheard \subseteq unheard'
  <2>1. \A c \in Subscribers(l) : c \in Coordinators BY DEF TypeOK, Subscribers
  <2>2. x \in human' \cup unheard' \/ Subscribers(l) # {}
    BY DEF Publish
  <2>3. human \subseteq human' /\ unheard \subseteq unheard' BY DEF Publish
  <2> QED BY <2>1, <2>2, <2>3
<1> QED BY <1>2, <1>3, <1>4

\* A record is re-escalated from the exception handler only after an error.
ErrorCounted == \A c \in Coordinators : pc[c] = "error" => failures >= 1

Excused(e) == notified[e] > 0 \/ e \in human \cup unheard \/ failures >= 2 \/ stops > 0

LEMMA HeldReceive ==
    ASSUME TypeOK, NEW c \in Coordinators, NEW l \in Level, Receive(c, l),
           NEW d \in Coordinators, NEW e \in Escs, Held(d, e)
    PROVE  Held(d, e)'
<1>1. /\ inbox[c][l] \in Seq(Escs) /\ inbox[c][l] # <<>> /\ queue[c] \in Seq(Escs)
      /\ Head(inbox[c][l]) \in Escs
      /\ inbox' = [inbox EXCEPT ![c][l] = Tail(@)]
      /\ queue' = [queue EXCEPT ![c] = Append(@, Head(inbox[c][l]))]
      /\ pc' = pc /\ work' = work
  <2>1. inbox[c][l] \in Seq(Escs) /\ inbox[c][l] # <<>> /\ queue[c] \in Seq(Escs)
    BY DEF Receive, TypeOK
  <2>2. Head(inbox[c][l]) \in Escs BY <2>1
  <2> QED BY <2>1, <2>2 DEF Receive, current
<1>2. inbox'[c][l] = Tail(inbox[c][l]) /\ queue'[c] = Append(queue[c], Head(inbox[c][l]))
  BY <1>1 DEF TypeOK
<1>3. In(e, queue[d]) => In(e, queue'[d])
  BY <1>1, <1>2, InAppend DEF TypeOK
<1>4. ASSUME NEW k \in Level, In(e, inbox[d][k]) PROVE Held(d, e)'
  <2>1. CASE d = c /\ k = l
    BY <1>1, <1>2, <1>4, <2>1, InTail, InAppend DEF Held
  <2>2. CASE ~(d = c /\ k = l)
    <3>1. inbox'[d][k] = inbox[d][k] BY <1>1, <2>2 DEF TypeOK
    <3> QED BY <1>4, <3>1 DEF Held
  <2> QED BY <2>1, <2>2
<1> QED BY <1>1, <1>3, <1>4 DEF Held

LEMMA HeldTake ==
    ASSUME TypeOK, NEW c \in Coordinators, Take(c),
           NEW d \in Coordinators, NEW e \in Escs, Held(d, e)
    PROVE  Held(d, e)'
<1>1. /\ queue[c] \in Seq(Escs) /\ queue[c] # <<>> /\ pc[c] = "idle" /\ inbox' = inbox
      /\ queue'[c] = Tail(queue[c]) /\ work'[c] = Head(queue[c]) /\ pc'[c] = "assigned"
  BY DEF Take, TypeOK
<1>2. CASE d = c BY <1>1, <1>2, InTail DEF Held
<1>3. CASE d # c BY <1>1, <1>3 DEF Held, Take, TypeOK
<1> QED BY <1>2, <1>3

\* The other steps of the processor: c keeps what is on its way to it or queued,
\* and gives up what it works on at most.
LEMMA HeldOther ==
    ASSUME TypeOK, NEW c \in Coordinators, queue' = queue, work' = work, NEW to,
           pc' = [pc EXCEPT ![c] = to],
           \A d \in Coordinators, k \in Level, e \in Escs :
               In(e, inbox[d][k]) => In(e, inbox'[d][k]),
           NEW d \in Coordinators, NEW e \in Escs, Held(d, e),
           d # c \/ e # work[c] \/ to # "idle"
    PROVE  Held(d, e)'
<1>1. CASE d = c
  <2>1. pc'[d] = to BY <1>1 DEF TypeOK
  <2> QED BY <2>1, <1>1 DEF Held
<1>2. CASE d # c
  <2>1. pc'[d] = pc[d] BY <1>2 DEF TypeOK
  <2> QED BY <2>1 DEF Held
<1> QED BY <1>1, <1>2

LEMMA NextErrors ==
    ASSUME TypeOK, ErrorCounted, [Next]_vars PROVE ErrorCounted'
<1> USE DEF TypeOK, ErrorCounted
<1>1. ASSUME NEW e \in Escs, Raise(e) PROVE ErrorCounted' BY <1>1 DEF Raise, current
<1>2. ASSUME NEW c \in Coordinators, Process(c) PROVE ErrorCounted'
  BY <1>2 DEF Process, Take, Attempt, Notify, ReEscalate
<1>3. ASSUME NEW c \in Coordinators, NotifyFails(c) \/ ReEscalateFails(c)
      PROVE  ErrorCounted'
  BY <1>3 DEF NotifyFails, ReEscalateFails, Fails
<1>4. ASSUME NEW c \in Coordinators, Stop(c) PROVE ErrorCounted' BY <1>4 DEF Stop
<1>5. ASSUME NEW c \in Coordinators, NEW l \in Level, Receive(c, l) PROVE ErrorCounted'
  BY <1>5 DEF Receive, current
<1>6. CASE UNCHANGED vars BY <1>6 DEF vars, current
<1> QED BY <1>1, <1>2, <1>3, <1>4, <1>5, <1>6 DEF Next

\* An escalation a coordinator has keeps being accounted for.
LEMMA HeldAccounted ==
    ASSUME TypeOK, TypeOK', ErrorCounted, [Next]_vars,
           NEW d \in Coordinators, NEW e \in Escs, Held(d, e)
    PROVE  Excused(e)' \/ \E c \in Coordinators : Held(c, e)'
<1> DEFINE Good == Excused(e)' \/ \E c \in Coordinators : Held(c, e)'
<1>1. ASSUME NEW x \in Escs, Raise(x) PROVE Good
  <2>1. Publish(x, Path[x]) /\ Path[x] \in Level /\ queue' = queue /\ work' = work /\ pc' = pc
    BY <1>1, EscalationAssumption DEF Raise, current
  <2>2. Held(d, e)' BY <2>1, Published DEF Held
  <2> QED BY <2>2
<1>2. ASSUME NEW c \in Coordinators, NEW l \in Level, Receive(c, l) PROVE Good
  BY <1>2, HeldReceive
<1>3. ASSUME NEW c \in Coordinators, Take(c) PROVE Good BY <1>3, HeldTake
<1>4. ASSUME NEW c \in Coordinators, Attempt(c) PROVE Good
  <2>1. PICK to \in {"resolved", "open"} : pc' = [pc EXCEPT ![c] = to] BY <1>4 DEF Attempt
  <2>2. queue' = queue /\ work' = work /\ inbox' = inbox BY <1>4 DEF Attempt
  <2> QED BY <2>1, <2>2, HeldOther
<1>5. ASSUME NEW c \in Coordinators, Notify(c) PROVE Good
  <2>1. /\ pc' = [pc EXCEPT ![c] = "idle"] /\ queue' = queue /\ work' = work /\ inbox' = inbox
        /\ work[c] \in Escs /\ notified' = [notified EXCEPT ![work[c]] = @ + 1]
    BY <1>5 DEF Notify, TypeOK
  <2>2. CASE e = work[c] BY <2>1, <2>2 DEF Excused, TypeOK
  <2>3. CASE e # work[c] BY <2>1, <2>3, HeldOther
  <2> QED BY <2>2, <2>3
<1>6. ASSUME NEW c \in Coordinators, NotifyFails(c) PROVE Good
  <2>1. pc' = [pc EXCEPT ![c] = "error"] /\ queue' = queue /\ work' = work /\ inbox' = inbox
    BY <1>6 DEF NotifyFails
  <2>2. PICK to \in {"error"} : pc' = [pc EXCEPT ![c] = to] BY <2>1
  <2> QED BY <2>1, <2>2, HeldOther
<1>7. ASSUME NEW c \in Coordinators, ReEscalate(c) PROVE Good
  <2>1. /\ work[c] \in Escs /\ Above[level[c]] \in Level /\ Publish(work[c], Above[level[c]])
        /\ pc' = [pc EXCEPT ![c] = "idle"] /\ queue' = queue /\ work' = work
    <3>1. pc[c] \in {"open", "error"} /\ work[c] \in Escs BY <1>7 DEF ReEscalate, TypeOK
    <3>2. level[c] \in {"team", "department"} BY <3>1 DEF TypeOK
    <3>3. Above[level[c]] \in Level BY <3>2 DEF Above
    <3> QED BY <1>7, <3>1, <3>3 DEF ReEscalate
  <2>2. CASE e = work[c]
    <3>1. e \in human' \cup unheard' \/ \E k \in Coordinators : In(e, inbox'[k][Above[level[c]]])
      BY <2>1, <2>2, Published
    <3> QED BY <2>1, <3>1 DEF Excused, Held
  <2>3. CASE e # work[c] BY <2>1, <2>3, Published, HeldOther
  <2> QED BY <2>2, <2>3
<1>8. ASSUME NEW c \in Coordinators, ReEscalateFails(c) PROVE Good
  <2>1. /\ pc' = [pc EXCEPT ![c] = IF pc[c] = "open" THEN "error" ELSE "idle"]
        /\ queue' = queue /\ work' = work /\ inbox' = inbox
        /\ failures' = failures + 1 /\ pc[c] \in {"open", "error"}
    BY <1>8 DEF ReEscalateFails, Fails
  <2>2. CASE pc[c] = "open" BY <2>1, <2>2, HeldOther
  <2>3. CASE pc[c] = "error"
    BY <2>1, <2>3 DEF Excused, ErrorCounted, TypeOK
  <2> QED BY <2>1, <2>2, <2>3
<1>9. ASSUME NEW c \in Coordinators, Stop(c) PROVE Good
  BY <1>9 DEF Stop, Excused, TypeOK
<1>10. CASE UNCHANGED vars BY <1>10 DEF vars, current, Held
<1> QED
  BY <1>1, <1>2, <1>3, <1>4, <1>5, <1>6, <1>7, <1>8, <1>9, <1>10 DEF Next, Process

\* No step takes an excuse back.
LEMMA ExcusedStays ==
    ASSUME TypeOK, TypeOK', [Next]_vars, NEW e \in Escs, Excused(e) PROVE Excused(e)'
<1> USE EscalationAssumption DEF Excused, TypeOK
<1>1. ASSUME NEW x \in Escs, Raise(x) PROVE Excused(e)' BY <1>1 DEF Raise, Publish
<1>2. ASSUME NEW c \in Coordinators, Process(c) PROVE Excused(e)'
  <2>1. CASE Take(c) \/ Attempt(c) BY <2>1 DEF Take, Attempt, outside
  <2>2. CASE Notify(c) BY <2>2 DEF Notify
  <2>3. CASE ReEscalate(c) BY <2>3 DEF ReEscalate, Publish
  <2> QED BY <1>2, <2>1, <2>2, <2>3 DEF Process
<1>3. ASSUME NEW c \in Coordinators, NotifyFails(c) \/ ReEscalateFails(c) PROVE Excused(e)'
  BY <1>3 DEF NotifyFails, ReEscalateFails, Fails, outside
<1>4. ASSUME NEW c \in Coordinators, Stop(c) PROVE Excused(e)' BY <1>4 DEF Stop, outside
<1>5. ASSUME NEW c \in Coordinators, NEW l \in Level, Receive(c, l) PROVE Excused(e)'
  BY <1>5 DEF Receive, outside
<1>6. CASE UNCHANGED vars BY <1>6 DEF vars, outside
<1> QED BY <1>1, <1>2, <1>3, <1>4, <1>5, <1>6 DEF Next

LEMMA NextAccounted ==
    ASSUME TypeOK, TypeOK', ErrorCounted, Accounted, [Next]_vars PROVE Accounted'
<1>1. SUFFICES ASSUME NEW e \in raised'
               PROVE  Excused(e)' \/ \E c \in Coordinators : Held(c, e)'
  BY DEF Accounted, Excused
<1>2. e \in Escs BY DEF TypeOK
<1>3. CASE e \in raised
  <2>1. Excused(e) \/ \E c \in Coordinators : Held(c, e) BY <1>3 DEF Accounted, Excused
  <2> QED BY <1>2, <2>1, HeldAccounted, ExcusedStays
<1>4. CASE e \notin raised
  <2>1. Raise(e)
    BY <1>4 DEF Next, vars, Process, Raise, Receive, Take, Attempt, Notify, NotifyFails,
                ReEscalate, ReEscalateFails, Stop
  <2>2. Publish(e, Path[e]) /\ Path[e] \in Level
    BY <1>2, <2>1, EscalationAssumption DEF Raise
  <2> QED BY <1>2, <2>2, Published DEF Excused, Held
<1> QED BY <1>3, <1>4

\* An escalation leaves the coordinators only for the operators, with an answer
\* to its agent, or because nobody listens, a coordinator stopped or two
\* publications failed (_process_escalation, _re_escalate).
THEOREM EscalationsAccounted == Spec => []Accounted
<1>1. Init => ErrorCounted /\ Accounted BY DEF Init, ErrorCounted, Accounted
<1>2. TypeOK /\ TypeOK' /\ ErrorCounted /\ Accounted /\ [Next]_vars
      => (ErrorCounted /\ Accounted)'
  BY NextErrors, NextAccounted
<1> QED BY <1>1, <1>2, TypeCorrect, PTL DEF Spec
-----------------------------------------------------------------------------
(* One answer *)

\* Where an escalation can be: in the i-th message of an inbox, the i-th record of
\* the queue, or the record the processor works on.
Slots == Level \cup {"queue", "work"}

At(c, s, i, e) ==
    \/ s \in Level /\ i \in 1..Len(inbox[c][s]) /\ inbox[c][s][i] = e
    \/ s = "queue" /\ i \in 1..Len(queue[c]) /\ queue[c][i] = e
    \/ s = "work" /\ i = 1 /\ pc[c] # "idle" /\ work[c] = e

\* It is in one place at most, and nowhere before it is raised and after its agent
\* was notified.
InOnePlace(e) ==
    \A c, d \in Coordinators, s, t \in Slots, i, j \in Nat :
       At(c, s, i, e) /\ At(d, t, j, e) => c = d /\ s = t /\ i = j

Nowhere(e) == \A c \in Coordinators, s \in Slots, i \in Nat : ~ At(c, s, i, e)

Single(e) ==
    /\ InOnePlace(e)
    /\ e \notin raised => Nowhere(e) /\ notified[e] = 0
    /\ notified[e] > 0 => Nowhere(e)
    /\ notified[e] <= 1

\* A step that moves at most the first of one place to another, where it is the
\* n-th, while the others of its place move up.
Moves(e, c, from, b, to, n) ==
    \A d \in Coordinators, s \in Slots, i \in Nat : At(d, s, i, e)' =>
       \/ At(d, s, i, e) /\ ~ (d = c /\ s = from)
       \/ d = c /\ s = from /\ i >= 1 /\ At(c, from, i + 1, e)
       \/ d = b /\ s = to /\ i = n /\ At(c, from, 1, e)

LEMMA SingleMoved ==
    ASSUME TypeOK, NEW e \in Escs, Single(e), notified'[e] = notified[e], raised' = raised,
           NEW c \in Coordinators, NEW from \in Slots, NEW b, NEW to, NEW n,
           Moves(e, c, from, b, to, n)
    PROVE  Single(e)'
<1> USE DEF Moves
<1>1. ASSUME NEW d \in Coordinators, NEW s \in Slots, NEW i \in Nat, At(d, s, i, e)'
      PROVE  ~ Nowhere(e)
  BY <1>1 DEF Nowhere
<1>2. InOnePlace(e)'
  <2> HIDE DEF Level
  <2> SUFFICES ASSUME NEW d \in Coordinators, NEW g \in Coordinators, NEW s \in Slots,
                      NEW t \in Slots, NEW i \in Nat, NEW j \in Nat,
                      At(d, s, i, e)', At(g, t, j, e)'
               PROVE  d = g /\ s = t /\ i = j
    BY DEF InOnePlace, Slots
  <2>1. CASE At(d, s, i, e) /\ ~ (d = c /\ s = from) BY <2>1 DEF Single, InOnePlace
  <2>2. CASE d = c /\ s = from /\ i >= 1 /\ At(c, from, i + 1, e)
    BY <2>2 DEF Single, InOnePlace
  <2>3. CASE d = b /\ s = to /\ i = n /\ At(c, from, 1, e)
    BY <2>3 DEF Single, InOnePlace
  <2> QED BY <2>1, <2>2, <2>3
<1>3. Nowhere(e) => Nowhere(e)' BY <1>1 DEF Nowhere
<1> QED BY <1>2, <1>3 DEF Single

\* A step that moves nothing of e.
LEMMA SingleStays ==
    ASSUME TypeOK, NEW e \in Escs, Single(e), notified'[e] = notified[e],
           e \in raised' <=> e \in raised,
           \A d \in Coordinators, s \in Slots, i \in Nat : At(d, s, i, e)' => At(d, s, i, e)
    PROVE  Single(e)'
<1>1. InOnePlace(e)' BY DEF Single, InOnePlace
<1>2. Nowhere(e) => Nowhere(e)' BY DEF Nowhere
<1> QED BY <1>1, <1>2 DEF Single

\* What a publication adds to an inbox is the message, at the end.
Adds(x, l) ==
    \A d \in Coordinators, k \in Level, i \in Nat : i \in 1..Len(inbox'[d][k]) =>
       \/ i \in 1..Len(inbox[d][k]) /\ inbox'[d][k][i] = inbox[d][k][i]
       \/ d \in Subscribers(l) /\ k = l /\ i = Len(inbox[d][l]) + 1 /\ inbox'[d][k][i] = x

LEMMA PublishedLast ==
    ASSUME TypeOK, NEW x \in Escs, NEW l \in Level, Publish(x, l) PROVE Adds(x, l)
<1> SUFFICES ASSUME NEW d \in Coordinators, NEW k \in Level, NEW i \in Nat,
                    i \in 1..Len(inbox'[d][k])
             PROVE  \/ i \in 1..Len(inbox[d][k]) /\ inbox'[d][k][i] = inbox[d][k][i]
                    \/ /\ d \in Subscribers(l) /\ k = l /\ i = Len(inbox[d][l]) + 1
                       /\ inbox'[d][k][i] = x
  BY DEF Adds
<1>1. inbox[d][k] \in Seq(Escs) BY DEF TypeOK
<1>2. CASE d \notin Subscribers(l) \/ k # l
  <2>1. inbox'[d][k] = inbox[d][k] BY <1>2 DEF Publish, TypeOK
  <2> QED BY <2>1
<1>3. CASE d \in Subscribers(l) /\ k = l
  <2>1. inbox'[d][k] = Append(inbox[d][k], x) BY <1>3 DEF Publish, TypeOK
  <2> QED BY <1>1, <1>3, <2>1
<1> QED BY <1>2, <1>3

\* A message has at most one receiver, where it is the last one, unless it is
\* doubled.
Lands(x, l, b, n) ==
    \A d \in Coordinators, k \in Level, i \in Nat : i \in 1..Len(inbox'[d][k]) =>
       \/ i \in 1..Len(inbox[d][k]) /\ inbox'[d][k][i] = inbox[d][k][i]
       \/ d = b /\ k = l /\ i = n /\ inbox'[d][k][i] = x

LEMMA PublishedOnce ==
    ASSUME TypeOK, NEW x \in Escs, NEW l \in Level, Publish(x, l), x \notin doubled'
    PROVE  \E b, n : Lands(x, l, b, n)
<1> DEFINE b == CHOOSE c \in Coordinators : c \in Subscribers(l)
           n == Len(inbox[b][l]) + 1
<1>1. ASSUME NEW d \in Coordinators, d \in Subscribers(l) PROVE d = b
  <2>1. b \in Subscribers(l) BY <1>1
  <2>2. \A c, e \in Subscribers(l) : c = e BY DEF Publish
  <2> HIDE DEF b
  <2> QED BY <1>1, <2>1, <2>2
<1>2. Adds(x, l) BY PublishedLast
<1> HIDE DEF b
<1> HIDE DEF n
<1>3. ASSUME NEW d \in Coordinators, NEW k \in Level, NEW i \in Nat, i \in 1..Len(inbox'[d][k])
      PROVE  \/ i \in 1..Len(inbox[d][k]) /\ inbox'[d][k][i] = inbox[d][k][i]
             \/ d = b /\ k = l /\ i = n /\ inbox'[d][k][i] = x
  <2>1. CASE i \in 1..Len(inbox[d][k]) /\ inbox'[d][k][i] = inbox[d][k][i] BY <2>1
  <2>2. CASE d \in Subscribers(l) /\ k = l /\ i = Len(inbox[d][l]) + 1 /\ inbox'[d][k][i] = x
    <3>1. d = b BY <1>1, <2>2
    <3> QED BY <2>2, <3>1 DEF n
  <2> QED BY <1>2, <1>3, <2>1, <2>2 DEF Adds
<1>4. Lands(x, l, b, n) BY <1>3 DEF Lands
<1> QED BY <1>4

LEMMA SingleRaised ==
    ASSUME TypeOK, NEW e \in Escs, Single(e), e \notin doubled', NEW x \in Escs, Raise(x)
    PROVE  Single(e)'
<1>1. /\ x \notin raised /\ raised' = raised \cup {x} /\ Publish(x, Path[x])
      /\ Path[x] \in Level /\ UNCHANGED <<queue, work, pc, notified>>
  BY EscalationAssumption DEF Raise, current
<1>2. CASE e # x
  <2>1. ASSUME NEW d \in Coordinators, NEW s \in Slots, NEW i \in Nat, At(d, s, i, e)'
        PROVE  At(d, s, i, e)
    <3>1. CASE s \in Level /\ i \in 1..Len(inbox'[d][s]) /\ inbox'[d][s][i] = e
      <4>1. i \in 1..Len(inbox[d][s]) /\ inbox'[d][s][i] = inbox[d][s][i]
        BY <1>1, <1>2, <3>1, PublishedLast DEF Adds
      <4> QED BY <3>1, <4>1 DEF At
    <3>2. CASE s \in {"queue", "work"} BY <1>1, <2>1, <3>2 DEF At
    <3> QED BY <2>1, <3>1, <3>2 DEF At
  <2> QED BY <1>1, <1>2, <2>1, SingleStays DEF TypeOK
<1>3. CASE e = x
  <2>1. PICK b, n : Lands(x, Path[x], b, n) BY <1>1, <1>3, PublishedOnce
  <2>2. Nowhere(e) /\ notified'[e] = 0 BY <1>1, <1>3 DEF Single
  <2>3. ASSUME NEW d \in Coordinators, NEW s \in Slots, NEW i \in Nat, At(d, s, i, e)'
        PROVE  At(d, s, i, e) \/ (d = b /\ s = Path[x] /\ i = n)
    <3>1. CASE s \in Level /\ i \in 1..Len(inbox'[d][s]) /\ inbox'[d][s][i] = e
      <4>1. \/ i \in 1..Len(inbox[d][s]) /\ inbox'[d][s][i] = inbox[d][s][i]
            \/ d = b /\ s = Path[x] /\ i = n /\ inbox'[d][s][i] = x
        BY <2>1, <3>1 DEF Lands
      <4> QED BY <3>1, <4>1 DEF At
    <3>2. CASE s \in {"queue", "work"} BY <1>1, <2>3, <3>2 DEF At
    <3> QED BY <2>3, <3>1, <3>2 DEF At
  <2>4. \A d \in Coordinators, s \in Slots, i \in Nat :
          At(d, s, i, e)' => d = b /\ s = Path[x] /\ i = n
    BY <2>2, <2>3 DEF Nowhere
  <2>5. InOnePlace(e)' BY <2>4 DEF InOnePlace
  <2> QED BY <1>1, <1>3, <2>2, <2>5 DEF Single
<1> QED BY <1>2, <1>3

LEMMA SingleReEscalated ==
    ASSUME TypeOK, NEW c \in Coordinators, ReEscalate(c),
           NEW e \in Escs, Single(e), e \notin doubled'
    PROVE  Single(e)'
<1> DEFINE l == Above[level[c]]
<1>1. /\ pc[c] \in {"open", "error"} /\ work[c] \in Escs /\ l \in Level
      /\ Publish(work[c], l) /\ pc' = [pc EXCEPT ![c] = "idle"]
      /\ UNCHANGED <<raised, queue, work, notified>>
  BY DEF ReEscalate, TypeOK, Above
<1> HIDE DEF l
<1>2. CASE e # work[c]
  <2>1. ASSUME NEW d \in Coordinators, NEW s \in Slots, NEW i \in Nat, At(d, s, i, e)'
        PROVE  At(d, s, i, e)
    <3>1. CASE s \in Level /\ i \in 1..Len(inbox'[d][s]) /\ inbox'[d][s][i] = e
      <4>1. i \in 1..Len(inbox[d][s]) /\ inbox'[d][s][i] = inbox[d][s][i]
        BY <1>1, <1>2, <3>1, PublishedLast DEF Adds
      <4> QED BY <3>1, <4>1 DEF At
    <3>2. CASE s = "queue" BY <1>1, <2>1, <3>2 DEF At
    <3>3. CASE s = "work" BY <1>1, <2>1, <3>3 DEF At, TypeOK
    <3> QED BY <2>1, <3>1, <3>2, <3>3 DEF At
  <2> QED BY <1>1, <2>1, SingleStays
<1>3. CASE e = work[c]
  <2>1. PICK b, n : Lands(work[c], l, b, n) BY <1>1, <1>3, PublishedOnce
  <2>2. ASSUME NEW d \in Coordinators, NEW s \in Slots, NEW i \in Nat, At(d, s, i, e)'
        PROVE  \/ At(d, s, i, e) /\ ~ (d = c /\ s = "work")
               \/ d = b /\ s = l /\ i = n /\ At(c, "work", 1, e)
    <3>1. CASE s \in Level /\ i \in 1..Len(inbox'[d][s]) /\ inbox'[d][s][i] = e
      <4>1. \/ i \in 1..Len(inbox[d][s]) /\ inbox'[d][s][i] = inbox[d][s][i]
            \/ d = b /\ s = l /\ i = n /\ inbox'[d][s][i] = work[c]
        BY <2>1, <3>1 DEF Lands
      <4> QED BY <1>1, <3>1, <4>1 DEF At
    <3>2. CASE s = "queue" BY <1>1, <2>2, <3>2 DEF At
    <3>3. CASE s = "work" BY <1>1, <2>2, <3>3 DEF At, TypeOK
    <3> QED BY <2>2, <3>1, <3>2, <3>3 DEF At
  <2>3. Moves(e, c, "work", b, l, n) BY <2>2 DEF Moves
  <2>4. "work" \in Slots BY DEF Slots
  <2> QED BY <1>1, <2>3, <2>4, SingleMoved
<1> QED BY <1>2, <1>3

LEMMA SingleReceived ==
    ASSUME TypeOK, NEW c \in Coordinators, NEW l \in Level, Receive(c, l),
           NEW e \in Escs, Single(e)
    PROVE  Single(e)'
<1> DEFINE n == Len(queue[c]) + 1
<1>0. /\ inbox' = [inbox EXCEPT ![c][l] = Tail(@)]
      /\ queue' = [queue EXCEPT ![c] = Append(@, Head(inbox[c][l]))]
      /\ UNCHANGED <<pc, work, raised, notified>>
  BY DEF Receive, current, outside
<1>1. /\ inbox[c][l] \in Seq(Escs) /\ inbox[c][l] # <<>> /\ queue[c] \in Seq(Escs)
      /\ inbox'[c][l] = Tail(inbox[c][l])
      /\ queue'[c] = Append(queue[c], Head(inbox[c][l]))
      /\ \A d \in Coordinators, k \in Level : ~ (d = c /\ k = l) => inbox'[d][k] = inbox[d][k]
      /\ \A d \in Coordinators \ {c} : queue'[d] = queue[d]
      /\ UNCHANGED <<pc, work, raised, notified>>
  <2>1. inbox[c][l] \in Seq(Escs) /\ inbox[c][l] # <<>> /\ queue[c] \in Seq(Escs)
    BY DEF Receive, TypeOK
  <2>2. inbox'[c][l] = Tail(inbox[c][l]) BY <1>0 DEF TypeOK
  <2>3. ASSUME NEW d \in Coordinators, NEW k \in Level, ~ (d = c /\ k = l)
        PROVE  inbox'[d][k] = inbox[d][k]
    BY <1>0, <2>3 DEF TypeOK
  <2>4. /\ queue'[c] = Append(queue[c], Head(inbox[c][l]))
        /\ \A d \in Coordinators \ {c} : queue'[d] = queue[d]
    BY <1>0 DEF TypeOK
  <2> QED BY <1>0, <2>1, <2>2, <2>3, <2>4
<1>2. ASSUME NEW d \in Coordinators, NEW s \in Slots, NEW i \in Nat, At(d, s, i, e)'
      PROVE  \/ At(d, s, i, e) /\ ~ (d = c /\ s = l)
             \/ d = c /\ s = l /\ i >= 1 /\ At(c, l, i + 1, e)
             \/ d = c /\ s = "queue" /\ i = n /\ At(c, l, 1, e)
  <2>1. CASE d = c /\ s = l
    <3>1. i \in 1..Len(Tail(inbox[c][l])) /\ Tail(inbox[c][l])[i] = e
      BY <1>1, <1>2, <2>1 DEF At
    <3>2. i + 1 \in 1..Len(inbox[c][l]) /\ inbox[c][l][i + 1] = e BY <1>1, <3>1
    <3> QED BY <2>1, <3>1, <3>2 DEF At
  <2>2. CASE d = c /\ s = "queue"
    <3>1. /\ i \in 1..Len(Append(queue[c], Head(inbox[c][l])))
          /\ Append(queue[c], Head(inbox[c][l]))[i] = e
      BY <1>1, <1>2, <2>2 DEF At
    <3>2. CASE i = n
      <4>1. Head(inbox[c][l]) = e BY <1>1, <3>1, <3>2
      <4>2. At(c, l, 1, e) BY <1>1, <4>1 DEF At
      <4> QED BY <2>2, <3>2, <4>2
    <3>3. CASE i # n
      <4>1. i \in 1..Len(queue[c]) /\ queue[c][i] = e BY <1>1, <3>1, <3>3
      <4> QED BY <2>2, <4>1 DEF At
    <3> QED BY <3>2, <3>3
  <2>3. CASE ~ (d = c /\ s = l) /\ ~ (d = c /\ s = "queue") BY <1>1, <1>2, <2>3 DEF At
  <2> QED BY <2>1, <2>2, <2>3
<1> HIDE DEF n
<1>3. Moves(e, c, l, c, "queue", n) BY <1>2 DEF Moves
<1>4. l \in Slots BY DEF Slots
<1> QED BY <1>1, <1>3, <1>4, SingleMoved

LEMMA SingleTaken ==
    ASSUME TypeOK, NEW c \in Coordinators, Take(c), NEW e \in Escs, Single(e)
    PROVE  Single(e)'
<1>1. /\ queue[c] \in Seq(Escs) /\ queue[c] # <<>> /\ pc[c] = "idle"
      /\ queue'[c] = Tail(queue[c]) /\ work'[c] = Head(queue[c])
      /\ \A d \in Coordinators \ {c} : queue'[d] = queue[d] /\ work'[d] = work[d]
                                       /\ pc'[d] = pc[d]
      /\ UNCHANGED <<inbox, raised, notified>>
  BY DEF Take, TypeOK, outside
<1>2. ASSUME NEW d \in Coordinators, NEW s \in Slots, NEW i \in Nat, At(d, s, i, e)'
      PROVE  \/ At(d, s, i, e) /\ ~ (d = c /\ s = "queue")
             \/ d = c /\ s = "queue" /\ i >= 1 /\ At(c, "queue", i + 1, e)
             \/ d = c /\ s = "work" /\ i = 1 /\ At(c, "queue", 1, e)
  <2>1. CASE d = c /\ s = "queue"
    <3>1. i \in 1..Len(Tail(queue[c])) /\ Tail(queue[c])[i] = e
      BY <1>1, <1>2, <2>1 DEF At
    <3>2. i + 1 \in 1..Len(queue[c]) /\ queue[c][i + 1] = e BY <1>1, <3>1
    <3> QED BY <2>1, <3>1, <3>2 DEF At
  <2>2. CASE d = c /\ s = "work"
    <3>1. i = 1 /\ Head(queue[c]) = e BY <1>1, <1>2, <2>2 DEF At
    <3>2. At(c, "queue", 1, e) BY <1>1, <3>1 DEF At
    <3> QED BY <2>2, <3>1, <3>2
  <2>3. CASE d # c \/ s \in Level BY <1>1, <1>2, <2>3 DEF At
  <2> QED BY <2>1, <2>2, <2>3 DEF Slots
<1>3. Moves(e, c, "queue", c, "work", 1) BY <1>2 DEF Moves
<1>4. "queue" \in Slots BY DEF Slots
<1> QED BY <1>1, <1>3, <1>4, SingleMoved

LEMMA SingleNotified ==
    ASSUME TypeOK, NEW c \in Coordinators, Notify(c), NEW e \in Escs, Single(e)
    PROVE  Single(e)'
<1>1. /\ pc[c] = "resolved" /\ work[c] \in Escs
      /\ pc' = [pc EXCEPT ![c] = "idle"]
      /\ notified' = [notified EXCEPT ![work[c]] = @ + 1]
      /\ UNCHANGED <<inbox, queue, work, raised>>
  BY DEF Notify, TypeOK
<1>2. ASSUME NEW d \in Coordinators, NEW s \in Slots, NEW i \in Nat, At(d, s, i, e)'
      PROVE  At(d, s, i, e) /\ ~ (d = c /\ s = "work")
  BY <1>1, <1>2 DEF At, TypeOK
<1>3. CASE e # work[c] BY <1>1, <1>2, <1>3, SingleStays DEF TypeOK
<1>4. CASE e = work[c]
  <2>1. At(c, "work", 1, e) BY <1>1, <1>4 DEF At
  <2>2. "work" \in Slots BY DEF Slots
  <2>3. Nowhere(e)' BY <1>2, <2>1, <2>2 DEF Single, InOnePlace, Nowhere
  <2>4. e \in raised /\ ~ (notified[e] > 0) BY <2>1, <2>2 DEF Single, Nowhere
  <2>5. notified'[e] = 1 BY <1>1, <1>4, <2>4 DEF TypeOK
  <2>6. InOnePlace(e)' BY <2>3 DEF Nowhere, InOnePlace
  <2> QED BY <1>1, <2>3, <2>4, <2>5, <2>6 DEF Single
<1> QED BY <1>3, <1>4

\* Doubled escalations stay so.
LEMMA NextDoubled == ASSUME [Next]_vars PROVE doubled \subseteq doubled'
<1>1. ASSUME NEW x, NEW l, Publish(x, l) PROVE doubled \subseteq doubled'
  BY <1>1 DEF Publish
<1>2. ASSUME NEW c \in Coordinators, Process(c) \/ NotifyFails(c) \/ ReEscalateFails(c) \/ Stop(c)
      PROVE  doubled \subseteq doubled'
  BY <1>1, <1>2 DEF Process, Take, Attempt, Notify, ReEscalate, NotifyFails,
                    ReEscalateFails, Stop, outside
<1>3. CASE \E x \in Escs : Raise(x) BY <1>1, <1>3 DEF Raise
<1>4. CASE \E c \in Coordinators, l \in Level : Receive(c, l) BY <1>4 DEF Receive, outside
<1>5. CASE UNCHANGED vars BY <1>5 DEF vars, outside
<1> QED BY <1>2, <1>3, <1>4, <1>5 DEF Next

LEMMA NextSingle ==
    ASSUME TypeOK, [Next]_vars, NEW e \in Escs, Single(e), e \notin doubled'
    PROVE  Single(e)'
<1>1. ASSUME NEW x \in Escs, Raise(x) PROVE Single(e)' BY <1>1, SingleRaised
<1>2. ASSUME NEW c \in Coordinators, Process(c) PROVE Single(e)'
  <2>1. CASE Attempt(c)
    <3>1. UNCHANGED <<inbox, queue, work, raised, notified>> /\ pc[c] = "assigned"
          /\ \A d \in Coordinators \ {c} : pc'[d] = pc[d]
      BY <2>1 DEF Attempt, outside, TypeOK
    <3>2. \A d \in Coordinators, s \in Slots, i \in Nat : At(d, s, i, e)' => At(d, s, i, e)
      BY <3>1 DEF At
    <3> QED BY <3>1, <3>2, SingleStays
  <2> QED BY <1>2, <2>1, SingleTaken, SingleNotified, SingleReEscalated DEF Process
<1>3. ASSUME NEW c \in Coordinators, NotifyFails(c) \/ ReEscalateFails(c) PROVE Single(e)'
  <2>1. UNCHANGED <<inbox, queue, work, raised, notified>> /\ pc[c] # "idle"
        /\ \A d \in Coordinators \ {c} : pc'[d] = pc[d]
    BY <1>3 DEF NotifyFails, ReEscalateFails, outside, TypeOK
  <2>2. \A d \in Coordinators, s \in Slots, i \in Nat : At(d, s, i, e)' => At(d, s, i, e)
    BY <2>1 DEF At
  <2> QED BY <2>1, <2>2, SingleStays
<1>4. ASSUME NEW c \in Coordinators, Stop(c) PROVE Single(e)'
  <2>1. /\ UNCHANGED <<work, raised, notified>> /\ pc'[c] = "idle"
        /\ queue'[c] = <<>> /\ inbox'[c] = [l \in Level |-> <<>>]
        /\ \A d \in Coordinators \ {c} :
              pc'[d] = pc[d] /\ queue'[d] = queue[d] /\ inbox'[d] = inbox[d]
    BY <1>4 DEF Stop, outside, TypeOK
  <2>2. \A d \in Coordinators, s \in Slots, i \in Nat : At(d, s, i, e)' => At(d, s, i, e)
    BY <2>1 DEF At
  <2> QED BY <2>1, <2>2, SingleStays
<1>5. ASSUME NEW c \in Coordinators, NEW l \in Level, Receive(c, l) PROVE Single(e)'
  BY <1>5, SingleReceived
<1>6. CASE UNCHANGED vars
  <2>1. UNCHANGED <<inbox, queue, work, pc, raised, notified>>
    BY <1>6 DEF vars, current, outside
  <2>2. \A d \in Coordinators, s \in Slots, i \in Nat : At(d, s, i, e)' => At(d, s, i, e)
    BY <2>1 DEF At
  <2> QED BY <2>1, <2>2, SingleStays
<1> QED BY <1>1, <1>2, <1>3, <1>4, <1>5, <1>6 DEF Next

\* For any number of coordinators and whatever levels they listen to: an agent is
\* told of one resolution of its escalation at most, whatever fails and stops, unless
\* a message about it went to two coordinators (_notify_resolution, _re_escalate).
THEOREM AgentsNotifiedOnce == Spec => []NotifiedOnce
<1> DEFINE Singles == \A e \in Escs : e \notin doubled => Single(e)
<1>1. Init => Singles
  <2> SUFFICES ASSUME Init, NEW e \in Escs PROVE Single(e) OBVIOUS
  <2>1. \A c \in Coordinators : /\ \A l \in Level : inbox[c][l] = <<>>
                                /\ queue[c] = <<>> /\ pc[c] = "idle"
    BY DEF Init
  <2>2. Nowhere(e) BY <2>1 DEF Nowhere, At
  <2>3. InOnePlace(e) BY <2>2 DEF InOnePlace, Nowhere
  <2>4. notified[e] = 0 BY DEF Init
  <2> QED BY <2>2, <2>3, <2>4 DEF Single
<1>2. TypeOK /\ Singles /\ [Next]_vars => Singles'
  <2> SUFFICES ASSUME TypeOK, Singles, [Next]_vars, NEW e \in Escs, e \notin doubled'
               PROVE  Single(e)'
    OBVIOUS
  <2>1. e \notin doubled BY NextDoubled
  <2>2. Single(e) BY <2>1
  <2> QED BY <2>2, NextSingle
<1>3. Singles => NotifiedOnce BY DEF Single, NotifiedOnce
<1> QED BY <1>1, <1>2, <1>3, TypeCorrect, PTL DEF Spec
=============================================================================
