------------------------------ MODULE WorkQueue ------------------------------
(***************************************************************************)
(* What agents promise each other about the messages of a work queue: one   *)
(* worker at a time works on a message, a worker on one message, and a       *)
(* message is gone for good when somebody has settled it, not before.  It    *)
(* may be worked on again as long as it is not gone.                         *)
(***************************************************************************)
CONSTANTS Messages, Workers, None

VARIABLES stream,   \* the messages that were published and are not gone
          gone,     \* the messages that were acknowledged
          working,  \* the message a worker works on, or None
          settled   \* the messages that were answered, escalated or given up

vars == <<stream, gone, working, settled>>

Init ==
    /\ stream \in SUBSET Messages /\ gone = {} /\ settled = {}
    /\ working = [w \in Workers |-> None]

Publish(m) ==
    /\ m \notin stream \cup gone
    /\ stream' = stream \cup {m}
    /\ UNCHANGED <<gone, working, settled>>

Free(m) == \A w \in Workers : working[w] # m

Take(w, m) ==
    /\ m \in stream /\ Free(m) /\ working[w] = None
    /\ working' = [working EXCEPT ![w] = m]
    /\ UNCHANGED <<stream, gone, settled>>

Settle(w) ==
    /\ working[w] # None
    /\ settled' = settled \cup {working[w]}
    /\ UNCHANGED <<stream, gone, working>>

Gone(m) ==
    /\ m \in stream
    /\ stream' = stream \ {m} /\ gone' = gone \cup {m}

\* The acknowledgement, of a message that was settled or is settled by it.
Finish(w) ==
    /\ Gone(working[w])
    /\ settled' = settled \cup {working[w]}
    /\ working' = [working EXCEPT ![w] = None]

\* A message that is not worth the work.
Discard(m) ==
    /\ Gone(m) /\ Free(m)
    /\ settled' = settled \cup {m}
    /\ UNCHANGED working

\* Workers end, or their messages are to be delivered again.
Leave(left) ==
    /\ working' = [w \in Workers |-> IF w \in left THEN None ELSE working[w]]
    /\ UNCHANGED <<stream, gone, settled>>

Next ==
    \/ \E m \in Messages : Publish(m) \/ Discard(m) \/ \E w \in Workers : Take(w, m)
    \/ \E w \in Workers : Settle(w) \/ Finish(w)
    \/ \E left \in SUBSET Workers : Leave(left)

Spec == Init /\ [][Next]_vars

=============================================================================
