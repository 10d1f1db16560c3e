------------------------- MODULE IdentityAssignment -------------------------
(***************************************************************************)
(* What the provisioning service promises about identities: an identity is  *)
(* given to one request at a time, and a request is given one identity once.*)
(***************************************************************************)
CONSTANTS Identities, Requests, None

VARIABLES holder,   \* the request whose VM runs an identity, or None
          served    \* the requests that were given an identity

Init == holder = [i \in Identities |-> None] /\ served = {}

Assign(i, r) ==
    /\ holder[i] = None
    /\ r \notin served
    /\ holder' = [holder EXCEPT ![i] = r]
    /\ served' = served \cup {r}

Free(i) ==
    /\ holder[i] # None
    /\ holder' = [holder EXCEPT ![i] = None]
    /\ UNCHANGED served

Next == \E i \in Identities : Free(i) \/ \E r \in Requests : Assign(i, r)

Spec == Init /\ [][Next]_<<holder, served>>

=============================================================================
