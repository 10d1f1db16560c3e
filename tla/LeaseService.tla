---------------------------- MODULE LeaseService ----------------------------
(***************************************************************************)
(* What the lease table promises to those who provision agents: an identity *)
(* is leased to one VM at most, and comes to another only after its lease   *)
(* has ended.  A lease may end at any time: released, by name or by VM, or   *)
(* at the end of its term.                                                   *)
(***************************************************************************)
CONSTANTS Identities, VMs

VARIABLE leased   \* pairs of an identity and the VM it is leased to

Init ==
    /\ leased \in SUBSET (Identities \X VMs)
    /\ \A l, m \in leased : l[1] = m[1] => l = m

Grant(i, v) ==
    /\ \A l \in leased : l[1] # i
    /\ leased' = leased \cup {<<i, v>>}

End(over) == leased' = leased \ over

Next ==
    \/ \E i \in Identities, v \in VMs : Grant(i, v)
    \/ \E over \in SUBSET leased : End(over)

Spec == Init /\ [][Next]_leased

=============================================================================
