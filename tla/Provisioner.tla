---------------------------- MODULE Provisioner ----------------------------
(***************************************************************************)
(* The provisioning service (enterprise/provisioner/service.py) with its    *)
(* lease store and the two directory objects it writes for an identity: the *)
(* password of the agent account and the computer account sbx-<identity>.   *)
(*                                                                         *)
(* A request is one POST /provision and, later, the POST /release for the   *)
(* virtual machine that got its bundle.  Its handler runs in some           *)
(* provisioner process; processes share the lease table and the directory,  *)
(* may die between any two steps, and time passes during the LDAP           *)
(* subprocesses, which have no timeout.                                     *)
(***************************************************************************)
EXTENDS LeaseStore, Sequences

CONSTANTS Requests,     \* the provisioning requests of a behaviour
          None,         \* "no request": an absent account, an unset password
          VMOf,         \* the vm_id a request carries
          Matching,     \* what the directory search for a request returns
          TTL,          \* lease_ttl_seconds
          MaxStall,     \* bound on the time from reservation to response
          MaxReleases,  \* bound on how often the release of a VM is sent
          Adopted,      \* requests whose coordinator lost the vm_id (it knows
                        \* the agent from a heartbeat) and releases with ""
          MaxTime       \* bound on the clock

ASSUME RequestsAssumption ==
    /\ None \notin Requests
    /\ VMOf \in [Requests -> VMs]
    /\ Matching \in [Requests -> Seq(Identities)]
    /\ Adopted \subseteq Requests

ASSUME BoundsAssumption ==
    /\ TTL \in Nat \ {0} /\ MaxStall \in Nat /\ MaxReleases \in Nat
    /\ MaxTime \in Nat

VARIABLES now,       \* the clock, in lease-term units
          leases,    \* the lease table
          computer,  \* the request that created sbx-<i>, or None: no account
          password,  \* the request that last set the password of i, or None
          pc,        \* the progress of each request
          next,      \* index of the candidate its loop tries next
          got,       \* the identity it reserved
          expires,   \* the expiry of the lease it was granted
          sent       \* how often its release was sent

vars == <<now, leases, computer, password, pc, next, got, expires, sent>>

\* pc: "new" not sent; "reserving" in the candidate loop; "reserved" lease
\* granted; "keyed" password set; "staged" computer account created;
\* "bundled" bundle complete; "running" a VM runs with the bundle; "failed"
\* answered with 500 or never answered; "owed" the VM is destroyed and its
\* release is still to be sent; "called" the release handler started;
\* "deleted" it is past the computer account; "released" answered.
Provisioning == {"reserved", "keyed", "staged", "bundled"}
States == {"new", "reserving", "running", "failed", "owed", "called",
           "deleted", "released"} \cup Provisioning

Identity == Identities \cup {None}
Owner    == Requests \cup {None}

TypeOK ==
    /\ now \in Nat
    /\ leases \subseteq Lease
    /\ computer \in [Identities -> Owner]
    /\ password \in [Identities -> Owner]
    /\ pc \in [Requests -> States]
    /\ next \in [Requests -> Nat \ {0}]
    /\ got \in [Requests -> Identity]
    /\ \A r \in Requests : pc[r] \notin {"new", "reserving", "failed"}
                           => got[r] \in Identities
    /\ expires \in [Requests -> Int]
    /\ sent \in [Requests -> Nat]

Init ==
    /\ now = 0
    /\ leases = {}
    /\ computer = [i \in Identities |-> None]
    /\ password = [i \in Identities |-> None]
    /\ pc = [r \in Requests |-> "new"]
    /\ next = [r \in Requests |-> 1]
    /\ got = [r \in Requests |-> None]
    /\ expires = [r \in Requests |-> 0]
    /\ sent = [r \in Requests |-> 0]

Goto(r, from, to) == pc[r] = from /\ pc' = [pc EXCEPT ![r] = to]

-----------------------------------------------------------------------------
(* POST /provision *)

\* Variant: the purge forgets its WHERE clause.
SearchPurgesAll(r) ==
    /\ Goto(r, "new", "reserving")
    /\ leases' = {}
    /\ UNCHANGED <<now, computer, password, next, got, expires, sent>>

\* The directory search and the purge of expired leases.  A search that finds
\* nothing, or whose ldapsearch fails, ends the request; nothing is purged.
Search(r) ==
    \/ /\ Goto(r, "new", "reserving")
       /\ Matching[r] # <<>>
       /\ leases' = Purged(leases, now)
       /\ UNCHANGED <<now, computer, password, next, got, expires, sent>>
    \/ /\ Goto(r, "new", "failed")
       /\ UNCHANGED <<now, leases, computer, password, next, got, expires, sent>>

\* Variant: the candidate that was granted is not remembered.
GrantUnnamed(r) ==
    /\ Goto(r, "reserving", "reserved")
    /\ next[r] <= Len(Matching[r])
    /\ CanReserve(leases, Matching[r][next[r]], VMOf[r], now)
    /\ leases' = Reserved(leases, Matching[r][next[r]], VMOf[r], now + TTL, now)
    /\ expires' = [expires EXCEPT ![r] = now + TTL]
    /\ UNCHANGED <<now, computer, password, next, got, sent>>

\* One reserve() of the loop over the candidates: granted, the loop ends.
Grant(r) ==
    /\ Goto(r, "reserving", "reserved")
    /\ next[r] <= Len(Matching[r])
    /\ LET i == Matching[r][next[r]] IN
         /\ CanReserve(leases, i, VMOf[r], now)
         /\ leases' = Reserved(leases, i, VMOf[r], now + TTL, now)
         /\ got' = [got EXCEPT ![r] = i]
    /\ expires' = [expires EXCEPT ![r] = now + TTL]
    /\ UNCHANGED <<now, computer, password, next, sent>>

\* Variant: the loop tries the refused candidate again.
RefuseAgain(r) ==
    /\ pc[r] = "reserving"
    /\ next[r] <= Len(Matching[r])
    /\ ~ CanReserve(leases, Matching[r][next[r]], VMOf[r], now)
    /\ UNCHANGED vars

\* Refused, the loop goes on with the next candidate.
Refuse(r) ==
    /\ pc[r] = "reserving"
    /\ next[r] <= Len(Matching[r])
    /\ ~ CanReserve(leases, Matching[r][next[r]], VMOf[r], now)
    /\ next' = [next EXCEPT ![r] = @ + 1]
    /\ UNCHANGED <<now, leases, computer, password, pc, got, expires, sent>>

\* "all matching identities are already in use"
NoneLeft(r) ==
    /\ Goto(r, "reserving", "failed")
    /\ next[r] > Len(Matching[r])
    /\ UNCHANGED <<now, leases, computer, password, next, got, expires, sent>>

SetPassword(r) ==
    /\ Goto(r, "reserved", "keyed")
    /\ password' = [password EXCEPT ![got[r]] = r]
    /\ UNCHANGED <<now, leases, computer, next, got, expires, sent>>

\* Variant: an existing account is taken over.
PrestageOverwrites(r) ==
    /\ Goto(r, "keyed", "staged")
    /\ computer' = [computer EXCEPT ![got[r]] = r]
    /\ UNCHANGED <<now, leases, password, next, got, expires, sent>>

\* ldapadd fails when the account exists.
Prestage(r) ==
    /\ Goto(r, "keyed", "staged")
    /\ computer[got[r]] = None
    /\ computer' = [computer EXCEPT ![got[r]] = r]
    /\ UNCHANGED <<now, leases, password, next, got, expires, sent>>

\* The policy, the NATS credentials and the mounts: reads only.
Assemble(r) ==
    /\ Goto(r, "staged", "bundled")
    /\ UNCHANGED <<now, leases, computer, password, next, got, expires, sent>>

\* Variant: the except clause also deletes the computer account, by name.
RollbackDeletes(r) ==
    /\ pc[r] \in {"reserved", "keyed", "staged"}
    /\ pc' = [pc EXCEPT ![r] = "failed"]
    /\ leases' = Released(leases, got[r], VMOf[r])
    /\ computer' = [computer EXCEPT ![got[r]] = None]
    /\ UNCHANGED <<now, password, next, got, expires, sent>>

\* The except clause: a failing password change, computer account (always, if
\* it exists), policy load or credential lookup undoes the lease, and nothing
\* else, before the exception goes up.
Rollback(r) ==
    /\ pc[r] \in {"reserved", "keyed", "staged"}
    /\ pc' = [pc EXCEPT ![r] = "failed"]
    /\ leases' = Released(leases, got[r], VMOf[r])
    /\ UNCHANGED <<now, computer, password, next, got, expires, sent>>

\* The credentials are stored and the answer reaches the VM, which boots.
Respond(r) ==
    /\ Goto(r, "bundled", "running")
    /\ UNCHANGED <<now, leases, computer, password, next, got, expires, sent>>

\* The process dies; or, past the try block, the credential store raises; or
\* the client has given up waiting.  Nothing is undone.
Unanswered(r) ==
    /\ pc[r] \in {"reserving"} \cup Provisioning
    /\ pc' = [pc EXCEPT ![r] = "failed"]
    /\ UNCHANGED <<now, leases, computer, password, next, got, expires, sent>>

-----------------------------------------------------------------------------
(* POST /release *)

ReleaseVM(r) == IF r \in Adopted THEN NoVM ELSE VMOf[r]

Destroy(r) ==
    /\ Goto(r, "running", "owed")
    /\ UNCHANGED <<now, leases, computer, password, next, got, expires, sent>>

CallRelease(r) ==
    /\ Goto(r, "owed", "called")
    /\ sent[r] < MaxReleases
    /\ sent' = [sent EXCEPT ![r] = @ + 1]
    /\ UNCHANGED <<now, leases, computer, password, next, got, expires>>

\* get_agent() finds nothing: the agent was removed, or the ldapsearch failed
\* (it then returns an empty list).  Only the lease is released.
ReleaseUnknown(r) ==
    /\ Goto(r, "called", "released")
    /\ leases' = Released(leases, got[r], ReleaseVM(r))
    /\ UNCHANGED <<now, computer, password, next, got, expires, sent>>

\* delete_computer(), by name; a failure is logged and otherwise ignored.
DeleteComputer(r) ==
    /\ Goto(r, "called", "deleted")
    /\ computer' \in {computer, [computer EXCEPT ![got[r]] = None]}
    /\ UNCHANGED <<now, leases, password, next, got, expires, sent>>

ReleaseLease(r) ==
    /\ Goto(r, "deleted", "released")
    /\ leases' = Released(leases, got[r], ReleaseVM(r))
    /\ UNCHANGED <<now, computer, password, next, got, expires, sent>>

\* The process dies, the handler raises, or the answer is late or lost: the
\* client keeps the agent in its pool and sends the release again later.
ReleaseUnanswered(r) ==
    /\ pc[r] \in {"called", "deleted", "released"}
    /\ pc' = [pc EXCEPT ![r] = "owed"]
    /\ UNCHANGED <<now, leases, computer, password, next, got, expires, sent>>

-----------------------------------------------------------------------------

\* Time passes, while no handler is MaxStall past its reservation.
Tick ==
    /\ now < MaxTime
    /\ \A r \in Requests : pc[r] \in Provisioning => now < expires[r] - TTL + MaxStall
    /\ now' = now + 1
    /\ UNCHANGED <<leases, computer, password, pc, next, got, expires, sent>>

Handler(r) ==
    \/ Search(r) \/ Grant(r) \/ Refuse(r) \/ NoneLeft(r) \/ SetPassword(r)
    \/ Prestage(r) \/ Assemble(r) \/ Rollback(r) \/ Respond(r)

Releaser(r) ==
    \/ CallRelease(r) \/ ReleaseUnknown(r) \/ DeleteComputer(r)
    \/ ReleaseLease(r) \/ ReleaseUnanswered(r)

Next ==
    \/ Tick
    \/ \E r \in Requests : Handler(r) \/ Unanswered(r) \/ Destroy(r) \/ Releaser(r)

Spec == Init /\ [][Next]_vars

\* A handler that started runs to its end: asyncio schedules its coroutine
\* until it returns.
FairSpec == Spec /\ \A r \in Requests : WF_vars(pc[r] # "new" /\ Handler(r))

-----------------------------------------------------------------------------
(* Properties *)

Working(r) == pc[r] \in Provisioning \cup {"running"}
InTerm(r)  == Working(r) /\ now < expires[r]

\* Two running VMs never have the same identity.  (lease_store.py:4-5 claims
\* it of the leases; what gives it, when every release is sent at most once,
\* is the computer account, which the next request fails to create.)
Exclusive ==
    \A r, s \in Requests :
        pc[r] = "running" /\ pc[s] = "running" /\ got[r] = got[s] => r = s

\* Requests for distinct VMs never both have an unexpired lease of one
\* identity, whichever releases are late, repeated or half done.
TermExclusive ==
    \A r, s \in Requests : InTerm(r) /\ InTerm(s) /\ got[r] = got[s] => r = s

\* A request that set the agent's password and is still in its lease term is the
\* last one that set it, so that its bundle is valid, unless a handler that had
\* outlived its own lease has set it since (service.py:174): no other request, crash,
\* rollback or expiry takes the password from a VM.
PasswordCurrent ==
    \A r \in Requests : InTerm(r) /\ pc[r] # "reserved" =>
        \/ password[got[r]] = r
        \/ \E s \in Requests : password[got[r]] = s /\ now >= expires[s]

\* An unexpired lease goes away only by a step of a request of its own VM: no
\* rollback and no release revokes what was granted to another.
RevokedByOwner ==
    [][\A l \in leases \ leases' :
          l.expires > now => \E r \in Requests : VMOf[r] = l.vm /\ pc'[r] # pc[r]]_vars

\* A VM within its lease term keeps its lease.
TermKept ==
    \A r \in Requests : pc[r] = "running" /\ now < expires[r] =>
        \E l \in leases : l.identity = got[r] /\ l.vm = VMOf[r]

\* Every request that entered the candidate loop is answered or given up.
Answered ==
    \A r \in Requests : pc[r] = "reserving" ~> pc[r] \in {"running", "failed"}

-----------------------------------------------------------------------------
(* What makes the properties inductive *)

\* Two requests never share a VM.
OwnVMs == \A r, s \in Requests : VMOf[r] = VMOf[s] => r = s

\* From the creation of its computer account to the deletion of it, a request
\* that is released at most once owns the account of its identity.
OwnsAccount(r) ==
    \/ pc[r] \in {"staged", "bundled", "running", "called"}
    \/ pc[r] = "owed" /\ sent[r] = 0

AccountOwned ==
    \A r \in Requests :
        /\ OwnsAccount(r) => computer[got[r]] = r
        /\ pc[r] \in {"called", "deleted", "released"} => sent[r] > 0

\* A computer account was created by a request that reserved its identity.
AccountOfGrant ==
    \A i \in Identities, r \in Requests :
        computer[i] = r => got[r] = i /\ pc[r] \notin {"new", "reserving"}

\* A request in its term finds its own row in the table, and the table has
\* one row for an identity.
TermRecorded ==
    /\ \A r \in Requests : InTerm(r) =>
          [identity |-> got[r], vm |-> VMOf[r], expires |-> expires[r]] \in leases
    /\ \A l, m \in leases : l.identity = m.identity => l = m

-----------------------------------------------------------------------------
\* The abstract assignment of identities: who runs each identity.
Holder == [i \in Identities |->
             IF computer[i] # None /\ pc[computer[i]] = "running"
             THEN computer[i] ELSE None]

Served == {r \in Requests : pc[r] \in {"running", "owed", "called", "deleted", "released"}}

Assignment == INSTANCE IdentityAssignment WITH holder <- Holder, served <- Served
Implements == Assignment!Spec

\* The abstract lease table: the leases that have not expired.
Leased == {<<l.identity, l.vm>> : l \in Purged(leases, now)}

\* Whatever requests, retries, rollbacks and releases there are, and whatever
\* processes die, an identity is leased to one VM, and to another only when that
\* lease has ended (lease_store.py:82-123).
Leases == INSTANCE LeaseService WITH leased <- Leased
LeasesPromised == Leases!Spec

=============================================================================
