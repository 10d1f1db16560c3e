-------------------------- MODULE Provisioner_proofs --------------------------
(***************************************************************************)
(* Theorems about Provisioner, for every set of identities, VMs and         *)
(* requests and every value of the bounds, and their proofs.                *)
(***************************************************************************)
EXTENDS Provisioner, TLAPS

\* The table operators keep a table a table.
LEMMA LeaseTable ==
    ASSUME NEW table, table \subseteq Lease, NEW i, NEW vm, NEW t
    PROVE  /\ Purged(table, t) \subseteq Lease
           /\ Released(table, i, vm) \subseteq Lease
    BY DEF Purged, Released

\* The state of every request is of its type after each step (TypeOK of the
\* specification: service.py's handlers and lease_store.py's rows).
THEOREM TypeCorrect == Spec => []TypeOK
<1> USE RequestsAssumption, BoundsAssumption
<1>1. Init => TypeOK
  BY DEF Init, TypeOK, States, Provisioning, Owner, Identity
<1>2. TypeOK /\ [Next]_vars => TypeOK'
  <2> SUFFICES ASSUME TypeOK, [Next]_vars PROVE TypeOK'
    OBVIOUS
  <2> USE DEF TypeOK
  <2>1. CASE Tick
    BY <2>1 DEF Tick
  <2>2. ASSUME NEW r \in Requests, Search(r) PROVE TypeOK'
    BY <2>2, LeaseTable DEF Search, Goto, States
  <2>3. ASSUME NEW r \in Requests, Grant(r) PROVE TypeOK'
    <3> DEFINE i == Matching[r][next[r]]
    <3>1. i \in Identities
      BY <2>3 DEF Grant
    <3>2. leases' \subseteq Lease
      BY <2>3, <3>1, LeaseTable DEF Grant, Reserved, Lease, Purged
    <3>3. QED
      BY <2>3, <3>1, <3>2 DEF Grant, Goto, States, Provisioning, Identity
  <2>4. ASSUME NEW r \in Requests, Refuse(r) PROVE TypeOK'
    BY <2>4 DEF Refuse
  <2>5. ASSUME NEW r \in Requests, NoneLeft(r) PROVE TypeOK'
    BY <2>5 DEF NoneLeft, Goto, States
  <2>6. ASSUME NEW r \in Requests, SetPassword(r) PROVE TypeOK'
    BY <2>6 DEF SetPassword, Goto, States, Provisioning, Owner
  <2>7. ASSUME NEW r \in Requests, Prestage(r) PROVE TypeOK'
    BY <2>7 DEF Prestage, Goto, States, Provisioning, Owner
  <2>8. ASSUME NEW r \in Requests, Assemble(r) PROVE TypeOK'
    BY <2>8 DEF Assemble, Goto, States, Provisioning
  <2>9. ASSUME NEW r \in Requests, Rollback(r) PROVE TypeOK'
    BY <2>9, LeaseTable DEF Rollback, States
  <2>10. ASSUME NEW r \in Requests, Respond(r) PROVE TypeOK'
    BY <2>10 DEF Respond, Goto, States
  <2>11. ASSUME NEW r \in Requests, Unanswered(r) PROVE TypeOK'
    BY <2>11 DEF Unanswered, States
  <2>12. ASSUME NEW r \in Requests, Destroy(r) PROVE TypeOK'
    BY <2>12 DEF Destroy, Goto, States
  <2>13. ASSUME NEW r \in Requests, CallRelease(r) PROVE TypeOK'
    BY <2>13 DEF CallRelease, Goto, States
  <2>14. ASSUME NEW r \in Requests, ReleaseUnknown(r) PROVE TypeOK'
    BY <2>14, LeaseTable DEF ReleaseUnknown, Goto, States
  <2>15. ASSUME NEW r \in Requests, DeleteComputer(r) PROVE TypeOK'
    <3>1. computer' \in [Identities -> Owner]
      BY <2>15 DEF DeleteComputer, Owner
    <3>2. QED
      BY <2>15, <3>1 DEF DeleteComputer, Goto, States
  <2>16. ASSUME NEW r \in Requests, ReleaseLease(r) PROVE TypeOK'
    BY <2>16, LeaseTable DEF ReleaseLease, Goto, States
  <2>17. ASSUME NEW r \in Requests, ReleaseUnanswered(r) PROVE TypeOK'
    BY <2>17 DEF ReleaseUnanswered, States
  <2>18. CASE UNCHANGED vars
    BY <2>18 DEF vars
  <2>19. QED
    BY <2>1, <2>2, <2>3, <2>4, <2>5, <2>6, <2>7, <2>8, <2>9, <2>10, <2>11,
       <2>12, <2>13, <2>14, <2>15, <2>16, <2>17, <2>18
       DEF Next, Handler, Releaser
<1>3. QED
  BY <1>1, <1>2, PTL DEF Spec

-----------------------------------------------------------------------------
(* One release per VM: the computer account excludes a second VM *)

\* A step keeps the account of a request that owns it: another request of the
\* same identity cannot create the account, and no release deletes it twice.
LEMMA AccountOwnedStep ==
    ASSUME MaxReleases <= 1, TypeOK, AccountOwned, [Next]_vars
    PROVE  AccountOwned'
<1> USE RequestsAssumption, BoundsAssumption DEF TypeOK, AccountOwned, OwnsAccount
<1>1. CASE Tick
  BY <1>1 DEF Tick
<1>2. ASSUME NEW r \in Requests, Handler(r) PROVE AccountOwned'
  <2>1. CASE Search(r) \/ NoneLeft(r) \/ Rollback(r)
    BY <2>1 DEF Search, NoneLeft, Rollback, Goto
  <2>2. CASE Grant(r) \/ Refuse(r)
    BY <2>2 DEF Grant, Refuse, Goto
  <2>3. CASE SetPassword(r) \/ Assemble(r) \/ Respond(r)
    BY <2>3 DEF SetPassword, Assemble, Respond, Goto
  <2>4. CASE Prestage(r)
    BY <2>4 DEF Prestage, Goto, States, Provisioning
  <2>5. QED
    BY <1>2, <2>1, <2>2, <2>3, <2>4 DEF Handler
<1>3. ASSUME NEW r \in Requests, Unanswered(r) \/ Destroy(r) PROVE AccountOwned'
  BY <1>3 DEF Unanswered, Destroy, Goto, Provisioning
<1>4. ASSUME NEW r \in Requests, Releaser(r) PROVE AccountOwned'
  <2>1. CASE CallRelease(r)
    <3>1. sent[r] = 0
      BY <2>1 DEF CallRelease
    <3>2. \A s \in Requests : sent'[s] = IF s = r THEN sent[r] + 1 ELSE sent[s]
      BY <2>1 DEF CallRelease
    <3>3. \A s \in Requests : OwnsAccount(s)' => OwnsAccount(s)
      BY <2>1, <3>1, <3>2 DEF CallRelease, Goto
    <3>4. QED
      BY <2>1, <3>1, <3>2, <3>3 DEF CallRelease, Goto
  <2>2. CASE DeleteComputer(r)
    <3>1. ASSUME NEW s \in Requests, OwnsAccount(s)'
          PROVE  (computer[got[s]] = s)'
      <4>1. s # r /\ OwnsAccount(s)
        BY <2>2, <3>1 DEF DeleteComputer, Goto
      <4>2. computer[got[s]] = s /\ computer[got[r]] = r
        BY <2>2, <4>1 DEF DeleteComputer, Goto
      <4>3. got[s] # got[r] /\ got[s] \in Identities
        BY <4>1, <4>2
      <4>4. QED
        BY <2>2, <4>2, <4>3 DEF DeleteComputer
    <3>2. QED
      BY <2>2, <3>1 DEF DeleteComputer, Goto
  <2>3. CASE ReleaseUnknown(r) \/ ReleaseLease(r)
    BY <2>3 DEF ReleaseUnknown, ReleaseLease, Goto
  <2>4. CASE ReleaseUnanswered(r)
    BY <2>4 DEF ReleaseUnanswered
  <2>5. QED
    BY <1>4, <2>1, <2>2, <2>3, <2>4 DEF Releaser
<1>5. CASE UNCHANGED vars
  BY <1>5 DEF vars
<1>6. QED
  BY <1>1, <1>2, <1>3, <1>4, <1>5 DEF Next

\* When no release is sent twice, no two running VMs ever have the same
\* identity, however long handlers stall, whenever processes die, whatever
\* expires, and even if requests retry or releases carry no vm_id.
THEOREM OneVMPerIdentity ==
    ASSUME MaxReleases <= 1 PROVE Spec => []Exclusive
<1>1. Init => AccountOwned
  BY DEF Init, AccountOwned, OwnsAccount
<1>2. TypeOK /\ AccountOwned /\ [Next]_vars => AccountOwned'
  BY AccountOwnedStep
<1>3. AccountOwned => Exclusive
  BY DEF AccountOwned, OwnsAccount, Exclusive
<1>4. QED
  BY <1>1, <1>2, <1>3, TypeCorrect, PTL DEF Spec

-----------------------------------------------------------------------------
(* Distinct VMs, known when they are released: what a lease term gives *)

LEMMA TermRecordedStep ==
    ASSUME OwnVMs, Adopted = {}, TypeOK, TermRecorded, [Next]_vars
    PROVE  TermRecorded'
<1> USE RequestsAssumption, BoundsAssumption, NoVMAssumption
<1> USE DEF TypeOK, OwnVMs
<1> DEFINE Row(s) == [identity |-> got[s], vm |-> VMOf[s], expires |-> expires[s]]
           Key == \A l, m \in leases : l.identity = m.identity => l = m
           Recorded == \A s \in Requests : InTerm(s) => Row(s) \in leases
<1>0. TermRecorded <=> Recorded /\ Key
  BY DEF TermRecorded
\* A step of r that leaves the grants of the others and the clock alone, and
\* whose transaction, if any, is for the VM of r, keeps the rows of the others.
<1> DEFINE Own(r) ==
      /\ now' = now
      /\ \A s \in Requests \ {r} :
            pc'[s] = pc[s] /\ got'[s] = got[s] /\ expires'[s] = expires[s]
      /\ \/ leases' = leases
         \/ leases' = Purged(leases, now)
         \/ leases' = Released(leases, got[r], VMOf[r])
      /\ InTerm(r)' => Row(r)' \in leases'
<1>1. ASSUME NEW r \in Requests, Own(r) PROVE TermRecorded'
  <2>1. ASSUME NEW s \in Requests, s # r, InTerm(s)' PROVE Row(s)' \in leases'
    <3>1. InTerm(s) /\ Row(s)' = Row(s)
      BY <1>1, <2>1 DEF InTerm, Working
    <3>2. Row(s) \in leases /\ Row(s).vm # VMOf[r] /\ Row(s).expires > now
      BY <1>0, <2>1, <3>1 DEF InTerm
    <3>3. VMOf[r] # NoVM
      OBVIOUS
    <3>4. QED
      BY <1>1, <3>1, <3>2, <3>3 DEF Purged, Released
  <2>2. leases' \subseteq leases
    BY <1>1 DEF Purged, Released
  <2>3. QED
    BY <1>0, <1>1, <2>1, <2>2 DEF TermRecorded
<1>2. CASE Tick
  BY <1>0, <1>2 DEF Tick, InTerm, Working, TermRecorded
<1>3. ASSUME NEW r \in Requests, Handler(r) PROVE TermRecorded'
  <2>1. CASE Search(r)
    <3>1. Own(r)
      BY <2>1 DEF Search, Goto, InTerm, Working, Provisioning
    <3>2. QED
      BY <1>1, <3>1
  <2>2. CASE Grant(r)
    <3> DEFINE i == Matching[r][next[r]]
    <3>1. /\ i \in Identities /\ CanReserve(leases, i, VMOf[r], now)
          /\ leases' = Reserved(leases, i, VMOf[r], now + TTL, now)
          /\ got'[r] = i /\ expires'[r] = now + TTL
      BY <2>2 DEF Grant
    <3>2. Row(r)' \in leases'
      BY <3>1 DEF Reserved
    <3>3. ASSUME NEW s \in Requests, s # r, InTerm(s)' PROVE Row(s)' \in leases'
      <4>1. InTerm(s) /\ Row(s)' = Row(s)
        BY <2>2, <3>3 DEF Grant, Goto, InTerm, Working
      <4>2. Row(s) \in leases /\ Row(s).vm # VMOf[r] /\ Row(s).expires > now
        BY <1>0, <3>3, <4>1 DEF InTerm
      <4>3. Row(s).identity # i
        BY <3>1, <4>2 DEF CanReserve, Purged
      <4>4. QED
        BY <3>1, <4>1, <4>2, <4>3 DEF Reserved, Purged
    <3>4. Key'
      BY <1>0, <3>1 DEF Reserved, Purged
    <3>5. QED
      BY <3>2, <3>3, <3>4 DEF TermRecorded
  <2>3. CASE Refuse(r)
    <3>1. Own(r)
      BY <2>3 DEF Refuse, InTerm, Working, Provisioning
    <3>2. QED
      BY <1>1, <3>1
  <2>4. CASE NoneLeft(r)
    <3>1. Own(r)
      BY <2>4 DEF NoneLeft, Goto, InTerm, Working, Provisioning
    <3>2. QED
      BY <1>1, <3>1
  <2>5. CASE SetPassword(r) \/ Prestage(r) \/ Assemble(r) \/ Respond(r)
    <3>1. /\ UNCHANGED <<now, leases, got, expires>>
          /\ pc[r] \in Provisioning /\ \A s \in Requests \ {r} : pc'[s] = pc[s]
      BY <2>5 DEF SetPassword, Prestage, Assemble, Respond, Goto, Provisioning
    <3>2. Own(r)
      BY <1>0, <3>1 DEF InTerm, Working
    <3>3. QED
      BY <1>1, <3>2
  <2>6. CASE Rollback(r)
    <3>1. Own(r)
      BY <2>6 DEF Rollback, InTerm, Working, Provisioning
    <3>2. QED
      BY <1>1, <3>1
  <2>7. QED
    BY <1>3, <2>1, <2>2, <2>3, <2>4, <2>5, <2>6 DEF Handler
<1>4. ASSUME NEW r \in Requests, Unanswered(r) \/ Destroy(r) PROVE TermRecorded'
  <2>1. Own(r)
    BY <1>4 DEF Unanswered, Destroy, Goto, InTerm, Working, Provisioning
  <2>2. QED
    BY <1>1, <2>1
<1>5. ASSUME NEW r \in Requests, Releaser(r) PROVE TermRecorded'
  <2>1. ~ Working(r)' /\ now' = now /\ UNCHANGED <<got, expires>>
        /\ \A s \in Requests \ {r} : pc'[s] = pc[s]
    BY <1>5 DEF Releaser, CallRelease, ReleaseUnknown, DeleteComputer,
                ReleaseLease, ReleaseUnanswered, Goto, Working, Provisioning
  <2>2. \/ leases' = leases
        \/ leases' = Released(leases, got[r], VMOf[r])
    BY <1>5 DEF Releaser, CallRelease, ReleaseUnknown, DeleteComputer,
                ReleaseLease, ReleaseUnanswered, Goto, ReleaseVM
  <2>3. Own(r)
    BY <2>1, <2>2 DEF InTerm
  <2>4. QED
    BY <1>1, <2>3
<1>6. CASE UNCHANGED vars
  BY <1>0, <1>6 DEF vars, InTerm, Working, TermRecorded
<1>7. QED
  BY <1>2, <1>3, <1>4, <1>5, <1>6 DEF Next

\* Two rows of one identity are one row, and a row names one request.
LEMMA RecordedIsExclusive ==
    ASSUME OwnVMs, TypeOK, TermRecorded PROVE TermExclusive /\ TermKept
<1>1. TermExclusive
  <2> SUFFICES ASSUME NEW r \in Requests, NEW s \in Requests,
                      InTerm(r), InTerm(s), got[r] = got[s]
               PROVE  r = s
    BY DEF TermExclusive
  <2> DEFINE Row(q) == [identity |-> got[q], vm |-> VMOf[q], expires |-> expires[q]]
  <2>1. Row(r) \in leases /\ Row(s) \in leases
    BY DEF TermRecorded
  <2>2. Row(r) = Row(s)
    BY <2>1 DEF TermRecorded
  <2>3. VMOf[r] = VMOf[s]
    BY <2>2
  <2>4. QED
    BY <2>3 DEF OwnVMs
<1>2. TermKept
  BY DEF TermKept, TermRecorded, InTerm, Working
<1>3. QED
  BY <1>1, <1>2

LEMMA TermsRecorded ==
    ASSUME OwnVMs, Adopted = {} PROVE Spec => [](TermExclusive /\ TermKept)
<1>1. Init => TermRecorded
  BY RequestsAssumption DEF Init, TermRecorded, InTerm, Working, Provisioning
<1>2. TypeOK /\ TermRecorded /\ [Next]_vars => TermRecorded'
  BY TermRecordedStep
<1>3. TypeOK /\ TermRecorded => TermExclusive /\ TermKept
  BY RecordedIsExclusive
<1>4. QED
  BY <1>1, <1>2, <1>3, TypeCorrect, PTL DEF Spec

\* When every request is for a VM of its own and releases carry the vm_id, two
\* unexpired leases are of different identities: late, repeated and half-done
\* releases and rollbacks notwithstanding.
THEOREM LeaseTermsExclude ==
    ASSUME OwnVMs, Adopted = {} PROVE Spec => []TermExclusive
BY TermsRecorded, PTL

\* Under the same assumption a lease stays in the table until its term has passed
\* or its VM is destroyed.
THEOREM LeasesLast ==
    ASSUME OwnVMs, Adopted = {} PROVE Spec => []TermKept
BY TermsRecorded, PTL

-----------------------------------------------------------------------------
(* Passwords *)

\* A request that set a password has its lease, or had it: it gets no other.
PasswordOfGrant ==
    \A i \in Identities, r \in Requests :
        password[i] = r => pc[r] \notin {"new", "reserving"}

LEMMA PasswordOfGrantStep ==
    ASSUME TypeOK, PasswordOfGrant, [Next]_vars PROVE PasswordOfGrant'
<1> USE DEF TypeOK, PasswordOfGrant, Provisioning
<1>1. ASSUME NEW r \in Requests, Handler(r) PROVE PasswordOfGrant'
  <2>1. CASE SetPassword(r)
    BY <2>1 DEF SetPassword, Goto
  <2>2. CASE ~ SetPassword(r)
    BY <1>1, <2>2 DEF Handler, Search, Grant, Refuse, NoneLeft, Prestage, Assemble,
                      Rollback, Respond, Goto
  <2>3. QED
    BY <2>1, <2>2
<1>2. ASSUME NEW r \in Requests, Unanswered(r) \/ Destroy(r) \/ Releaser(r)
      PROVE  PasswordOfGrant'
  BY <1>2 DEF Unanswered, Destroy, Releaser, CallRelease, ReleaseUnknown,
              DeleteComputer, ReleaseLease, ReleaseUnanswered, Goto
<1>3. CASE Tick \/ UNCHANGED vars
  BY <1>3 DEF Tick, vars
<1>4. QED
  BY <1>1, <1>2, <1>3 DEF Next

\* A step that grants nothing and sets no password disturbs nothing, unless it
\* makes a request one that has set its password.
LEMMA PasswordStays ==
    ASSUME TypeOK, PasswordCurrent, UNCHANGED <<now, password, got, expires>>,
           \A r \in Requests : Working(r)' /\ pc'[r] # "reserved"
                              => Working(r) /\ pc[r] # "reserved"
    PROVE  PasswordCurrent'
<1>1. SUFFICES ASSUME NEW r \in Requests, InTerm(r)', pc'[r] # "reserved"
               PROVE  \/ password[got[r]] = r
                      \/ \E s \in Requests : password[got[r]] = s /\ now >= expires[s]
  BY DEF PasswordCurrent
<1>2. InTerm(r) /\ pc[r] # "reserved"
  BY <1>1 DEF InTerm
<1>3. QED
  BY <1>2 DEF PasswordCurrent

\* A request that is in its lease term sets the password of an identity nobody else
\* is in its term for; one that is not leaves its name behind.
LEMMA PasswordStep ==
    ASSUME TypeOK, TermExclusive, PasswordOfGrant, PasswordCurrent, [Next]_vars
    PROVE  PasswordCurrent'
<1> USE RequestsAssumption, BoundsAssumption
<1> USE DEF TypeOK, Working, Provisioning
<1>1. CASE Tick
  BY <1>1 DEF Tick, PasswordCurrent, InTerm
<1>2. ASSUME NEW r \in Requests, Handler(r) PROVE PasswordCurrent'
  <2>1. CASE Search(r) \/ Refuse(r) \/ NoneLeft(r)
    BY <2>1, PasswordStays DEF Search, Refuse, NoneLeft, Goto
  <2>2. CASE Grant(r)
    <3>1. \A i \in Identities : password[i] # r
      BY <2>2 DEF Grant, Goto, PasswordOfGrant
    <3>2. \A s \in Requests \ {r} : /\ pc'[s] = pc[s] /\ got'[s] = got[s]
                                   /\ expires'[s] = expires[s]
      BY <2>2 DEF Grant, Goto
    <3>3. pc'[r] = "reserved" /\ UNCHANGED <<now, password>>
      BY <2>2 DEF Grant, Goto
    <3>4. ASSUME NEW s \in Requests \ {r}, InTerm(s)', pc'[s] # "reserved"
          PROVE  \/ password[got[s]] = s
                 \/ \E u \in Requests : password[got[s]] = u /\ now >= expires'[u]
      <4>1. InTerm(s) /\ pc[s] # "reserved" /\ got[s] \in Identities
        BY <3>2, <3>3, <3>4 DEF InTerm
      <4>2. CASE password[got[s]] = s
        BY <4>2
      <4>3. CASE password[got[s]] # s
        <5>1. PICK u \in Requests : password[got[s]] = u /\ now >= expires[u]
          BY <4>1, <4>3 DEF PasswordCurrent
        <5>2. u # r
          BY <3>1, <4>1, <5>1
        <5>3. QED
          BY <3>2, <5>1, <5>2
      <4>4. QED
        BY <4>2, <4>3
    <3>5. SUFFICES ASSUME NEW s \in Requests, InTerm(s)', pc'[s] # "reserved"
                   PROVE  \/ password'[got'[s]] = s
                          \/ \E u \in Requests : password'[got'[s]] = u /\ now' >= expires'[u]
      BY DEF PasswordCurrent
    <3>6. QED
      BY <3>2, <3>3, <3>4, <3>5
  <2>3. CASE SetPassword(r)
    <3> USE DEF PasswordCurrent, InTerm
    <3>1. CASE now < expires[r]
      <4>1. \A s \in Requests : InTerm(s) /\ got[s] = got[r] => s = r
        BY <2>3, <3>1 DEF TermExclusive, SetPassword, Goto
      <4>2. QED
        BY <2>3, <4>1 DEF SetPassword, Goto
    <3>2. CASE ~ now < expires[r]
      BY <2>3, <3>2 DEF SetPassword, Goto
    <3>3. QED
      BY <3>1, <3>2
  <2>4. CASE Prestage(r) \/ Assemble(r) \/ Respond(r)
    BY <2>4, PasswordStays DEF Prestage, Assemble, Respond, Goto
  <2>5. CASE Rollback(r)
    BY <2>5, PasswordStays DEF Rollback
  <2>6. QED
    BY <1>2, <2>1, <2>2, <2>3, <2>4, <2>5 DEF Handler
<1>3. ASSUME NEW r \in Requests, Unanswered(r) \/ Destroy(r) PROVE PasswordCurrent'
  BY <1>3, PasswordStays DEF Unanswered, Destroy, Goto
<1>4. ASSUME NEW r \in Requests, Releaser(r) PROVE PasswordCurrent'
  BY <1>4, PasswordStays DEF Releaser, CallRelease, ReleaseUnknown, DeleteComputer,
              ReleaseLease, ReleaseUnanswered, Goto
<1>5. CASE UNCHANGED vars
  BY <1>5, PasswordStays DEF vars
<1>6. QED
  BY <1>1, <1>2, <1>3, <1>4, <1>5 DEF Next

\* However long handlers stall, the password in a bundle is the agent's password for
\* the whole of the lease term, unless a handler that had outlived its own lease set
\* it since.
THEOREM BundlesStayValid ==
    ASSUME OwnVMs, Adopted = {} PROVE Spec => []PasswordCurrent
<1>1. Init => PasswordOfGrant /\ PasswordCurrent
  BY RequestsAssumption
     DEF Init, PasswordOfGrant, PasswordCurrent, InTerm, Working, Provisioning
<1>2. TypeOK /\ PasswordOfGrant /\ [Next]_vars => PasswordOfGrant'
  BY PasswordOfGrantStep
<1>3. TypeOK /\ TermExclusive /\ PasswordOfGrant /\ PasswordCurrent /\ [Next]_vars
      => PasswordCurrent'
  BY PasswordStep
<1>4. QED
  BY <1>1, <1>2, <1>3, TypeCorrect, LeaseTermsExclude, PTL DEF Spec

-----------------------------------------------------------------------------
(* Revocation *)

\* When releases carry the vm_id, an unexpired lease is only ever removed by
\* a request of the VM it was granted to, retries for one VM included.
THEOREM OnlyOwnersRevoke == ASSUME Adopted = {} PROVE Spec => RevokedByOwner
<1> USE RequestsAssumption, BoundsAssumption, NoVMAssumption
<1> DEFINE Revoked == \A l \in leases \ leases' :
          l.expires > now => \E r \in Requests : VMOf[r] = l.vm /\ pc'[r] # pc[r]
<1>1. TypeOK /\ [Next]_vars => [Revoked]_vars
  <2> SUFFICES ASSUME TypeOK, [Next]_vars,
                      NEW l \in leases, l \notin leases', l.expires > now
               PROVE  \E r \in Requests : VMOf[r] = l.vm /\ pc'[r] # pc[r]
    OBVIOUS
  <2> USE DEF TypeOK
  <2>1. ASSUME NEW r \in Requests, Search(r) PROVE FALSE
    BY <2>1 DEF Search, Purged
  <2>2. ASSUME NEW r \in Requests, Grant(r) PROVE VMOf[r] = l.vm /\ pc'[r] # pc[r]
    BY <2>2 DEF Grant, Goto, Reserved, Purged, CanReserve
  <2>3. ASSUME NEW r \in Requests, Rollback(r)
        PROVE  VMOf[r] = l.vm /\ pc'[r] # pc[r]
    BY <2>3 DEF Rollback, Released
  <2>4. ASSUME NEW r \in Requests, ReleaseUnknown(r) \/ ReleaseLease(r)
        PROVE  VMOf[r] = l.vm /\ pc'[r] # pc[r]
    BY <2>4 DEF ReleaseUnknown, ReleaseLease, ReleaseVM, Released, Goto
  <2>5. leases' # leases
    OBVIOUS
  <2>6. QED
    BY <2>1, <2>2, <2>3, <2>4, <2>5
       DEF Next, vars, Handler, Releaser, Tick, Refuse, NoneLeft, SetPassword,
           Prestage, Assemble, Respond, Unanswered, Destroy, CallRelease,
           DeleteComputer, ReleaseUnanswered
<1>2. QED
  BY <1>1, TypeCorrect, PTL DEF Spec, RevokedByOwner

-----------------------------------------------------------------------------
(* Refinement *)

LEMMA AccountOfGrantStep ==
    ASSUME TypeOK, AccountOfGrant, [Next]_vars PROVE AccountOfGrant'
<1> USE RequestsAssumption, BoundsAssumption DEF TypeOK, AccountOfGrant
<1>1. CASE Tick \/ UNCHANGED vars
  BY <1>1 DEF Tick, vars
<1>2. ASSUME NEW r \in Requests, Search(r) \/ Grant(r) \/ NoneLeft(r)
      PROVE  AccountOfGrant'
  BY <1>2 DEF Search, Grant, NoneLeft, Goto
<1>3. ASSUME NEW r \in Requests,
             Refuse(r) \/ SetPassword(r) \/ Assemble(r) \/ Respond(r)
      PROVE  AccountOfGrant'
  BY <1>3 DEF Refuse, SetPassword, Assemble, Respond, Goto
<1>4. ASSUME NEW r \in Requests, Prestage(r) PROVE AccountOfGrant'
  BY <1>4 DEF Prestage, Goto
<1>5. ASSUME NEW r \in Requests, Rollback(r) \/ Unanswered(r) \/ Destroy(r)
      PROVE  AccountOfGrant'
  BY <1>5 DEF Rollback, Unanswered, Destroy, Goto
<1>6. ASSUME NEW r \in Requests, Releaser(r), ~ DeleteComputer(r)
      PROVE  AccountOfGrant'
  BY <1>6 DEF Releaser, CallRelease, ReleaseUnknown, ReleaseLease,
              ReleaseUnanswered, Goto
<1>7. ASSUME NEW r \in Requests, DeleteComputer(r) PROVE AccountOfGrant'
  <2>1. \A i \in Identities : computer'[i] = computer[i] \/ computer'[i] = None
    BY <1>7 DEF DeleteComputer
  <2>2. got' = got /\ \A s \in Requests : pc'[s] \in {"new", "reserving"} => pc'[s] = pc[s]
    BY <1>7 DEF DeleteComputer, Goto
  <2>3. QED
    BY <2>1, <2>2
<1>8. QED
  BY <1>1, <1>2, <1>3, <1>4, <1>5, <1>6, <1>7 DEF Next, Handler, Releaser

Quiet(r) ==
    \/ Search(r) \/ Grant(r) \/ Refuse(r) \/ NoneLeft(r) \/ SetPassword(r)
    \/ Assemble(r) \/ Rollback(r) \/ Unanswered(r) \/ CallRelease(r)
    \/ ReleaseUnknown(r) \/ ReleaseLease(r) \/ ReleaseUnanswered(r)

\* Every step of the service assigns a free identity to a request that never
\* had one, frees an identity, or changes neither.
LEMMA AssignmentStep ==
    ASSUME MaxReleases <= 1, TypeOK, AccountOwned, AccountOfGrant, [Next]_vars
    PROVE  [Assignment!Next]_<<Holder, Served>>
<1> USE RequestsAssumption, BoundsAssumption DEF TypeOK, AccountOwned, OwnsAccount,
    AccountOfGrant
<1> DEFINE HolderOf(i) == IF computer[i] # None /\ pc[computer[i]] = "running"
                          THEN computer[i] ELSE None
<1>0. Holder = [i \in Identities |-> HolderOf(i)]
  BY DEF Holder
<1>1. ASSUME NEW r \in Requests, Quiet(r) PROVE UNCHANGED <<Holder, Served>>
  <2>1. computer' = computer
        /\ \A s \in Requests : /\ pc'[s] = "running" <=> pc[s] = "running"
                               /\ s \in Served <=> s \in Served'
    BY <1>1 DEF Quiet, Search, Grant, Refuse, NoneLeft, SetPassword, Assemble,
                Rollback, Unanswered, CallRelease, ReleaseUnknown, ReleaseLease,
                ReleaseUnanswered, Goto, Served, Provisioning
  <2>2. Holder' = Holder
    BY <2>1 DEF Holder, Owner
  <2>3. Served' = Served
    BY <2>1 DEF Served
  <2>4. QED
    BY <2>2, <2>3
<1>2. ASSUME NEW r \in Requests, Prestage(r) PROVE UNCHANGED <<Holder, Served>>
  <2>1. \A s \in Requests : /\ pc'[s] = "running" <=> pc[s] = "running"
                            /\ s \in Served <=> s \in Served'
    BY <1>2 DEF Prestage, Goto, Served
  <2>2. \A i \in Identities : HolderOf(i)' = HolderOf(i)
    BY <1>2, <2>1 DEF Prestage, Goto, Owner
  <2>3. QED
    BY <2>1, <2>2 DEF Holder, Served
<1>3. ASSUME NEW r \in Requests, Respond(r) PROVE Assignment!Assign(got[r], r)
  <2>1. computer[got[r]] = r /\ got[r] \in Identities /\ r # None
    BY <1>3 DEF Respond, Goto
  <2>2. Holder[got[r]] = None
    BY <1>3, <2>1 DEF Holder, Respond, Goto
  <2>3. r \notin Served /\ Served' = Served \cup {r}
    BY <1>3 DEF Served, Respond, Goto
  <2>4. \A i \in Identities :
            HolderOf(i)' = IF i = got[r] THEN r ELSE HolderOf(i)
    BY <1>3, <2>1 DEF Respond, Goto, Owner
  <2>5. Holder' = [Holder EXCEPT ![got[r]] = r]
    BY <2>1, <2>4 DEF Holder
  <2>6. QED
    BY <2>2, <2>3, <2>5 DEF Assignment!Assign
<1>4. ASSUME NEW r \in Requests, Destroy(r) PROVE Assignment!Free(got[r])
  <2>1. computer[got[r]] = r /\ got[r] \in Identities /\ r # None
    BY <1>4 DEF Destroy, Goto
  <2>2. Holder[got[r]] # None
    BY <1>4, <2>1 DEF Holder, Destroy, Goto
  <2>3. Served' = Served
    BY <1>4 DEF Served, Destroy, Goto
  <2>4. \A i \in Identities :
            HolderOf(i)' = IF i = got[r] THEN None ELSE HolderOf(i)
    BY <1>4, <2>1 DEF Destroy, Goto, Owner
  <2>5. Holder' = [Holder EXCEPT ![got[r]] = None]
    BY <2>1, <2>4 DEF Holder
  <2>6. QED
    BY <2>2, <2>3, <2>5 DEF Assignment!Free
<1>5. ASSUME NEW r \in Requests, DeleteComputer(r) PROVE UNCHANGED <<Holder, Served>>
  <2>1. computer[got[r]] = r /\ got[r] \in Identities /\ pc[r] = "called"
    BY <1>5 DEF DeleteComputer, Goto
  <2>2. \A s \in Requests : /\ pc'[s] = "running" <=> pc[s] = "running"
                            /\ s \in Served <=> s \in Served'
    BY <1>5 DEF DeleteComputer, Goto, Served
  <2>3. ASSUME NEW i \in Identities PROVE HolderOf(i)' = HolderOf(i)
    <3>1. CASE i = got[r]
      BY <1>5, <2>1, <3>1 DEF DeleteComputer, Goto
    <3>2. CASE i # got[r]
      <4>1. computer'[i] = computer[i] /\ computer[i] \in Requests \cup {None}
        BY <1>5, <3>2 DEF DeleteComputer, Owner
      <4>2. QED
        BY <2>2, <4>1
    <3>3. QED
      BY <3>1, <3>2
  <2>4. QED
    BY <2>2, <2>3 DEF Holder, Served
<1>6. CASE Tick \/ UNCHANGED vars
  BY <1>6 DEF Tick, vars, Holder, Served
<1>7. ASSUME NEW r \in Requests, Respond(r) \/ Destroy(r) PROVE Assignment!Next
  <2>1. got[r] \in Identities
    BY <1>7 DEF Respond, Destroy, Goto
  <2>2. QED
    BY <1>3, <1>4, <1>7, <2>1 DEF Assignment!Next
<1>8. QED
  BY <1>1, <1>2, <1>5, <1>6, <1>7 DEF Next, Handler, Releaser, Quiet

\* When no release is sent twice, the service implements the abstract
\* assignment of identities: one holder at a time, one identity per request.
THEOREM ImplementsAssignment ==
    ASSUME MaxReleases <= 1 PROVE Spec => Implements
<1>1. Init => AccountOwned /\ AccountOfGrant /\ Assignment!Init
  BY RequestsAssumption DEF Init, AccountOwned, OwnsAccount, AccountOfGrant,
                            Assignment!Init, Holder, Served
<1>2. TypeOK /\ AccountOwned /\ AccountOfGrant /\ [Next]_vars
      => AccountOwned' /\ AccountOfGrant' /\ [Assignment!Next]_<<Holder, Served>>
  BY AccountOwnedStep, AccountOfGrantStep, AssignmentStep
<1>3. QED
  BY <1>1, <1>2, TypeCorrect, PTL DEF Spec, Implements, Assignment!Spec

-----------------------------------------------------------------------------
(* The lease table *)

\* Rows that go, or expire, end leases and begin none.
LEMMA RowsGo ==
    ASSUME Purged(leases', now') \subseteq Purged(leases, now)
    PROVE  [Leases!Next]_Leased
<1>1. Leased' \subseteq Leased BY DEF Leased
<1>2. Leased' = Leased \ (Leased \ Leased') BY <1>1
<1>3. Leases!End(Leased \ Leased') BY <1>2 DEF Leases!End
<1> QED BY <1>3 DEF Leases!Next

\* A reservation refreshes the lease of its VM, or begins one of a free identity.
LEMMA RowReserved ==
    ASSUME NEW i \in Identities, NEW v \in VMs, NEW t \in Int, now \in Int, t > now,
           CanReserve(leases, i, v, now), now' = now,
           leases' = Reserved(leases, i, v, t, now)
    PROVE  [Leases!Next]_Leased
<1> DEFINE row == [identity |-> i, vm |-> v, expires |-> t]
<1>1. Purged(leases', now') = {l \in Purged(leases, now) : l.identity # i} \cup {row}
  BY DEF Purged, Reserved
<1>2. \A l \in Purged(leases, now) : l.identity = i => l.vm = v BY DEF CanReserve
<1>3. row.identity = i /\ row.vm = v OBVIOUS
<1> HIDE DEF row
<1>4. Leased' = Leased \cup {<<i, v>>}
  <2>1. ASSUME NEW x \in Leased' PROVE x \in Leased \cup {<<i, v>>}
    BY <1>1, <1>3, <2>1 DEF Leased
  <2>2. ASSUME NEW l \in Purged(leases, now) PROVE <<l.identity, l.vm>> \in Leased'
    BY <1>1, <1>2, <1>3, <2>2 DEF Leased
  <2>3. <<i, v>> \in Leased' BY <1>1, <1>3 DEF Leased
  <2> QED BY <2>1, <2>2, <2>3 DEF Leased
<1>5. CASE \E l \in Purged(leases, now) : l.identity = i
  <2>1. <<i, v>> \in Leased BY <1>2, <1>5 DEF Leased
  <2> QED BY <1>4, <2>1
<1>6. CASE \A l \in Purged(leases, now) : l.identity # i
  <2>1. \A x \in Leased : x[1] # i BY <1>6 DEF Leased
  <2>2. Leases!Grant(i, v) BY <1>4, <2>1 DEF Leases!Grant
  <2> QED BY <2>2 DEF Leases!Next
<1> QED BY <1>5, <1>6

LEMMA LeaseStep ==
    ASSUME TypeOK, [Next]_vars PROVE [Leases!Next]_Leased
<1> USE RequestsAssumption, BoundsAssumption DEF TypeOK
<1>1. ASSUME NEW r \in Requests, Grant(r) PROVE [Leases!Next]_Leased
  <2> DEFINE i == Matching[r][next[r]]
  <2>1. i \in Identities /\ VMOf[r] \in VMs
    BY <1>1 DEF Grant
  <2>2. /\ CanReserve(leases, i, VMOf[r], now) /\ now' = now
        /\ leases' = Reserved(leases, i, VMOf[r], now + TTL, now)
    BY <1>1 DEF Grant
  <2>3. now \in Int /\ now + TTL \in Int /\ now + TTL > now OBVIOUS
  <2> HIDE DEF i
  <2> QED BY <2>1, <2>2, <2>3, RowReserved
<1>2. CASE Tick
  <2>1. leases' = leases /\ now' = now + 1 BY <1>2 DEF Tick
  <2>2. \A l \in leases : l.expires \in Int BY DEF Lease
  <2>3. Purged(leases', now') \subseteq Purged(leases, now)
    BY <2>1, <2>2 DEF Purged
  <2> QED BY <2>3, RowsGo
<1>3. ASSUME leases' \subseteq leases, now' = now PROVE [Leases!Next]_Leased
  BY <1>3, RowsGo DEF Purged
<1>4. ASSUME NEW r \in Requests, Search(r) PROVE leases' \subseteq leases /\ now' = now
  BY <1>4 DEF Search, Purged
<1>5. ASSUME NEW r \in Requests, Rollback(r) \/ ReleaseUnknown(r) \/ ReleaseLease(r)
      PROVE  leases' \subseteq leases /\ now' = now
  BY <1>5 DEF Rollback, ReleaseUnknown, ReleaseLease, Released
<1>6. ASSUME NEW r \in Requests,
             Refuse(r) \/ NoneLeft(r) \/ SetPassword(r) \/ Prestage(r) \/ Assemble(r)
             \/ Respond(r) \/ Unanswered(r) \/ Destroy(r) \/ CallRelease(r)
             \/ DeleteComputer(r) \/ ReleaseUnanswered(r)
      PROVE  leases' \subseteq leases /\ now' = now
  BY <1>6 DEF Refuse, NoneLeft, SetPassword, Prestage, Assemble, Respond, Unanswered,
              Destroy, CallRelease, DeleteComputer, ReleaseUnanswered
<1>7. UNCHANGED vars => leases' \subseteq leases /\ now' = now BY DEF vars
<1> QED BY <1>1, <1>2, <1>3, <1>4, <1>5, <1>6, <1>7 DEF Next, Handler, Releaser

\* The table of the service implements LeaseService, whatever requests are
\* repeated, released twice or by name, rolled back or left unanswered.
THEOREM LeasesArePromised == Spec => LeasesPromised
<1>1. Init => Leases!Init
  <2>1. Init => Leased = {} BY DEF Init, Leased, Purged
  <2> QED BY <2>1 DEF Leases!Init
<1>2. TypeOK /\ [Next]_vars => [Leases!Next]_Leased BY LeaseStep
<1> QED BY <1>1, <1>2, TypeCorrect, PTL DEF Spec, LeasesPromised, Leases!Spec
=============================================================================
