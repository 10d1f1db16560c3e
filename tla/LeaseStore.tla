----------------------------- MODULE LeaseStore -----------------------------
(***************************************************************************)
(* The identity lease table of enterprise/provisioner/lease_store.py.      *)
(* A table is a set of rows; each SQL transaction of SQLiteLeaseStore is    *)
(* one operator from the table it finds to the table it commits.  SQLite    *)
(* serialises the transactions (BEGIN IMMEDIATE), so nothing smaller than a *)
(* transaction is visible to another provisioner process.                   *)
(***************************************************************************)
EXTENDS Integers

CONSTANTS Identities,  \* agent accounts of the directory
          VMs,         \* virtual machines that ask for an identity
          NoVM         \* the empty vm_id, for which release() has no filter

ASSUME NoVMAssumption == NoVM \notin VMs

Lease == [identity : Identities, vm : VMs, expires : Int]

\* Variant: the comparison ends a lease one time unit early.
PurgedEarly(table, now) == {l \in table : l.expires > now + 1}

\* DELETE ... WHERE expires_at <= now
Purged(table, now) == {l \in table : l.expires > now}

\* Variant: the VM of an existing row is not compared.
CanReserveAlways(table, i, vm, now) == TRUE

\* reserve() succeeds unless an unexpired row gives the identity to another VM.
CanReserve(table, i, vm, now) ==
    \A l \in Purged(table, now) : l.identity = i => l.vm = vm

\* The table after a successful reserve(): the expired rows are gone, the row
\* of i is inserted or, for the same VM, refreshed.  A refused reserve() rolls
\* its transaction back and leaves the table as it was.
Reserved(table, i, vm, expires, now) ==
    {l \in Purged(table, now) : l.identity # i}
        \cup {[identity |-> i, vm |-> vm, expires |-> expires]}

\* Variant: the delete is by identity only.
ReleasedByName(table, i, vm) == {l \in table : l.identity # i}

\* release() deletes the row of i, and only the one of vm when a vm is given.
Released(table, i, vm) ==
    {l \in table : ~ (l.identity = i /\ (vm = NoVM \/ l.vm = vm))}

=============================================================================
