--------------------------- MODULE CredentialStore ---------------------------
(***************************************************************************)
(* References to credentials that can be fetched once: FileCredentialStore  *)
(* of enterprise/provisioner/credential_store.py and the routes of          *)
(* service.py that store (POST /provision) and fetch (DELETE                *)
(* /credentials/{ref}).  A reference is a file in a directory that all      *)
(* processes of the service share.  A process does one request at a time.   *)
(***************************************************************************)
EXTENDS AgentDirectory

CONSTANTS Refs

VARIABLES credential,  \* the file of a reference
          fetch,       \* the fetch a process is at, None without one
          handed,      \* observation: references that a process has answered
          spoilt       \* observation: references lost to their age, to a purge that
                       \* could not read them, or to the end of a process

credentials == <<credential, fetch, handed, spoilt>>

\* What the process has done: found, read or removed the file.
Fetch == [ref : Refs, step : {"found", "read", "removed"}]

ASSUME FetchAssumption == None \notin Fetch

CredentialsTypeOK ==
    /\ credential \in [Refs -> {"none", "fresh", "expired", "gone"}]
    /\ fetch \in [Services -> Fetch \cup {None}]
    /\ handed \in SUBSET Refs
    /\ spoilt \in SUBSET Refs

CredentialsInit ==
    /\ credential = [r \in Refs |-> "none"]
    /\ fetch = [s \in Services |-> None]
    /\ handed = {}
    /\ spoilt = {}

-----------------------------------------------------------------------------
Fetching(s) == fetch[s] # None
Exists(r)   == credential[r] \in {"fresh", "expired"}
Has(s, step) == Fetching(s) /\ fetch[s].step = step

\* Variant: of the two ages the wrong one is removed.
PurgedWrong(unreadable) ==
    [r \in Refs |-> IF credential[r] = "fresh" \/ r \in unreadable
                    THEN "gone" ELSE credential[r]]

\* purge_expired(): expired files are removed, and those that cannot be read,
\* whatever the reason.
Purged(unreadable) ==
    [r \in Refs |-> IF credential[r] = "expired" \/ r \in unreadable
                    THEN "gone" ELSE credential[r]]

\* The end of POST /provision; the reference is a new UUID, and the file is
\* replaced in one operation.
Store(s, r) ==
    /\ Requested
    /\ ~ Fetching(s) /\ credential[r] = "none"
    /\ \E bad \in SUBSET {u \in Refs : Exists(u)} :
         /\ credential' = [Purged(bad) EXCEPT ![r] = "fresh"]
         /\ spoilt' = spoilt \cup bad
    /\ UNCHANGED <<fetch, handed, accounts, policies>>

\* fetch_and_delete(): purge, and is there a file?  Without one: 404.
Find(s, r) ==
    /\ Requested
    /\ ~ Fetching(s) /\ credential[r] # "none"
    /\ \E bad \in SUBSET {u \in Refs : Exists(u)} :
         /\ credential' = Purged(bad)
         /\ spoilt' = spoilt \cup bad
         /\ fetch' = IF Purged(bad)[r] = "gone" THEN fetch
                     ELSE [fetch EXCEPT ![s] = [ref |-> r, step |-> "found"]]
    /\ UNCHANGED <<handed, accounts, policies>>

\* The file is read, and its age is in order.
Read(s) ==
    /\ Has(s, "found") /\ credential[fetch[s].ref] = "fresh"
    /\ fetch' = [fetch EXCEPT ![s].step = "read"]
    /\ UNCHANGED <<credential, handed, spoilt, directory>>

\* Too old: the file is removed, 404.
TooOld(s) ==
    /\ Has(s, "found") /\ credential[fetch[s].ref] = "expired"
    /\ credential' = [credential EXCEPT ![fetch[s].ref] = "gone"]
    /\ fetch' = [fetch EXCEPT ![s] = None]
    /\ UNCHANGED <<handed, spoilt, directory>>

\* Another process removed the file, or it cannot be opened or removed: 500.
NoFile(s) ==
    /\ Has(s, "found") \/ Has(s, "read")
    /\ fetch' = [fetch EXCEPT ![s] = None]
    /\ UNCHANGED <<credential, handed, spoilt, directory>>

\* unlink(missing_ok=True): it does not matter whether another process was first.
Unlink(s) ==
    /\ Has(s, "read")
    /\ credential' = [credential EXCEPT ![fetch[s].ref] = "gone"]
    /\ fetch' = [fetch EXCEPT ![s].step = "removed"]
    /\ UNCHANGED <<handed, spoilt, directory>>

\* The credentials are the answer.
Hand(s) ==
    /\ Has(s, "removed")
    /\ handed' = handed \cup {fetch[s].ref}
    /\ fetch' = [fetch EXCEPT ![s] = None]
    /\ UNCHANGED <<credential, spoilt, directory>>

\* Time: the age of a file exceeds its ttl.
Expire(r) ==
    /\ credential[r] = "fresh"
    /\ credential' = [credential EXCEPT ![r] = "expired"]
    /\ spoilt' = spoilt \cup {r}
    /\ UNCHANGED <<fetch, handed, directory>>

\* The process ends, at any moment: what it has removed nobody has any more.
Drop(s) ==
    /\ fetch' = [fetch EXCEPT ![s] = None]
    /\ spoilt' = IF Has(s, "removed") THEN spoilt \cup {fetch[s].ref} ELSE spoilt
    /\ UNCHANGED <<credential, handed, directory>>

Vend(s) ==
    \/ \E r \in Refs : Store(s, r) \/ Find(s, r)
    \/ Read(s) \/ TooOld(s) \/ NoFile(s) \/ Unlink(s) \/ Hand(s)

-----------------------------------------------------------------------------
(* Properties *)

\* Credentials that were stored do not disappear while they could be fetched: they
\* were answered or a process is about to, or they were too old, or a purge could
\* not read their file, or a process ended after it had removed the file
\* (credential_store.py:126-133, 155-160).
CredentialsKept == \A r \in Refs : credential[r] = "gone" =>
    r \in handed \cup spoilt \/ \E s \in Services : Has(s, "removed") /\ fetch[s].ref = r

=============================================================================
