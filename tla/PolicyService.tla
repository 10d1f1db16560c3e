--------------------------- MODULE PolicyService ---------------------------
(***************************************************************************)
(* The provisioning service computes the policy of an agent from the        *)
(* directory (GET /agent/{name}/config, and every provisioning): service.py *)
(* get_agent_config() and PolicyLoader of policy.py.  A process works on    *)
(* one request at a time, because its lookups are subprocesses it waits     *)
(* for; the directory may change between two of them.  What a process has   *)
(* loaded it keeps until it ends: nothing calls invalidate_cache().         *)
(***************************************************************************)
EXTENDS AgentDirectory

VARIABLES cache,    \* _policy_cache of a process
          request   \* the request it works on, None without one

service == <<cache, request>>

\* reading: attributes of the policy whose file is read next, None before
\* its lookup.  missed is an observation: policies that changed since the
\* request came in, or whose lookup or file failed.
Request == [agent : Agents, identity : Entry, index : Nat \ {0},
            reading : Attributes \cup {None}, missed : SUBSET Policies]

ServiceTypeOK ==
    /\ cache \in [Services -> [Policies -> Definition \cup {None}]]
    /\ request \in [Services -> Request \cup {None}]

ServiceInit ==
    /\ cache = [s \in Services |-> [p \in Policies |-> None]]
    /\ request = [s \in Services |-> None]

-----------------------------------------------------------------------------
Busy(s)    == request[s] # None
Links(s)   == Listed[request[s].identity.policies]
Linked(s)  == Links(s)[request[s].index]
Loading(s) == Busy(s) /\ request[s].index <= Len(Links(s))
Ready(s)   == Busy(s) /\ request[s].index > Len(Links(s))

\* get_agent(): one search.
Ask(s, a) ==
    /\ Requested
    /\ ~ Busy(s) /\ entry[a] # None
    /\ request' = [request EXCEPT ![s] =
                     [agent |-> a, identity |-> entry[a], index |-> 1,
                      reading |-> None, missed |-> {}]]
    /\ UNCHANGED <<cache, accounts, policies>>

Miss(s, missed) ==
    request' = [request EXCEPT ![s].index = @ + 1, ![s].reading = None,
                               ![s].missed = @ \cup missed]
Advance(s) == Miss(s, {})

Hit(s) ==
    /\ Loading(s) /\ cache[s][Linked(s)] # None
    /\ Advance(s)
    /\ UNCHANGED <<cache, directory>>

\* get_policy(): ldapsearch fails, or has no such object; both are None.
NotFound(s) ==
    /\ Loading(s) /\ cache[s][Linked(s)] = None /\ request[s].reading = None
    /\ Miss(s, IF attrs[Linked(s)] = None THEN {} ELSE {Linked(s)})
    /\ UNCHANGED <<cache, directory>>

Found(s) ==
    /\ Loading(s) /\ cache[s][Linked(s)] = None /\ request[s].reading = None
    /\ attrs[Linked(s)] # None
    /\ request' = [request EXCEPT ![s].reading = attrs[Linked(s)]]
    /\ UNCHANGED <<cache, directory>>

Load(s, content) ==
    /\ Loading(s) /\ request[s].reading # None
    /\ cache' = [cache EXCEPT ![s][Linked(s)] =
                   [attrs |-> request[s].reading, content |-> content]]

ReadFile(s) ==
    /\ Load(s, ContentOf(file[Linked(s)]))
    /\ Advance(s)
    /\ UNCHANGED directory

\* _load_policy_content() fails: the policy is cached, enabled and empty.
ReadFails(s) ==
    /\ Load(s, Empty)
    /\ Miss(s, {Linked(s)})
    /\ UNCHANGED directory

Respond(s) ==
    /\ Ready(s)
    /\ request' = [request EXCEPT ![s] = None]
    /\ UNCHANGED <<cache, directory>>

\* The process ends, at any moment, and is started again.
Forget(s) ==
    /\ cache' = [cache EXCEPT ![s] = [p \in Policies |-> None]]
    /\ request' = [request EXCEPT ![s] = None]
    /\ UNCHANGED directory

Serve(s) ==
    \/ \E a \in Agents : Ask(s, a)
    \/ Hit(s) \/ NotFound(s) \/ Found(s) \/ ReadFile(s) \/ ReadFails(s) \/ Respond(s)

\* A policy changes, whatever requests are under way.
Edit(p) ==
    /\ EditPolicy(p) \/ EditFile(p)
    /\ request' = [s \in Services |->
                     IF Busy(s) THEN [request[s] EXCEPT !.missed = @ \cup {p}] ELSE None]
    /\ UNCHANGED cache

-----------------------------------------------------------------------------
(* Properties *)

\* The policies of the directory.
Current == [p \in Policies |-> IF attrs[p] = None THEN None
                               ELSE [attrs |-> attrs[p], content |-> ContentOf(file[p])]]

\* What the request of a process got, from definitions of its links.
Got(s, loaded) == [p \in Policies |-> IF p \in request[s].identity.policies
                                     THEN loaded[p] ELSE None]
Merge(s, loaded) ==
    LoadPolicies(Links(s), Got(s, loaded),
                 request[s].identity.type, TrustOf(request[s].identity))
Answer(s) == Merge(s, cache[s])

Unread(d) == d # None /\ d.content = Empty

\* The policy a process answers is that of the directory, but for policies that
\* changed while the request was under way, whose lookup failed or whose file could
\* not be read (service.py:278 "Get current configuration", :280 "refresh their
\* config at runtime", :286 "Reload policy").
FreshAnswers == \A s \in Services : Ready(s) =>
    Answer(s) = Merge(s, [p \in Policies |-> IF p \in request[s].missed \/ Unread(cache[s][p])
                                             THEN cache[s][p] ELSE Current[p]])

\* In an answer the policy with the highest priority determines each key, and
\* every policy that applies adds to each list (policy.py:189, 205-212).
HighestWins == \A s \in Services : Ready(s) =>
    LET loaded == Got(s, cache[s])
        chosen == Applicable(Links(s), loaded, request[s].identity.type,
                             TrustOf(request[s].identity))
    IN  /\ \A k \in Keys  : Answer(s).set[k] = ValueOf(Links(s), chosen, loaded, k, Defaults[k])
        /\ \A l \in Lists : Answer(s).lists[l] = ItemsOf(Links(s), chosen, loaded, l)

=============================================================================
