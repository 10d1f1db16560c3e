--------------------------- MODULE AgentDirectory ---------------------------
(***************************************************************************)
(* Agents and policies as directory objects, and the administrators who     *)
(* change them with samba4/scripts/agent-manager.py.  Creating an agent is  *)
(* three operations: samba-tool makes a user account, it is moved to the    *)
(* container of the agents, and it gets the class x-agent with its          *)
(* attributes.  Every other command is one operation, which the directory   *)
(* serialises.  An agent is found by search only once it has the class.     *)
(***************************************************************************)
EXTENDS PolicyMerge

CONSTANTS Agents, Admins, Tools, GPOs, Levels,
          Services,     \* processes of the provisioning service
          Listed,       \* the order in which the values of an attribute are read
          Draft,        \* the agent and attributes an administrator creates
          Existing,     \* agents that exist from the start, and their attributes
          Versions,     \* attributes an edit may give a policy
          Files,        \* files of settings an edit may give it
          FirstPolicy, FirstFile,
          GPOAttrs,     \* attributes of an instruction GPO
          MaxRequests   \* bound on the commands and requests of a behaviour

\* Attributes of an agent.  add_single() of to_ldap_attrs() leaves out what is
\* falsy, so a trust level of 0 is no value at all.
Entry == [type : Types, trust : Levels \cup {Unset},
          tools : SUBSET Tools, denied : SUBSET Tools, policies : SUBSET Policies,
          gpos : SUBSET GPOs, quota : Values \cup {Unset}]

ToLdapAttrs(agent) == [agent EXCEPT !.trust = IF @ = 0 THEN Unset ELSE @]

\* The default of a missing level in LDAPClient.search_agents() and in the
\* assembler (from_ldap_entry() of agent-manager.py has 2).
TrustOf(e) == IF e.trust = Unset THEN 0 ELSE e.trust

Drafted == [type : Types, trust : Levels, tools : SUBSET Tools, denied : SUBSET Tools,
            policies : SUBSET Policies, gpos : SUBSET GPOs, quota : Values \cup {Unset}]

ASSUME DraftAssumption ==
    /\ None \notin Drafted \cup Entry
    /\ Levels \subseteq Nat /\ Unset \notin Levels
    /\ Draft \in [Admins -> [agent : Agents, attrs : Drafted]]
    /\ Existing \in [Agents -> Entry \cup {None}]
    /\ MaxRequests \in Nat

ASSUME GPOAssumption ==
    GPOAttrs \in [GPOs -> [priority : Int, enabled : BOOLEAN,
                           strategy : {"append", "prepend", "replace"}]]

GPOPriority == [g \in GPOs |-> GPOAttrs[g].priority]

ASSUME ListedAssumption ==
    \A S \in (SUBSET Policies) \cup (SUBSET GPOs) :
       Listed[S] \in Seq(S) /\ ToSet(Listed[S]) = S /\ IsInjective(Listed[S])

ASSUME VersionAssumption ==
    /\ Versions \in [Policies -> SUBSET (Attributes \cup {None})]
    /\ Files \in [Policies -> SUBSET (Content \cup {None})]
    /\ FirstPolicy \in [Policies -> Attributes \cup {None}]
    /\ FirstFile \in [Policies -> Content \cup {None}]

VARIABLES place,     \* where the account of an agent is: none, users, agents
          entry,     \* its attributes, None without the class x-agent
          creating,  \* how far the create command of an administrator is
          made,      \* observation: who reported to have made the account there is
          attrs,     \* the attributes of a policy, None: no such object
          file,      \* its file in SYSVOL, None: no readable file
          requests   \* commands and requests so far

accounts  == <<place, entry, creating, made>>
policies  == <<attrs, file>>
directory == <<accounts, policies, requests>>

DirectoryTypeOK ==
    /\ place \in [Agents -> {"none", "users", "agents"}]
    /\ entry \in [Agents -> Entry \cup {None}]
    /\ \A a \in Agents : entry[a] # None => place[a] = "agents"
    /\ creating \in [Admins -> {"no", "user", "moved", "done", "failed"}]
    /\ made \in [Agents -> SUBSET Admins]
    /\ attrs \in [Policies -> Attributes \cup {None}]
    /\ file \in [Policies -> Content \cup {None}]
    /\ requests \in Nat

DirectoryInit ==
    /\ place = [a \in Agents |-> IF Existing[a] = None THEN "none" ELSE "agents"]
    /\ entry = Existing
    /\ creating = [d \in Admins |-> "no"]
    /\ made = [a \in Agents |-> {}]
    /\ attrs = FirstPolicy /\ file = FirstFile
    /\ requests = 0

\* Every command and every request of a client counts.
Requested == requests < MaxRequests /\ requests' = requests + 1

Goes(d, from, to) == creating[d] = from /\ creating' = [creating EXCEPT ![d] = to]

-----------------------------------------------------------------------------
(* agent-manager.py agent create *)

\* samba-tool user create: an error if an account has the name.
CreateUser(d) ==
    LET a == Draft[d].agent IN
    /\ Requested
    /\ \/ /\ place[a] = "none"
          /\ Goes(d, "no", "user")
          /\ place' = [place EXCEPT ![a] = "users"]
       \/ /\ place[a] # "none"
          /\ Goes(d, "no", "failed")
          /\ UNCHANGED place
    /\ UNCHANGED <<entry, made, policies>>

\* rename_s() from CN=Users; NO_SUCH_OBJECT is taken for an account that has
\* been moved already.
Move(d) ==
    LET a == Draft[d].agent IN
    /\ Goes(d, "user", "moved")
    /\ place' = [place EXCEPT ![a] = IF @ = "users" THEN "agents" ELSE @]
    /\ UNCHANGED <<entry, made, policies, requests>>

\* Variant: the attributes replace what is there, as in update_agent().
AddAttributesReplacing(d) ==
    LET a == Draft[d].agent IN
    /\ Goes(d, "moved", "done")
    /\ place[a] = "agents"
    /\ entry' = [entry EXCEPT ![a] = ToLdapAttrs(Draft[d].attrs)]
    /\ made' = [made EXCEPT ![a] = @ \cup {d}]
    /\ UNCHANGED <<place, policies, requests>>

\* modify_s() adds the class and the attributes in one operation, which fails
\* if the object is elsewhere or has the class.
AddAttributes(d) ==
    LET a == Draft[d].agent IN
    /\ \/ /\ Goes(d, "moved", "done")
          /\ place[a] = "agents" /\ entry[a] = None
          /\ entry' = [entry EXCEPT ![a] = ToLdapAttrs(Draft[d].attrs)]
          /\ made' = [made EXCEPT ![a] = @ \cup {d}]
       \/ /\ Goes(d, "moved", "failed")
          /\ place[a] # "agents" \/ entry[a] # None
          /\ UNCHANGED <<entry, made>>
    /\ UNCHANGED <<place, policies, requests>>

\* A step raises an error of another kind, or the command is interrupted: the
\* account stays as it is.
CreateFails(d) ==
    /\ Goes(d, creating[d], "failed")
    /\ creating[d] \in {"user", "moved"}
    /\ UNCHANGED <<place, entry, made, policies, requests>>

-----------------------------------------------------------------------------
(* Commands of one operation; on an object without the class, or none, they
   raise an error and change nothing *)

\* Variant: the object in the container of the agents stays.
DeleteAgentKeeping(a) ==
    /\ Requested
    /\ place[a] # "none"
    /\ place' = [place EXCEPT ![a] = "none"]
    /\ made' = [made EXCEPT ![a] = {}]
    /\ UNCHANGED <<entry, creating, policies>>

\* samba-tool user delete finds the account by its name, wherever it is.
DeleteAgent(a) ==
    /\ Requested
    /\ place[a] # "none"
    /\ place' = [place EXCEPT ![a] = "none"]
    /\ entry' = [entry EXCEPT ![a] = None]
    /\ made' = [made EXCEPT ![a] = {}]
    /\ UNCHANGED <<creating, policies>>

Modify(a, e) ==
    /\ Requested
    /\ entry[a] # None /\ entry[a] # e
    /\ entry' = [entry EXCEPT ![a] = e]
    /\ UNCHANGED <<place, creating, made, policies>>

\* update_agent(): MOD_REPLACE, of the type and the trust level.
UpdateAgent(a) ==
    \/ \E l \in Levels : Modify(a, [entry[a] EXCEPT !.trust = l])
    \/ \E t \in Types : Modify(a, [entry[a] EXCEPT !.type = t])

GrantTool(a, t)    == Modify(a, [entry[a] EXCEPT !.tools = @ \cup {t}])
RevokeTool(a, t)   == Modify(a, [entry[a] EXCEPT !.tools = @ \ {t}])
LinkPolicy(a, p)   == Modify(a, [entry[a] EXCEPT !.policies = @ \cup {p}])
UnlinkPolicy(a, p) == Modify(a, [entry[a] EXCEPT !.policies = @ \ {p}])
LinkGPO(a, g)      == Modify(a, [entry[a] EXCEPT !.gpos = @ \cup {g}])
UnlinkGPO(a, g)    == Modify(a, [entry[a] EXCEPT !.gpos = @ \ {g}])

\* ldapmodify, for what agent-manager.py has no command.
DenyTool(a, t)     == Modify(a, [entry[a] EXCEPT !.denied = @ \cup {t}])

EditPolicy(p) ==
    /\ Requested
    /\ attrs' \in {[attrs EXCEPT ![p] = v] : v \in Versions[p] \ {attrs[p]}}
    /\ UNCHANGED <<accounts, file>>

EditFile(p) ==
    /\ Requested
    /\ file' \in {[file EXCEPT ![p] = f] : f \in Files[p] \ {file[p]}}
    /\ UNCHANGED <<accounts, attrs>>

-----------------------------------------------------------------------------
(* What agent-manager.py shows *)

\* agent get: a level that is missing is shown as 2.
FromLdapEntry(e) == [e EXCEPT !.trust = IF @ = Unset THEN 2 ELSE @]

\* policy effective: higher priorities first.
EffectivePolicies(a) ==
    SortedDown(Listed[FromLdapEntry(entry[a]).policies],
               {p \in Policies : attrs[p] # None},
               [p \in Policies |-> IF attrs[p] = None THEN 0 ELSE attrs[p].priority])

\* gpo effective: lower priorities first, each with its flag and its strategy.
EffectiveGPOs(a) ==
    LET gpos == Sorted(Listed[entry[a].gpos], entry[a].gpos, GPOPriority)
    IN  [i \in DOMAIN gpos |-> [name |-> gpos[i], enabled |-> GPOAttrs[gpos[i]].enabled,
                                strategy |-> GPOAttrs[gpos[i]].strategy]]

-----------------------------------------------------------------------------
Create(d) == CreateUser(d) \/ Move(d) \/ AddAttributes(d) \/ CreateFails(d)

Change(a) ==
    \/ DeleteAgent(a) \/ UpdateAgent(a)
    \/ \E t \in Tools : GrantTool(a, t) \/ RevokeTool(a, t) \/ DenyTool(a, t)
    \/ \E p \in Policies : LinkPolicy(a, p) \/ UnlinkPolicy(a, p)
    \/ \E g \in GPOs : LinkGPO(a, g) \/ UnlinkGPO(a, g)

\* What an administrator may do at any moment.
Administer ==
    \/ \E d \in Admins : Create(d)
    \/ \E a \in Agents : Change(a)

-----------------------------------------------------------------------------
(* Properties *)

\* At most one create command reports success for an account, however commands
\* for one name and deletions overtake each other between the operations of a
\* command, and none does for an agent that was there before: the loser of a
\* race learns of it (agent-manager.py:230-253).
CreatedOnce == \A a \in Agents :
    /\ \A d, e \in made[a] : d = e
    /\ made[a] # {} => entry[a] # None

=============================================================================
