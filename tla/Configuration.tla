---------------------------- MODULE Configuration ----------------------------
(***************************************************************************)
(* The directory with all who use it at the same time: administrators with  *)
(* agent-manager.py, processes of the provisioning service that answer      *)
(* requests for configurations and credentials, and a launcher that seals   *)
(* the configuration of an agent.                                           *)
(***************************************************************************)
EXTENDS PolicyService, ConfigAssembler, CredentialStore

CONSTANTS Askers   \* processes that get requests for configurations

ASSUME AskersAssumption == Askers \subseteq Services

vars == <<directory, service, sealing, credentials>>

TypeOK == DirectoryTypeOK /\ ServiceTypeOK /\ AssemblerTypeOK /\ CredentialsTypeOK

Init == DirectoryInit /\ ServiceInit /\ AssemblerInit /\ CredentialsInit

\* A process has one event loop, which waits for the lookups of a request.
Process(s) ==
    \/ /\ s \in Askers /\ ~ Fetching(s)
       /\ Serve(s)
       /\ UNCHANGED <<sealing, credentials>>
    \/ /\ ~ Busy(s)
       /\ Vend(s)
       /\ UNCHANGED <<service, sealing>>

\* A process ends and is started again.
Restart(s) == Forget(s) /\ Drop(s) /\ UNCHANGED sealing

Launcher == Assemble /\ UNCHANGED <<service, credentials>>

Administrator ==
    \/ Administer /\ UNCHANGED <<service, sealing, credentials>>
    \/ \E p \in Policies : Edit(p) /\ Behind(p) /\ UNCHANGED credentials

Time == \E r \in Refs : Expire(r) /\ UNCHANGED <<service, sealing>>

Next ==
    \/ \E s \in Services : Process(s) \/ Restart(s)
    \/ Launcher \/ Administrator \/ Time

Spec == Init /\ [][Next]_vars

-----------------------------------------------------------------------------
(* Properties of the composition *)

\* What the service would answer for a sealed identity, without a cache.
Served == LoadPolicies(PolicyLinks, Current, sealing.identity.type,
                       TrustOf(sealing.identity))

\* Each of the policies says whether it is enabled: the service takes one that
\* does not for enabled, the launcher and agent-manager.py for disabled.
Explicit(names) == \A p \in names : attrs[p] # None => attrs[p].enabled # "absent"

\* A sealed configuration denies whatever the service denies the agent, although
\* the two merge differently, if no search failed and no policy changed meanwhile
\* (config_assembler.py:482-484, policy.py:302).
SealedAsStrict == Assembled /\ ~ sealing.lost /\ Explicit(sealing.identity.policies) =>
    Served.lists[Deny] \subseteq SealedPolicy.lists[Deny]

\* For each limit a sealed configuration has the value of the enabled policy with
\* the highest priority (docs/USER-GUIDE.md:146 "merges policies by priority",
\* samba4/docs/SCHEMA.md:167 "Higher priority wins on conflict").
SealedByPriority == Assembled /\ ~ sealing.lost =>
    LET enabled == {p \in Policies : attrs[p] # None /\ attrs[p].enabled = "TRUE"}
    IN  \A k \in SealedKeys \ {QuotaKey} :
          SealedPolicy.set[k] = ValueOf(PolicyLinks, enabled, Current, k, Unset)

\* An administrator who looks at an agent and its policies and instructions with
\* agent-manager.py can tell what the agent gets: instructions in the order that
\* is shown, if all of them are shown as enabled and to be appended, and of each
\* limit the value of the first policy shown that is enabled, applies and has it,
\* unless another has the same priority or the service has policies other than
\* they are (agent-manager.py:422-423, 562, against policy.py:206,
\* config_assembler.py:422).
ShownIsUsed ==
    /\ Assembled /\ ~ sealing.lost /\ entry[sealing.agent] = sealing.identity =>
          LET shown == EffectiveGPOs(sealing.agent)
          IN  (\A i \in DOMAIN shown : shown[i].enabled /\ shown[i].strategy = "append") =>
                 SystemPrompt(sealing.instructions) = [i \in DOMAIN shown |-> shown[i].name]
    /\ \A s \in Services :
          /\ Ready(s) /\ entry[request[s].agent] = request[s].identity
          /\ request[s].identity.trust # Unset /\ Explicit(request[s].identity.policies)
          /\ Got(s, cache[s]) = Got(s, Current)
          => LET shown  == EffectivePolicies(request[s].agent)
                 agent  == FromLdapEntry(entry[request[s].agent])
                 counts == {p \in agent.policies :
                              /\ attrs[p] # None /\ attrs[p].enabled = "TRUE"
                              /\ PolicyApplies(Current[p], agent.type, agent.trust)}
             IN  \A k \in Keys, i \in DOMAIN shown :
                    /\ i \in Having(shown, counts, Current, k)
                    /\ \A j \in Having(shown, counts, Current, k) \ {i} :
                          j > i /\ attrs[shown[j]].priority # attrs[shown[i]].priority
                    => Answer(s).set[k] = Current[shown[i]].content.set[k]

=============================================================================
