---------------------- MODULE MergedConfiguration_proofs ----------------------
(***************************************************************************)
(* Proofs about what is merged: the service gives each limit the value of   *)
(* the policy with the highest priority, the launcher denies what the       *)
(* service denies, and an administrator is shown what is used.              *)
(***************************************************************************)
EXTENDS Configuration_proofs, PolicyMerge_proofs

-----------------------------------------------------------------------------
(* The service *)

LEMMA LinksAreSeq ==
  ASSUME ServiceTypeOK, NEW s \in Services, Busy(s)
  PROVE  /\ Links(s) \in Seq(Policies) /\ Len(Links(s)) \in Nat
         /\ ToSet(Links(s)) = request[s].identity.policies
<1>1. request[s].identity.policies \in SUBSET Policies
  BY Requesting
<1>2. Links(s) \in Seq(Policies)
  BY <1>1, LinksAreListed DEF Links
<1>3. ToSet(Links(s)) = request[s].identity.policies
  <2> DEFINE S == request[s].identity.policies
  <2> HIDE DEF S
  <2>1. /\ \A i \in DOMAIN Listed[S] : Listed[S][i] \in S
        /\ \A p \in S : \E i \in DOMAIN Listed[S] : Listed[S][i] = p
    BY <1>1, LinksAreListed DEF S
  <2>2. ToSet(Listed[S]) = S
    BY <2>1 DEF ToSet
  <2>3. QED BY <2>2 DEF Links, S
<1>4. QED BY <1>2, <1>3

LEMMA GotIsLoaded ==
  ASSUME NEW s, NEW loaded \in Loaded PROVE Got(s, loaded) \in Loaded
BY DEF Got, Loaded

LEMMA CurrentIsLoaded == ASSUME DirectoryTypeOK PROVE Current \in Loaded
<1>1. ASSUME NEW p \in Policies, attrs[p] # None
      PROVE  [attrs |-> attrs[p], content |-> ContentOf(file[p])] \in Definition
  BY <1>1, ContentsAreTyped DEF DirectoryTypeOK, Definition
<1>2. QED BY <1>1 DEF Current, Loaded

\* For any number of policies, priorities, keys and links, and whatever a process
\* has in its cache: the policy with the highest priority determines each key of
\* an answer, and every policy that applies adds to each list.
THEOREM HighestPriorityWins == Spec => []HighestWins
<1>1. TypeOK => HighestWins
  <2>1. SUFFICES ASSUME TypeOK, NEW s \in Services, Ready(s)
                 PROVE  LET loaded == Got(s, cache[s])
                            chosen == Applicable(Links(s), loaded, request[s].identity.type,
                                                 TrustOf(request[s].identity))
                        IN  /\ \A k \in Keys : Answer(s).set[k] =
                                 ValueOf(Links(s), chosen, loaded, k, Defaults[k])
                            /\ \A l \in Lists : Answer(s).lists[l] =
                                 ItemsOf(Links(s), chosen, loaded, l)
    BY DEF HighestWins
  <2>2. Links(s) \in Seq(Policies)
    BY <2>1, LinksAreSeq DEF Ready, TypeOK
  <2>3. Got(s, cache[s]) \in Loaded
    BY <2>1, GotIsLoaded DEF TypeOK, ServiceTypeOK, Loaded
  <2>4. QED BY <2>2, <2>3, KeysAreTheWinners, ListsAreUnions DEF Answer, Merge
<1>2. QED BY <1>1, TypeCorrect, PTL

-----------------------------------------------------------------------------
(* The launcher *)

\* An assembly that lost nothing has sealed the denied tools of every enabled
\* policy it has passed, as the policies are now; and the instructions it has
\* found are all that the agent is linked with.
PassedDenied ==
    sealing # None /\ ~ sealing.lost =>
      \A i \in DOMAIN PolicyLinks :
        LET p == PolicyLinks[i] IN
        i < sealing.index /\ attrs[p] # None /\ attrs[p].enabled = "TRUE" =>
          ContentOf(file[p]).lists[Deny] \subseteq sealing.merged.lists[Deny]

Starting == At("tools") => sealing.index = 1

Instructed == sealing # None /\ ~ sealing.lost /\ ~ At("tools") =>
                sealing.instructions = sealing.identity.gpos

LauncherInv == PassedDenied /\ Starting /\ Instructed

LEMMA PolicyLinksAreSeq ==
  ASSUME AssemblerTypeOK, sealing # None
  PROVE  /\ sealing \in Assembly
         /\ PolicyLinks \in Seq(Policies) /\ Len(PolicyLinks) \in Nat
         /\ DOMAIN PolicyLinks = 1 .. Len(PolicyLinks)
         /\ \A i \in DOMAIN PolicyLinks : /\ PolicyLinks[i] \in Policies
                                          /\ PolicyLinks[i] \in sealing.identity.policies
<1>1. sealing \in Assembly
  BY DEF AssemblerTypeOK
<1>2. sealing.identity.policies \in SUBSET Policies
  BY <1>1 DEF Assembly, Entry
<1>3. PolicyLinks \in Seq(Policies)
  BY <1>2, LinksAreListed DEF PolicyLinks
<1>4. QED BY <1>1, <1>2, <1>3, LinksAreListed DEF PolicyLinks

\* Only an edit changes a policy, and the launcher learns of it; anything else
\* leaves the policies, and unless it is a step of the launcher the assembly.
LEMMA WhoChangesPolicies ==
  ASSUME TypeOK, [Next]_vars
  PROVE  \/ UNCHANGED <<attrs, file, sealing>>
         \/ Assemble /\ UNCHANGED <<attrs, file>>
         \/ \E p \in Policies : Edit(p) /\ Behind(p)
<1>1. ASSUME NEW s \in Services, Process(s) PROVE UNCHANGED <<attrs, file, sealing>>
  <2>1. CASE Serve(s) /\ UNCHANGED <<sealing, credentials>>
    BY <2>1 DEF Serve, Ask, Hit, NotFound, Found, ReadFile, ReadFails, Respond, directory, policies
  <2>2. CASE Vend(s) /\ UNCHANGED <<service, sealing>>
    BY <2>2 DEF Vend, Store, Find, Read, TooOld, NoFile, Unlink, Hand, policies, directory
  <2>3. QED BY <1>1, <2>1, <2>2 DEF Process
<1>2. ASSUME NEW s \in Services, Restart(s) PROVE UNCHANGED <<attrs, file, sealing>>
  BY <1>2 DEF Restart, Forget, directory, policies
<1>3. CASE Launcher
  BY <1>3 DEF Launcher, Assemble, ReadAgent, ResolveTools, SearchPolicy, ReadPolicyFile,
       PassOver, Launch, directory, policies
<1>4. CASE Administer /\ UNCHANGED sealing
  <2>1. ASSUME NEW d \in Admins, Create(d) PROVE UNCHANGED policies
    BY <2>1 DEF Create, CreateUser, Move, AddAttributes, CreateFails
  <2>2. ASSUME NEW a \in Agents, Change(a) PROVE UNCHANGED policies
    BY <2>2, Changes DEF DeleteAgent, Modify, TypeOK
  <2>3. QED BY <1>4, <2>1, <2>2 DEF Administer, policies
<1>5. CASE Time
  BY <1>5 DEF Time, Expire, directory, policies
<1>6. CASE UNCHANGED vars
  BY <1>6 DEF vars, directory, policies
<1>7. QED BY <1>1, <1>2, <1>3, <1>4, <1>5, <1>6 DEF Next, Administrator

LEMMA AssembleStep ==
  ASSUME TypeOK, LauncherInv, Assemble, UNCHANGED <<attrs, file>> PROVE LauncherInv'
<1> USE DEF TypeOK
<1>1. ASSUME NEW a \in Agents, ReadAgent(a) PROVE LauncherInv'
  <2> DEFINE S == entry[a].policies
  <2>1. /\ sealing'.identity = entry[a] /\ sealing'.step = "tools"
        /\ sealing'.index = 1 /\ entry[a] \in Entry
    BY <1>1 DEF ReadAgent, DirectoryTypeOK
  <2>2. DOMAIN PolicyLinks' \subseteq Nat \ {0}
    <3>1. S \in SUBSET Policies
      BY <2>1 DEF Entry
    <3>2. Listed[S] \in Seq(Policies)
      BY <3>1, LinksAreListed
    <3>3. QED BY <2>1, <3>2 DEF PolicyLinks
  <2>3. \A i \in DOMAIN PolicyLinks' : ~ (i < sealing'.index)
    BY <2>1, <2>2
  <2>4. QED BY <2>1, <2>3 DEF LauncherInv, PassedDenied, Starting, Instructed, At
<1>2. CASE ResolveTools
  <2>1. PICK authorized \in Resolved(sealing.identity.tools),
             denied \in Resolved(sealing.identity.denied),
             gpos \in SUBSET sealing.identity.gpos :
          sealing' = [sealing EXCEPT
                        !.step = "policies",
                        !.authorized = MapTools(authorized, denied),
                        !.refused = denied,
                        !.instructions = gpos,
                        !.lost = \/ authorized # sealing.identity.tools
                                 \/ denied # sealing.identity.denied
                                 \/ gpos # sealing.identity.gpos]
    BY <1>2 DEF ResolveTools
  <2>2. sealing \in Assembly /\ sealing # None /\ sealing.index = 1
    BY <1>2, PolicyLinksAreSeq DEF ResolveTools, At, LauncherInv, Starting
  <2>3. /\ sealing'.identity = sealing.identity /\ sealing'.index = 1
        /\ sealing'.step = "policies" /\ sealing'.instructions = gpos
        /\ ~ sealing'.lost => gpos = sealing.identity.gpos
    BY <2>1, <2>2 DEF Assembly
  <2>4. PolicyLinks' = PolicyLinks
    BY <2>3 DEF PolicyLinks
  <2>5. \A i \in DOMAIN PolicyLinks' : ~ (i < sealing'.index)
    BY <2>2, <2>3, <2>4, PolicyLinksAreSeq
  <2>6. QED BY <2>3, <2>5 DEF LauncherInv, PassedDenied, Starting, Instructed, At
<1>3. CASE SearchPolicy
  <2> DEFINE enabled == attrs[NextPolicy] # None /\ attrs[NextPolicy].enabled = "TRUE"
  <2>1. sealing \in Assembly /\ sealing # None /\ sealing.step = "policies"
    BY <1>3, PolicyLinksAreSeq DEF SearchPolicy, At
  <2>2. /\ sealing'.identity = sealing.identity /\ sealing'.merged = sealing.merged
        /\ sealing'.lost = sealing.lost /\ sealing'.instructions = sealing.instructions
        /\ sealing'.step # "tools"
        /\ sealing'.index = IF enabled THEN sealing.index ELSE sealing.index + 1
    BY <1>3, <2>1 DEF SearchPolicy, Assembly
  <2>3. PolicyLinks' = PolicyLinks
    BY <2>2 DEF PolicyLinks
  <2>4. \A i \in DOMAIN PolicyLinks : i < sealing'.index =>
          i < sealing.index \/ (i = sealing.index /\ ~ enabled)
    <3>1. sealing.index \in Nat /\ \A i \in DOMAIN PolicyLinks : i \in Nat
      BY <2>1, PolicyLinksAreSeq DEF Assembly
    <3>2. QED BY <2>2, <3>1
  <2>5. PassedDenied'
    BY <2>1, <2>2, <2>3, <2>4 DEF LauncherInv, PassedDenied, NextPolicy
  <2>6. QED BY <2>1, <2>2, <2>5 DEF LauncherInv, Starting, Instructed, At
<1>4. CASE ReadPolicyFile
  <2> DEFINE content == ContentOf(file[NextPolicy])
             deny == sealing.merged.lists[Deny] \cup content.lists[Deny]
  <2>1. /\ sealing \in Assembly /\ sealing # None /\ sealing.step = "file"
        /\ sealing' = [sealing EXCEPT !.step = "policies", !.index = @ + 1,
                         !.merged = SealPolicy(@, content)]
    BY <1>4, PolicyLinksAreSeq DEF ReadPolicyFile, Seal, At
  <2>2. /\ sealing'.identity = sealing.identity
        /\ sealing'.merged = SealPolicy(sealing.merged, content)
        /\ sealing'.lost = sealing.lost /\ sealing'.instructions = sealing.instructions
        /\ sealing'.step # "tools" /\ sealing'.index = sealing.index + 1
    BY <2>1 DEF Assembly
  <2>3. PolicyLinks' = PolicyLinks
    BY <2>2 DEF PolicyLinks
  <2>4. sealing'.merged.lists[Deny] = deny
    <3>1. sealing.merged.lists \in [Lists -> SUBSET Items]
      BY <2>1 DEF Assembly
    <3>2. QED BY <2>2, <3>1, PolicyAssumption DEF SealPolicy
  <2>5. \A i \in DOMAIN PolicyLinks : i < sealing'.index =>
          i < sealing.index \/ i = sealing.index
    <3>1. sealing.index \in Nat /\ \A i \in DOMAIN PolicyLinks : i \in Nat
      BY <2>1, PolicyLinksAreSeq DEF Assembly
    <3>2. QED BY <2>2, <3>1
  <2>6. PassedDenied'
    BY <2>1, <2>2, <2>3, <2>4, <2>5 DEF LauncherInv, PassedDenied, NextPolicy
  <2>7. QED BY <2>1, <2>2, <2>6 DEF LauncherInv, Starting, Instructed, At
<1>5. CASE PassOver
  <2>1. sealing \in Assembly
    BY <1>5, PolicyLinksAreSeq DEF PassOver, At
  <2>2. sealing'.lost /\ sealing'.step = "policies"
    BY <1>5, <2>1 DEF PassOver, Assembly
  <2>3. QED BY <2>2 DEF LauncherInv, PassedDenied, Starting, Instructed, At
<1>6. CASE Launch
  BY <1>6 DEF Launch, LauncherInv, PassedDenied, Starting, Instructed, At
<1>7. QED BY <1>1, <1>2, <1>3, <1>4, <1>5, <1>6 DEF Assemble

\* An edit of a policy that the launcher has passed is its loss.
LEMMA EditBehindStep ==
  ASSUME TypeOK, LauncherInv, NEW p \in Policies, Edit(p), Behind(p) PROVE LauncherInv'
<1> DEFINE passed == /\ sealing # None
                     /\ \E i \in DOMAIN PolicyLinks :
                          /\ PolicyLinks[i] = p
                          /\ i < sealing.index \/ (i = sealing.index /\ At("file"))
<1>1. CASE passed
  <2>1. sealing \in Assembly /\ sealing' = [sealing EXCEPT !.lost = TRUE]
    BY <1>1, PolicyLinksAreSeq DEF Behind, TypeOK
  <2>2. /\ sealing'.lost /\ sealing'.step = sealing.step /\ sealing'.index = sealing.index
        /\ sealing # None
    BY <1>1, <2>1 DEF Assembly
  <2>3. QED BY <2>2 DEF LauncherInv, PassedDenied, Starting, Instructed, At
<1>2. CASE ~ passed
  <2>1. sealing' = sealing
    BY <1>2 DEF Behind
  <2>2. \A q \in Policies \ {p} : attrs'[q] = attrs[q] /\ file'[q] = file[q]
    BY DEF Edit, EditPolicy, EditFile, TypeOK, DirectoryTypeOK
  <2>3. PassedDenied'
    <3>1. SUFFICES ASSUME sealing # None, ~ sealing.lost, NEW i \in DOMAIN PolicyLinks,
                          i < sealing.index, attrs'[PolicyLinks[i]] # None,
                          attrs'[PolicyLinks[i]].enabled = "TRUE"
                   PROVE  ContentOf(file'[PolicyLinks[i]]).lists[Deny]
                            \subseteq sealing.merged.lists[Deny]
      BY <2>1 DEF PassedDenied, PolicyLinks
    <3>2. PolicyLinks[i] \in Policies \ {p}
      BY <1>2, <3>1, PolicyLinksAreSeq DEF TypeOK
    <3>3. QED BY <2>2, <3>1, <3>2 DEF LauncherInv, PassedDenied
  <2>4. QED BY <2>1, <2>3 DEF LauncherInv, Starting, Instructed, At
<1>3. QED BY <1>1, <1>2

LEMMA LauncherInductive == Spec => []LauncherInv
<1>1. Init => LauncherInv
  BY DEF Init, AssemblerInit, LauncherInv, PassedDenied, Starting, Instructed, At
<1>2. TypeOK /\ LauncherInv /\ [Next]_vars => LauncherInv'
  <2>1. ASSUME LauncherInv, UNCHANGED <<attrs, file, sealing>> PROVE LauncherInv'
    BY <2>1 DEF LauncherInv, PassedDenied, Starting, Instructed, At, PolicyLinks
  <2>2. QED BY <2>1, WhoChangesPolicies, AssembleStep, EditBehindStep
<1>3. QED BY <1>1, <1>2, TypeCorrect, PTL DEF Spec

\* For any number of agents, policies and tools: when nothing was lost, the sealed
\* configuration denies what the service would deny.
THEOREM SealedDeniesAsMuch == Spec => []SealedAsStrict
<1>1. TypeOK /\ LauncherInv => SealedAsStrict
  <2>1. SUFFICES ASSUME TypeOK, LauncherInv, Assembled, ~ sealing.lost,
                        Explicit(sealing.identity.policies)
                 PROVE  Served.lists[Deny] \subseteq SealedPolicy.lists[Deny]
    BY DEF SealedAsStrict
  <2> DEFINE type   == sealing.identity.type
             trust  == TrustOf(sealing.identity)
             chosen == Applicable(PolicyLinks, Current, type, trust)
  <2>2. /\ sealing # None /\ sealing \in Assembly
        /\ PolicyLinks \in Seq(Policies) /\ Len(PolicyLinks) \in Nat
        /\ DOMAIN PolicyLinks = 1 .. Len(PolicyLinks)
        /\ \A i \in DOMAIN PolicyLinks : /\ PolicyLinks[i] \in Policies
                                         /\ PolicyLinks[i] \in sealing.identity.policies
    BY <2>1, PolicyLinksAreSeq DEF Assembled, At, TypeOK
  <2>3. Served.lists[Deny] = ItemsOf(PolicyLinks, chosen, Current, Deny)
    <3>1. Current \in Loaded
      BY <2>1, CurrentIsLoaded DEF TypeOK
    <3>2. QED BY <2>2, <3>1, PolicyAssumption, ListsAreUnions DEF Served
  <2>4. ASSUME NEW p \in chosen
        PROVE  Current[p].content.lists[Deny] \subseteq sealing.merged.lists[Deny]
    <3>1. PICK i \in DOMAIN PolicyLinks : PolicyLinks[i] = p
      BY DEF Applicable, ToSet
    <3>2. i < sealing.index
      BY <2>1, <2>2 DEF Assembled, More, Assembly
    <3>3. /\ p \in Policies /\ p \in sealing.identity.policies
          /\ Current[p] # None /\ Enabled(Current[p])
      BY <2>2, <3>1 DEF Applicable
    <3>4. attrs[p] # None /\ Current[p] = [attrs |-> attrs[p], content |-> ContentOf(file[p])]
      BY <3>3 DEF Current
    <3>5. attrs[p].enabled = "TRUE"
      BY <2>1, <3>3, <3>4 DEF Explicit, Enabled
    <3>6. ContentOf(file[p]).lists[Deny] \subseteq sealing.merged.lists[Deny]
      BY <2>1, <2>2, <3>1, <3>2, <3>4, <3>5 DEF LauncherInv, PassedDenied
    <3>7. QED BY <3>4, <3>6
  <2>5. SealedPolicy.lists[Deny] = sealing.merged.lists[Deny]
    BY <2>2 DEF SealedPolicy, Assembly
  <2> HIDE DEF chosen
  <2>6. QED BY <2>3, <2>4, <2>5 DEF ItemsOf
<1>2. QED BY <1>1, TypeCorrect, LauncherInductive, PTL

-----------------------------------------------------------------------------
(* The administrator *)

\* What the administrator is shown of the policies of a request, and which of them
\* count.
ShownFor(s) == EffectivePolicies(request[s].agent)
CountsFor(s) ==
    LET agent == FromLdapEntry(entry[request[s].agent])
    IN  {p \in agent.policies : /\ attrs[p] # None /\ attrs[p].enabled = "TRUE"
                                /\ PolicyApplies(Current[p], agent.type, agent.trust)}
FirstFor(s, k, i) ==
    /\ i \in Having(ShownFor(s), CountsFor(s), Current, k)
    /\ \A j \in Having(ShownFor(s), CountsFor(s), Current, k) \ {i} :
          j > i /\ attrs[ShownFor(s)[j]].priority # attrs[ShownFor(s)[i]].priority

LEMMA ShownWinsAnswer ==
  ASSUME TypeOK, NEW s \in Services, Ready(s),
         entry[request[s].agent] = request[s].identity,
         request[s].identity.trust # Unset, Explicit(request[s].identity.policies),
         Got(s, cache[s]) = Got(s, Current),
         NEW k \in Keys, NEW i, FirstFor(s, k, i)
  PROVE  Answer(s).set[k] = Current[ShownFor(s)[i]].content.set[k]
<1> DEFINE e        == request[s].identity
           agent    == FromLdapEntry(entry[request[s].agent])
           shown    == ShownFor(s)
           counts   == CountsFor(s)
           names    == Links(s)
           loaded   == Got(s, Current)
           chosen   == Applicable(names, loaded, e.type, TrustOf(e))
           existing == {p \in Policies : attrs[p] # None}
           priority == [p \in Policies |-> IF attrs[p] = None THEN 0 ELSE attrs[p].priority]
<1>1. /\ e \in Entry /\ e.policies \in SUBSET Policies
      /\ names \in Seq(Policies) /\ ToSet(names) = e.policies
  BY Requesting, LinksAreSeq DEF TypeOK, Ready
<1>2. Current \in Loaded /\ loaded \in Loaded
  BY CurrentIsLoaded, GotIsLoaded DEF TypeOK
<1>3. /\ agent.policies = e.policies /\ agent.type = e.type
      /\ agent.trust = TrustOf(e)
  <2>1. agent = [e EXCEPT !.trust = e.trust]
    BY DEF FromLdapEntry
  <2>2. QED BY <1>1, <2>1 DEF Entry, TrustOf
<1> HIDE DEF agent
<1>4. priority \in [Policies -> Int]
  BY DEF TypeOK, DirectoryTypeOK, Attributes
<1>5. shown = SortedDown(names, existing, priority)
  <2>1. FromLdapEntry(entry[request[s].agent]).policies = e.policies
    BY <1>3 DEF agent
  <2>2. QED BY <2>1 DEF EffectivePolicies, Links, ShownFor
<1>6. \A p \in e.policies : loaded[p] = Current[p]
  BY <1>1 DEF Got
<1>7. \A p \in e.policies :
        /\ Current[p] # None <=> attrs[p] # None
        /\ attrs[p] # None => Current[p].attrs = attrs[p]
  <2>1. SUFFICES ASSUME NEW p \in e.policies, attrs[p] # None
                 PROVE  Current[p] # None /\ Current[p].attrs = attrs[p]
    BY <1>1 DEF Current
  <2>2. Current[p] = [attrs |-> attrs[p], content |-> ContentOf(file[p])]
    BY <1>1, <2>1 DEF Current
  <2>3. Current[p] \in Definition
    BY <1>1, <2>1, <2>2, ContentsAreTyped DEF TypeOK, DirectoryTypeOK, Definition
  <2>4. QED BY <2>2, <2>3, NoneAssumption
<1>8. \A p \in e.policies : attrs[p] # None =>
        (Enabled(Current[p]) <=> attrs[p].enabled = "TRUE")
  BY <1>7 DEF Explicit, Enabled
<1> HIDE DEF loaded, names
<1>9. chosen = counts
  <2>1. counts = {p \in agent.policies :
                    /\ attrs[p] # None /\ attrs[p].enabled = "TRUE"
                    /\ PolicyApplies(Current[p], agent.type, agent.trust)}
    BY DEF CountsFor, agent
  <2>2. QED BY <1>1, <1>3, <1>6, <1>7, <1>8, <2>1 DEF Applicable
<1>10. \A p \in chosen : p \in e.policies /\ attrs[p] # None
  BY <1>1, <1>6, <1>7 DEF Applicable
<1> HIDE DEF chosen, shown, counts
<1>11. chosen \subseteq existing \cap Policies
  BY <1>1, <1>10
<1>12. \A p \in chosen : /\ loaded[p] = Current[p] /\ loaded[p] # None
                         /\ priority[p] = attrs[p].priority
                         /\ priority[p] = loaded[p].attrs.priority
  BY <1>1, <1>6, <1>7, <1>10
<1> HIDE DEF existing, priority
<1>13. Having(shown, chosen, loaded, k) = Having(shown, counts, Current, k)
  <2>1. Positions(shown, chosen) = Positions(shown, counts)
    BY <1>9
  <2>2. \A j \in Positions(shown, chosen) : loaded[shown[j]] = Current[shown[j]]
    BY <1>12 DEF Positions
  <2> DEFINE at == Positions(shown, counts)
  <2>3. Having(shown, chosen, loaded, k) =
          {j \in at : loaded[shown[j]].content.set[k] # Unset}
    BY <2>1 DEF Having
  <2>4. Having(shown, counts, Current, k) =
          {j \in at : Current[shown[j]].content.set[k] # Unset}
    BY DEF Having
  <2> HIDE DEF at
  <2>5. \A j \in at : loaded[shown[j]] = Current[shown[j]]
    BY <2>1, <2>2 DEF at
  <2>6. QED BY <2>3, <2>4, <2>5
<1>14. \A j \in Having(shown, chosen, loaded, k) : shown[j] \in chosen
  BY DEF Having, Positions
<1>15. /\ i \in Having(shown, chosen, loaded, k)
       /\ \A j \in Having(shown, chosen, loaded, k) \ {i} :
            j > i /\ priority[shown[j]] # priority[shown[i]]
  <2>1. /\ i \in Having(shown, counts, Current, k)
        /\ \A j \in Having(shown, counts, Current, k) \ {i} :
             j > i /\ attrs[shown[j]].priority # attrs[shown[i]].priority
    BY DEF FirstFor, shown, counts
  <2>2. QED BY <1>12, <1>13, <1>14, <2>1
<1>16. ValueOf(names, chosen, loaded, k, Defaults[k]) = loaded[shown[i]].content.set[k]
  BY <1>1, <1>2, <1>4, <1>5, <1>11, <1>12, <1>15, FirstShownWins
<1>17. Answer(s) = LoadPolicies(names, loaded, e.type, TrustOf(e))
  BY DEF Answer, Merge, names, loaded
<1>18. Answer(s).set[k] = ValueOf(names, chosen, loaded, k, Defaults[k])
  BY <1>1, <1>2, <1>17, KeysAreTheWinners DEF chosen
<1>19. QED BY <1>12, <1>14, <1>15, <1>16, <1>18 DEF shown

\* For any number of agents, policies and processes, whoever looks with
\* agent-manager.py can tell what the agent gets: limits from a service that has
\* the policies as they are, and instructions that are all enabled and appended.
THEOREM AdministratorSees == Spec => []ShownIsUsed
<1>1. TypeOK /\ LauncherInv => ShownIsUsed
  <2>1. ASSUME TypeOK, LauncherInv, Assembled, ~ sealing.lost,
               entry[sealing.agent] = sealing.identity
        PROVE  SystemPrompt(sealing.instructions) =
                 [i \in DOMAIN EffectiveGPOs(sealing.agent) |-> EffectiveGPOs(sealing.agent)[i].name]
    <3> DEFINE gpos == sealing.identity.gpos
               used == Sorted(Listed[gpos], gpos, GPOPriority)
               shown == EffectiveGPOs(sealing.agent)
    <3>1. SystemPrompt(sealing.instructions) = used
      BY <2>1 DEF LauncherInv, Instructed, Assembled, At, SystemPrompt
    <3>2. shown = [i \in DOMAIN used |->
                     [name |-> used[i], enabled |-> GPOAttrs[used[i]].enabled,
                      strategy |-> GPOAttrs[used[i]].strategy]]
      BY <2>1 DEF EffectiveGPOs
    <3>3. used = [i \in DOMAIN used |-> used[i]] BY DEF Sorted, Arranged
    <3> HIDE DEF used
    <3>4. DOMAIN shown = DOMAIN used /\ \A i \in DOMAIN used : shown[i].name = used[i]
      BY <3>2
    <3> HIDE DEF shown
    <3>5. [i \in DOMAIN shown |-> shown[i].name] = [i \in DOMAIN used |-> used[i]] BY <3>4
    <3> QED BY <3>1, <3>3, <3>5 DEF shown
  <2>2. ASSUME TypeOK, NEW s \in Services, Ready(s),
               entry[request[s].agent] = request[s].identity,
               request[s].identity.trust # Unset, Explicit(request[s].identity.policies),
               Got(s, cache[s]) = Got(s, Current)
        PROVE  \A k \in Keys, i \in DOMAIN ShownFor(s) : FirstFor(s, k, i) =>
                 Answer(s).set[k] = Current[ShownFor(s)[i]].content.set[k]
    BY <2>2, ShownWinsAnswer
  <2>3. QED BY <2>1, <2>2 DEF ShownIsUsed, FirstFor, ShownFor, CountsFor
<1>2. QED BY <1>1, TypeCorrect, LauncherInductive, PTL

=============================================================================
