------------------------ MODULE Configuration_proofs ------------------------
(***************************************************************************)
(* Proofs about the directory and those who use it: types, accounts that    *)
(* are made once, and credentials that do not disappear.                    *)
(***************************************************************************)
EXTENDS Configuration, TLAPS

-----------------------------------------------------------------------------
(* Types *)

LEMMA ContentsAreTyped == \A f \in Content \cup {None} : ContentOf(f) \in Content
BY DEF ContentOf, Empty, Content

LEMMA DraftsAreEntries == \A d \in Admins : ToLdapAttrs(Draft[d].attrs) \in Entry
BY DraftAssumption DEF ToLdapAttrs, Drafted, Entry

LEMMA DirectoryInitType == DirectoryInit => DirectoryTypeOK
BY DraftAssumption, VersionAssumption DEF DirectoryInit, DirectoryTypeOK

LEMMA CreateType ==
    ASSUME DirectoryTypeOK, NEW d \in Admins, Create(d) PROVE DirectoryTypeOK'
<1> DEFINE a == Draft[d].agent
<1>0. a \in Agents BY DraftAssumption
<1> USE <1>0 DEF DirectoryTypeOK, Goes, policies
<1>1. CASE CreateUser(d) BY <1>1 DEF CreateUser, Requested
<1>2. CASE Move(d) BY <1>2 DEF Move
<1>3. CASE AddAttributes(d)
  <2>1. ToLdapAttrs(Draft[d].attrs) \in Entry BY DraftsAreEntries
  <2> QED BY <1>3, <2>1 DEF AddAttributes
<1>4. CASE CreateFails(d) BY <1>4 DEF CreateFails
<1> QED BY <1>1, <1>2, <1>3, <1>4 DEF Create

LEMMA ModifyType ==
    ASSUME DirectoryTypeOK, NEW a \in Agents, NEW e \in Entry, Modify(a, e)
    PROVE  DirectoryTypeOK'
BY DEF DirectoryTypeOK, Modify, Requested, policies

\* Every command on an agent but its deletion gives it other attributes.
LEMMA Changes ==
    ASSUME DirectoryTypeOK, NEW a \in Agents, Change(a)
    PROVE  DeleteAgent(a) \/ \E e \in Entry : Modify(a, e)
<1> DEFINE Becomes(e) == Modify(a, e) /\ (entry[a] \in Entry => e \in Entry)
<1>0. ASSUME NEW e, Becomes(e) PROVE \E f \in Entry : Modify(a, f)
  BY <1>0 DEF Modify, DirectoryTypeOK
<1>1. CASE UpdateAgent(a)
  <2>1. CASE \E l \in Levels : Modify(a, [entry[a] EXCEPT !.trust = l])
    <3>1. PICK l \in Levels : Modify(a, [entry[a] EXCEPT !.trust = l]) BY <2>1
    <3>2. Becomes([entry[a] EXCEPT !.trust = l]) BY <3>1 DEF Entry
    <3> QED BY <1>0, <3>2
  <2>2. CASE \E t \in Types : Modify(a, [entry[a] EXCEPT !.type = t])
    <3>1. PICK t \in Types : Modify(a, [entry[a] EXCEPT !.type = t]) BY <2>2
    <3>2. Becomes([entry[a] EXCEPT !.type = t]) BY <3>1 DEF Entry
    <3> QED BY <1>0, <3>2
  <2> QED BY <1>1, <2>1, <2>2 DEF UpdateAgent
<1>2. ASSUME NEW t \in Tools, GrantTool(a, t) \/ RevokeTool(a, t) \/ DenyTool(a, t)
      PROVE  \E e \in Entry : Modify(a, e)
  <2>1. \/ Becomes([entry[a] EXCEPT !.tools = @ \cup {t}])
        \/ Becomes([entry[a] EXCEPT !.tools = @ \ {t}])
        \/ Becomes([entry[a] EXCEPT !.denied = @ \cup {t}])
    BY <1>2 DEF GrantTool, RevokeTool, DenyTool, Entry
  <2> HIDE DEF Becomes
  <2> QED BY <1>0, <2>1
<1>3. ASSUME NEW p \in Policies, LinkPolicy(a, p) \/ UnlinkPolicy(a, p)
      PROVE  \E e \in Entry : Modify(a, e)
  <2>1. \/ Becomes([entry[a] EXCEPT !.policies = @ \cup {p}])
        \/ Becomes([entry[a] EXCEPT !.policies = @ \ {p}])
    BY <1>3 DEF LinkPolicy, UnlinkPolicy, Entry
  <2> HIDE DEF Becomes
  <2> QED BY <1>0, <2>1
<1>4. ASSUME NEW g \in GPOs, LinkGPO(a, g) \/ UnlinkGPO(a, g)
      PROVE  \E e \in Entry : Modify(a, e)
  <2>1. \/ Becomes([entry[a] EXCEPT !.gpos = @ \cup {g}])
        \/ Becomes([entry[a] EXCEPT !.gpos = @ \ {g}])
    BY <1>4 DEF LinkGPO, UnlinkGPO, Entry
  <2> HIDE DEF Becomes
  <2> QED BY <1>0, <2>1
<1> QED BY <1>1, <1>2, <1>3, <1>4 DEF Change

LEMMA ChangeType ==
    ASSUME DirectoryTypeOK, NEW a \in Agents, Change(a) PROVE DirectoryTypeOK'
<1>1. CASE DeleteAgent(a)
  BY <1>1 DEF DeleteAgent, DirectoryTypeOK, Requested, policies
<1> QED BY <1>1, Changes, ModifyType

LEMMA EditType ==
    ASSUME DirectoryTypeOK, NEW p \in Policies, EditPolicy(p) \/ EditFile(p)
    PROVE  DirectoryTypeOK'
<1> USE VersionAssumption DEF DirectoryTypeOK, Requested, accounts
<1>1. CASE EditPolicy(p) BY <1>1 DEF EditPolicy
<1>2. CASE EditFile(p) BY <1>2 DEF EditFile
<1> QED BY <1>1, <1>2

\* The values of an attribute that is a set of policies.
LEMMA LinksAreListed ==
    ASSUME NEW S \in SUBSET Policies
    PROVE  /\ Listed[S] \in Seq(Policies)
           /\ \A i \in DOMAIN Listed[S] : Listed[S][i] \in S
           /\ \A p \in S : \E i \in DOMAIN Listed[S] : Listed[S][i] = p
<1>1. Listed[S] \in Seq(S) /\ ToSet(Listed[S]) = S BY ListedAssumption
<1>2. ToSet(Listed[S]) = {Listed[S][i] : i \in DOMAIN Listed[S]} BY DEF ToSet
<1>3. Listed[S] \in Seq(Policies) BY <1>1
<1> QED BY <1>1, <1>2, <1>3

LEMMA Requesting ==
    ASSUME ServiceTypeOK, NEW s \in Services, Busy(s)
    PROVE  /\ request[s] \in Request
           /\ request[s].agent \in Agents /\ request[s].identity \in Entry
           /\ request[s].index \in Nat \ {0} /\ request[s].reading \in Attributes \cup {None}
           /\ request[s].identity.policies \in SUBSET Policies
BY DEF ServiceTypeOK, Busy, Request, Entry

LEMMA LinkedIsPolicy ==
    ASSUME ServiceTypeOK, NEW s \in Services, Loading(s)
    PROVE  request[s].index \in DOMAIN Links(s) /\ Linked(s) \in Policies
<1> DEFINE S == request[s].identity.policies
<1>1. S \in SUBSET Policies /\ request[s].index \in Nat \ {0} BY Requesting DEF Loading
<1>2. Listed[S] \in Seq(Policies) /\ Links(s) = Listed[S] BY <1>1, LinksAreListed DEF Links
<1>3. request[s].index \in DOMAIN Links(s) BY <1>1, <1>2 DEF Loading
<1> QED BY <1>1, <1>2, <1>3, LinksAreListed DEF Linked

LEMMA NextIndex ==
    ASSUME NEW r \in Request, NEW missed \in SUBSET Policies
    PROVE  [r EXCEPT !.index = @ + 1, !.reading = None, !.missed = @ \cup missed] \in Request
<1>1. r.index + 1 \in Nat \ {0} /\ r.missed \cup missed \in SUBSET Policies BY DEF Request
<1> DEFINE next == r.index + 1
           all  == r.missed \cup missed
<1>2. [r EXCEPT !.index = next, !.reading = None, !.missed = all] \in Request
  <2> next \in Nat \ {0} /\ all \in SUBSET Policies BY <1>1
  <2> HIDE DEF next, all
  <2> QED BY DEF Request
<1> QED BY <1>2

LEMMA ServeType ==
    ASSUME DirectoryTypeOK, ServiceTypeOK, NEW s \in Services, Serve(s)
    PROVE  ServiceTypeOK' /\ DirectoryTypeOK'
<1> USE DEF DirectoryTypeOK, ServiceTypeOK, directory, accounts, policies
<1>1. ASSUME NEW a \in Agents, Ask(s, a) PROVE ServiceTypeOK' /\ DirectoryTypeOK'
  <2>1. [agent |-> a, identity |-> entry[a], index |-> 1, reading |-> None, missed |-> {}]
          \in Request
    BY <1>1 DEF Ask, Request
  <2> QED BY <1>1, <2>1 DEF Ask, Requested
<1>2. ASSUME Busy(s), NEW missed \in SUBSET Policies, Miss(s, missed)
      PROVE  request' \in [Services -> Request \cup {None}]
  <2> DEFINE next == [request[s] EXCEPT !.index = @ + 1, !.reading = None,
                                        !.missed = @ \cup missed]
  <2>1. next \in Request BY <1>2, Requesting, NextIndex
  <2>2. request' = [request EXCEPT ![s] = next] BY <1>2 DEF Miss
  <2> HIDE DEF next
  <2> QED BY <2>1, <2>2
<1>3. CASE Hit(s) BY <1>2, <1>3 DEF Hit, Loading, Advance
<1>4. CASE NotFound(s)
  <2>1. Linked(s) \in Policies BY <1>4, LinkedIsPolicy DEF NotFound
  <2> QED BY <1>2, <1>4, <2>1 DEF NotFound, Loading
<1>5. CASE Found(s)
  <2> DEFINE next == [request[s] EXCEPT !.reading = attrs[Linked(s)]]
  <2>1. Linked(s) \in Policies BY <1>5, LinkedIsPolicy DEF Found
  <2>2. request[s] \in Request BY <1>5, Requesting DEF Found, Loading
  <2>3. next \in Request BY <1>5, <2>1, <2>2 DEF Found, Request
  <2>4. request' = [request EXCEPT ![s] = next] BY <1>5 DEF Found
  <2> HIDE DEF next
  <2> QED BY <1>5, <2>3, <2>4 DEF Found
<1>6. ASSUME NEW content \in Content, Load(s, content)
      PROVE  /\ cache' \in [Services -> [Policies -> Definition \cup {None}]]
             /\ Busy(s) /\ Linked(s) \in Policies
  <2>1. Linked(s) \in Policies BY <1>6, LinkedIsPolicy DEF Load
  <2>2. request[s].reading \in Attributes
    BY <1>6, Requesting DEF Load, Loading
  <2>3. [attrs |-> request[s].reading, content |-> content] \in Definition
    BY <2>2 DEF Definition
  <2>4. cache' \in [Services -> [Policies -> Definition \cup {None}]]
    BY <1>6, <2>1, <2>3 DEF Load
  <2> QED BY <1>6, <2>1, <2>4 DEF Load, Loading
<1>7. CASE ReadFile(s)
  <2>1. Linked(s) \in Policies BY <1>7, LinkedIsPolicy DEF ReadFile, Load
  <2>2. ContentOf(file[Linked(s)]) \in Content BY <2>1, ContentsAreTyped
  <2> QED BY <1>2, <1>6, <1>7, <2>2 DEF ReadFile, Advance
<1>8. CASE ReadFails(s)
  <2>1. Empty \in Content BY DEF Empty, Content
  <2>2. Linked(s) \in Policies /\ Busy(s) BY <1>6, <1>8, <2>1 DEF ReadFails
  <2> QED BY <1>2, <1>6, <1>8, <2>1, <2>2 DEF ReadFails
<1>9. CASE Respond(s) BY <1>9 DEF Respond
<1> QED BY <1>1, <1>3, <1>4, <1>5, <1>7, <1>8, <1>9 DEF Serve

LEMMA VendType ==
    ASSUME CredentialsTypeOK, DirectoryTypeOK, NEW s \in Services, Vend(s)
    PROVE  CredentialsTypeOK' /\ DirectoryTypeOK'
<1> USE DEF CredentialsTypeOK, DirectoryTypeOK, directory, accounts, policies
<1>1. \A bad : Purged(bad) \in [Refs -> {"none", "fresh", "expired", "gone"}]
  BY DEF Purged
<1>2. ASSUME NEW r \in Refs, Store(s, r) PROVE CredentialsTypeOK' /\ DirectoryTypeOK'
  BY <1>1, <1>2 DEF Store, Requested, Exists
<1>3. ASSUME NEW r \in Refs, Find(s, r) PROVE CredentialsTypeOK' /\ DirectoryTypeOK'
  <2>1. [ref |-> r, step |-> "found"] \in Fetch BY DEF Fetch
  <2> QED BY <1>1, <1>3, <2>1 DEF Find, Requested
<1>4. Fetching(s) => fetch[s] \in Fetch /\ fetch[s].ref \in Refs
  BY DEF Fetching, Fetch
<1>5. CASE Read(s)
  <2>1. [fetch[s] EXCEPT !.step = "read"] \in Fetch BY <1>4, <1>5 DEF Read, Has, Fetch
  <2>2. fetch' = [fetch EXCEPT ![s] = [fetch[s] EXCEPT !.step = "read"]] BY <1>5 DEF Read
  <2> QED BY <1>5, <2>1, <2>2 DEF Read
<1>6. CASE TooOld(s) BY <1>4, <1>6 DEF TooOld
<1>7. CASE NoFile(s) BY <1>7 DEF NoFile
<1>8. CASE Unlink(s)
  <2>1. [fetch[s] EXCEPT !.step = "removed"] \in Fetch BY <1>4, <1>8 DEF Unlink, Has, Fetch
  <2>2. fetch' = [fetch EXCEPT ![s] = [fetch[s] EXCEPT !.step = "removed"]]
    BY <1>8 DEF Unlink
  <2> QED BY <1>8, <2>1, <2>2 DEF Unlink
<1>9. CASE Hand(s) BY <1>4, <1>9 DEF Hand, Has
<1> QED BY <1>2, <1>3, <1>5, <1>6, <1>7, <1>8, <1>9 DEF Vend

\* What an assembly has merged so far.
Merged == [set : [Keys -> Values \cup {Unset}], lists : [Lists -> SUBSET Items]]

LEMMA SealPolicyType ==
    ASSUME NEW m \in Merged, NEW content \in Content PROVE SealPolicy(m, content) \in Merged
<1> DEFINE set == [k \in Keys |-> IF k \notin SealedKeys \/ content.set[k] = Unset
                                  THEN m.set[k] ELSE content.set[k]]
           lists == [m.lists EXCEPT ![Deny] = @ \cup content.lists[Deny]]
<1>1. /\ m.set \in [Keys -> Values \cup {Unset}] /\ m.lists \in [Lists -> SUBSET Items]
      /\ content.set \in [Keys -> Values \cup {Unset}]
      /\ content.lists \in [Lists -> SUBSET Items]
  BY DEF Merged, Content
<1>2. set \in [Keys -> Values \cup {Unset}] BY <1>1
<1>3. lists \in [Lists -> SUBSET Items] BY <1>1, PolicyAssumption
<1>4. SealPolicy(m, content) = [set |-> set, lists |-> lists] BY DEF SealPolicy
<1> HIDE DEF set, lists
<1> QED BY <1>2, <1>3, <1>4 DEF Merged

LEMMA NextMerged ==
    ASSUME NEW x \in Assembly, NEW merged \in Merged
    PROVE  [x EXCEPT !.step = "policies", !.index = @ + 1, !.merged = merged] \in Assembly
<1> DEFINE next == x.index + 1
<1>1. next \in Nat \ {0} BY DEF Assembly
<1> HIDE DEF next
<1>2. [x EXCEPT !.step = "policies", !.index = next, !.merged = merged] \in Assembly
  BY <1>1 DEF Assembly, Merged
<1> QED BY <1>2 DEF next

LEMMA NextPolicies ==
    ASSUME NEW x \in Assembly
    PROVE  [x EXCEPT !.step = "policies", !.index = @ + 1, !.lost = TRUE] \in Assembly
<1> DEFINE next == x.index + 1
<1>1. next \in Nat \ {0} BY DEF Assembly
<1> HIDE DEF next
<1>2. [x EXCEPT !.step = "policies", !.index = next, !.lost = TRUE] \in Assembly
  BY <1>1 DEF Assembly
<1> QED BY <1>2 DEF next

LEMMA NextStep ==
    ASSUME NEW x \in Assembly, NEW authorized \in SUBSET Tools, NEW denied \in SUBSET Tools,
           NEW gpos \in SUBSET GPOs, NEW lost \in BOOLEAN
    PROVE  [x EXCEPT !.step = "policies", !.authorized = authorized, !.refused = denied,
                     !.instructions = gpos, !.lost = lost] \in Assembly
BY DEF Assembly

LEMMA AssembleType ==
    ASSUME DirectoryTypeOK, AssemblerTypeOK, Assemble
    PROVE  AssemblerTypeOK' /\ DirectoryTypeOK'
<1> USE DEF DirectoryTypeOK, AssemblerTypeOK, directory, accounts, policies
<1>1. ASSUME NEW a \in Agents, ReadAgent(a) PROVE AssemblerTypeOK' /\ DirectoryTypeOK'
  <2>1. NothingSealed \in [set : [Keys -> Values \cup {Unset}], lists : [Lists -> SUBSET Items]]
    BY DEF NothingSealed
  <2>2. sealing' \in Assembly /\ (At("file") => More)' BY <1>1, <2>1 DEF ReadAgent, Assembly, At
  <2> QED BY <1>1, <2>2 DEF ReadAgent, Requested
<1>2. ASSUME sealing # None
      PROVE  /\ sealing \in Assembly /\ sealing.identity \in Entry
             /\ PolicyLinks \in Seq(Policies) /\ sealing.index \in Nat \ {0}
             /\ sealing.identity.gpos \in SUBSET GPOs
             /\ sealing.identity.tools \in SUBSET Tools
             /\ sealing.identity.denied \in SUBSET Tools
  <2>1. sealing \in Assembly /\ sealing.identity \in Entry BY <1>2 DEF Assembly
  <2>2. sealing.identity.policies \in SUBSET Policies BY <2>1 DEF Entry
  <2>3. PolicyLinks \in Seq(Policies) BY <2>2, LinksAreListed DEF PolicyLinks
  <2> QED BY <2>1, <2>3 DEF Assembly, Entry
<1>3. CASE ResolveTools
  <2>1. sealing # None BY <1>3 DEF ResolveTools, At
  <2>2. PICK authorized \in SUBSET sealing.identity.tools,
             denied \in SUBSET sealing.identity.denied,
             gpos \in SUBSET sealing.identity.gpos :
          sealing' = [sealing EXCEPT !.step = "policies",
                        !.authorized = authorized \ denied, !.refused = denied,
                        !.instructions = gpos,
                        !.lost = \/ authorized # sealing.identity.tools
                                 \/ denied # sealing.identity.denied
                                 \/ gpos # sealing.identity.gpos]
    BY <1>3, Zenon DEF ResolveTools, Resolved, MapTools
  <2>3. sealing' \in Assembly BY <1>2, <2>1, <2>2, NextStep
  <2>4. sealing'.step = "policies" BY <1>2, <2>1, <2>2 DEF Assembly
  <2> QED BY <1>3, <2>3, <2>4 DEF ResolveTools, At
<1>4. CASE SearchPolicy
  <2>1. sealing \in Assembly BY <1>2, <1>4 DEF SearchPolicy, At
  <2>2. sealing' \in Assembly /\ (At("file") => More)' BY <1>4, <2>1 DEF SearchPolicy, Assembly, At, More, PolicyLinks
  <2> QED BY <1>4, <2>2 DEF SearchPolicy
<1>5. CASE ReadPolicyFile
  <2>1. sealing \in Assembly /\ sealing.merged \in Merged
    BY <1>2, <1>5 DEF ReadPolicyFile, Seal, At, Assembly, Merged
  <2>2. ContentOf(file[NextPolicy]) \in Content
    <3>1. NextPolicy \in Policies BY <1>2, <1>5 DEF ReadPolicyFile, Seal, At, More, NextPolicy
    <3> QED BY <3>1, ContentsAreTyped
  <2>3. SealPolicy(sealing.merged, ContentOf(file[NextPolicy])) \in Merged
    BY <2>1, <2>2, SealPolicyType
  <2>4. sealing' \in Assembly /\ (At("file") => More)' BY <1>5, <2>1, <2>3, NextMerged DEF ReadPolicyFile, Seal, At, Assembly
  <2> QED BY <1>5, <2>4 DEF ReadPolicyFile
<1>6. CASE PassOver
  <2>1. sealing \in Assembly BY <1>2, <1>6 DEF PassOver, At
  <2>2. sealing' \in Assembly /\ (At("file") => More)' BY <1>6, <2>1, NextPolicies DEF PassOver, At, Assembly
  <2> QED BY <1>6, <2>2 DEF PassOver
<1>7. CASE Launch BY <1>7 DEF Launch, At
<1> QED BY <1>1, <1>3, <1>4, <1>5, <1>6, <1>7 DEF Assemble

\* The variables of a component change with the actions of that component alone.
LEMMA TypeStep == ASSUME TypeOK, [Next]_vars PROVE TypeOK'
<1> USE DEF TypeOK
<1>1. ASSUME UNCHANGED directory PROVE DirectoryTypeOK'
  BY <1>1 DEF directory, accounts, policies, DirectoryTypeOK
<1>2. ASSUME UNCHANGED service PROVE ServiceTypeOK'
  BY <1>2 DEF service, ServiceTypeOK
<1>3. ASSUME UNCHANGED sealing PROVE AssemblerTypeOK'
  BY <1>3 DEF AssemblerTypeOK, At, More, PolicyLinks
<1>4. ASSUME UNCHANGED credentials PROVE CredentialsTypeOK'
  BY <1>4 DEF credentials, CredentialsTypeOK
<1>5. ASSUME NEW s \in Services, Process(s) PROVE TypeOK'
  <2>1. CASE Serve(s) /\ UNCHANGED <<sealing, credentials>>
    BY <1>3, <1>4, <2>1, ServeType
  <2>2. CASE Vend(s) /\ UNCHANGED <<service, sealing>>
    BY <1>2, <1>3, <2>2, VendType
  <2> QED BY <1>5, <2>1, <2>2 DEF Process
<1>6. ASSUME NEW s \in Services, Restart(s) PROVE TypeOK'
  <2>1. ServiceTypeOK' /\ UNCHANGED directory BY <1>6 DEF Restart, Forget, ServiceTypeOK
  <2>2. CredentialsTypeOK'
    BY <1>6 DEF Restart, Drop, CredentialsTypeOK, Has, Fetching, Fetch
  <2> QED BY <1>1, <1>3, <1>6, <2>1, <2>2 DEF Restart
<1>7. CASE Launcher BY <1>2, <1>4, <1>7, AssembleType DEF Launcher
<1>8. CASE Administer /\ UNCHANGED <<service, sealing, credentials>>
  BY <1>2, <1>3, <1>4, <1>8, CreateType, ChangeType DEF Administer
<1>9. ASSUME NEW p \in Policies, Edit(p), Behind(p), UNCHANGED credentials PROVE TypeOK'
  <2>1. DirectoryTypeOK' BY <1>9, EditType DEF Edit
  <2>2. ServiceTypeOK'
    <3>1. ASSUME NEW s \in Services, Busy(s)
          PROVE  [request[s] EXCEPT !.missed = @ \cup {p}] \in Request
      BY <3>1, Requesting DEF Request
    <3> QED BY <1>9, <3>1 DEF Edit, ServiceTypeOK
  <2>3. AssemblerTypeOK'
    <3>1. CASE UNCHANGED sealing BY <1>3, <3>1
    <3>2. CASE sealing # None /\ sealing' = [sealing EXCEPT !.lost = TRUE]
      BY <3>2 DEF AssemblerTypeOK, Assembly, At, More, PolicyLinks
    <3> QED BY <1>9, <3>1, <3>2 DEF Behind
  <2> QED BY <1>4, <1>9, <2>1, <2>2, <2>3
<1>10. CASE Time
  BY <1>1, <1>2, <1>3, <1>10 DEF Time, Expire, CredentialsTypeOK
<1>11. CASE UNCHANGED vars BY <1>1, <1>2, <1>3, <1>4, <1>11 DEF vars
<1> QED BY <1>5, <1>6, <1>7, <1>8, <1>9, <1>10, <1>11 DEF Next, Administrator

\* Every variable of the directory, of the processes of the service, of the
\* launcher and of the credentials keeps its type.
THEOREM TypeCorrect == Spec => []TypeOK
<1>1. Init => TypeOK
  <2>1. ServiceInit => ServiceTypeOK BY DEF ServiceInit, ServiceTypeOK
  <2>2. AssemblerInit => AssemblerTypeOK BY DEF AssemblerInit, AssemblerTypeOK, At
  <2>3. CredentialsInit => CredentialsTypeOK BY DEF CredentialsInit, CredentialsTypeOK
  <2> QED BY <2>1, <2>2, <2>3, DirectoryInitType DEF Init, TypeOK
<1> QED BY <1>1, TypeStep, PTL DEF Spec

-----------------------------------------------------------------------------
(* Accounts *)

LEMMA CreatedStep == ASSUME TypeOK, CreatedOnce, [Next]_vars PROVE CreatedOnce'
<1> USE DEF CreatedOnce
<1>1. ASSUME UNCHANGED <<entry, made>> PROVE CreatedOnce' BY <1>1
<1>2. ASSUME NEW d \in Admins, Create(d) PROVE CreatedOnce'
  <2> DEFINE a == Draft[d].agent
  <2>1. CASE CreateUser(d) \/ Move(d) \/ CreateFails(d)
    BY <1>1, <2>1 DEF CreateUser, Move, CreateFails
  <2>2. CASE AddAttributes(d)
    <3>1. ToLdapAttrs(Draft[d].attrs) # None BY DraftsAreEntries, DraftAssumption
    <3>2. CASE /\ entry[a] = None
               /\ entry' = [entry EXCEPT ![a] = ToLdapAttrs(Draft[d].attrs)]
               /\ made' = [made EXCEPT ![a] = @ \cup {d}]
      <4>1. a \in Agents /\ made[a] = {} BY <3>2, DraftAssumption
      <4> QED BY <3>1, <3>2, <4>1 DEF TypeOK, DirectoryTypeOK
    <3> QED BY <1>1, <2>2, <3>2 DEF AddAttributes
  <2> QED BY <1>2, <2>1, <2>2 DEF Create
<1>3. ASSUME NEW a \in Agents, Change(a) PROVE CreatedOnce'
  <2>1. CASE DeleteAgent(a) BY <2>1 DEF DeleteAgent, TypeOK, DirectoryTypeOK
  <2>2. ASSUME NEW e \in Entry, Modify(a, e) PROVE CreatedOnce'
    BY <2>2, DraftAssumption DEF Modify, TypeOK, DirectoryTypeOK
  <2> QED BY <1>3, <2>1, <2>2, Changes DEF TypeOK
<1> QED
  <2>1. CASE Administer BY <1>2, <1>3, <2>1 DEF Administer
  <2>2. CASE ~ Administer
    <3> USE DEF directory, accounts
    <3>1. ASSUME NEW s \in Services, Process(s) PROVE UNCHANGED <<entry, made>>
      BY <3>1 DEF Process, Serve, Ask, Hit, NotFound, Found, ReadFile, ReadFails, Respond, Vend,
           Store, Find, Read, TooOld, NoFile, Unlink, Hand
    <3>2. ASSUME NEW s \in Services, Restart(s) PROVE UNCHANGED <<entry, made>>
      BY <3>2 DEF Restart, Forget
    <3>3. CASE Launcher
      BY <3>3 DEF Launcher, Assemble, ReadAgent, ResolveTools, SearchPolicy, ReadPolicyFile,
           PassOver, Launch
    <3>4. ASSUME NEW p \in Policies, Edit(p) PROVE UNCHANGED <<entry, made>>
      BY <3>4 DEF Edit, EditPolicy, EditFile
    <3>5. CASE Time BY <3>5 DEF Time, Expire
    <3>6. CASE UNCHANGED vars BY <3>6 DEF vars
    <3> QED BY <1>1, <2>2, <3>1, <3>2, <3>3, <3>4, <3>5, <3>6 DEF Next, Administrator
  <2> QED BY <2>1, <2>2

\* However create commands for one name, deletions and failures interleave, one
\* command at most reports that it made the account that is there.
THEOREM AccountsMadeOnce == Spec => []CreatedOnce
<1>1. Init => CreatedOnce BY DEF Init, DirectoryInit, CreatedOnce
<1> QED BY <1>1, CreatedStep, TypeCorrect, PTL DEF Spec

-----------------------------------------------------------------------------
(* Credentials *)

\* A reference that expired is known to be lost.
ExpiredLost == \A r \in Refs : credential[r] = "expired" => r \in spoilt

CredentialInv == ExpiredLost /\ CredentialsKept

LEMMA VendStep ==
    ASSUME CredentialsTypeOK, CredentialInv, NEW s \in Services, Vend(s)
    PROVE  CredentialInv'
<1> USE DEF CredentialsTypeOK, CredentialInv, ExpiredLost, CredentialsKept
<1>1. ASSUME NEW r \in Refs, Store(s, r) PROVE CredentialInv'
  BY <1>1 DEF Store, Purged, Exists, Has, Fetching
<1>2. Fetching(s) => fetch[s].ref \in Refs BY DEF Fetch, Fetching
\* What other processes have removed, they still have.
<1>3. ASSUME NEW f, fetch' = [fetch EXCEPT ![s] = f], ~ Has(s, "removed"),
             UNCHANGED <<handed, spoilt>>,
             \A r \in Refs : credential'[r] = "gone" =>
                \/ credential[r] = "gone" \/ r \in spoilt
                \/ f # None /\ f.step = "removed" /\ f.ref = r,
             \A r \in Refs : credential'[r] = "expired" => credential[r] = "expired"
      PROVE  CredentialInv'
  <2>1. ASSUME NEW t \in Services \ {s}, NEW r \in Refs
        PROVE  Has(t, "removed") /\ fetch[t].ref = r
               => (Has(t, "removed") /\ fetch[t].ref = r)'
    BY <1>3 DEF Has, Fetching
  <2>2. ASSUME NEW r \in Refs, f # None, f.step = "removed", f.ref = r
        PROVE  (Has(s, "removed") /\ fetch[s].ref = r)'
    BY <1>3, <2>2 DEF Has, Fetching
  <2> QED BY <1>3, <2>1, <2>2
<1>4. ASSUME NEW r \in Refs, Find(s, r) PROVE CredentialInv'
  <2>1. PICK bad \in SUBSET {u \in Refs : Exists(u)} :
          /\ credential' = Purged(bad) /\ spoilt' = spoilt \cup bad
          /\ fetch' = IF Purged(bad)[r] = "gone" THEN fetch
                      ELSE [fetch EXCEPT ![s] = [ref |-> r, step |-> "found"]]
    BY <1>4 DEF Find
  <2>2. ASSUME NEW t \in Services, NEW u \in Refs, Has(t, "removed"), fetch[t].ref = u
        PROVE  (Has(t, "removed") /\ fetch[t].ref = u)'
    BY <1>4, <2>1, <2>2 DEF Has, Fetching, Find
  <2>3. handed' = handed BY <1>4 DEF Find
  <2> QED BY <2>1, <2>2, <2>3 DEF Purged
<1>5. CASE Read(s)
  <2> DEFINE next == [fetch[s] EXCEPT !.step = "read"]
  <2>1. next.step = "read" BY <1>2, <1>5 DEF Read, Has, Fetching, Fetch
  <2>2. fetch' = [fetch EXCEPT ![s] = next] BY <1>5 DEF Read
  <2>3. ~ Has(s, "removed") BY <1>5 DEF Read, Has
  <2>4. UNCHANGED <<credential, handed, spoilt>> BY <1>5 DEF Read
  <2> HIDE DEF next
  <2> QED BY <1>3, <2>1, <2>2, <2>3, <2>4
<1>6. CASE TooOld(s) BY <1>2, <1>3, <1>6 DEF TooOld, Has
<1>7. CASE NoFile(s) BY <1>3, <1>7 DEF NoFile, Has
<1>8. CASE Unlink(s)
  <2> DEFINE next == [fetch[s] EXCEPT !.step = "removed"]
  <2>1. next # None /\ next.step = "removed" /\ next.ref = fetch[s].ref
    <3>1. fetch[s] \in Fetch BY <1>8 DEF Unlink, Has, Fetching
    <3>2. next \in Fetch /\ next.step = "removed" /\ next.ref = fetch[s].ref
      BY <3>1 DEF Fetch
    <3> QED BY <3>2, FetchAssumption
  <2>2. fetch' = [fetch EXCEPT ![s] = next] BY <1>8 DEF Unlink
  <2>3. ~ Has(s, "removed") BY <1>8 DEF Unlink, Has
  <2>4. /\ UNCHANGED <<handed, spoilt>> /\ fetch[s].ref \in Refs
        /\ credential' = [credential EXCEPT ![fetch[s].ref] = "gone"]
    BY <1>2, <1>8 DEF Unlink, Has
  <2> HIDE DEF next
  <2> QED BY <1>3, <2>1, <2>2, <2>3, <2>4
<1>9. CASE Hand(s)
  <2>1. ASSUME NEW t \in Services, NEW r \in Refs, Has(t, "removed"), fetch[t].ref = r
        PROVE  r \in handed' \/ (Has(t, "removed") /\ fetch[t].ref = r)'
    BY <1>9, <2>1 DEF Hand, Has, Fetching
  <2> QED BY <1>9, <2>1 DEF Hand
<1> QED BY <1>1, <1>4, <1>5, <1>6, <1>7, <1>8, <1>9 DEF Vend

LEMMA CredentialStep ==
    ASSUME TypeOK, CredentialInv, [Next]_vars PROVE CredentialInv'
<1> USE DEF CredentialInv, ExpiredLost, CredentialsKept
<1>1. ASSUME UNCHANGED credentials PROVE CredentialInv'
  BY <1>1 DEF credentials, Has, Fetching
<1>2. ASSUME NEW s \in Services, Process(s) PROVE CredentialInv'
  BY <1>1, <1>2, VendStep DEF Process, TypeOK
<1>3. ASSUME NEW s \in Services, Restart(s) PROVE CredentialInv'
  <2> USE <1>3 DEF Restart, Drop, TypeOK, CredentialsTypeOK
  <2>1. ASSUME NEW t \in Services, NEW r \in Refs, Has(t, "removed"), fetch[t].ref = r
        PROVE  r \in spoilt' \/ (Has(t, "removed") /\ fetch[t].ref = r)'
    BY <2>1 DEF Has, Fetching
  <2>2. spoilt \subseteq spoilt' /\ UNCHANGED <<credential, handed>> OBVIOUS
  <2> QED BY <2>1, <2>2
<1>4. CASE Launcher \/ Administrator BY <1>1, <1>4 DEF Launcher, Administrator
<1>5. CASE Time
  BY <1>5 DEF Time, Expire, TypeOK, CredentialsTypeOK, Has, Fetching
<1>6. CASE UNCHANGED vars BY <1>1, <1>6 DEF vars
<1> QED BY <1>2, <1>3, <1>4, <1>5, <1>6 DEF Next

THEOREM CredentialsInductive == Spec => []CredentialInv
<1>1. Init => CredentialInv
  BY DEF Init, CredentialsInit, CredentialInv, ExpiredLost, CredentialsKept
<1> QED BY <1>1, CredentialStep, TypeCorrect, PTL DEF Spec

\* For any number of processes and references, credentials disappear only by being
\* answered, by age, unreadable when a process purges, or with the end of a process
\* that had removed them and not answered yet.
THEOREM CredentialsAreKept == Spec => []CredentialsKept
<1>1. CredentialInv => CredentialsKept BY DEF CredentialInv
<1> QED BY <1>1, CredentialsInductive, PTL

=============================================================================
