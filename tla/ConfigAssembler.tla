-------------------------- MODULE ConfigAssembler --------------------------
(***************************************************************************)
(* The launcher of an agent seals its configuration before it starts it:    *)
(* ConfigAssembler.assemble() of enterprise/broker/config_assembler.py,     *)
(* which agent-broker.py calls.  It reads the directory by searches of its  *)
(* own, one after the other, while administrators change it; a search or a  *)
(* file that fails is skipped, except the first.                            *)
(***************************************************************************)
EXTENDS AgentDirectory

CONSTANTS QuotaKey   \* the limit that a quota of the agent sets

ASSUME QuotaAssumption == QuotaKey \in SealedKeys

VARIABLES sealing   \* the assembly under way, None without one

\* lost is an observation: a search or a file failed, or a policy changed
\* behind the assembly.
Assembly == [agent : Agents, identity : Entry,
             step : {"tools", "policies", "file"}, index : Nat \ {0},
             authorized : SUBSET Tools, refused : SUBSET Tools, instructions : SUBSET GPOs,
             merged : [set : [Keys -> Values \cup {Unset}], lists : [Lists -> SUBSET Items]],
             lost : BOOLEAN]

AssemblerInit == sealing = None

-----------------------------------------------------------------------------
PolicyLinks == Listed[sealing.identity.policies]
NextPolicy  == PolicyLinks[sealing.index]
At(step)    == sealing # None /\ sealing.step = step
More        == sealing.index <= Len(PolicyLinks)
Assembled   == At("policies") /\ ~ More

AssemblerTypeOK == sealing \in Assembly \cup {None} /\ (At("file") => More)

\* The one search whose failure ends the assembly, as an agent that is not
\* found does.
ReadAgent(a) ==
    /\ Requested
    /\ sealing = None /\ entry[a] # None
    /\ sealing' = [agent |-> a, identity |-> entry[a], step |-> "tools", index |-> 1,
                   authorized |-> {}, refused |-> {}, instructions |-> {},
                   merged |-> NothingSealed, lost |-> FALSE]
    /\ UNCHANGED <<accounts, policies>>

\* _resolve_tool(): any search may fail, or find nothing.
Resolved(tools) == SUBSET tools

\* _map_tools(): a tool that was not resolved is neither authorized nor denied.
MapTools(authorized, denied) == authorized \ denied

\* Variant: in the order of the links.
PromptAsLinked(gpos) == Listed[gpos]

\* _assemble_system_prompt(): instructions in the order of their priority, whether
\* they are enabled or not, and whatever their strategy.
SystemPrompt(gpos) == Sorted(Listed[sealing.identity.gpos], gpos, GPOPriority)

\* Tools, instruction GPOs and their files do not change here, so that their
\* searches, of which some may fail, are one step.
ResolveTools ==
    /\ At("tools")
    /\ \E authorized \in Resolved(sealing.identity.tools),
          denied \in Resolved(sealing.identity.denied),
          gpos \in SUBSET sealing.identity.gpos :
         sealing' = [sealing EXCEPT
                       !.step = "policies",
                       !.authorized = MapTools(authorized, denied),
                       !.refused = denied,
                       !.instructions = gpos,
                       !.lost = \/ authorized # sealing.identity.tools
                                \/ denied # sealing.identity.denied
                                \/ gpos # sealing.identity.gpos]
    /\ UNCHANGED directory

\* _merge_policies(): the search for the next policy.
SearchPolicy ==
    /\ At("policies") /\ More
    /\ sealing' =
         IF attrs[NextPolicy] # None /\ attrs[NextPolicy].enabled = "TRUE"
         THEN [sealing EXCEPT !.step = "file"]
         ELSE [sealing EXCEPT !.index = @ + 1]
    /\ UNCHANGED directory

\* Variant: a policy with denied tools replaces those before.
SealReplacing(content) ==
    /\ At("file")
    /\ sealing' = [sealing EXCEPT !.step = "policies", !.index = @ + 1,
                     !.merged = [SealPolicy(@, content) EXCEPT
                                   !.lists[Deny] = content.lists[Deny]]]

Seal(content) ==
    /\ At("file")
    /\ sealing' = [sealing EXCEPT !.step = "policies", !.index = @ + 1,
                     !.merged = SealPolicy(@, content)]

ReadPolicyFile == Seal(ContentOf(file[NextPolicy])) /\ UNCHANGED directory

\* The search or the file of a policy fails: it is passed over.
PassOver ==
    /\ (At("policies") /\ More) \/ At("file")
    /\ sealing' = [sealing EXCEPT !.step = "policies", !.index = @ + 1, !.lost = TRUE]
    /\ UNCHANGED directory

\* The quota of the agent comes last; then the agent is launched.
SealedPolicy ==
    IF sealing.identity.quota = Unset THEN sealing.merged
    ELSE [sealing.merged EXCEPT !.set[QuotaKey] = sealing.identity.quota]

\* ... or the assembly is given up, at any moment.
Launch == /\ sealing # None /\ sealing' = None
          /\ UNCHANGED directory

Assemble ==
    \/ \E a \in Agents : ReadAgent(a)
    \/ ResolveTools \/ SearchPolicy \/ ReadPolicyFile \/ PassOver \/ Launch

\* A policy changes that the assembly has read already, or half.
Behind(p) ==
    sealing' = IF sealing # None
                  /\ \E i \in DOMAIN PolicyLinks :
                        /\ PolicyLinks[i] = p
                        /\ i < sealing.index \/ (i = sealing.index /\ At("file"))
               THEN [sealing EXCEPT !.lost = TRUE]
               ELSE sealing

=============================================================================
