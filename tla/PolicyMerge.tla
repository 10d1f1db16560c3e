----------------------------- MODULE PolicyMerge -----------------------------
(***************************************************************************)
(* Agent policies and how they are merged: PolicyLoader of                  *)
(* enterprise/provisioner/policy.py, which the provisioning service uses,   *)
(* and ConfigAssembler._merge_policies of enterprise/broker, which seals    *)
(* configurations.  A policy has attributes in the directory and a file of  *)
(* settings in SYSVOL.  A setting is a key with a value (a limit, a switch) *)
(* or a list with items (denied tools, subjects).                           *)
(***************************************************************************)
EXTENDS Integers, SequencesExt

CONSTANTS Policies, Types,
          Part,        \* the types whose names are part of the name of a type
          None,        \* no object, no file
          Keys, Values,
          Unset,       \* a key that a file of settings does not have
          Defaults,    \* the fields of a MergedPolicy
          Lists, Items,
          Egress,      \* the list of a section that is read with "network"
          Deny,        \* the list of denied tools
          SealedKeys   \* keys of the sections an assembler merges

ASSUME PolicyAssumption ==
    /\ Part \in [Types -> SUBSET Types]
    /\ Unset \notin Values /\ Defaults \in [Keys -> Values]
    /\ Egress \in Lists /\ Deny \in Lists /\ Egress # Deny
    /\ SealedKeys \subseteq Keys

\* enabled is the attribute as it is: a policy may lack it.
Attributes == [enabled : {"TRUE", "FALSE", "absent"}, priority : Int,
               types : SUBSET Types, trusts : SUBSET Nat]

\* network: the file has a section of that name.
Content == [set : [Keys -> Values \cup {Unset}], lists : [Lists -> SUBSET Items],
            network : BOOLEAN]

\* A missing file, one that cannot be read and one that is not JSON: {}.
Empty == [set |-> [k \in Keys |-> Unset], lists |-> [l \in Lists |-> {}],
          network |-> FALSE]
ContentOf(f) == IF f = None THEN Empty ELSE f

-----------------------------------------------------------------------------
(* policy.py *)

\* A loaded policy: its attributes and its settings.
Definition == [attrs : Attributes, content : Content]

ASSUME NoneAssumption == None \notin Attributes \cup Content \cup Definition

Enabled(d) == d.attrs.enabled \in {"TRUE", "absent"}

\* Variant: a policy with both filters needs one of them to match.
PolicyAppliesToo(d, type, trust) ==
    \/ d.attrs.types = {} \/ type \in d.attrs.types
    \/ d.attrs.trusts = {} \/ trust \in d.attrs.trusts

\* _policy_applies(): an empty filter lets every agent through.  A filter with one
\* value comes as a string, and what is "in" it is any part of it.
PolicyApplies(d, type, trust) ==
    /\ \/ d.attrs.types = {} \/ type \in d.attrs.types
       \/ \E t \in Types : d.attrs.types = {t} /\ type \in Part[t]
    /\ d.attrs.trusts = {} \/ trust \in d.attrs.trusts

MergedPolicy == [set |-> Defaults, lists |-> [l \in Lists |-> {}]]

\* _apply_policy(): a key overrides, a list extends.  "egress" is read only
\* when the file has a "network" section too.
ApplyPolicy(merged, d) ==
    [set |-> [k \in Keys |-> IF d.content.set[k] = Unset THEN merged.set[k]
                                                      ELSE d.content.set[k]],
     lists |-> [l \in Lists |-> IF l = Egress /\ ~ d.content.network
                                THEN merged.lists[l]
                                ELSE merged.lists[l] \cup d.content.lists[l]]]

\* Positions of names whose element is chosen, and those of them that a stable
\* sort, lower ranks first, puts no later than i.
Positions(names, chosen) == {i \in DOMAIN names : names[i] \in chosen}

Upto(names, chosen, rank, i) ==
    {j \in Positions(names, chosen) :
        \/ rank[names[j]] < rank[names[i]]
        \/ rank[names[j]] = rank[names[i]] /\ j <= i}

\* The k-th element is the one by which the sort has put k of them.
Arranged(names, chosen, rank) ==
    [k \in 1 .. Cardinality(Positions(names, chosen)) |->
        names[CHOOSE i \in Positions(names, chosen) :
                 Cardinality(Upto(names, chosen, rank, i)) = k]]

\* sort(key, reverse=True) is stable, too.  (Also a variant of the next one.)
SortedDown(names, chosen, rank) ==
    Arranged(names, chosen, [p \in DOMAIN rank |-> - rank[p]])

\* policies.sort(key=priority) of those among names that were chosen.
Sorted(names, chosen, rank) == Arranged(names, chosen, rank)

\* The policies among names that were loaded, are enabled and apply.
Applicable(names, loaded, type, trust) ==
    {p \in ToSet(names) : /\ loaded[p] # None
                          /\ Enabled(loaded[p])
                          /\ PolicyApplies(loaded[p], type, trust)}

Priority(loaded) == [p \in Policies |-> IF loaded[p] = None THEN 0
                                        ELSE loaded[p].attrs.priority]

\* What is merged after each round of "for policy in policies".
Rounds(sorted, loaded) ==
    LET merged[n \in 0 .. Len(sorted)] ==
          IF n = 0 THEN MergedPolicy ELSE ApplyPolicy(merged[n - 1], loaded[sorted[n]])
    IN  merged

\* load_policies_for_agent(), from what _load_policy() returned for each name.
LoadPolicies(names, loaded, type, trust) ==
    LET sorted == Sorted(names, Applicable(names, loaded, type, trust), Priority(loaded))
    IN  Rounds(sorted, loaded)[Len(sorted)]

-----------------------------------------------------------------------------
(* config_assembler.py *)

NothingSealed == [set |-> [k \in Keys |-> Unset], lists |-> [l \in Lists |-> {}]]

\* One round of _merge_policies() for a policy that is enabled and whose file
\* was read: only denied tools and the sections execution, llm and audit.
SealPolicy(merged, content) ==
    [set |-> [k \in Keys |-> IF k \notin SealedKeys \/ content.set[k] = Unset
                             THEN merged.set[k] ELSE content.set[k]],
     lists |-> [merged.lists EXCEPT ![Deny] = @ \cup content.lists[Deny]]]

-----------------------------------------------------------------------------
(* What the merge promises (policy.py:189 "higher overrides") *)

\* Positions of chosen policies that have k; of those with the highest priority
\* the last one linked wins.
Having(names, chosen, loaded, k) ==
    {i \in Positions(names, chosen) : loaded[names[i]].content.set[k] # Unset}

Wins(names, loaded, having, i) ==
    LET rank == Priority(loaded)
    IN  \A j \in having : \/ rank[names[i]] > rank[names[j]]
                          \/ rank[names[i]] = rank[names[j]] /\ i >= j

\* The value of k that the winner has, or what it is without any policy.
ValueOf(names, chosen, loaded, k, without) ==
    LET having == Having(names, chosen, loaded, k)
        winner == names[CHOOSE i \in having : Wins(names, loaded, having, i)]
    IN  IF having = {} THEN without ELSE loaded[winner].content.set[k]

\* A list has the items of every policy, but for egress without network.
ItemsOf(names, chosen, loaded, l) ==
    UNION {loaded[p].content.lists[l] :
             p \in {q \in ToSet(names) \cap chosen : l = Egress => loaded[q].content.network}}

=============================================================================
