--------------------------- MODULE MCConfiguration ---------------------------
EXTENDS Configuration

CONSTANTS a1, a2, d1, d2, t1, g1, g2, g3, s1, s2, r1, p1, p2, p3,
          coordinator, worker, tokens, steps, spawn, deny, egress, x, y

\* The values of an attribute come in the order p3, p1, p2, and g2, g3, g1.
Order == <<p3, p1, p2, g2, g3, g1>>
InOrder == [S \in SUBSET {p1, p2, p3} \cup SUBSET {g1, g2, g3} |->
              SelectSeq(Order, LAMBDA v : v \in S)]

KeyDefaults == [k \in {tokens, steps, spawn} |-> 0]

\* Base instructions, some that are appended, and some that are to replace them
\* and are disabled.
Instructions == [g \in {g1, g2, g3} |->
    CASE g = g1 -> [priority |-> 0, enabled |-> TRUE, strategy |-> "append"]
      [] g = g2 -> [priority |-> 10, enabled |-> TRUE, strategy |-> "append"]
      [] g = g3 -> [priority |-> 5, enabled |-> FALSE, strategy |-> "replace"]]

\* No type in use has a name that is part of another (agent-manager.py:588).
Apart == [t \in {coordinator, worker} |-> {t}]

Policy(enabled, priority, types, trusts) ==
    [enabled |-> enabled, priority |-> priority, types |-> types, trusts |-> trusts]
File(t, s, denied, out, network) ==
    [set |-> [k \in {tokens, steps, spawn} |-> IF k = spawn THEN s ELSE t],
     lists |-> [l \in {deny, egress} |-> IF l = deny THEN denied ELSE out],
     network |-> network]

\* A base policy, one for coordinators, and one for trusted agents.
Policies1 == [p \in {p1, p2, p3} |->
    CASE p = p1 -> Policy("TRUE", 0, {}, {})
      [] p = p2 -> Policy("TRUE", 100, {coordinator}, {})
      [] p = p3 -> Policy("TRUE", 150, {}, {2})]
Files1 == [p \in {p1, p2, p3} |->
    CASE p = p1 -> File(1, 1, {x}, {x}, FALSE)
      [] p = p2 -> File(2, Unset, {y}, {y}, TRUE)
      [] p = p3 -> File(3, Unset, {}, {}, FALSE)]

\* Policies are disabled, made equal in priority, or narrowed; files are lost.
Edited == [p \in {p1, p2, p3} |->
    CASE p = p1 -> {Policy("TRUE", 100, {}, {}), Policy("absent", 0, {}, {})}
      [] p = p2 -> {Policy("FALSE", 100, {coordinator}, {}), None}
      [] p = p3 -> {Policy("TRUE", 150, {}, {0})}]
EditedFiles == [p \in {p1, p2, p3} |->
    CASE p = p1 -> {File(1, 1, {y}, {x}, TRUE)}
      [] p = p2 -> {None}
      [] p = p3 -> {}]

\* agent create has no options for tools, policies and instructions.
NewAgent == [type |-> worker, trust |-> 0, tools |-> {}, denied |-> {},
             policies |-> {}, gpos |-> {}, quota |-> Unset]
Drafts == [d \in {d1, d2} |-> [agent |-> a2, attrs |-> NewAgent]]
Known == [a \in {a1, a2} |->
    IF a = a1 THEN [type |-> coordinator, trust |-> 2, tools |-> {t1}, denied |-> {},
                    policies |-> {p1, p2, p3}, gpos |-> {g1}, quota |-> 3]
    ELSE None]
=============================================================================
