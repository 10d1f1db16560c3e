---------------------------- MODULE MCEscalation ----------------------------
EXTENDS Escalation, TLC

CONSTANTS c1, c2, c3, e1, e2, e3, e4

\* A coordinator of a team, and one of its department ...
TwoLevels == c1 :> {"team"} @@ c2 :> {"department"}
\* ... or two of the team.
TwoOfTeam == TwoLevels @@ c3 :> {"team"}

\* e1 is a blocked task, e2 one of the department, which may resolve it or not, e3
\* a timeout that goes there too, e4 of an agent without an escalation path.
Paths == [e \in Escs |-> IF e = e1 THEN "team" ELSE IF e = e4 THEN "human" ELSE "department"]
Handlers == [c \in Coordinators |-> IF c = c2 THEN {e2} ELSE {}]
=============================================================================
