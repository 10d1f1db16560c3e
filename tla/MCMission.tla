------------------------------ MODULE MCMission ------------------------------
EXTENDS Mission
CONSTANTS g1, g2, w1, w2

\* Two goals of one subject, or of two; which of the two subjects does not matter.
OneOrTwo == {[g \in Goals |-> w1], [g \in Goals |-> IF g = g1 THEN w1 ELSE w2]}
=============================================================================
