--------------------------- MODULE MCProvisioner ---------------------------
EXTENDS Provisioner, TLC

CONSTANTS i1, i2, v1, v2, v3, r1, r2, r3

MCIdentities == {i1, i2}
MCOneIdentity == {i1}
MCVMs == {v1, v2, v3}
MCTwoVMs == {v1, v2}
MCRequests == {r1, r2, r3}

\* Every request from a VM of its own ...
OwnVM == r1 :> v1 @@ r2 :> v2 @@ r3 :> v3
\* ... or the third a retry of the first.
RetryVM == r1 :> v1 @@ r2 :> v2 @@ r3 :> v1

\* Two requests search for the same agent type; the requirements of the third
\* leave one candidate.
TwoTypes == r1 :> <<i1, i2>> @@ r2 :> <<i1, i2>> @@ r3 :> <<i1>>
OneType == [r \in MCRequests |-> <<i1>>]
=============================================================================
