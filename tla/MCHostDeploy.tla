---- MODULE MCHostDeploy ----
EXTENDS HostDeploy, TLC
CONSTANTS A, B
\* The settings of A change, those of B do not.
RowsOfTypes == {<<A, 2, 1>>, <<A, 1, 0>>, <<B, 1, 0>>}
DeploySymmetry == Permutations(Communities) \cup Permutations(Uplinks)
====
