---------------------------- MODULE MCControlPlane ----------------------------
EXTENDS ControlPlane, TLC

CONSTANTS n1, n2

MCNodes == {n1, n2}

\* Nodes only name PS hosts; no behaviour depends on which is which.
NodeSymmetry == Permutations(MCNodes)
=============================================================================
