------------------------ MODULE MCSecurityGroupCleanup ------------------------
EXTENDS SecurityGroupCleanup, TLC
Symmetry == Permutations(Tagged) \cup Permutations(Interface)
=============================================================================
