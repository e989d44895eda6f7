------------------------------- MODULE MCDrain -------------------------------
EXTENDS Drain, TLC
Symmetry == Permutations(Node) \cup Permutations(Pod) \cup Permutations(Group)
=============================================================================
