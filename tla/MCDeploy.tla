------------------------------ MODULE MCDeploy ------------------------------
EXTENDS DeployRefinement, TLC
Symmetry == Permutations(Instance \ Other)
=============================================================================
