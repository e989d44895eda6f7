--------------------------- MODULE MCLoadBalancers ---------------------------
EXTENDS LoadBalancers, TLC
Symmetry == Permutations(Service) \cup Permutations(Port)
=============================================================================
