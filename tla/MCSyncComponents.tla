--------------------------- MODULE MCSyncComponents ---------------------------
EXTENDS SyncComponents, TLC

CONSTANTS p, q

(* One syncs everything and waits; the other may skip components instead. *)
Everything == [skip |-> {}, wait |-> TRUE]
Selected ==
    p :> {Everything}
    @@ q :> {Everything, [skip |-> {"kube-proxy"}, wait |-> FALSE],
             [skip |-> {"coredns", "aws-vpc-cni"}, wait |-> FALSE]}

(* The same command, once after the other. *)
Alone == p :> {Everything}
=============================================================================
