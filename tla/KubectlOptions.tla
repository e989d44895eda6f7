---------------------------- MODULE KubectlOptions ----------------------------
(***************************************************************************)
(* How a command learns which cluster it is to talk to: the flags that all *)
(* of them share (src/cmd/common.go) and the options they are turned into  *)
(* (src/kubectl/options.go).  A cluster stands for its endpoint, its CA    *)
(* data and its ARN.                                                       *)
(***************************************************************************)
CONSTANTS
    Context,   \* names of contexts
    Cluster    \* clusters

None == "none"

Flags == [server : Cluster \cup {None}, ca : BOOLEAN, token : BOOLEAN,
          arn : Cluster \cup {None}, context : Context \cup {None}]

Options == [server : Cluster \cup {None}, arn : Cluster \cup {None}, context : Context \cup {None}]

NoOptions == [server |-> None, arn |-> None, context |-> None]

(* The options for the flags; none when --kubectl-server-endpoint comes    *)
(* without the CA or the token.                                            *)
parseKubectlOptions(f) ==
    CASE f.server # None -> {o \in {[NoOptions EXCEPT !.server = f.server]} : f.ca /\ f.token}
      [] f.server = None /\ f.arn # None -> {[NoOptions EXCEPT !.arn = f.arn]}
      [] OTHER -> {[NoOptions EXCEPT !.context = f.context]}

AuthScheme(o) ==
    CASE o.arn # None -> "EKSClusterBased"
      [] o.arn = None /\ o.server # None -> "DirectAuth"
      [] OTHER -> "ConfigBased"
=============================================================================
