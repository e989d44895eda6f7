-------------------------- MODULE DeployRefinement --------------------------
(***************************************************************************)
(* Deploy implements WorkerReplacement: the life of a worker is read off   *)
(* the cluster, and the roll out is the one in the memory of the process   *)
(* or, when none has begun to gather, the one in the recovery file.        *)
(***************************************************************************)
EXTENDS Deploy

LifeOf(i) ==
    IF i \notin launched THEN "absent"
    ELSE IF i \notin running THEN "gone"
    ELSE IF i \notin members \cup Other THEN "detached"
    ELSE IF i \notin cordoned THEN "serving"
    ELSE IF i \in pods THEN "cordoned"
    ELSE "evicted"

Rollout == IF Gather \in mem.done THEN mem ELSE file.state

Replacement == INSTANCE WorkerReplacement WITH
    Worker   <- Instance,
    MayFail  <- "instance" \in Fault \/ "apply" \in Operator,
    life     <- [i \in Instance |-> LifeOf(i)],
    old      <- Rollout.original,
    verified <- WaitNodes \in Rollout.done,
    success  <- stage = Delete

(***************************************************************************)
(* Old workers are cordoned, drained, detached and terminated in this      *)
(* order, with all of them past one step before any takes the next, by an  *)
(* implementation that may be killed, fail and be resumed at any step      *)
(* (deploy.go:18-29).                                                      *)
(***************************************************************************)
ImplementsReplacement == Replacement!Spec
=============================================================================
