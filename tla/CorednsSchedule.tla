---------------------------- MODULE CorednsSchedule ---------------------------
(***************************************************************************)
(* `kubergrunt eks schedule-coredns` (src/eks/coredns.go): sets or removes *)
(* the compute-type annotation of the Pods of the CoreDNS Deployment, by   *)
(* kubectl, and sees to it that the Pods are replaced.  Commands may       *)
(* overlap, and be beside operators who restart or annotate the Pods.      *)
(***************************************************************************)
EXTENDS Integers, FiniteSets

CONSTANTS
    Process,   \* invocations of the command
    Custom     \* annotations of the Pods that operators set

VARIABLES
    annotations,  \* of the Pod template of the coredns Deployment
    at,           \* the step of each invocation
    compute,      \* what it was asked for, fargate or ec2
    replaced,     \* whether the Pods were replaced since it started
    touched,      \* whether somebody else changed the annotation since
    result

vars == <<annotations, at, compute, replaced, touched, result>>

ComputeType == "compute-type"
RestartedAt == "restartedAt"

Other == Custom \cup {RestartedAt}
Annotation == Other \cup {ComputeType}

TypeOK ==
    /\ annotations \subseteq Annotation
    /\ at \in [Process -> {"idle", "get", "remove", "restart", "add"}]
    /\ compute \in [Process -> {"fargate", "ec2"}]
    /\ replaced \in [Process -> BOOLEAN]
    /\ touched \in [Process -> BOOLEAN]
    /\ result \in [Process -> {"none", "ok", "error"}]

Init ==
    /\ annotations \in SUBSET Annotation
    /\ at = [p \in Process |-> "idle"]
    /\ compute \in [Process -> {"fargate", "ec2"}]
    /\ replaced = [p \in Process |-> FALSE]
    /\ touched = [p \in Process |-> FALSE]
    /\ result = [p \in Process |-> "none"]

-----------------------------------------------------------------------------
Goto(p, step) == at' = [at EXCEPT ![p] = step] /\ UNCHANGED result

Return(p, r) ==
    /\ at' = [at EXCEPT ![p] = "idle"]
    /\ result' = [result EXCEPT ![p] = r]

Start(p, c) ==
    /\ at[p] = "idle"
    /\ at' = [at EXCEPT ![p] = IF c = "fargate" THEN "get" ELSE "add"]
    /\ compute' = [compute EXCEPT ![p] = c]
    /\ replaced' = [replaced EXCEPT ![p] = FALSE]
    /\ touched' = [touched EXCEPT ![p] = FALSE]
    /\ result' = [result EXCEPT ![p] = "none"]
    /\ UNCHANGED annotations

(* A changed template makes Kubernetes replace the Pods; a restart changes *)
(* it by its time stamp.                                                   *)
Template(new, p) ==
    /\ annotations' = new
    /\ replaced' = [q \in Process |-> TRUE]
    /\ touched' = [q \in Process |->
           touched[q] \/ (q # p /\ (ComputeType \in new <=> ComputeType \notin annotations))]

(* Mutant: nothing is done for a Deployment without the annotation. *)
GetMetadata_NoRestart(p) ==
    /\ at[p] = "get"
    /\ IF ComputeType \in annotations THEN Goto(p, "remove") ELSE Return(p, "ok")
    /\ UNCHANGED <<annotations, compute, replaced, touched>>

(* kubectl get deployment: is the annotation there? *)
GetMetadata(p) ==
    /\ at[p] = "get"
    /\ Goto(p, IF ComputeType \in annotations THEN "remove" ELSE "restart")
    /\ UNCHANGED <<annotations, compute, replaced, touched>>

(* The JSON patch fails when the annotation is gone. *)
RemoveAnnotation(p) ==
    /\ at[p] = "remove"
    /\ \/ /\ ComputeType \in annotations
          /\ Template(annotations \ {ComputeType}, p)
          /\ Return(p, "ok")
       \/ /\ ComputeType \notin annotations
          /\ Return(p, "error")
          /\ UNCHANGED <<annotations, replaced, touched>>
    /\ UNCHANGED compute

RolloutRestart(p) ==
    /\ at[p] = "restart"
    /\ Template(annotations \cup {RestartedAt}, p)
    /\ Return(p, "ok")
    /\ UNCHANGED compute

(* JSON Patch add to a member that exists replaces it: the patch sets the  *)
(* whole map of annotations, and no Pod is replaced if that was its value. *)
AddAnnotation(p) ==
    /\ at[p] = "add"
    /\ IF annotations = {ComputeType}
       THEN UNCHANGED <<annotations, replaced, touched>>
       ELSE Template({ComputeType}, p)
    /\ Return(p, "ok")
    /\ UNCHANGED compute

KubectlFails(p) ==
    /\ at[p] # "idle"
    /\ Return(p, "error")
    /\ UNCHANGED <<annotations, compute, replaced, touched>>

(* Somebody else annotates the Pods. *)
Annotate(a) ==
    /\ a \notin annotations
    /\ annotations' = annotations \cup {a}
    /\ replaced' = [q \in Process |-> TRUE]
    /\ touched' = IF a = ComputeType THEN [q \in Process |-> TRUE] ELSE touched
    /\ UNCHANGED <<at, compute, result>>

ScheduleCoredns(p) ==
    GetMetadata(p) \/ RemoveAnnotation(p) \/ RolloutRestart(p) \/ AddAnnotation(p)

Next ==
    \/ \E p \in Process : \/ \E c \in {"fargate", "ec2"} : Start(p, c)
                          \/ ScheduleCoredns(p) \/ KubectlFails(p)
    \/ \E a \in Annotation : Annotate(a)

Spec == Init /\ [][Next]_vars

-----------------------------------------------------------------------------
(***************************************************************************)
(* A command that succeeds leaves the annotation as it was asked to,       *)
(* unless somebody else changed it meanwhile, and for fargate it has the   *)
(* Pods replaced even if the annotation was never there (coredns.go:59).   *)
(***************************************************************************)
ScheduledOnSuccess ==
    \A p \in Process :
        result[p] = "ok" =>
            /\ touched[p] \/ (ComputeType \in annotations <=> compute[p] = "ec2")
            /\ compute[p] = "fargate" => replaced[p]

=============================================================================
