------------------------------ MODULE Workers ------------------------------
(***************************************************************************)
(* The world that `kubergrunt eks deploy` drives: one Auto Scaling Group,  *)
(* the EC2 instances it launches and the Kubernetes nodes they become.     *)
(* None of it is code of the repository: it is modelled from the calls     *)
(* src/eks and src/kubectl make and from what they take the answers to     *)
(* mean.  An instance is a model value, and is also the name of its node.  *)
(***************************************************************************)
EXTENDS Integers, FiniteSets

CONSTANTS
    Instance,   \* every EC2 instance id there will ever be
    Other,      \* running nodes of the cluster that are not in this group
    Capacity,   \* desired capacity of the group before any rollout
    MaxSize,    \* max size of the group before any rollout
    Fault       \* what may go wrong, a subset of FaultKind

FaultKind == {"crash", "api", "disk", "read", "instance"}

ASSUME WorkersAssumption ==
    /\ IsFiniteSet(Instance)
    /\ Other \subseteq Instance
    /\ Capacity \in Nat
    /\ MaxSize \in Nat
    /\ Capacity =< MaxSize
    /\ Fault \subseteq FaultKind

VARIABLES
    desired,    \* DesiredCapacity of the group
    maxSize,    \* MaxSize of the group
    members,    \* instances attached to the group
    launched,   \* instances that were ever launched (ids are never reused)
    running,    \* launched instances that have not been terminated
    ready,      \* running instances registered in Kubernetes and Ready
    cordoned,   \* nodes marked unschedulable
    pods        \* nodes that run workload Pods

asgVars  == <<desired, maxSize>>
nodeVars == <<ready, cordoned, pods>>
worldVars == <<desired, maxSize, members, launched, running, ready, cordoned, pods>>

WorldTypeOK ==
    /\ desired \in Nat
    /\ maxSize \in Nat
    /\ members \subseteq running
    /\ running \subseteq launched
    /\ launched \subseteq Instance
    /\ ready \subseteq running
    /\ cordoned \subseteq ready
    /\ pods \subseteq ready

(***************************************************************************)
(* The group is up or still reaching its desired capacity; its members and *)
(* the other nodes of the cluster serve workloads.                         *)
(***************************************************************************)
WorldInit ==
    /\ desired = Capacity
    /\ maxSize = MaxSize
    /\ members \in {s \in SUBSET (Instance \ Other) : Cardinality(s) =< Capacity}
    /\ launched = members \cup Other
    /\ running = launched
    /\ ready = launched
    /\ cordoned = {}
    /\ pods = launched

-----------------------------------------------------------------------------
(* The group holds exactly as many instances as it wants. *)
AtCapacity == Cardinality(members) = desired

(* An instance stops for good, and its node object goes with it. *)
Terminated(gone) ==
    /\ running' = running \ gone
    /\ ready' = ready \ gone
    /\ cordoned' = cordoned \ gone
    /\ pods' = pods \ gone

(* The group launches an instance to reach its desired capacity. *)
Launch(i) ==
    /\ i \in Instance \ launched
    /\ Cardinality(members) < desired
    /\ members' = members \cup {i}
    /\ launched' = launched \cup {i}
    /\ running' = running \cup {i}
    /\ UNCHANGED <<asgVars, nodeVars>>

(* A launched instance registers as a node and becomes Ready. *)
BecomeReady(i) ==
    /\ i \in running \ ready
    /\ ready' = ready \cup {i}
    /\ UNCHANGED <<asgVars, members, launched, running, cordoned, pods>>

(* The scheduler places workload Pods on a schedulable node. *)
Schedule(i) ==
    /\ i \in ready \ (cordoned \cup pods)
    /\ pods' = pods \cup {i}
    /\ UNCHANGED <<asgVars, members, launched, running, ready, cordoned>>

(* The group holds more instances than it wants and terminates one. *)
ScaleIn(i) ==
    /\ i \in members
    /\ Cardinality(members) > desired
    /\ members' = members \ {i}
    /\ Terminated({i})
    /\ UNCHANGED <<asgVars, launched>>

(* An instance of the group fails its health check and is terminated. *)
InstanceFails(i) ==
    /\ "instance" \in Fault
    /\ i \in members
    /\ members' = members \ {i}
    /\ Terminated({i})
    /\ UNCHANGED <<asgVars, launched>>

WorldNext ==
    \E i \in Instance :
        \/ Launch(i)
        \/ BecomeReady(i)
        \/ Schedule(i)
        \/ ScaleIn(i)
        \/ InstanceFails(i)

-----------------------------------------------------------------------------
(* The calls of the AWS and Kubernetes APIs that change the world. *)

(* UpdateAutoScalingGroup: a max size below the desired capacity lowers it. *)
UpdateMaxSize(n) ==
    /\ maxSize' = n
    /\ desired' = IF desired > n THEN n ELSE desired
    /\ UNCHANGED <<members, launched, running, nodeVars>>

(* SetDesiredCapacity, which AWS refuses above the max size. *)
SetDesiredCapacity(n) ==
    /\ n =< maxSize
    /\ desired' = n
    /\ UNCHANGED <<maxSize, members, launched, running, nodeVars>>

(* DetachInstances with ShouldDecrementDesiredCapacity: AWS refuses the    *)
(* whole call when one of the instances is not attached to the group, or   *)
(* when the capacity would fall below the minimum.                         *)
Detachable(batch) == batch \subseteq members /\ Cardinality(batch) =< desired

DetachFromGroup(batch) ==
    /\ Detachable(batch)
    /\ members' = members \ batch
    /\ desired' = desired - Cardinality(batch)
    /\ UNCHANGED <<maxSize, launched, running, nodeVars>>

(* TerminateInstances: terminating an instance twice is not an error. *)
TerminateInEC2(batch) ==
    /\ Terminated(batch)
    /\ members' = members \ batch
    /\ UNCHANGED <<asgVars, launched>>

(* kubectl cordon: the node accepts no further Pods. *)
KubectlCordon(i) ==
    /\ i \in ready
    /\ cordoned' = cordoned \cup {i}
    /\ UNCHANGED <<asgVars, members, launched, running, ready, pods>>

(* kubectl drain: cordons the node, then evicts its Pods. *)
KubectlDrain(i) ==
    /\ i \in ready
    /\ cordoned' = cordoned \cup {i}
    /\ pods' = pods \ {i}
    /\ UNCHANGED <<asgVars, members, launched, running, ready>>

(* DescribeInstances: an empty list of ids is no filter at all. *)
Reported(ids) == IF ids = {} THEN running ELSE ids
=============================================================================
