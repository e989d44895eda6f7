-------------------------------- MODULE Drain --------------------------------
(***************************************************************************)
(* `kubergrunt eks drain` (src/eks/drain.go): the workers of the requested *)
(* Auto Scaling Groups are listed, all of them cordoned, and then all of   *)
(* them drained, each time by one goroutine per node that runs kubectl     *)
(* (src/kubectl/node.go).  The two fan-outs of `eks deploy` are the same   *)
(* code; there each is one atomic step per node (module Deploy).           *)
(***************************************************************************)
EXTENDS Integers, FiniteSets

CONSTANTS
    Node,       \* the running EC2 instances of the region
    Group,      \* the groups named on the command line
    Pod,        \* the workload Pods
    EmptyGroups,\* whether all the named groups may be empty
    Fault       \* "api": AWS calls may fail, "kubectl": a kubectl run may

ASSUME DrainAssumption ==
    /\ IsFiniteSet(Node) /\ "pending" \notin Node
    /\ EmptyGroups \in BOOLEAN
    /\ Fault \subseteq {"api", "kubectl"}

VARIABLES
    group,      \* the group of each node, "other" for the rest
    cordoned,   \* unschedulable nodes
    home,       \* the node of each Pod, "pending" when it has none
    phase,      \* what DrainASG does: read, cordon, drain, done
    at,         \* the step of the fan-out: describe, launch, wait, collect
    unread,     \* groups still to look up
    ids,        \* allInstanceIDs
    names,      \* nodes of the current fan-out
    pending,    \* those to launch a goroutine for, or to receive from
    wg,         \* counter of the sync.WaitGroup
    pc,         \* where the goroutine of each node is
    chan,       \* its error channel, of size one
    failed,     \* an error was collected
    result      \* what the command returned

clusterVars == <<group, cordoned, home>>
mainVars == <<phase, at, unread, ids, names, pending, failed, result>>
goVars == <<pc, chan>>
vars == <<clusterVars, mainVars, wg, goVars>>

TypeOK ==
    /\ group \in [Node -> Group \cup {"other"}]
    /\ cordoned \subseteq Node
    /\ home \in [Pod -> Node \cup {"pending"}]
    /\ phase \in {"read", "cordon", "drain", "done"}
    /\ at \in {"describe", "launch", "wait", "collect"}
    /\ unread \subseteq Group
    /\ ids \subseteq Node
    /\ names \subseteq Node
    /\ pending \subseteq names
    /\ wg \in 0 .. Cardinality(Node)
    /\ pc \in [Node -> {"idle", "cordon", "drain", "evict", "exit"}]
    /\ chan \in [Node -> {"empty", "nil", "error"}]
    /\ failed \in BOOLEAN
    /\ result \in {"none", "ok", "error"}

Requested == {n \in Node : group[n] \in Group}

Init ==
    /\ group \in [Node -> Group \cup {"other"}]
    /\ EmptyGroups \/ Requested # {}
    /\ cordoned = {}
    /\ home \in [Pod -> Node \cup {"pending"}]
    /\ phase = "read"
    /\ at = "describe"
    /\ unread = Group
    /\ ids = {}
    /\ names = {}
    /\ pending = {}
    /\ wg = 0
    /\ pc = [n \in Node |-> "idle"]
    /\ chan = [n \in Node |-> "empty"]
    /\ failed = FALSE
    /\ result = "none"

-----------------------------------------------------------------------------
Return(r) == phase' = "done" /\ result' = r

(* Mutant: the groups are not looked up by name. *)
InstancesOf_AnyGroup(g) == Node

(* GetAsgByName and idsFromAsgInstances. *)
InstancesOf(g) == {n \in Node : group[n] = g}

(* getAsgInfo, one group at a time. *)
GetAsgInfo(g) ==
    /\ phase = "read"
    /\ g \in unread
    /\ unread' = unread \ {g}
    /\ ids' = ids \cup InstancesOf(g)
    /\ UNCHANGED <<clusterVars, phase, at, names, pending, failed, result, wg, goVars>>

AllGroupsRead ==
    /\ phase = "read"
    /\ unread = {}
    /\ phase' = "cordon"
    /\ UNCHANGED <<clusterVars, at, unread, ids, names, pending, failed, result, wg, goVars>>

(* DescribeInstances: an empty list of ids is no filter at all. *)
Described(wanted) == IF wanted = {} THEN Node ELSE wanted

(* instanceDetailsFromIds: the first call of either fan-out. *)
DescribeInstances ==
    /\ phase \in {"cordon", "drain"}
    /\ at = "describe"
    /\ names' = Described(ids)
    /\ pending' = names'
    /\ at' = "launch"
    /\ UNCHANGED <<clusterVars, phase, unread, ids, failed, result, wg, goVars>>

(* A lookup fails: the command ends. *)
LookupFails ==
    /\ "api" \in Fault
    /\ \/ phase = "read" /\ unread # {}
       \/ phase \in {"cordon", "drain"} /\ at = "describe"
    /\ Return("error")
    /\ UNCHANGED <<clusterVars, at, unread, ids, names, pending, failed, wg, goVars>>

WaitGroupAdd == wg' = wg + 1

(* wg.Add(1), then `go cordonNode` or `go drainNode`. *)
Launch(n) ==
    /\ at = "launch"
    /\ n \in pending
    /\ pending' = pending \ {n}
    /\ WaitGroupAdd
    /\ pc' = [pc EXCEPT ![n] = phase]
    /\ UNCHANGED <<clusterVars, phase, at, unread, ids, names, failed, result, chan>>

AllLaunched ==
    /\ at = "launch"
    /\ pending = {}
    /\ at' = "wait"
    /\ UNCHANGED <<clusterVars, phase, unread, ids, names, pending, failed, result, wg, goVars>>

WaitGroupWait ==
    /\ at = "wait"
    /\ wg = 0
    /\ at' = "collect"
    /\ pending' = names
    /\ UNCHANGED <<clusterVars, phase, unread, ids, names, failed, result, wg, goVars>>

(* Mutant: each error overwrites the one before. *)
Failed_Last(err) == err = "error"

Failed(err) == failed \/ err = "error"

(* One error is received from each channel. *)
Collect(n) ==
    /\ at = "collect"
    /\ n \in pending
    /\ chan[n] # "empty"
    /\ failed' = Failed(chan[n])
    /\ chan' = [chan EXCEPT ![n] = "empty"]
    /\ pending' = pending \ {n}
    /\ UNCHANGED <<clusterVars, phase, at, unread, ids, names, result, wg, pc>>

(* Mutant: workers that could not be cordoned are drained all the same. *)
NextPhase_IgnoresCordonErrors ==
    IF phase = "cordon" THEN phase' = "drain" /\ at' = "describe" /\ UNCHANGED result
    ELSE Return(IF failed THEN "error" ELSE "ok") /\ UNCHANGED at

(* An error ends the command; otherwise draining follows cordoning. *)
NextPhase ==
    CASE failed -> Return("error") /\ UNCHANGED at
      [] ~failed /\ phase = "cordon" -> phase' = "drain" /\ at' = "describe" /\ UNCHANGED result
      [] ~failed /\ phase = "drain" -> Return("ok") /\ UNCHANGED at

AllCollected ==
    /\ phase \in {"cordon", "drain"}
    /\ at = "collect"
    /\ pending = {}
    /\ NextPhase
    /\ UNCHANGED <<clusterVars, unread, ids, names, pending, failed, wg, goVars>>

-----------------------------------------------------------------------------
(* Mutant: the channel has no buffer, and its receiver is in wg.Wait(). *)
Room_Unbuffered(n) == FALSE

(* A send blocks while the channel is full. *)
Room(n) == chan[n] = "empty"

(* A goroutine's kubectl run is over: its error, or nil, is sent. *)
KubectlEnds(n, err) ==
    /\ Room(n)
    /\ chan' = [chan EXCEPT ![n] = err]
    /\ pc' = [pc EXCEPT ![n] = "exit"]

(* kubectl cordon. *)
CordonNode(n) ==
    /\ pc[n] = "cordon"
    /\ cordoned' = cordoned \cup {n}
    /\ KubectlEnds(n, "nil")
    /\ UNCHANGED <<group, home, mainVars, wg>>

(* kubectl drain cordons the node, ... *)
DrainCordons(n) ==
    /\ pc[n] = "drain"
    /\ cordoned' = cordoned \cup {n}
    /\ pc' = [pc EXCEPT ![n] = "evict"]
    /\ UNCHANGED <<group, home, mainVars, wg, chan>>

(* ... evicts its Pods, ... *)
Evict(n, p) ==
    /\ pc[n] = "evict"
    /\ home[p] = n
    /\ home' = [home EXCEPT ![p] = "pending"]
    /\ UNCHANGED <<group, cordoned, mainVars, wg, goVars>>

(* ... and ends when none is left. *)
DrainEnds(n) ==
    /\ pc[n] = "evict"
    /\ \A p \in Pod : home[p] # n
    /\ KubectlEnds(n, "nil")
    /\ UNCHANGED <<clusterVars, mainVars, wg>>

(* kubectl exits with an error, or --timeout passes before the last Pod. *)
KubectlFails(n) ==
    /\ "kubectl" \in Fault
    /\ pc[n] \in {"cordon", "drain", "evict"}
    /\ KubectlEnds(n, "error")
    /\ UNCHANGED <<clusterVars, mainVars, wg>>

(* The deferred wg.Done(). *)
WaitGroupDone(n) ==
    /\ pc[n] = "exit"
    /\ wg' = wg - 1
    /\ pc' = [pc EXCEPT ![n] = "idle"]
    /\ UNCHANGED <<clusterVars, mainVars, chan>>

(* The scheduler finds a node for a Pod. *)
Schedule(p, n) ==
    /\ home[p] = "pending"
    /\ n \notin cordoned
    /\ home' = [home EXCEPT ![p] = n]
    /\ UNCHANGED <<group, cordoned, mainVars, wg, goVars>>

Main ==
    \/ \E g \in Group : GetAsgInfo(g)
    \/ AllGroupsRead
    \/ DescribeInstances \/ LookupFails
    \/ \E n \in Node : Launch(n) \/ Collect(n)
    \/ AllLaunched \/ WaitGroupWait \/ AllCollected

Async(n) ==
    \/ CordonNode(n)
    \/ DrainCordons(n) \/ DrainEnds(n) \/ \E p \in Pod : Evict(n, p)
    \/ KubectlFails(n)
    \/ WaitGroupDone(n)

Next ==
    \/ Main
    \/ \E n \in Node : Async(n)
    \/ \E n \in Node, p \in Pod : Schedule(p, n)

Spec == Init /\ [][Next]_vars

(* Fairness: goroutines run, and a kubectl run makes progress. *)
FairSpec ==
    /\ Spec
    /\ WF_vars(Main)
    /\ \A n \in Node : WF_vars(Async(n))

-----------------------------------------------------------------------------
(***************************************************************************)
(* The command succeeds only when every worker of the requested groups is  *)
(* cordoned and runs no workload Pod (drain.go:15).                        *)
(***************************************************************************)
DrainedOnSuccess ==
    result = "ok" => Requested \subseteq cordoned /\ \A p \in Pod : home[p] \notin Requested

(***************************************************************************)
(* No Pod is evicted while another worker that is to be drained still      *)
(* accepts Pods, and so none is evicted twice: "cordoning ... to avoid     *)
(* scheduling evicted workloads on the instances being drained"            *)
(* (drain.go:48).                                                          *)
(***************************************************************************)
EvictedOnlyOnce ==
    [][\A p \in Pod : home'[p] # home[p] =>
          IF home'[p] = "pending" THEN Requested \subseteq cordoned
          ELSE phase = "drain" => home'[p] \notin Requested]_vars

(* Only workers of the requested groups are touched (drain.go:15).         *)
OnlyRequested == cordoned \subseteq Requested

(* The command returns: no goroutine waits for one that waits for it.      *)
CommandEnds == <>(phase = "done")

-----------------------------------------------------------------------------
(* Where a worker is in its life: `eks drain` leaves it in its group.      *)
LifeOf(n) ==
    IF n \notin cordoned THEN "serving"
    ELSE IF \E p \in Pod : home[p] = n THEN "cordoned"
    ELSE "evicted"

Underway == phase \in {"cordon", "drain"}

Replacement == INSTANCE WorkerReplacement WITH
    Worker   <- Node,
    MayFail  <- FALSE,
    life     <- [n \in Node |-> LifeOf(n)],
    old      <- IF Underway THEN Described(Requested) ELSE {},
    verified <- Underway /\ (phase = "drain" \/ at # "describe"),
    success  <- FALSE

(***************************************************************************)
(* The command does to its workers what a roll out may do to the old ones: *)
(* it only ever cordons and evicts, in this order and with all of them     *)
(* past one before any takes the next, and nothing it did is undone, while *)
(* goroutines, kubectl runs, failures and the scheduler interleave         *)
(* (drain.go:47-57).  Deploy takes these fan-outs as a step per node.      *)
(***************************************************************************)
ImplementsReplacement == Replacement!Spec
=============================================================================
