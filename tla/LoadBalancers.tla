---------------------------- MODULE LoadBalancers ----------------------------
(***************************************************************************)
(* The wait of `eks deploy` for the load balancers: the Services of the    *)
(* cluster are listed and classified (src/kubectl/service.go), then each   *)
(* load balancer is awaited in turn (src/eks/asg.go), those with target    *)
(* groups by one goroutine per group (src/eks/elb.go).                     *)
(***************************************************************************)
EXTENDS Integers, Sequences, FiniteSets

CONSTANTS
    Service,    \* the Services of type LoadBalancer
    Port,       \* a load balancer has one target group per port
    Retries,    \* retries of a goroutine (40 in the code)
    ChanSize,   \* size of an error channel (1 in the code)
    Fault       \* "api": calls may fail

ASSUME LoadBalancersAssumption ==
    /\ IsFiniteSet(Service)
    /\ IsFiniteSet(Port) /\ Port # {}
    /\ Retries \in Nat
    /\ ChanSize \in Nat
    /\ Fault \subseteq {"api"}

VARIABLES
    spec,       \* the annotations and status of each Service
    registered, \* <<s, p>>: a new instance is a target of group p of s
    main,       \* where the main goroutine is
    todo,       \* the Services it has still to take up
    current,    \* the Service it waits for
    wg,         \* counter of the sync.WaitGroup
    pc,         \* where the goroutine of each target group is
    left,       \* retries it has left
    waitErr,    \* what its retry loop returned
    chan,       \* its error channel
    pending,    \* target groups to launch a goroutine for, or to receive from
    failed,     \* Services for which an error was collected
    result      \* what the wait returned

mainVars == <<main, todo, current, pending, failed, result>>
goVars == <<pc, left, waitErr, chan>>
vars == <<spec, registered, mainVars, wg, goVars>>

(* The two annotations that decide, and whether a host name was assigned. *)
Annotations == [
    type        : {"none", "nlb", "external", "other"},
    target      : {"none", "instance", "ip", "other"},
    provisioned : BOOLEAN ]

Error == {"fatal", "exhausted"}

TypeOK ==
    /\ spec \in [Service -> Annotations]
    /\ registered \subseteq Service \X Port
    /\ main \in {"list", "next", "classic", "lookup", "launch", "wait", "collect", "done"}
    /\ todo \subseteq Service
    /\ current \in Service
    /\ wg \in 0 .. Cardinality(Port)
    /\ pc \in [Port -> {"idle", "poll", "underlying", "result", "exit"}]
    /\ left \in [Port -> 0 .. Retries]
    /\ waitErr \in [Port -> Error \cup {"nil"}]
    /\ \A p \in Port : Len(chan[p]) =< ChanSize
    /\ pending \subseteq Port
    /\ failed \subseteq Service
    /\ result \in {"none", "ok", "error"}

Init ==
    /\ spec \in [Service -> Annotations]
    /\ registered = {}
    /\ main = "list"
    /\ todo = Service
    /\ current \in Service
    /\ wg = 0
    /\ pc = [p \in Port |-> "idle"]
    /\ left = [p \in Port |-> Retries]
    /\ waitErr = [p \in Port |-> "nil"]
    /\ chan = [p \in Port |-> << >>]
    /\ pending = {}
    /\ failed = {}
    /\ result = "none"

-----------------------------------------------------------------------------
(* GetLoadBalancerTypeFromService, the type ... *)
ELBType(a) ==
    CASE a.type = "none" -> "CLB"
      [] a.type \in {"nlb", "external"} -> "NLB"
      [] OTHER -> "unknown"

(* ... and the target type, which only the external controller reads. *)
ELBTargetType(a) ==
    CASE a.type \in {"none", "nlb"} -> "instance"
      [] a.type = "external" /\ a.target \in {"none", "instance"} -> "instance"
      [] a.type = "external" /\ a.target = "ip" -> "ip"
      [] OTHER -> "unknown"

Supported(a) == a.provisioned /\ ELBType(a) # "unknown" /\ ELBTargetType(a) # "unknown"

Goto(where) == main' = where

Return(r) == Goto("done") /\ result' = r

(* GetAWSLoadBalancers: one Service it cannot place fails the whole list. *)
GetAWSLoadBalancers ==
    /\ main = "list"
    /\ \/ (\A s \in Service : Supported(spec[s])) /\ Goto("next") /\ UNCHANGED result
       \/ (\E s \in Service : ~Supported(spec[s])) /\ Return("error")
       \/ "api" \in Fault /\ Return("error")
    /\ UNCHANGED <<spec, registered, todo, current, pending, failed, wg, goVars>>

(* The loop of waitForAnyInstancesRegisteredToELB: targets that are Pods   *)
(* are not waited for.                                                     *)
NextLoadBalancer ==
    /\ main = "next"
    /\ \E s \in todo :
          /\ todo' = todo \ {s}
          /\ current' = s
          /\ Goto(IF ELBTargetType(spec[s]) = "ip" THEN "next"
                  ELSE IF ELBType(spec[s]) = "CLB" THEN "classic"
                  ELSE "lookup")
    /\ UNCHANGED <<spec, registered, pending, failed, result, wg, goVars>>

AllLoadBalancersDone ==
    /\ main = "next"
    /\ todo = {}
    /\ Return(IF failed = {} THEN "ok" ELSE "error")
    /\ UNCHANGED <<spec, registered, todo, current, pending, failed, wg, goVars>>

(* waitForAnyInstancesRegisteredToCLB: the AWS waiter answers in time, or  *)
(* gives up.                                                               *)
WaitForClassic ==
    /\ main = "classic"
    /\ \/ (\E p \in Port : <<current, p>> \in registered) /\ UNCHANGED failed
       \/ failed' = failed \cup {current}
    /\ Goto("next")
    /\ UNCHANGED <<spec, registered, todo, current, pending, result, wg, goVars>>

(* Mutant: the counter is raised by one for all the goroutines. *)
WaitGroupAdd_One(groups) == wg' = 1

WaitGroupAdd(groups) == wg' = Cardinality(groups)

(* getELBTargetGroups, then wg.Add and the error channels. *)
GetELBTargetGroups ==
    /\ main = "lookup"
    /\ WaitGroupAdd(Port)
    /\ pending' = Port
    /\ chan' = [p \in Port |-> << >>]
    /\ Goto("launch")
    /\ UNCHANGED <<spec, registered, todo, current, failed, result, pc, left, waitErr>>

GetELBTargetGroupsFails ==
    /\ main = "lookup"
    /\ "api" \in Fault
    /\ failed' = failed \cup {current}
    /\ Goto("next")
    /\ UNCHANGED <<spec, registered, todo, current, pending, result, wg, goVars>>

GoRoutine(p) ==
    /\ main = "launch"
    /\ p \in pending
    /\ pending' = pending \ {p}
    /\ pc' = [pc EXCEPT ![p] = "poll"]
    /\ left' = [left EXCEPT ![p] = Retries]
    /\ UNCHANGED <<spec, registered, main, todo, current, failed, result, wg, waitErr, chan>>

AllLaunched ==
    /\ main = "launch"
    /\ pending = {}
    /\ Goto("wait")
    /\ UNCHANGED <<spec, registered, todo, current, pending, failed, result, wg, goVars>>

(* wg.Wait(): until every goroutine has called wg.Done(). *)
WaitGroupWait ==
    /\ main = "wait"
    /\ wg = 0
    /\ pending' = Port
    /\ Goto("collect")
    /\ UNCHANGED <<spec, registered, todo, current, failed, result, wg, goVars>>

(* Mutant: the errors received are only logged. *)
Failures_Forgotten(err) == failed
Failures(err) == IF err = "nil" THEN failed ELSE failed \cup {current}

(* One error is received from each channel. *)
Collect(p) ==
    /\ main = "collect"
    /\ p \in pending
    /\ chan[p] # << >>
    /\ failed' = Failures(Head(chan[p]))
    /\ chan' = [chan EXCEPT ![p] = Tail(@)]
    /\ pending' = pending \ {p}
    /\ UNCHANGED <<spec, registered, main, todo, current, result, wg, pc, left, waitErr>>

AllCollected ==
    /\ main = "collect"
    /\ pending = {}
    /\ Goto("next")
    /\ UNCHANGED <<spec, registered, todo, current, pending, failed, result, wg, goVars>>

-----------------------------------------------------------------------------
(* asyncWaitForAnyInstancesRegisteredToTargetGroup, one goroutine's steps. *)
LoopEnds(p, err, next) ==
    /\ waitErr' = [waitErr EXCEPT ![p] = err]
    /\ pc' = [pc EXCEPT ![p] = next]
    /\ UNCHANGED left

(* One try of the retry loop. *)
Poll(p) ==
    /\ pc[p] = "poll"
    /\ \/ <<current, p>> \in registered /\ LoopEnds(p, "nil", "result")
       \/ /\ <<current, p>> \notin registered
          /\ left[p] > 0
          /\ left' = [left EXCEPT ![p] = @ - 1]
          /\ UNCHANGED <<pc, waitErr>>
       \/ <<current, p>> \notin registered /\ left[p] = 0 /\ LoopEnds(p, "exhausted", "result")
    /\ UNCHANGED <<spec, registered, mainVars, wg, chan>>

(* DescribeTargetHealth fails, which ends the loop with a FatalError. *)
PollFails(p) ==
    /\ "api" \in Fault
    /\ pc[p] = "poll"
    /\ LoopEnds(p, "fatal", "underlying")
    /\ UNCHANGED <<spec, registered, mainVars, wg, chan>>

(* Mutant: the channel has no buffer, and its receiver is in wg.Wait(). *)
Room_Unbuffered(p) == FALSE

(* A send blocks while the channel is full. *)
Room(p) == Len(chan[p]) < ChanSize

Send(p, err, next) ==
    /\ Room(p)
    /\ chan' = [chan EXCEPT ![p] = Append(@, err)]
    /\ pc' = [pc EXCEPT ![p] = next]

(* The cause of a fatal error is sent, and then the fatal error as well. *)
SendUnderlying(p) ==
    /\ pc[p] = "underlying"
    /\ Send(p, "fatal", "result")
    /\ UNCHANGED <<spec, registered, mainVars, wg, left, waitErr>>

SendResult(p) ==
    /\ pc[p] = "result"
    /\ Send(p, waitErr[p], "exit")
    /\ UNCHANGED <<spec, registered, mainVars, wg, left, waitErr>>

(* The deferred wg.Done(). *)
WaitGroupDone(p) ==
    /\ pc[p] = "exit"
    /\ wg' = wg - 1
    /\ pc' = [pc EXCEPT ![p] = "idle"]
    /\ UNCHANGED <<spec, registered, mainVars, left, waitErr, chan>>

-----------------------------------------------------------------------------
(* The load balancer controller registers a new instance. *)
Register(s, p) ==
    /\ <<s, p>> \notin registered
    /\ registered' = registered \cup {<<s, p>>}
    /\ UNCHANGED <<spec, mainVars, wg, goVars>>

Main ==
    \/ GetAWSLoadBalancers
    \/ NextLoadBalancer \/ AllLoadBalancersDone
    \/ WaitForClassic
    \/ GetELBTargetGroups \/ GetELBTargetGroupsFails
    \/ \E p \in Port : GoRoutine(p) \/ Collect(p)
    \/ AllLaunched \/ WaitGroupWait \/ AllCollected

Async(p) == Poll(p) \/ PollFails(p) \/ SendUnderlying(p) \/ SendResult(p) \/ WaitGroupDone(p)

Next ==
    \/ Main
    \/ \E p \in Port : Async(p)
    \/ \E s \in Service, p \in Port : Register(s, p)

Spec == Init /\ [][Next]_vars

-----------------------------------------------------------------------------
(* Load balancers that route to instances, and so have to know a new one. *)
Awaited(s) == ELBTargetType(spec[s]) = "instance"

(***************************************************************************)
(* When the wait succeeds, a new instance is registered with every load    *)
(* balancer that routes to instances, in each of its target groups: the    *)
(* roll out cordons the old workers next (asg.go:281, elb.go:29).          *)
(***************************************************************************)
ServedOnSuccess ==
    result = "ok" =>
        \A s \in Service :
            /\ Supported(spec[s])
            /\ (Awaited(s) /\ ELBType(spec[s]) = "NLB") => \A p \in Port : <<s, p>> \in registered
            /\ (Awaited(s) /\ ELBType(spec[s]) = "CLB") => \E p \in Port : <<s, p>> \in registered

(***************************************************************************)
(* The main goroutine leaves a load balancer only when no goroutine of it  *)
(* is left and its channels are empty: a late error cannot be taken for an *)
(* error of another one (elb.go:38, elb.go:42).                            *)
(***************************************************************************)
NoStragglers ==
    main \notin {"launch", "wait"} =>
        /\ \A p \in Port : pc[p] = "idle"
        /\ main # "collect" => \A p \in Port : chan[p] = << >>

(* What each goroutine can stand still at: wg.Wait(), a receive, a send.   *)
MainBlocked ==
    \/ main = "wait" /\ wg # 0
    \/ main = "collect" /\ pending # {} /\ \A p \in pending : chan[p] = << >>
    \/ main = "done"
Blocked(p) == pc[p] = "idle" \/ (pc[p] \in {"underlying", "result"} /\ ~Room(p))

(***************************************************************************)
(* Whatever order its goroutines take, the wait stands still before its    *)
(* end only if one of them is sending the second error of a failed call:   *)
(* every other error that is sent is received, and every one that is       *)
(* awaited is sent (elb.go:29-49).                                         *)
(***************************************************************************)
NeverStuck ==
    (main # "done" /\ MainBlocked /\ \A p \in Port : Blocked(p)) =>
        \E p \in Port : pc[p] = "result" /\ waitErr[p] = "fatal"

(***************************************************************************)
(* Fairness: every goroutine that can take a step takes it.  The waiter of *)
(* the AWS SDK and the retry loops are bounded.                            *)
(***************************************************************************)
FairSpec ==
    /\ Spec
    /\ WF_vars(Main)
    /\ \A p \in Port : WF_vars(Async(p))

(* The wait returns: every error is collected, none is waited for in vain  *)
(* (elb.go:29-30).                                                         *)
WaitReturns == <>(main = "done")
=============================================================================
