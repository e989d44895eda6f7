------------------------------ MODULE DrainProofs ------------------------------
(***************************************************************************)
(* `kubergrunt eks drain` for any number of groups, nodes and Pods, any    *)
(* order of its goroutines and all faults of module Drain.                 *)
(***************************************************************************)
EXTENDS Drain, FiniteSetTheorems, TLAPS

(* What the proofs need of the types; the counter is not among it. *)
TypeInv ==
    /\ group \in [Node -> Group \cup {"other"}]
    /\ cordoned \subseteq Node
    /\ home \in [Pod -> Node \cup {"pending"}]
    /\ phase \in {"read", "cordon", "drain", "done"}
    /\ at \in {"describe", "launch", "wait", "collect"}
    /\ ids \subseteq Node
    /\ names \subseteq Node
    /\ pending \subseteq names
    /\ pc \in [Node -> {"idle", "cordon", "drain", "evict", "exit"}]
    /\ chan \in [Node -> {"empty", "nil", "error"}]
    /\ failed \in BOOLEAN
    /\ phase = "read" => at = "describe"
    /\ at \in {"launch", "wait"} => phase \in {"cordon", "drain"}

(* The workers both fan-outs are about. *)
Target == Described(Requested)

Working == phase \in {"cordon", "drain"}

(* The groups looked up so far, and what becomes of them. *)
Selection ==
    /\ phase = "read" => ids = {n \in Node : group[n] \in Group \ unread}
    /\ Working => ids = Requested
    /\ Working /\ at # "describe" => names = Target
    /\ EmptyGroups \/ Requested # {}

(* The goroutine of a node is not at work, and its error was received. *)
Quiet(n) == chan[n] = "empty" /\ pc[n] \in {"idle", "exit"}

Received(n) == at = "collect" /\ n \in names \ pending

(* The goroutines belong to the fan-out that is under way. *)
Goroutines ==
    \A n \in Node :
        /\ chan[n] # "empty" => pc[n] \in {"idle", "exit"}
        /\ ~Quiet(n) => n \in names /\ Working /\ at # "describe"
        /\ at = "launch" /\ n \in pending => Quiet(n)
        /\ Received(n) => Quiet(n)
        /\ pc[n] = "cordon" => phase = "cordon"
        /\ pc[n] \in {"drain", "evict"} => phase = "drain"

Vacated(n) == \A p \in Pod : home[p] # n

(* A goroutine that reported no error has done its work. *)
Reported(n) == chan[n] = "nil" \/ (Received(n) /\ ~failed)

Effects ==
    /\ cordoned \subseteq Target
    /\ phase = "cordon" => \A n \in Node : Reported(n) => n \in cordoned
    /\ phase = "drain" => Target \subseteq cordoned /\ \A n \in Node : Reported(n) => Vacated(n)
    /\ phase # "done" => result = "none"
    /\ result = "ok" => Target \subseteq cordoned /\ \A n \in Target : Vacated(n)

DrainInv == TypeInv /\ Selection /\ Goroutines /\ Effects

-----------------------------------------------------------------------------
LEMMA InitDrainInv == Init => DrainInv
<1> SUFFICES ASSUME Init PROVE DrainInv
  OBVIOUS
<1>1. TypeInv
  BY DEF Init, TypeInv
<1>2. Selection
  BY DEF Init, Selection, Working
<1>3. Goroutines
  BY DEF Init, Goroutines, Quiet, Received
<1>4. Effects
  BY DEF Init, Effects, Target, Described, Requested, Reported, Received
<1> QED BY <1>1, <1>2, <1>3, <1>4 DEF DrainInv

LEMMA NextTypeInv == TypeInv /\ [Next]_vars => TypeInv'
<1> SUFFICES ASSUME TypeInv, [Next]_vars PROVE TypeInv'
  OBVIOUS
<1> USE DEF TypeInv
<1>1. CASE \E g \in Group : GetAsgInfo(g)
  BY <1>1 DEF GetAsgInfo, InstancesOf, clusterVars, goVars
<1>2. CASE AllGroupsRead \/ AllLaunched \/ WaitGroupWait
  BY <1>2 DEF AllGroupsRead, AllLaunched, WaitGroupWait, clusterVars, goVars
<1>3. CASE DescribeInstances
  BY <1>3 DEF DescribeInstances, Described, clusterVars, goVars
<1>4. CASE LookupFails
  BY <1>4 DEF LookupFails, Return, clusterVars, goVars
<1>5. ASSUME NEW n \in Node, Launch(n) PROVE TypeInv'
  BY <1>5 DEF Launch, clusterVars
<1>6. ASSUME NEW n \in Node, Collect(n) PROVE TypeInv'
  BY <1>6 DEF Collect, Failed, clusterVars
<1>7. CASE AllCollected
  BY <1>7 DEF AllCollected, NextPhase, Return, clusterVars, goVars
<1>8. ASSUME NEW n \in Node, Async(n) PROVE TypeInv'
  BY <1>8 DEF Async, CordonNode, DrainCordons, DrainEnds, Evict, KubectlFails, WaitGroupDone,
              KubectlEnds, clusterVars, mainVars, goVars
<1>9. ASSUME NEW n \in Node, NEW p \in Pod, Schedule(p, n) PROVE TypeInv'
  BY <1>9 DEF Schedule, mainVars, goVars
<1>10. CASE UNCHANGED vars
  BY <1>10 DEF vars, clusterVars, mainVars, goVars
<1> QED BY <1>1, <1>2, <1>3, <1>4, <1>5, <1>6, <1>7, <1>8, <1>9, <1>10 DEF Next, Main

(* The groups of the nodes, and so what is requested, never change. *)
LEMMA SameTarget == [Next]_vars => Target' = Target /\ Requested' = Requested
<1> SUFFICES ASSUME [Next]_vars PROVE group' = group
  BY DEF Target, Requested
<1> QED BY DEF Next, Main, GetAsgInfo, AllGroupsRead, DescribeInstances, LookupFails, Launch, Collect,
               AllLaunched, WaitGroupWait, AllCollected, Async, CordonNode, DrainCordons, DrainEnds,
               Evict, KubectlFails, WaitGroupDone, Schedule, vars, clusterVars

LEMMA NextSelection == DrainInv /\ [Next]_vars => Selection'
<1> SUFFICES ASSUME DrainInv, [Next]_vars PROVE Selection'
  OBVIOUS
<1>s. Target' = Target /\ Requested' = Requested /\ group' = group
  <2>1. group' = group
    BY DEF Next, Main, GetAsgInfo, AllGroupsRead, DescribeInstances, LookupFails, Launch, Collect,
           AllLaunched, WaitGroupWait, AllCollected, Async, CordonNode, DrainCordons, DrainEnds,
           Evict, KubectlFails, WaitGroupDone, Schedule, vars, clusterVars
  <2> QED BY <2>1, SameTarget
<1> USE <1>s DEF DrainInv, Selection, Working
<1>1. ASSUME NEW g \in Group, GetAsgInfo(g) PROVE Selection'
  <2>1. ids' = {n \in Node : group[n] \in Group \ unread'}
    BY <1>1 DEF GetAsgInfo, InstancesOf
  <2> QED BY <1>1, <2>1 DEF GetAsgInfo
<1>2. CASE AllGroupsRead
  BY <1>2 DEF AllGroupsRead, Requested, TypeInv
<1>3. CASE DescribeInstances
  BY <1>3 DEF DescribeInstances, Target
<1>4. CASE LookupFails \/ AllLaunched \/ WaitGroupWait
  BY <1>4 DEF LookupFails, Return, AllLaunched, WaitGroupWait
<1>5. CASE AllCollected
  BY <1>5 DEF AllCollected, NextPhase, Return
<1>6. ASSUME NEW n \in Node, Launch(n) \/ Collect(n) PROVE Selection'
  BY <1>6 DEF Launch, Collect
<1>7. ASSUME NEW n \in Node, Async(n) PROVE Selection'
  BY <1>7 DEF Async, CordonNode, DrainCordons, DrainEnds, Evict, KubectlFails, WaitGroupDone, mainVars
<1>8. ASSUME NEW n \in Node, NEW p \in Pod, Schedule(p, n) PROVE Selection'
  BY <1>8 DEF Schedule, mainVars
<1>9. CASE UNCHANGED vars
  BY <1>9 DEF vars, mainVars
<1> QED BY <1>1, <1>2, <1>3, <1>4, <1>5, <1>6, <1>7, <1>8, <1>9 DEF Next, Main

LEMMA NextGoroutines == DrainInv /\ [Next]_vars => Goroutines'
<1> SUFFICES ASSUME DrainInv, [Next]_vars PROVE Goroutines'
  OBVIOUS
<1> USE DEF DrainInv, Goroutines, Quiet, Received, Working
<1>1. CASE (\E g \in Group : GetAsgInfo(g)) \/ AllGroupsRead \/ LookupFails
  BY <1>1 DEF GetAsgInfo, AllGroupsRead, LookupFails, Return, goVars, TypeInv
<1>2. CASE DescribeInstances
  BY <1>2 DEF DescribeInstances, goVars
<1>3. CASE AllLaunched \/ WaitGroupWait
  BY <1>3 DEF AllLaunched, WaitGroupWait, goVars, TypeInv
<1>4. ASSUME NEW n \in Node, Launch(n) PROVE Goroutines'
  <2>1. /\ at = "launch" /\ n \in pending /\ n \in names /\ chan' = chan /\ Quiet(n)
        /\ phase \in {"cordon", "drain"} /\ pending' = pending \ {n}
        /\ UNCHANGED <<phase, at, names>>
        /\ \A m \in Node : pc'[m] = IF m = n THEN phase ELSE pc[m]
    BY <1>4 DEF Launch, TypeInv
  <2> QED BY <2>1
<1>5. ASSUME NEW n \in Node, Collect(n) PROVE Goroutines'
  <2>1. /\ at = "collect" /\ n \in pending /\ chan[n] # "empty" /\ pending' = pending \ {n}
        /\ UNCHANGED <<phase, at, names, pc>>
        /\ \A m \in Node : chan'[m] = IF m = n THEN "empty" ELSE chan[m]
    BY <1>5 DEF Collect, TypeInv
  <2> QED BY <2>1
<1>6. CASE AllCollected
  <2>1. \A n \in Node : Quiet(n)
    BY <1>6 DEF AllCollected
  <2> QED BY <1>6, <2>1 DEF AllCollected, goVars
<1>7. ASSUME NEW n \in Node, Async(n) PROVE Goroutines'
  <2>1. CASE \E err \in {"nil", "error"} : KubectlEnds(n, err)
             /\ pc[n] \in {"cordon", "drain", "evict"} /\ UNCHANGED mainVars
    <3>1. /\ chan'[n] # "empty" /\ pc'[n] = "exit" /\ ~Quiet(n)
          /\ UNCHANGED <<phase, at, names, pending>>
          /\ \A m \in Node : m # n => chan'[m] = chan[m] /\ pc'[m] = pc[m]
      BY <2>1 DEF KubectlEnds, mainVars, TypeInv
    <3> QED BY <3>1
  <2>2. CASE DrainCordons(n) \/ \E p \in Pod : Evict(n, p)
    <3>1. /\ chan' = chan /\ ~Quiet(n) /\ UNCHANGED <<phase, at, names, pending>>
          /\ pc[n] \in {"drain", "evict"} /\ pc'[n] = "evict"
          /\ \A m \in Node : m # n => pc'[m] = pc[m]
      BY <2>2 DEF DrainCordons, Evict, mainVars, goVars, TypeInv
    <3> QED BY <3>1
  <2>3. CASE WaitGroupDone(n)
    <3>1. /\ chan' = chan /\ UNCHANGED <<phase, at, names, pending>>
          /\ pc[n] = "exit" /\ pc'[n] = "idle" /\ \A m \in Node : m # n => pc'[m] = pc[m]
      BY <2>3 DEF WaitGroupDone, mainVars, TypeInv
    <3> QED BY <3>1
  <2> QED BY <1>7, <2>1, <2>2, <2>3 DEF Async, CordonNode, DrainEnds, KubectlFails
<1>8. ASSUME NEW n \in Node, NEW p \in Pod, Schedule(p, n) PROVE Goroutines'
  BY <1>8 DEF Schedule, mainVars, goVars
<1>9. CASE UNCHANGED vars
  BY <1>9 DEF vars, mainVars, goVars
<1> QED BY <1>1, <1>2, <1>3, <1>4, <1>5, <1>6, <1>7, <1>8, <1>9 DEF Next, Main

LEMMA NextEffects == DrainInv /\ [Next]_vars => Effects'
<1> SUFFICES ASSUME DrainInv, [Next]_vars PROVE Effects'
  OBVIOUS
<1>s. Target' = Target /\ Target \subseteq Node
  BY SameTarget DEF Target, Described, Requested
<1>t. TypeInv /\ Selection /\ Goroutines /\ Effects
  BY DEF DrainInv
<1> USE <1>s DEF Effects, Reported, Received, Vacated
<1>1. CASE (\E g \in Group : GetAsgInfo(g)) \/ AllGroupsRead \/ LookupFails
  <2>1. /\ UNCHANGED <<cordoned, home, chan, at, names, pending, failed>>
        /\ at = "describe"
        /\ phase' # "drain" \/ phase = "drain"
        /\ phase' # "cordon" \/ phase = "cordon" \/ (phase = "read" /\ at = "describe")
        /\ result' = result \/ (result' = "error" /\ phase' = "done")
        /\ phase' = "done" \/ (phase # "done" /\ result' = result)
    BY <1>1, <1>t DEF GetAsgInfo, AllGroupsRead, LookupFails, Return, clusterVars, goVars, TypeInv
  <2>2. phase = "read" => \A n \in Node : chan[n] = "empty"
    BY <1>t DEF Goroutines, Quiet, Working
  <2> QED BY <1>t, <2>1, <2>2
<1>2. CASE DescribeInstances \/ AllLaunched \/ WaitGroupWait
  <2>1. /\ UNCHANGED <<cordoned, home, chan, phase, failed, result>>
        /\ at' # "collect" \/ (names' = names /\ pending' = names)
    BY <1>2 DEF DescribeInstances, AllLaunched, WaitGroupWait, clusterVars, goVars
  <2> QED BY <1>t, <2>1
<1>3. ASSUME NEW n \in Node, Launch(n) PROVE Effects'
  <2>1. UNCHANGED <<cordoned, home, chan, phase, at, names, failed, result>> /\ at = "launch"
    BY <1>3 DEF Launch, clusterVars
  <2> QED BY <1>t, <2>1
<1>4. ASSUME NEW n \in Node, Collect(n) PROVE Effects'
  <2>1. /\ UNCHANGED <<cordoned, home, phase, at, names, result>>
        /\ pending' = pending \ {n} /\ failed' = Failed(chan[n])
        /\ chan'[n] = "empty" /\ \A m \in Node : m # n => chan'[m] = chan[m]
        /\ chan[n] \in {"nil", "error"}
    BY <1>4, <1>t DEF Collect, clusterVars, TypeInv
  <2> QED BY <1>t, <2>1 DEF Failed
<1>5. CASE AllCollected
  <2>1. /\ phase \in {"cordon", "drain"} /\ at = "collect" /\ pending = {} /\ names = Target
        /\ UNCHANGED <<cordoned, home, names, pending, failed, chan>>
    BY <1>5, <1>t DEF AllCollected, Selection, Working, clusterVars, goVars
  <2>2. \A n \in Node : chan[n] = "empty"
    BY <1>t, <2>1 DEF Goroutines, Quiet, Received
  <2>3. CASE failed
    BY <1>5, <1>t, <2>1, <2>3 DEF AllCollected, NextPhase, Return
  <2>4. CASE ~failed /\ phase = "cordon"
    <3>1. phase' = "drain" /\ at' = "describe" /\ result' = result
      BY <1>5, <2>4 DEF AllCollected, NextPhase
    <3>2. Target \subseteq cordoned
      BY <1>t, <2>1, <2>4
    <3> QED BY <1>t, <2>1, <2>2, <2>4, <3>1, <3>2
  <2>5. CASE ~failed /\ phase = "drain"
    <3>1. phase' = "done" /\ result' = "ok"
      BY <1>5, <2>5 DEF AllCollected, NextPhase, Return
    <3>2. Target \subseteq cordoned /\ \A n \in Target : Vacated(n)
      BY <1>t, <2>1, <2>5
    <3> QED BY <1>t, <2>1, <3>1, <3>2
  <2> QED BY <2>1, <2>3, <2>4, <2>5
<1>6. ASSUME NEW n \in Node, Async(n) PROVE Effects'
  <2>1. CASE CordonNode(n)
    <3>1. /\ cordoned' = cordoned \cup {n} /\ home' = home /\ UNCHANGED mainVars
          /\ phase = "cordon" /\ \A m \in Node : m # n => chan'[m] = chan[m]
      BY <2>1, <1>t DEF CordonNode, KubectlEnds, Goroutines, TypeInv
    <3>2. n \in Target
      BY <2>1, <1>t DEF CordonNode, Goroutines, Quiet, Selection, Working
    <3> QED BY <1>t, <3>1, <3>2 DEF mainVars
  <2>2. CASE DrainCordons(n)
    <3>1. /\ cordoned' = cordoned \cup {n} /\ home' = home /\ chan' = chan /\ UNCHANGED mainVars
          /\ phase = "drain" /\ n \in Target
      BY <2>2, <1>t DEF DrainCordons, Goroutines, Quiet, Selection, Working
    <3> QED BY <1>t, <3>1 DEF mainVars
  <2>3. ASSUME NEW p \in Pod, Evict(n, p) PROVE Effects'
    <3>1. /\ UNCHANGED <<cordoned, mainVars, chan>> /\ home'[p] = "pending"
          /\ \A x \in Pod : x # p => home'[x] = home[x]
      BY <2>3, <1>t DEF Evict, goVars, TypeInv
    <3>2. \A m \in Node : Vacated(m) => Vacated(m)'
      BY <3>1, DrainAssumption
    <3> QED BY <1>t, <3>1, <3>2 DEF mainVars
  <2>4. CASE DrainEnds(n)
    <3>1. /\ UNCHANGED <<cordoned, home, mainVars>> /\ Vacated(n) /\ phase = "drain"
          /\ \A m \in Node : m # n => chan'[m] = chan[m]
      BY <2>4, <1>t DEF DrainEnds, KubectlEnds, Goroutines, clusterVars, TypeInv
    <3> QED BY <1>t, <3>1 DEF mainVars
  <2>5. CASE KubectlFails(n)
    <3>1. /\ UNCHANGED <<cordoned, home, mainVars>> /\ chan'[n] = "error"
          /\ \A m \in Node : m # n => chan'[m] = chan[m]
      BY <2>5, <1>t DEF KubectlFails, KubectlEnds, clusterVars, TypeInv
    <3> QED BY <1>t, <3>1 DEF mainVars
  <2>6. CASE WaitGroupDone(n)
    BY <2>6, <1>t DEF WaitGroupDone, clusterVars, mainVars
  <2> QED BY <1>6, <2>1, <2>2, <2>3, <2>4, <2>5, <2>6 DEF Async
<1>7. ASSUME NEW n \in Node, NEW p \in Pod, Schedule(p, n) PROVE Effects'
  <2>1. /\ UNCHANGED <<cordoned, mainVars, chan>> /\ n \notin cordoned
        /\ home'[p] = n /\ \A x \in Pod : x # p => home'[x] = home[x]
    BY <1>7, <1>t DEF Schedule, goVars, TypeInv
  <2>2. \A m \in cordoned : Vacated(m) => Vacated(m)'
    BY <2>1
  <2>3. phase = "drain" => \A m \in Node : Reported(m) => m \in cordoned
    BY <1>t DEF Goroutines, Quiet, Selection, Working
  <2> QED BY <1>t, <2>1, <2>2, <2>3 DEF mainVars
<1>8. CASE UNCHANGED vars
  BY <1>8, <1>t DEF vars, clusterVars, mainVars, goVars
<1> QED BY <1>1, <1>2, <1>3, <1>4, <1>5, <1>6, <1>7, <1>8 DEF Next, Main

LEMMA DrainInvariant == Spec => []DrainInv
<1>1. DrainInv /\ [Next]_vars => DrainInv'
  BY NextTypeInv, NextSelection, NextGoroutines, NextEffects DEF DrainInv
<1> QED BY <1>1, InitDrainInv, PTL DEF Spec

(***************************************************************************)
(* However the goroutines and the scheduler interleave and whichever calls *)
(* fail, success means that the workers of the requested groups are        *)
(* cordoned and vacated (drain.go:15).                                     *)
(***************************************************************************)
THEOREM SuccessMeansDrained == Spec => []DrainedOnSuccess
<1>1. DrainInv => DrainedOnSuccess
  <2> SUFFICES ASSUME DrainInv, result = "ok" PROVE DrainedOnSuccess
    BY DEF DrainedOnSuccess
  <2>1. Target \subseteq cordoned /\ \A n \in Target : Vacated(n)
    BY DEF DrainInv, Effects
  <2>2. Requested \subseteq Target
    BY DEF Target, Described
  <2> QED BY <2>1, <2>2 DEF DrainedOnSuccess, Vacated
<1> QED BY <1>1, DrainInvariant, PTL

(***************************************************************************)
(* No Pod is evicted before all the requested workers are cordoned, and    *)
(* none is moved to one of them afterwards (drain.go:48).                  *)
(***************************************************************************)
THEOREM CordonedFirst == Spec => EvictedOnlyOnce
<1> DEFINE Moves == \A p \in Pod : home'[p] # home[p] =>
          IF home'[p] = "pending" THEN Requested \subseteq cordoned
          ELSE phase = "drain" => home'[p] \notin Requested
<1>1. DrainInv /\ [Next]_vars => [Moves]_vars
  <2> SUFFICES ASSUME DrainInv, Next PROVE Moves
    OBVIOUS
  <2>1. phase = "drain" => Requested \subseteq cordoned
    BY DEF DrainInv, Effects, Target, Described
  <2>2. ASSUME NEW n \in Node, NEW p \in Pod, Evict(n, p) PROVE Moves
    <3>1. phase = "drain" /\ \A x \in Pod : home'[x] # home[x] => home'[x] = "pending"
      BY <2>2 DEF Evict, DrainInv, Goroutines, TypeInv
    <3> QED BY <2>1, <3>1
  <2>3. ASSUME NEW n \in Node, NEW p \in Pod, Schedule(p, n) PROVE Moves
    <3>1. n \notin cordoned /\ \A x \in Pod : home'[x] # home[x] => home'[x] = n
      BY <2>3 DEF Schedule, DrainInv, TypeInv
    <3> QED BY <2>1, <3>1, DrainAssumption
  <2>4. CASE home' = home
    BY <2>4
  <2> QED BY <2>2, <2>3, <2>4
          DEF Next, Main, GetAsgInfo, AllGroupsRead, DescribeInstances, LookupFails, Launch, Collect,
              AllLaunched, WaitGroupWait, AllCollected, Async, CordonNode, DrainCordons, DrainEnds,
              KubectlFails, WaitGroupDone, clusterVars
<1> QED BY <1>1, DrainInvariant, PTL DEF Spec, EvictedOnlyOnce

(***************************************************************************)
(* If the requested groups have any worker, no other one is touched        *)
(* (drain.go:15); without one the empty list of ids selects them all.      *)
(***************************************************************************)
THEOREM OthersUntouched == ~EmptyGroups => (Spec => []OnlyRequested)
<1> SUFFICES ASSUME ~EmptyGroups PROVE Spec => []OnlyRequested
  OBVIOUS
<1>1. DrainInv => OnlyRequested
  BY DEF DrainInv, Effects, Selection, Target, Described, OnlyRequested
<1> QED BY <1>1, DrainInvariant, PTL

-----------------------------------------------------------------------------
(* The refinement.  A step that leaves the workers alone and stays in its  *)
(* phase is a stutter.                                                     *)
LEMMA Stutters ==
  ASSUME UNCHANGED <<phase, at>>, Target' = Target, \A n \in Node : LifeOf(n)' = LifeOf(n)
  PROVE  UNCHANGED Replacement!vars
BY DEF Replacement!vars, Underway, Target

LEMMA MovesOne ==
  ASSUME UNCHANGED <<phase, at>>, Target' = Target, NEW n \in Node, NEW from, NEW to,
         LifeOf(n) = from, LifeOf(n)' = to, \A m \in Node : m # n => LifeOf(m)' = LifeOf(m)
  PROVE  Replacement!Move({n}, from, to)
BY DEF Replacement!Move, Underway, Target

LEMMA ReplacementInit == Init => Replacement!Init
<1> SUFFICES ASSUME Init PROVE Replacement!Init
  OBVIOUS
<1>1. \A n \in Node : LifeOf(n) = "serving"
  BY DEF Init, LifeOf
<1>2. ~Underway
  BY DEF Init, Underway
<1> QED BY <1>1, <1>2 DEF Replacement!Init

(* The main goroutine records the workers, looks them up, and stops.       *)
LEMMA MainMaps ==
  ASSUME DrainInv, Main, Target' = Target
  PROVE  [Replacement!Next]_(Replacement!vars)
<1>t. TypeInv
  BY DEF DrainInv
<1>1. \A n \in Node : LifeOf(n)' = LifeOf(n)
  BY DEF Main, GetAsgInfo, AllGroupsRead, DescribeInstances, LookupFails, Launch, Collect, AllLaunched,
         WaitGroupWait, AllCollected, clusterVars, LifeOf
<1>2. CASE (\E g \in Group : GetAsgInfo(g)) \/ \E n \in Node : Launch(n) \/ Collect(n)
  BY <1>1, <1>2, Stutters DEF GetAsgInfo, Launch, Collect
<1>3. CASE AllGroupsRead
  <2>1. phase = "read" /\ phase' = "cordon" /\ at = "describe" /\ at' = at
    BY <1>3, <1>t DEF AllGroupsRead, TypeInv
  <2>2. Replacement!Record(Target)
    <3>1. Target \subseteq Node
      BY DEF Target, Described, Requested
    <3>2. \A n \in Node : LifeOf(n) \in Replacement!InGroup
      BY DEF LifeOf, Replacement!InGroup
    <3> QED BY <1>1, <2>1, <3>1, <3>2 DEF Replacement!Record, Underway, Target
  <2>3. Target \in SUBSET Node
    BY DEF Target, Described, Requested
  <2> QED BY <2>2, <2>3 DEF Replacement!Next
<1>4. CASE DescribeInstances
  <2>1. Underway /\ Underway' /\ phase' = phase /\ at' # "describe"
    BY <1>4 DEF DescribeInstances, Underway
  <2>2. Replacement!Verify
    BY <1>1, <2>1 DEF Replacement!Verify, Target
  <2> QED BY <2>2 DEF Replacement!Next
<1>5. CASE AllLaunched \/ WaitGroupWait
  <2>1. /\ phase' = phase /\ at # "describe" /\ at' # "describe"
    BY <1>5 DEF AllLaunched, WaitGroupWait
  <2> QED BY <1>1, <2>1 DEF Replacement!vars, Underway, Target
<1>6. ASSUME phase' = "done" PROVE [Replacement!Next]_(Replacement!vars)
  <2>1. Replacement!Stop
    BY <1>1, <1>6 DEF Replacement!Stop, Underway
  <2> QED BY <2>1 DEF Replacement!Next
<1>7. CASE AllCollected
  <2>1. CASE phase = "cordon" /\ phase' = "drain" /\ at = "collect"
    BY <1>1, <2>1 DEF Replacement!vars, Underway, Target
  <2> QED BY <1>6, <1>7, <2>1 DEF AllCollected, NextPhase, Return
<1>8. CASE LookupFails
  BY <1>6, <1>8 DEF LookupFails, Return
<1> QED BY <1>2, <1>3, <1>4, <1>5, <1>7, <1>8 DEF Main

(* A goroutine cordons its own worker, and evicts when all are cordoned.   *)
LEMMA AsyncMaps ==
  ASSUME DrainInv, NEW n \in Node, Async(n), Target' = Target
  PROVE  [Replacement!Next]_(Replacement!vars)
<1>t. TypeInv /\ Selection /\ Goroutines /\ Effects
  BY DEF DrainInv
<1>1. UNCHANGED <<phase, at>>
  BY DEF Async, CordonNode, DrainCordons, DrainEnds, Evict, KubectlFails, WaitGroupDone, mainVars
<1>2. CASE CordonNode(n)
  <2>1. /\ Underway /\ phase = "cordon" /\ at # "describe" /\ n \in Target
        /\ home' = home /\ cordoned' = cordoned \cup {n}
    BY <1>2, <1>t DEF CordonNode, Goroutines, Quiet, Selection, Working, Underway
  <2>2. \A m \in Node : m # n => LifeOf(m)' = LifeOf(m)
    BY <2>1 DEF LifeOf
  <2>3. CASE n \in cordoned
    <3>1. \A m \in Node : LifeOf(m)' = LifeOf(m)
      BY <2>1, <2>3 DEF LifeOf
    <3> QED BY <1>1, <3>1, Stutters
  <2>4. CASE n \notin cordoned
    <3>1. LifeOf(n) = "serving" /\ (LifeOf(n)' = "cordoned" \/ LifeOf(n)' = "evicted")
      BY <2>1, <2>4 DEF LifeOf
    <3>2. Replacement!Move({n}, "serving", "cordoned") \/ Replacement!Move({n}, "serving", "evicted")
      BY <1>1, <2>2, <3>1, MovesOne
    <3>3. Replacement!Cordon(n)
      BY <2>1, <3>2 DEF Replacement!Cordon, Target
    <3> QED BY <3>3 DEF Replacement!Next
  <2> QED BY <2>3, <2>4
<1>3. CASE DrainCordons(n)
  <2>1. n \in cordoned /\ home' = home /\ cordoned' = cordoned \cup {n}
    BY <1>3, <1>t DEF DrainCordons, Goroutines, Quiet, Selection, Working, Effects
  <2>2. \A m \in Node : LifeOf(m)' = LifeOf(m)
    BY <2>1 DEF LifeOf
  <2> QED BY <1>1, <2>2, Stutters
<1>4. ASSUME NEW p \in Pod, Evict(n, p) PROVE [Replacement!Next]_(Replacement!vars)
  <2>1. /\ Underway /\ phase = "drain" /\ n \in Target /\ Target \subseteq cordoned /\ cordoned' = cordoned
        /\ home[p] = n /\ home'[p] = "pending" /\ \A x \in Pod : x # p => home'[x] = home[x]
    BY <1>4, <1>t DEF Evict, Goroutines, Quiet, Selection, Working, Effects, Underway, TypeInv
  <2>2. \A m \in Node : m # n => LifeOf(m)' = LifeOf(m)
    BY <2>1, DrainAssumption DEF LifeOf
  <2>3. LifeOf(n) = "cordoned" /\ (LifeOf(n)' = "cordoned" \/ LifeOf(n)' = "evicted")
    BY <2>1 DEF LifeOf
  <2>4. CASE LifeOf(n)' = "cordoned"
    <3>1. \A m \in Node : LifeOf(m)' = LifeOf(m)
      BY <2>2, <2>3, <2>4
    <3> QED BY <1>1, <3>1, Stutters
  <2>5. CASE LifeOf(n)' = "evicted"
    <3>1. Replacement!Move({n}, "cordoned", "evicted")
      BY <1>1, <2>2, <2>3, <2>5, MovesOne
    <3>2. Replacement!Past({"serving"})
      <4>1. Target \subseteq Node /\ \A m \in Target : LifeOf(m) # "serving"
        BY <2>1 DEF LifeOf, Target, Described, Requested
      <4> QED BY <4>1, <2>1 DEF Replacement!Past, Target
    <3>3. Replacement!Evict(n)
      BY <2>1, <3>1, <3>2 DEF Replacement!Evict, Target
    <3> QED BY <3>3 DEF Replacement!Next
  <2> QED BY <2>3, <2>4, <2>5
<1>5. CASE DrainEnds(n) \/ KubectlFails(n) \/ WaitGroupDone(n)
  <2>1. \A m \in Node : LifeOf(m)' = LifeOf(m)
    BY <1>5 DEF DrainEnds, KubectlFails, WaitGroupDone, clusterVars, LifeOf
  <2> QED BY <1>1, <2>1, Stutters
<1> QED BY <1>2, <1>3, <1>4, <1>5 DEF Async

(***************************************************************************)
(* For any nodes, groups, Pods and faults the command implements module    *)
(* WorkerReplacement, as the roll out of Deploy does (drain.go:47-57): its *)
(* goroutines may be taken as atomic steps, a node at a time.              *)
(***************************************************************************)
THEOREM DrainsBarrierByBarrier == Spec => ImplementsReplacement
<1>1. DrainInv /\ [Next]_vars => [Replacement!Next]_(Replacement!vars)
  <2> SUFFICES ASSUME DrainInv, [Next]_vars PROVE [Replacement!Next]_(Replacement!vars)
    OBVIOUS
  <2>1. Target' = Target
    BY SameTarget
  <2>2. ASSUME NEW n \in Node, NEW p \in Pod, Schedule(p, n) PROVE UNCHANGED Replacement!vars
    <3>1. /\ n \notin cordoned /\ UNCHANGED <<phase, at, cordoned>> /\ home[p] = "pending"
          /\ home'[p] = n /\ \A x \in Pod : x # p => home'[x] = home[x]
      BY <2>2 DEF Schedule, mainVars, DrainInv, TypeInv
    <3>2. \A m \in Node : LifeOf(m)' = LifeOf(m)
      BY <3>1, DrainAssumption DEF LifeOf
    <3> QED BY <2>1, <3>1, <3>2, Stutters
  <2>3. CASE UNCHANGED vars
    <3>1. \A m \in Node : LifeOf(m)' = LifeOf(m)
      BY <2>3 DEF vars, clusterVars, LifeOf
    <3> QED BY <2>1, <2>3, <3>1, Stutters DEF vars, mainVars
  <2> QED BY <2>1, <2>2, <2>3, MainMaps, AsyncMaps DEF Next
<1> QED BY <1>1, ReplacementInit, DrainInvariant, PTL DEF Spec, ImplementsReplacement, Replacement!Spec

-----------------------------------------------------------------------------
(* The goroutines that were started and have not called wg.Done() yet.     *)
Busy == {n \in Node : pc[n] # "idle"}

Counted ==
    /\ wg = Cardinality(Busy)
    /\ at \notin {"launch", "wait"} => Busy = {}

(* Every error that the main goroutine waits for was sent, or its sender   *)
(* is still at work.                                                       *)
Delivers ==
    \A n \in Node :
        /\ pc[n] = "exit" => chan[n] # "empty"
        /\ at = "launch" /\ n \in pending => pc[n] = "idle"
        /\ at \in {"launch", "wait"} /\ n \in names /\ pc[n] = "idle" =>
               (at = "launch" /\ n \in pending) \/ chan[n] # "empty"
        /\ at = "wait" => n \notin pending
        /\ at = "collect" /\ n \in pending => chan[n] # "empty"

BarrierInv == DrainInv /\ Counted /\ Delivers

LEMMA InitBarrierInv == Init => BarrierInv
<1> SUFFICES ASSUME Init PROVE BarrierInv
  OBVIOUS
<1>1. Busy = {}
  BY DEF Init, Busy
<1>2. Counted
  BY <1>1, FS_EmptySet DEF Init, Counted
<1>3. Delivers
  BY DEF Init, Delivers
<1> QED BY <1>2, <1>3, InitDrainInv DEF BarrierInv

LEMMA NextCounted == BarrierInv /\ [Next]_vars => Counted'
<1> SUFFICES ASSUME BarrierInv, [Next]_vars PROVE Counted'
  OBVIOUS
<1>t. TypeInv /\ Counted /\ Delivers
  BY DEF BarrierInv, DrainInv
<1>f. IsFiniteSet(Busy)
  BY DrainAssumption, FS_Subset DEF Busy
<1>1. CASE /\ UNCHANGED <<wg, pc>>
           /\ at' = at \/ (at # "wait" /\ at' # "wait" /\ at # "launch") \/ at' = "wait"
  <2>1. Busy' = Busy
    BY <1>1 DEF Busy
  <2> QED BY <1>1, <2>1, <1>t DEF Counted
<1>2. CASE WaitGroupWait
  <2>1. Busy' = Busy /\ wg' = wg /\ wg = 0
    BY <1>2 DEF WaitGroupWait, goVars, Busy
  <2>2. Busy = {}
    BY <2>1, <1>t, <1>f, FS_EmptySet DEF Counted
  <2> QED BY <1>2, <2>1, <2>2, <1>t DEF Counted
<1>3. ASSUME NEW n \in Node, Launch(n) PROVE Counted'
  <2>1. n \notin Busy /\ Busy' = Busy \cup {n} /\ wg' = wg + 1 /\ at' = at /\ at = "launch"
    BY <1>3, <1>t DEF Launch, WaitGroupAdd, Busy, Delivers, TypeInv
  <2> QED BY <2>1, <1>t, <1>f, FS_AddElement DEF Counted
<1>4. ASSUME NEW n \in Node, WaitGroupDone(n) PROVE Counted'
  <2>1. n \in Busy /\ Busy' = Busy \ {n} /\ wg' = wg - 1 /\ at' = at
    BY <1>4, <1>t DEF WaitGroupDone, mainVars, Busy, TypeInv
  <2>2. Cardinality(Busy) \in Nat /\ Cardinality(Busy') = Cardinality(Busy) - 1
    BY <2>1, <1>f, FS_RemoveElement, FS_CardinalityType
  <2> QED BY <2>1, <2>2, <1>t DEF Counted
<1>5. ASSUME NEW n \in Node, wg' = wg, at' = at, pc[n] # "idle", pc'[n] # "idle",
             \A m \in Node \ {n} : pc'[m] = pc[m]
      PROVE Counted'
  <2>1. Busy' = Busy
    BY <1>5 DEF Busy
  <2> QED BY <1>5, <2>1, <1>t DEF Counted
<1>6. ASSUME NEW n \in Node, Async(n) PROVE Counted'
  <2>1. ASSUME ~WaitGroupDone(n) PROVE Counted'
    <3>1. /\ wg' = wg /\ at' = at /\ pc[n] # "idle" /\ pc'[n] # "idle"
          /\ \A m \in Node \ {n} : pc'[m] = pc[m]
      BY <1>6, <2>1, <1>t DEF Async, CordonNode, DrainCordons, DrainEnds, Evict, KubectlFails, KubectlEnds,
                              mainVars, goVars, TypeInv
    <3> QED BY <1>5, <3>1
  <2> QED BY <1>4, <2>1
<1>7. CASE Main
  <2>1. CASE (\E g \in Group : GetAsgInfo(g)) \/ AllGroupsRead \/ DescribeInstances \/ LookupFails
             \/ (\E n \in Node : Collect(n))
    BY <1>1, <1>t, <2>1 DEF GetAsgInfo, AllGroupsRead, DescribeInstances, LookupFails, Collect, goVars, Counted, Busy
  <2>2. CASE AllLaunched
    BY <1>1, <2>2 DEF AllLaunched, goVars
  <2>3. CASE AllCollected
    BY <1>1, <2>3 DEF AllCollected, NextPhase, Return, goVars
  <2> QED BY <1>2, <1>3, <1>7, <2>1, <2>2, <2>3 DEF Main
<1>8. CASE UNCHANGED vars \/ \E n \in Node, p \in Pod : Schedule(p, n)
  BY <1>1, <1>8 DEF vars, mainVars, goVars, Schedule
<1> QED BY <1>6, <1>7, <1>8 DEF Next

LEMMA NextDelivers == BarrierInv /\ [Next]_vars => Delivers'
<1> SUFFICES ASSUME BarrierInv, [Next]_vars PROVE Delivers'
  OBVIOUS
<1>t. TypeInv /\ Goroutines /\ Counted /\ Delivers
  BY DEF BarrierInv, DrainInv
<1> USE DEF Delivers
<1>1. CASE (\E g \in Group : GetAsgInfo(g)) \/ AllGroupsRead \/ LookupFails
  BY <1>1, <1>t DEF GetAsgInfo, AllGroupsRead, LookupFails, Return, goVars, TypeInv
<1>2. CASE DescribeInstances
  <2>1. Busy = {}
    BY <1>2, <1>t DEF DescribeInstances, Counted
  <2>2. \A n \in Node : pc[n] = "idle"
    BY <2>1 DEF Busy
  <2> QED BY <1>2, <2>2 DEF DescribeInstances, goVars
<1>3. CASE AllLaunched
  BY <1>3, <1>t DEF AllLaunched, goVars
<1>4. CASE WaitGroupWait
  <2>1. IsFiniteSet(Busy) /\ Cardinality(Busy) = 0
    BY <1>4, <1>t, DrainAssumption, FS_Subset DEF WaitGroupWait, Counted, Busy
  <2>2. \A n \in Node : pc[n] = "idle"
    BY <2>1, FS_EmptySet DEF Busy
  <2> QED BY <1>4, <1>t, <2>2 DEF WaitGroupWait, goVars
<1>5. ASSUME NEW n \in Node, Launch(n) PROVE Delivers'
  <2>1. /\ at = "launch" /\ at' = at /\ names' = names /\ pending' = pending \ {n} /\ chan' = chan
        /\ phase \in {"cordon", "drain"} /\ pc'[n] = phase /\ \A m \in Node \ {n} : pc'[m] = pc[m]
    BY <1>5, <1>t DEF Launch, TypeInv
  <2> QED BY <2>1, <1>t
<1>6. ASSUME NEW n \in Node, Collect(n) PROVE Delivers'
  <2>1. /\ at = "collect" /\ at' = at /\ pending' = pending \ {n} /\ pc' = pc
        /\ \A m \in Node \ {n} : chan'[m] = chan[m]
    BY <1>6, <1>t DEF Collect, TypeInv
  <2>2. \A m \in Node : pc[m] = "idle"
    BY <2>1, <1>t DEF Counted, Busy
  <2> QED BY <2>1, <2>2, <1>t
<1>7. CASE AllCollected
  <2>1. at = "collect" /\ pending' = {} /\ at' \in {"describe", "collect"} /\ UNCHANGED <<pc, chan>>
    BY <1>7, <1>t DEF AllCollected, NextPhase, Return, goVars
  <2> QED BY <2>1, <1>t
<1>8. ASSUME NEW n \in Node, Async(n) PROVE Delivers'
  <2>1. UNCHANGED mainVars /\ \A m \in Node \ {n} : pc'[m] = pc[m] /\ chan'[m] = chan[m]
    BY <1>8, <1>t DEF Async, CordonNode, DrainCordons, DrainEnds, Evict, KubectlFails, WaitGroupDone,
                      KubectlEnds, goVars, TypeInv
  <2>2. pc[n] # "idle"
    BY <1>8 DEF Async, CordonNode, DrainCordons, DrainEnds, Evict, KubectlFails, WaitGroupDone
  <2>3. CASE \E err \in {"nil", "error"} : KubectlEnds(n, err)
    <3>1. pc'[n] = "exit" /\ chan'[n] # "empty"
      BY <2>3, <1>t DEF KubectlEnds, TypeInv
    <3> QED BY <2>1, <2>2, <3>1, <1>t DEF mainVars, Counted, Busy
  <2>4. CASE DrainCordons(n) \/ \E p \in Pod : Evict(n, p)
    <3>1. pc'[n] = "evict" /\ chan'[n] = chan[n]
      BY <2>4, <1>t DEF DrainCordons, Evict, goVars, TypeInv
    <3> QED BY <2>1, <2>2, <3>1, <1>t DEF mainVars, Counted, Busy
  <2>5. CASE WaitGroupDone(n)
    <3>1. pc[n] = "exit" /\ pc'[n] = "idle" /\ chan'[n] = chan[n]
      BY <2>5, <1>t DEF WaitGroupDone, TypeInv
    <3> QED BY <2>1, <2>2, <3>1, <1>t DEF mainVars, Counted, Busy
  <2> QED BY <1>8, <2>3, <2>4, <2>5 DEF Async, CordonNode, DrainEnds, KubectlFails
<1>9. CASE UNCHANGED vars \/ \E n \in Node, p \in Pod : Schedule(p, n)
  BY <1>9, <1>t DEF vars, mainVars, goVars, Schedule
<1> QED BY <1>1, <1>2, <1>3, <1>4, <1>5, <1>6, <1>7, <1>8, <1>9 DEF Next, Main

LEMMA BarrierInvariant == Spec => []BarrierInv
<1>1. BarrierInv /\ [Next]_vars => DrainInv'
  BY NextTypeInv, NextSelection, NextGoroutines, NextEffects DEF BarrierInv, DrainInv
<1>2. BarrierInv /\ [Next]_vars => BarrierInv'
  BY <1>1, NextCounted, NextDelivers DEF BarrierInv
<1> QED BY <1>2, InitBarrierInv, PTL DEF Spec

(***************************************************************************)
(* The counter of the WaitGroup is never below zero, where wg.Done() would *)
(* panic, and never above the number of nodes (src/kubectl/node.go:138).   *)
(***************************************************************************)
THEOREM TypeCorrect == Spec => []TypeOK
<1> DEFINE Rest == unread \subseteq Group /\ result \in {"none", "ok", "error"}
<1>1. Init => Rest
  BY DEF Init
<1>2. BarrierInv /\ Rest /\ [Next]_vars => Rest'
  BY DEF Next, Main, GetAsgInfo, AllGroupsRead, DescribeInstances, LookupFails, Return, Launch, Collect,
         AllLaunched, WaitGroupWait, AllCollected, NextPhase, Async, CordonNode, DrainCordons, DrainEnds,
         Evict, KubectlFails, WaitGroupDone, Schedule, vars, mainVars, BarrierInv, DrainInv, TypeInv
<1>3. BarrierInv /\ Rest => TypeOK
  <2> SUFFICES ASSUME BarrierInv, Rest PROVE TypeOK
    OBVIOUS
  <2>1. wg \in 0 .. Cardinality(Node)
    BY DrainAssumption, FS_Subset, FS_CardinalityType DEF BarrierInv, Counted, Busy
  <2> QED BY <2>1 DEF TypeOK, BarrierInv, DrainInv, TypeInv
<1> QED BY <1>1, <1>2, <1>3, BarrierInvariant, PTL DEF Spec

(* The main goroutine cannot take its next step.                           *)
MainWaits ==
    \/ at = "wait" /\ wg # 0
    \/ at = "collect" /\ pending # {} /\ \A n \in pending : chan[n] = "empty"

(* Neither can the goroutine of a node: its kubectl run is over and there  *)
(* is no room for the error.                                               *)
GoWaits(n) ==
    \/ pc[n] = "idle"
    \/ ~Room(n) /\ (pc[n] = "cordon" \/ (pc[n] = "evict" /\ Vacated(n)))

(***************************************************************************)
(* The command and its goroutines never wait for one another: before its   *)
(* end one of them can go on (src/kubectl/node.go:109-190).                *)
(***************************************************************************)
NeverStuck == phase # "done" => ~(MainWaits /\ \A n \in Node : GoWaits(n))

THEOREM NoCircularWait == Spec => []NeverStuck
<1>1. BarrierInv => NeverStuck
  <2> SUFFICES ASSUME BarrierInv, MainWaits, \A n \in Node : GoWaits(n) PROVE FALSE
    BY DEF NeverStuck
  <2>t. TypeInv /\ Goroutines /\ Counted /\ Delivers
    BY DEF BarrierInv, DrainInv
  <2>1. \A n \in Node : pc[n] = "idle"
    BY <2>t DEF GoWaits, Room, Goroutines
  <2>2. wg = 0
    BY <2>1, <2>t, FS_EmptySet DEF Counted, Busy
  <2>3. at # "collect" \/ \A n \in pending : chan[n] # "empty"
    BY <2>t DEF Delivers, TypeInv
  <2> QED BY <2>2, <2>3 DEF MainWaits
<1> QED BY <1>1, BarrierInvariant, PTL

(* Where the command and its goroutines are on their way.                  *)
PhasePlace == [read |-> 0, cordon |-> 1, drain |-> 2, done |-> 3]
AtPlace == [describe |-> 0, launch |-> 1, wait |-> 2, collect |-> 3]
GoPlace == [cordon |-> 0, drain |-> 1, evict |-> 2, exit |-> 3, idle |-> 4]

MainAdvances ==
    \/ PhasePlace[phase'] > PhasePlace[phase]
    \/ phase' = phase /\ unread' \subseteq unread /\ unread' # unread
    \/ UNCHANGED <<phase, unread>> /\ AtPlace[at'] > AtPlace[at]
    \/ UNCHANGED <<phase, unread, at>> /\ pending' \subseteq pending /\ pending' # pending

PodsOn(n) == {p \in Pod : home[p] = n}

Evicting == {n \in Node : pc[n] = "evict"}

GoAdvances(n) ==
    /\ UNCHANGED mainVars
    /\ \A m \in Node \ {n} : pc'[m] = pc[m]
    /\ \A m \in Evicting \ {n} : PodsOn(m)' = PodsOn(m)
    /\ \/ GoPlace[pc'[n]] > GoPlace[pc[n]]
       \/ pc'[n] = pc[n] /\ PodsOn(n)' \subseteq PodsOn(n) /\ PodsOn(n)' # PodsOn(n)

(***************************************************************************)
(* No step of the command is ever repeated: each lookup, goroutine and     *)
(* eviction brings it nearer to its end, and the scheduler, which moves    *)
(* Pods beside it, adds none to a node that is being emptied: with         *)
(* finitely many groups and Pods, finitely many steps follow               *)
(* (drain.go:16-62).                                                       *)
(***************************************************************************)
AlwaysAdvances ==
    [][\/ MainAdvances
       \/ \E n \in Node : GoAdvances(n)
       \/ UNCHANGED <<mainVars, wg, goVars>> /\ \A n \in Evicting : PodsOn(n)' = PodsOn(n)]_vars

LEMMA MainStepAdvances == TypeInv /\ Main => MainAdvances
<1> SUFFICES ASSUME TypeInv, Main PROVE MainAdvances
  OBVIOUS
<1> USE DEF TypeInv
<1>1. CASE \E g \in Group : GetAsgInfo(g)
  BY <1>1 DEF GetAsgInfo, MainAdvances
<1>2. CASE AllGroupsRead \/ LookupFails
  BY <1>2 DEF AllGroupsRead, LookupFails, Return, PhasePlace, MainAdvances
<1>3. CASE DescribeInstances \/ AllLaunched \/ WaitGroupWait
  BY <1>3 DEF DescribeInstances, AllLaunched, WaitGroupWait, AtPlace, MainAdvances
<1>4. CASE \E n \in Node : Launch(n) \/ Collect(n)
  BY <1>4 DEF Launch, Collect, MainAdvances
<1>5. CASE AllCollected
  <2>1. <<phase, phase'>> \in {<<"cordon", "drain">>, <<"cordon", "done">>, <<"drain", "done">>}
    BY <1>5 DEF AllCollected, NextPhase, Return
  <2> QED BY <2>1 DEF MainAdvances, PhasePlace
<1> QED BY <1>1, <1>2, <1>3, <1>4, <1>5 DEF Main

LEMMA AsyncStepAdvances == ASSUME TypeInv, NEW n \in Node, Async(n) PROVE GoAdvances(n)
<1> USE DEF TypeInv
<1>1. UNCHANGED mainVars /\ \A m \in Node \ {n} : pc'[m] = pc[m]
  BY DEF Async, CordonNode, DrainCordons, DrainEnds, Evict, KubectlFails, WaitGroupDone, KubectlEnds, goVars
<1>2. CASE \E p \in Pod : Evict(n, p)
  <2>1. PICK p \in Pod : Evict(n, p)
    BY <1>2
  <2>2. /\ home[p] = n /\ home'[p] = "pending" /\ \A x \in Pod \ {p} : home'[x] = home[x]
        /\ pc' = pc
    BY <2>1 DEF Evict, goVars
  <2>3. \A m \in Node \ {n} : PodsOn(m)' = PodsOn(m)
    BY <2>2, DrainAssumption DEF PodsOn
  <2>4. PodsOn(n)' \subseteq PodsOn(n) /\ p \in PodsOn(n) /\ p \notin PodsOn(n)'
    BY <2>2, DrainAssumption DEF PodsOn
  <2> QED BY <1>1, <2>2, <2>3, <2>4 DEF GoAdvances, Evicting
<1>3. CASE ~\E p \in Pod : Evict(n, p)
  <2>1. \A m \in Node : PodsOn(m)' = PodsOn(m)
    BY <1>3 DEF Async, CordonNode, DrainCordons, DrainEnds, KubectlFails, WaitGroupDone, clusterVars, PodsOn
  <2>2. <<pc[n], pc'[n]>> \in {<<"cordon", "exit">>, <<"drain", "evict">>, <<"drain", "exit">>,
                               <<"evict", "exit">>, <<"exit", "idle">>}
    BY <1>3 DEF Async, CordonNode, DrainCordons, DrainEnds, KubectlFails, WaitGroupDone, KubectlEnds
  <2> QED BY <1>1, <2>1, <2>2 DEF GoAdvances, GoPlace, Evicting
<1> QED BY <1>2, <1>3

THEOREM DrainAdvances == Spec => AlwaysAdvances
<1>1. ASSUME DrainInv, NEW n \in Node, NEW p \in Pod, Schedule(p, n)
      PROVE  UNCHANGED <<mainVars, wg, goVars>> /\ \A m \in Evicting : PodsOn(m)' = PodsOn(m)
  <2>1. /\ home[p] = "pending" /\ home'[p] = n /\ n \notin cordoned
        /\ \A x \in Pod \ {p} : home'[x] = home[x]
    BY <1>1 DEF Schedule, DrainInv, TypeInv
  <2>2. Evicting \subseteq cordoned
    BY <1>1 DEF Evicting, DrainInv, Goroutines, Quiet, Selection, Working, Effects
  <2>3. \A m \in Evicting : m # n /\ m # "pending"
    BY <2>1, <2>2, DrainAssumption DEF Evicting
  <2> QED BY <1>1, <2>1, <2>3 DEF Schedule, PodsOn
<1>2. DrainInv /\ [Next]_vars =>
        [\/ MainAdvances
         \/ \E n \in Node : GoAdvances(n)
         \/ UNCHANGED <<mainVars, wg, goVars>> /\ \A n \in Evicting : PodsOn(n)' = PodsOn(n)]_vars
  BY <1>1, MainStepAdvances, AsyncStepAdvances DEF DrainInv, Next
<1> QED BY <1>2, DrainInvariant, PTL DEF Spec, AlwaysAdvances
=============================================================================
