-------------------------- MODULE LoadBalancersProofs --------------------------
(***************************************************************************)
(* The wait for the load balancers, for any number of Services, ports and  *)
(* retries, with the error channels of size one that the code makes.       *)
(***************************************************************************)
EXTENDS LoadBalancers, FiniteSetTheorems, TLAPS

Message == Error \cup {"nil"}

(* With room for one message a channel is empty or holds that one. *)
Channel == {<< >>} \cup {<<e>> : e \in Message}

TypeInv ==
    /\ spec \in [Service -> Annotations]
    /\ registered \subseteq Service \X Port
    /\ main \in {"list", "next", "classic", "lookup", "launch", "wait", "collect", "done"}
    /\ todo \subseteq Service
    /\ current \in Service
    /\ pc \in [Port -> {"idle", "poll", "underlying", "result", "exit"}]
    /\ left \in [Port -> Nat]
    /\ waitErr \in [Port -> Message]
    /\ chan \in [Port -> Channel]
    /\ pending \subseteq Port
    /\ failed \subseteq Service
    /\ result \in {"none", "ok", "error"}

(* The goroutines that have not called wg.Done(), launched or not. *)
Busy == {p \in Port : pc[p] # "idle"}

Counted ==
    /\ main = "launch" => Busy \cap pending = {} /\ wg = Cardinality(Busy \cup pending)
    /\ main = "wait" => wg = Cardinality(Busy)
    /\ main \notin {"launch", "wait"} => Busy = {}

Drained ==
    /\ main \notin {"launch", "wait", "collect"} => \A p \in Port : chan[p] = << >>
    /\ main = "collect" => \A p \in Port \ pending : chan[p] = << >>

(* No error means that the goroutine saw an instance in its target group. *)
Registered(p) == <<current, p>> \in registered

Reports ==
    \A p \in Port :
        /\ pc[p] = "underlying" => waitErr[p] = "fatal"
        /\ pc[p] = "result" /\ waitErr[p] = "nil" => Registered(p)
        /\ chan[p] = <<"nil">> => Registered(p)
        /\ main = "collect" /\ p \notin pending => Registered(p) \/ current \in failed

Served(s) ==
    /\ (Awaited(s) /\ ELBType(spec[s]) = "NLB") => \A p \in Port : <<s, p>> \in registered
    /\ (Awaited(s) /\ ELBType(spec[s]) = "CLB") => \E p \in Port : <<s, p>> \in registered

InHand == main \in {"classic", "lookup", "launch", "wait", "collect"}

Progress ==
    /\ InHand \/ main = "next" \/ result = "ok" => \A s \in Service : Supported(spec[s])
    /\ main = "classic" => ELBType(spec[current]) = "CLB"
    /\ main \in {"lookup", "launch", "wait", "collect"} => ELBType(spec[current]) # "CLB"
    /\ \A s \in Service \ todo : (InHand /\ s = current) \/ s \in failed \/ Served(s)
    /\ main = "list" => todo = Service
    /\ main # "done" => result = "none"
    /\ result = "ok" => todo = {} /\ failed = {}

(* A channel holds a message from the send of a result to its receipt, and *)
(* none before, unless the call of its goroutine failed.                   *)
Delivers ==
    \A p \in Port :
        /\ pc[p] \in {"poll", "underlying"} => chan[p] = << >>
        /\ pc[p] = "result" /\ waitErr[p] # "fatal" => chan[p] = << >>
        /\ pc[p] = "exit" => chan[p] # << >>
        /\ main = "launch" /\ p \in pending => chan[p] = << >>
        /\ main \in {"launch", "wait"} /\ pc[p] = "idle" =>
              (main = "launch" /\ p \in pending) \/ chan[p] # << >>
        /\ main = "collect" /\ p \in pending => chan[p] # << >>

WaitInv == TypeInv /\ Counted /\ Drained /\ Reports /\ Progress /\ Delivers

-----------------------------------------------------------------------------
(* What the operations on a channel do when there is room for one message. *)
LEMMA Channels ==
  ASSUME ChanSize = 1, NEW c \in Channel
  PROVE  /\ c # << >> => Head(c) \in Message /\ Tail(c) = << >> /\ c = <<Head(c)>>
         /\ Len(c) < ChanSize => c = << >>
         /\ \A e \in Message : Append(<< >>, e) = <<e>> /\ <<e>> \in Channel /\ <<e>> # << >>
         /\ << >> \in Channel
<1>1. \A e \in Message : <<e>> # << >> /\ Head(<<e>>) = e /\ Tail(<<e>>) = << >> /\ Len(<<e>>) = 1
  OBVIOUS
<1>2. \A e \in Message : Append(<< >>, e) = <<e>> /\ <<e>> \in Channel
  BY DEF Channel
<1>3. << >> \in Channel
  BY DEF Channel
<1>4. CASE c = << >>
  BY <1>1, <1>2, <1>3, <1>4
<1>5. ASSUME NEW e \in Message, c = <<e>> PROVE c # << >> /\ Head(c) \in Message /\ Tail(c) = << >>
                                               /\ c = <<Head(c)>> /\ Len(c) = 1
  BY <1>1, <1>5
<1> QED BY <1>1, <1>2, <1>3, <1>4, <1>5 DEF Channel

LEMMA InitWaitInv == Init => WaitInv
<1> SUFFICES ASSUME Init PROVE WaitInv
  OBVIOUS
<1>1. TypeInv
  BY LoadBalancersAssumption DEF Init, TypeInv, Message, Channel
<1>2. Counted /\ Drained
  BY DEF Init, Counted, Drained, Busy
<1>3. Reports
  BY DEF Init, Reports
<1>4. Progress
  BY DEF Init, Progress, InHand
<1>5. Delivers
  BY DEF Init, Delivers
<1> QED BY <1>1, <1>2, <1>3, <1>4, <1>5 DEF WaitInv

LEMMA NextTypeInv == ChanSize = 1 /\ TypeInv /\ [Next]_vars => TypeInv'
<1> SUFFICES ASSUME ChanSize = 1, TypeInv, [Next]_vars PROVE TypeInv'
  OBVIOUS
<1>c. \A p \in Port : chan[p] \in Channel
  BY DEF TypeInv
<1> USE DEF TypeInv
<1>1. CASE GetAWSLoadBalancers \/ AllLoadBalancersDone
  BY <1>1 DEF GetAWSLoadBalancers, AllLoadBalancersDone, Goto, Return, goVars
<1>2. CASE NextLoadBalancer
  BY <1>2 DEF NextLoadBalancer, Goto, goVars
<1>3. CASE WaitForClassic \/ GetELBTargetGroupsFails
  BY <1>3 DEF WaitForClassic, GetELBTargetGroupsFails, Goto, goVars
<1>4. CASE GetELBTargetGroups
  BY <1>4 DEF GetELBTargetGroups, Goto, Channel
<1>5. CASE AllLaunched \/ WaitGroupWait \/ AllCollected
  BY <1>5 DEF AllLaunched, WaitGroupWait, AllCollected, Goto, goVars
<1>6. ASSUME NEW p \in Port, GoRoutine(p) PROVE TypeInv'
  BY <1>6, LoadBalancersAssumption DEF GoRoutine
<1>7. ASSUME NEW p \in Port, Collect(p) PROVE TypeInv'
  <2>1. Tail(chan[p]) \in Channel
    BY <1>7, <1>c, Channels DEF Collect
  <2>2. failed' \subseteq Service
    BY <1>7 DEF Collect, Failures
  <2> QED BY <1>7, <2>1, <2>2 DEF Collect
<1>8. ASSUME NEW p \in Port, Poll(p) \/ PollFails(p) \/ WaitGroupDone(p) PROVE TypeInv'
  BY <1>8 DEF Poll, PollFails, WaitGroupDone, LoopEnds, mainVars, Message, Error
<1>9. ASSUME NEW p \in Port, SendUnderlying(p) \/ SendResult(p) PROVE TypeInv'
  <2> PICK e \in Message, next \in {"result", "exit"} : Send(p, e, next)
    BY <1>9 DEF SendUnderlying, SendResult, Message, Error
  <2>1. Append(chan[p], e) \in Channel
    BY <1>c, Channels DEF Send, Room
  <2> QED BY <1>9, <2>1 DEF SendUnderlying, SendResult, Send, mainVars
<1>10. ASSUME NEW s \in Service, NEW p \in Port, Register(s, p) PROVE TypeInv'
  BY <1>10 DEF Register, mainVars, goVars
<1>11. CASE UNCHANGED vars
  BY <1>11 DEF vars, mainVars, goVars
<1> QED BY <1>1, <1>2, <1>3, <1>4, <1>5, <1>6, <1>7, <1>8, <1>9, <1>10, <1>11 DEF Next, Main, Async

LEMMA NextCounted == ChanSize = 1 /\ WaitInv /\ [Next]_vars => Counted'
<1> SUFFICES ASSUME ChanSize = 1, WaitInv, [Next]_vars PROVE Counted'
  OBVIOUS
<1>t. TypeInv /\ Counted /\ Drained
  BY DEF WaitInv
<1>f. IsFiniteSet(Busy) /\ IsFiniteSet(Busy \cup pending) /\ Busy \subseteq Port
  BY <1>t, LoadBalancersAssumption, FS_Subset DEF Busy, TypeInv
<1>i. ASSUME UNCHANGED pc, main' \notin {"launch", "wait"}, Busy = {} PROVE Counted'
  BY <1>i DEF Counted, Busy
<1>1. CASE GetAWSLoadBalancers \/ AllLoadBalancersDone \/ NextLoadBalancer \/ WaitForClassic
           \/ GetELBTargetGroupsFails \/ AllCollected
  BY <1>1, <1>t, <1>i DEF GetAWSLoadBalancers, AllLoadBalancersDone, NextLoadBalancer, WaitForClassic,
                          GetELBTargetGroupsFails, AllCollected, Goto, Return, goVars, Counted
<1>2. CASE GetELBTargetGroups
  <2>1. Busy = {} /\ Busy' = Busy /\ pending' = Port /\ wg' = Cardinality(Port) /\ main' = "launch"
    BY <1>2, <1>t DEF GetELBTargetGroups, WaitGroupAdd, Goto, Counted, Busy
  <2> QED BY <2>1 DEF Counted
<1>3. ASSUME NEW p \in Port, GoRoutine(p) PROVE Counted'
  <2>1. /\ main = "launch" /\ main' = "launch" /\ wg' = wg /\ p \in pending /\ pending' = pending \ {p}
        /\ Busy' = Busy \cup {p}
    BY <1>3, <1>t DEF GoRoutine, Busy, TypeInv
  <2>2. Busy' \cup pending' = Busy \cup pending /\ Busy' \cap pending' = {}
    BY <2>1, <1>t DEF Counted
  <2> QED BY <2>1, <2>2, <1>t DEF Counted
<1>4. CASE AllLaunched
  <2>1. main = "launch" /\ main' = "wait" /\ wg' = wg /\ Busy' = Busy /\ Busy \cup pending = Busy
    BY <1>4 DEF AllLaunched, Goto, goVars, Busy
  <2> QED BY <2>1, <1>t DEF Counted
<1>5. CASE WaitGroupWait
  <2>1. Busy = {}
    BY <1>5, <1>t, <1>f, FS_EmptySet DEF WaitGroupWait, Counted
  <2> QED BY <1>5, <2>1, <1>i DEF WaitGroupWait, Goto, goVars
<1>6. ASSUME NEW p \in Port, Collect(p) PROVE Counted'
  BY <1>6, <1>t, <1>i DEF Collect, Counted
<1>7. ASSUME NEW p \in Port, Poll(p) \/ PollFails(p) \/ SendUnderlying(p) \/ SendResult(p) PROVE Counted'
  <2>1. Busy' = Busy /\ UNCHANGED <<main, wg, pending>>
    BY <1>7, <1>t DEF Poll, PollFails, SendUnderlying, SendResult, Send, LoopEnds, mainVars, Busy, TypeInv
  <2> QED BY <2>1, <1>t DEF Counted
<1>8. ASSUME NEW p \in Port, WaitGroupDone(p) PROVE Counted'
  <2>1. p \in Busy /\ Busy' = Busy \ {p} /\ wg' = wg - 1 /\ UNCHANGED <<main, pending>>
    BY <1>8, <1>t DEF WaitGroupDone, mainVars, Busy, TypeInv
  <2>2. Cardinality(Busy \ {p}) = Cardinality(Busy) - 1
    BY <2>1, <1>f, FS_RemoveElement
  <2>3. CASE main = "launch"
    <3>1. Busy' \cup pending' = (Busy \cup pending) \ {p}
      BY <2>1, <2>3, <1>t DEF Counted
    <3>2. Cardinality((Busy \cup pending) \ {p}) = Cardinality(Busy \cup pending) - 1
      BY <2>1, <1>f, FS_RemoveElement
    <3> QED BY <2>1, <2>3, <3>1, <3>2, <1>t DEF Counted
  <2> QED BY <2>1, <2>2, <2>3, <1>t DEF Counted
<1>9. ASSUME NEW s \in Service, NEW p \in Port, Register(s, p) PROVE Counted'
  BY <1>9, <1>t DEF Register, mainVars, goVars, Counted, Busy
<1>10. CASE UNCHANGED vars
  BY <1>10, <1>t DEF vars, mainVars, goVars, Counted, Busy
<1> QED BY <1>1, <1>2, <1>3, <1>4, <1>5, <1>6, <1>7, <1>8, <1>9, <1>10 DEF Next, Main, Async

(* While no goroutine is left, no channel fills. *)
LEMMA NextDrained == ChanSize = 1 /\ WaitInv /\ [Next]_vars => Drained'
<1> SUFFICES ASSUME ChanSize = 1, WaitInv, [Next]_vars PROVE Drained'
  OBVIOUS
<1>t. TypeInv /\ Counted /\ Drained
  BY DEF WaitInv
<1>1. CASE GetAWSLoadBalancers \/ AllLoadBalancersDone \/ NextLoadBalancer \/ WaitForClassic
           \/ GetELBTargetGroupsFails \/ AllLaunched \/ WaitGroupWait \/ AllCollected
  BY <1>1, <1>t DEF GetAWSLoadBalancers, AllLoadBalancersDone, NextLoadBalancer, WaitForClassic,
                    GetELBTargetGroupsFails, AllLaunched, WaitGroupWait, AllCollected, Goto, Return,
                    goVars, Drained
<1>2. CASE GetELBTargetGroups
  BY <1>2 DEF GetELBTargetGroups, Goto, Drained
<1>3. ASSUME NEW p \in Port, GoRoutine(p) PROVE Drained'
  BY <1>3 DEF GoRoutine, Drained
<1>4. ASSUME NEW p \in Port, Collect(p) PROVE Drained'
  <2>1. /\ main = "collect" /\ main' = main /\ pending' = pending \ {p}
        /\ \A q \in Port : chan'[q] = IF q = p THEN Tail(chan[p]) ELSE chan[q]
        /\ Tail(chan[p]) = << >>
    BY <1>4, <1>t, Channels DEF Collect, TypeInv
  <2> QED BY <2>1, <1>t DEF Drained
<1>5. ASSUME NEW p \in Port, Async(p) PROVE Drained'
  <2>1. UNCHANGED <<main, pending>> /\ pc[p] # "idle"
    BY <1>5 DEF Async, Poll, PollFails, SendUnderlying, SendResult, WaitGroupDone, mainVars
  <2>2. main \in {"launch", "wait"}
    BY <2>1, <1>t DEF Counted, Busy
  <2> QED BY <2>1, <2>2 DEF Drained
<1>6. ASSUME NEW s \in Service, NEW p \in Port, Register(s, p) PROVE Drained'
  BY <1>6, <1>t DEF Register, mainVars, goVars, Drained
<1>7. CASE UNCHANGED vars
  BY <1>7, <1>t DEF vars, mainVars, goVars, Drained
<1> QED BY <1>1, <1>2, <1>3, <1>4, <1>5, <1>6, <1>7 DEF Next, Main

LEMMA NextReports == ChanSize = 1 /\ WaitInv /\ [Next]_vars => Reports'
<1> SUFFICES ASSUME ChanSize = 1, WaitInv, [Next]_vars PROVE Reports'
  OBVIOUS
<1>t. TypeInv /\ Counted /\ Drained /\ Reports
  BY DEF WaitInv
(* Between two load balancers there is nothing to report. *)
<1>q. ASSUME main' # "collect", UNCHANGED <<pc, chan>>,
             \A p \in Port : pc[p] = "idle" /\ chan[p] # <<"nil">>
      PROVE Reports'
  BY <1>q DEF Reports
<1>e. << >> # <<"nil">>
  OBVIOUS
<1>1. CASE GetAWSLoadBalancers \/ AllLoadBalancersDone \/ NextLoadBalancer \/ WaitForClassic
           \/ GetELBTargetGroupsFails
  <2>1. /\ main \notin {"launch", "wait", "collect"} /\ main' # "collect" /\ UNCHANGED <<pc, chan>>
    BY <1>1 DEF GetAWSLoadBalancers, AllLoadBalancersDone, NextLoadBalancer, WaitForClassic,
                GetELBTargetGroupsFails, Goto, Return, goVars
  <2> QED BY <2>1, <1>t, <1>q, <1>e DEF Counted, Busy, Drained
<1>2. CASE GetELBTargetGroups
  <2>1. main' = "launch" /\ pc' = pc /\ \A p \in Port : pc[p] = "idle" /\ chan'[p] = << >>
    BY <1>2, <1>t DEF GetELBTargetGroups, Goto, Counted, Busy
  <2> QED BY <2>1, <1>e DEF Reports
<1>3. ASSUME NEW p \in Port, GoRoutine(p) PROVE Reports'
  <2>1. /\ main' = "launch" /\ UNCHANGED <<registered, current, waitErr, chan>>
        /\ pc'[p] = "poll" /\ \A q \in Port : q # p => pc'[q] = pc[q]
    BY <1>3, <1>t DEF GoRoutine, TypeInv
  <2> QED BY <2>1, <1>t DEF Reports, Registered
<1>4. CASE AllLaunched \/ WaitGroupWait \/ AllCollected
  <2>1. /\ UNCHANGED <<registered, current, pc, waitErr, chan>>
        /\ main' = "collect" => pending' = Port
    BY <1>4 DEF AllLaunched, WaitGroupWait, AllCollected, Goto, goVars
  <2> QED BY <2>1, <1>t DEF Reports, Registered
<1>5. ASSUME NEW p \in Port, Collect(p) PROVE Reports'
  <2>1. /\ main = "collect" /\ main' = main /\ pending' = pending \ {p} /\ chan[p] # << >>
        /\ UNCHANGED <<registered, current, pc, waitErr>>
        /\ failed' = Failures(Head(chan[p]))
        /\ chan'[p] = Tail(chan[p]) /\ \A q \in Port : q # p => chan'[q] = chan[q]
    BY <1>5, <1>t DEF Collect, TypeInv
  <2>2. chan[p] = <<Head(chan[p])>> /\ Tail(chan[p]) = << >>
    BY <2>1, <1>t, Channels DEF TypeInv
  <2>3. Registered(p) \/ current \in failed'
    BY <2>1, <2>2, <1>t DEF Reports, Failures
  <2>4. failed \subseteq failed'
    BY <2>1 DEF Failures
  <2> QED BY <2>1, <2>2, <2>3, <2>4, <1>t, <1>e DEF Reports, Registered
<1>6. ASSUME NEW p \in Port, Async(p) PROVE Reports'
  <2>1. UNCHANGED <<registered, current, main, pending, failed>>
    BY <1>6 DEF Async, Poll, PollFails, SendUnderlying, SendResult, WaitGroupDone, mainVars
  <2>2. CASE Poll(p) \/ PollFails(p)
    <3>1. /\ chan' = chan /\ \A q \in Port : q # p => pc'[q] = pc[q] /\ waitErr'[q] = waitErr[q]
          /\ \/ pc'[p] = "result" /\ waitErr'[p] = "nil" /\ Registered(p)
             \/ pc'[p] = "result" /\ waitErr'[p] = "exhausted"
             \/ pc'[p] = "underlying" /\ waitErr'[p] = "fatal"
             \/ pc'[p] = "poll"
      BY <2>2, <1>t DEF Poll, PollFails, LoopEnds, TypeInv, Registered
    <3> QED BY <2>1, <3>1, <1>t DEF Reports, Registered
  <2>3. CASE SendUnderlying(p)
    <3>1. /\ waitErr' = waitErr /\ pc[p] = "underlying" /\ pc'[p] = "result" /\ chan'[p] = <<"fatal">>
          /\ \A q \in Port : q # p => pc'[q] = pc[q] /\ chan'[q] = chan[q]
      BY <2>3, <1>t, Channels DEF SendUnderlying, Send, Room, TypeInv, Message, Error
    <3>2. <<"fatal">> # <<"nil">>
      OBVIOUS
    <3> QED BY <2>1, <3>1, <3>2, <1>t DEF Reports, Registered
  <2>4. CASE SendResult(p)
    <3>1. /\ waitErr' = waitErr /\ pc[p] = "result" /\ pc'[p] = "exit" /\ chan'[p] = <<waitErr[p]>>
          /\ \A q \in Port : q # p => pc'[q] = pc[q] /\ chan'[q] = chan[q]
      BY <2>4, <1>t, Channels DEF SendResult, Send, Room, TypeInv
    <3>2. <<waitErr[p]>> = <<"nil">> => waitErr[p] = "nil"
      OBVIOUS
    <3> QED BY <2>1, <3>1, <3>2, <1>t DEF Reports, Registered
  <2>5. CASE WaitGroupDone(p)
    <3>1. /\ UNCHANGED <<waitErr, chan>> /\ pc'[p] = "idle"
          /\ \A q \in Port : q # p => pc'[q] = pc[q]
      BY <2>5, <1>t DEF WaitGroupDone, TypeInv
    <3> QED BY <2>1, <3>1, <1>t DEF Reports, Registered
  <2> QED BY <1>6, <2>2, <2>3, <2>4, <2>5 DEF Async
<1>7. ASSUME NEW s \in Service, NEW p \in Port, Register(s, p) PROVE Reports'
  BY <1>7, <1>t DEF Register, mainVars, goVars, Reports, Registered
<1>8. CASE UNCHANGED vars
  BY <1>8, <1>t DEF vars, mainVars, goVars, Reports, Registered
<1> QED BY <1>1, <1>2, <1>3, <1>4, <1>5, <1>6, <1>7, <1>8 DEF Next, Main

LEMMA NextProgress == ChanSize = 1 /\ WaitInv /\ [Next]_vars => Progress'
<1> SUFFICES ASSUME ChanSize = 1, WaitInv, [Next]_vars PROVE Progress'
  OBVIOUS
<1>t. TypeInv /\ Progress
  BY DEF WaitInv
(* A target that was registered stays so, and so does what is served. *)
<1>k. /\ \A s \in Service : Served(s) => Served(s)'
      /\ UNCHANGED spec
  <2>1. spec' = spec /\ registered \subseteq registered'
    BY DEF Next, Main, GetAWSLoadBalancers, NextLoadBalancer, AllLoadBalancersDone, WaitForClassic,
           GetELBTargetGroups, GetELBTargetGroupsFails, GoRoutine, Collect, AllLaunched, WaitGroupWait,
           AllCollected, Async, Poll, PollFails, SendUnderlying, SendResult, WaitGroupDone, Register, vars
  <2> QED BY <2>1 DEF Served, Awaited
(* The same load balancer is in hand, or none. *)
<1>s. ASSUME UNCHANGED <<todo, current, result>>, failed \subseteq failed',
             main = "done" => failed' = failed,
             main' = main \/ (main \in {"lookup", "launch", "wait"} /\ main' \in {"launch", "wait", "collect"})
      PROVE Progress'
  BY <1>s, <1>k, <1>t DEF Progress, InHand
<1>1. CASE GetAWSLoadBalancers
  <2>1. main = "list" /\ todo = Service /\ UNCHANGED <<todo, current, failed>>
    BY <1>1, <1>t DEF GetAWSLoadBalancers, Progress
  <2>2. \/ main' = "next" /\ result' = result /\ \A s \in Service : Supported(spec[s])
        \/ main' = "done" /\ result' = "error"
    BY <1>1 DEF GetAWSLoadBalancers, Goto, Return
  <2> QED BY <2>1, <2>2, <1>k, <1>t DEF Progress, InHand
<1>2. CASE NextLoadBalancer
  <2> PICK s \in todo :
        /\ todo' = todo \ {s}
        /\ current' = s
        /\ Goto(IF ELBTargetType(spec[s]) = "ip" THEN "next"
                ELSE IF ELBType(spec[s]) = "CLB" THEN "classic"
                ELSE "lookup")
    BY <1>2 DEF NextLoadBalancer
  <2>1. main = "next" /\ UNCHANGED <<failed, result>> /\ s \in Service /\ result = "none"
        /\ \A x \in Service : Supported(spec[x])
    BY <1>2, <1>t DEF NextLoadBalancer, Progress, TypeInv
  <2>2. CASE ELBTargetType(spec[s]) = "ip"
    <3>1. Served(s) /\ main' = "next"
      BY <2>2 DEF Served, Awaited, Goto
    <3> QED BY <2>1, <3>1, <1>k, <1>t DEF Progress, InHand
  <2>3. CASE ELBTargetType(spec[s]) # "ip"
    BY <2>1, <2>3, <1>k, <1>t DEF Goto, Progress, InHand
  <2> QED BY <2>2, <2>3
<1>3. CASE AllLoadBalancersDone
  <2>1. /\ main = "next" /\ todo = {} /\ main' = "done"
        /\ result' = IF failed = {} THEN "ok" ELSE "error"
        /\ UNCHANGED <<todo, current, failed>>
    BY <1>3 DEF AllLoadBalancersDone, Return, Goto
  <2> QED BY <2>1, <1>k, <1>t DEF Progress, InHand
<1>4. ASSUME main \in {"classic", "lookup", "collect"}, main' = "next",
             UNCHANGED <<todo, current, result>>, failed \subseteq failed',
             current \in failed' \/ Served(current)
      PROVE Progress'
  BY <1>4, <1>k, <1>t DEF Progress, InHand
<1>5. CASE WaitForClassic
  <2>1. current \in failed' \/ Served(current)
    BY <1>5, <1>t DEF WaitForClassic, Served, Progress
  <2> QED BY <1>5, <2>1, <1>4 DEF WaitForClassic, Goto
<1>6. CASE GetELBTargetGroupsFails
  BY <1>6, <1>4 DEF GetELBTargetGroupsFails, Goto
<1>7. CASE AllCollected
  <2>1. current \in failed \/ \A p \in Port : <<current, p>> \in registered
    BY <1>7 DEF AllCollected, WaitInv, Reports, Registered
  <2>2. current \in failed \/ Served(current)
    BY <1>7, <2>1, <1>t DEF AllCollected, Served, Progress
  <2> QED BY <1>7, <2>2, <1>4 DEF AllCollected, Goto
<1>8. CASE GetELBTargetGroups \/ AllLaunched \/ WaitGroupWait
  BY <1>8, <1>s DEF GetELBTargetGroups, AllLaunched, WaitGroupWait, Goto
<1>9. ASSUME NEW p \in Port, GoRoutine(p) \/ Collect(p) PROVE Progress'
  BY <1>9, <1>s DEF GoRoutine, Collect, Failures
<1>10. ASSUME NEW p \in Port, Async(p) PROVE Progress'
  BY <1>10, <1>s DEF Async, Poll, PollFails, SendUnderlying, SendResult, WaitGroupDone, mainVars
<1>11. ASSUME NEW s \in Service, NEW p \in Port, Register(s, p) PROVE Progress'
  BY <1>11, <1>s DEF Register, mainVars
<1>12. CASE UNCHANGED vars
  BY <1>12, <1>s DEF vars, mainVars
<1> QED BY <1>1, <1>2, <1>3, <1>5, <1>6, <1>7, <1>8, <1>9, <1>10, <1>11, <1>12 DEF Next, Main

LEMMA NextDelivers == ChanSize = 1 /\ WaitInv /\ [Next]_vars => Delivers'
<1> SUFFICES ASSUME ChanSize = 1, WaitInv, [Next]_vars PROVE Delivers'
  OBVIOUS
<1>t. TypeInv /\ Counted /\ Drained /\ Reports /\ Delivers
  BY DEF WaitInv
<1>c. \A p \in Port : chan[p] \in Channel
  BY <1>t DEF TypeInv
<1>1. CASE GetAWSLoadBalancers \/ AllLoadBalancersDone \/ NextLoadBalancer \/ WaitForClassic
           \/ GetELBTargetGroupsFails \/ AllCollected
  <2>1. /\ UNCHANGED <<pc, chan>> /\ main' \notin {"launch", "wait", "collect"}
        /\ main \notin {"launch", "wait"}
    BY <1>1 DEF GetAWSLoadBalancers, AllLoadBalancersDone, NextLoadBalancer, WaitForClassic,
                GetELBTargetGroupsFails, AllCollected, Goto, Return, goVars
  <2> QED BY <2>1, <1>t DEF Counted, Busy, Delivers
<1>2. CASE GetELBTargetGroups
  <2>1. /\ main' = "launch" /\ pc' = pc /\ pending' = Port
        /\ \A p \in Port : pc[p] = "idle" /\ chan'[p] = << >>
    BY <1>2, <1>t DEF GetELBTargetGroups, Goto, Counted, Busy
  <2> QED BY <2>1 DEF Delivers
<1>3. ASSUME NEW p \in Port, GoRoutine(p) PROVE Delivers'
  <2>1. /\ main = "launch" /\ UNCHANGED <<main, waitErr, chan>> /\ pending' = pending \ {p} /\ p \in pending
        /\ pc'[p] = "poll" /\ \A q \in Port : q # p => pc'[q] = pc[q]
    BY <1>3, <1>t DEF GoRoutine, TypeInv
  <2> QED BY <2>1, <1>t DEF Delivers
<1>4. CASE AllLaunched
  BY <1>4, <1>t DEF AllLaunched, Goto, goVars, Delivers
<1>5. CASE WaitGroupWait
  <2>1. IsFiniteSet(Busy)
    BY LoadBalancersAssumption, FS_Subset DEF Busy
  <2>2. /\ main = "wait" /\ main' = "collect" /\ UNCHANGED <<pc, chan>>
        /\ \A p \in Port : pc[p] = "idle"
    BY <1>5, <2>1, <1>t, FS_EmptySet DEF WaitGroupWait, Goto, goVars, Counted, Busy
  <2> QED BY <2>2, <1>t DEF Delivers
<1>6. ASSUME NEW p \in Port, Collect(p) PROVE Delivers'
  <2>1. /\ main = "collect" /\ UNCHANGED <<main, pc, waitErr>> /\ pending' = pending \ {p}
        /\ \A q \in Port : q # p => chan'[q] = chan[q]
        /\ \A q \in Port : pc[q] = "idle"
    BY <1>6, <1>t DEF Collect, TypeInv, Counted, Busy
  <2> QED BY <2>1, <1>t DEF Delivers
<1>7. ASSUME NEW p \in Port, Poll(p) \/ PollFails(p) PROVE Delivers'
  <2>1. /\ pc[p] = "poll" /\ UNCHANGED <<main, pending, chan>>
        /\ pc'[p] \in {"poll", "underlying", "result"}
        /\ \A q \in Port : q # p => pc'[q] = pc[q] /\ waitErr'[q] = waitErr[q]
    BY <1>7, <1>t DEF Poll, PollFails, LoopEnds, mainVars, TypeInv
  <2> QED BY <2>1, <1>t DEF Delivers
<1>8. ASSUME NEW p \in Port, SendUnderlying(p) \/ SendResult(p) PROVE Delivers'
  <2> PICK e \in Message, next \in {"result", "exit"} : Send(p, e, next) /\ (next = "result" => waitErr[p] = "fatal")
    BY <1>8, <1>t DEF SendUnderlying, SendResult, Message, Error, Reports, TypeInv
  <2>1. chan[p] = << >> /\ Append(chan[p], e) # << >>
    BY <1>c, Channels DEF Send, Room
  <2>2. /\ pc[p] # "idle" /\ UNCHANGED <<main, pending, waitErr>>
        /\ pc'[p] = next /\ chan'[p] # << >>
        /\ \A q \in Port : q # p => pc'[q] = pc[q] /\ chan'[q] = chan[q]
    BY <1>8, <1>t, <2>1 DEF SendUnderlying, SendResult, Send, mainVars, TypeInv
  <2>3. main \in {"launch", "wait"} /\ ~(main = "launch" /\ p \in pending)
    BY <2>2, <1>t DEF Counted, Busy
  <2> QED BY <2>2, <2>3, <1>t DEF Delivers
<1>9. ASSUME NEW p \in Port, WaitGroupDone(p) PROVE Delivers'
  <2>1. /\ pc[p] = "exit" /\ UNCHANGED <<main, pending, waitErr, chan>>
        /\ pc'[p] = "idle" /\ \A q \in Port : q # p => pc'[q] = pc[q]
    BY <1>9, <1>t DEF WaitGroupDone, mainVars, TypeInv
  <2> QED BY <2>1, <1>t DEF Delivers
<1>10. CASE UNCHANGED <<main, pc, waitErr, chan, pending>>
  BY <1>10, <1>t DEF Delivers
<1> QED BY <1>1, <1>2, <1>3, <1>4, <1>5, <1>6, <1>7, <1>8, <1>9, <1>10
    DEF Next, Main, Async, Register, vars, mainVars, goVars

LEMMA WaitInvariant == ChanSize = 1 => (Spec => []WaitInv)
<1> SUFFICES ASSUME ChanSize = 1 PROVE Spec => []WaitInv
  OBVIOUS
<1>1. WaitInv /\ [Next]_vars => WaitInv'
  BY NextTypeInv, NextCounted, NextDrained, NextReports, NextProgress, NextDelivers DEF WaitInv
<1> QED BY <1>1, InitWaitInv, PTL DEF Spec

(***************************************************************************)
(* When the wait succeeds, a new instance is registered with each of the   *)
(* load balancers that route to instances, whichever goroutine was first   *)
(* and whatever failed on the way (asg.go:281, elb.go:29).                 *)
(***************************************************************************)
THEOREM SuccessMeansServed == ChanSize = 1 => (Spec => []ServedOnSuccess)
<1> SUFFICES ASSUME ChanSize = 1 PROVE Spec => []ServedOnSuccess
  OBVIOUS
<1>1. WaitInv => ServedOnSuccess
  <2> SUFFICES ASSUME WaitInv, result = "ok", NEW s \in Service PROVE Supported(spec[s]) /\ Served(s)
    BY DEF ServedOnSuccess, Served
  <2> QED BY DEF WaitInv, Progress, InHand
<1> QED BY <1>1, WaitInvariant, PTL

(***************************************************************************)
(* No goroutine outlives the load balancer it was started for, and no      *)
(* error of one is left in a channel: wg counts the goroutines that are    *)
(* not done (elb.go:38, elb.go:42).                                        *)
(***************************************************************************)
THEOREM GoroutinesCollected == ChanSize = 1 => (Spec => []NoStragglers)
<1> SUFFICES ASSUME ChanSize = 1 PROVE Spec => []NoStragglers
  OBVIOUS
<1>1. WaitInv => NoStragglers
  BY DEF WaitInv, Counted, Busy, Drained, NoStragglers
<1> QED BY <1>1, WaitInvariant, PTL

(***************************************************************************)
(* With the channel size of the code, a wait that stands still has called  *)
(* an API that failed (elb.go:29-49, 95-98).                               *)
(***************************************************************************)
THEOREM OnlyFailuresBlock == ChanSize = 1 => (Spec => []NeverStuck)
<1> SUFFICES ASSUME ChanSize = 1 PROVE Spec => []NeverStuck
  OBVIOUS
<1>1. WaitInv => NeverStuck
  <2> SUFFICES ASSUME WaitInv, main # "done", MainBlocked, \A p \in Port : Blocked(p)
               PROVE  \E p \in Port : pc[p] = "result" /\ waitErr[p] = "fatal"
    BY DEF NeverStuck
  <2>t. TypeInv /\ Counted /\ Delivers
    BY DEF WaitInv
  <2>1. CASE main = "wait" /\ wg # 0
    <3>1. PICK p \in Port : pc[p] # "idle"
      BY <2>1, <2>t, FS_EmptySet DEF Counted, Busy
    <3>2. pc[p] \in {"underlying", "result"} /\ ~Room(p)
      BY <3>1 DEF Blocked
    <3>3. chan[p] # << >>
      <4>1. Len(<< >>) = 0
        OBVIOUS
      <4> QED BY <3>2, <4>1 DEF Room
    <3> QED BY <3>2, <3>3, <2>t DEF Delivers
  <2>2. CASE main = "collect" /\ pending # {} /\ \A p \in pending : chan[p] = << >>
    BY <2>2, <2>t DEF Delivers, TypeInv
  <2> QED BY <2>1, <2>2 DEF MainBlocked
<1> QED BY <1>1, WaitInvariant, PTL

-----------------------------------------------------------------------------
(***************************************************************************)
(* Why the wait ends.  A step of the main goroutine leaves fewer load      *)
(* balancers to take up, or brings the one at hand closer to the next, or  *)
(* launches a goroutine or receives from one; a step of such a goroutine   *)
(* leaves all others where they are and brings it closer to its end.       *)
(***************************************************************************)
MainPlace == [list |-> 0, classic |-> 1, lookup |-> 2, launch |-> 3, wait |-> 4,
              collect |-> 5, next |-> 6, done |-> 7]

MainAdvances ==
    \/ todo' \subseteq todo /\ todo' # todo
    \/ todo' = todo /\ MainPlace[main'] > MainPlace[main]
    \/ todo' = todo /\ main' = main /\ pending' \subseteq pending /\ pending' # pending

GoPlace == [poll |-> 0, underlying |-> 1, result |-> 2, exit |-> 3, idle |-> 4]

GoAdvances(p) ==
    /\ UNCHANGED mainVars
    /\ \A q \in Port \ {p} : pc'[q] = pc[q] /\ left'[q] = left[q]
    /\ \/ GoPlace[pc'[p]] > GoPlace[pc[p]]
       \/ pc'[p] = pc[p] /\ left'[p] < left[p]

(***************************************************************************)
(* No step of the wait is ever repeated: whatever the goroutines do, only  *)
(* finitely many steps follow (elb.go:29-49, asg.go:281).                  *)
(***************************************************************************)
AlwaysAdvances ==
    [][\/ MainAdvances
       \/ \E p \in Port : GoAdvances(p)
       \/ UNCHANGED <<mainVars, wg, goVars>>]_vars

LEMMA StepAdvances ==
    ASSUME TypeInv, Next
    PROVE  MainAdvances \/ (\E p \in Port : GoAdvances(p)) \/ UNCHANGED <<mainVars, wg, goVars>>
<1> USE DEF TypeInv
<1>1. CASE \/ GetAWSLoadBalancers \/ AllLoadBalancersDone \/ WaitForClassic \/ GetELBTargetGroups
          \/ GetELBTargetGroupsFails \/ AllLaunched \/ WaitGroupWait \/ AllCollected
  <2>1. todo' = todo /\ <<main, main'>> \in
            {<<"list", "next">>, <<"list", "done">>, <<"next", "done">>, <<"classic", "next">>,
             <<"lookup", "launch">>, <<"lookup", "next">>, <<"launch", "wait">>, <<"wait", "collect">>,
             <<"collect", "next">>}
    BY <1>1 DEF GetAWSLoadBalancers, AllLoadBalancersDone, WaitForClassic, GetELBTargetGroups,
       GetELBTargetGroupsFails, AllLaunched, WaitGroupWait, AllCollected, Goto, Return
  <2> QED
    BY <2>1 DEF MainAdvances, MainPlace
<1>2. CASE NextLoadBalancer
  BY <1>2 DEF NextLoadBalancer, MainAdvances
<1>3. CASE \E p \in Port : GoRoutine(p) \/ Collect(p)
  BY <1>3 DEF GoRoutine, Collect, MainAdvances
<1>4. ASSUME NEW p \in Port, Async(p) PROVE GoAdvances(p)
  <2>1. UNCHANGED mainVars /\ \A q \in Port \ {p} : pc'[q] = pc[q] /\ left'[q] = left[q]
    BY <1>4 DEF Async, Poll, PollFails, SendUnderlying, SendResult, WaitGroupDone, LoopEnds, Send
  <2>2. \/ pc'[p] = pc[p] /\ left'[p] < left[p]
        \/ <<pc[p], pc'[p]>> \in
              {<<"poll", "underlying">>, <<"poll", "result">>, <<"underlying", "result">>,
               <<"result", "exit">>, <<"exit", "idle">>}
    BY <1>4 DEF Async, Poll, PollFails, SendUnderlying, SendResult, WaitGroupDone, LoopEnds, Send
  <2> QED
    BY <2>1, <2>2 DEF GoAdvances, GoPlace
<1>5. CASE \E s \in Service, p \in Port : Register(s, p)
  BY <1>5 DEF Register
<1> QED
  BY <1>1, <1>2, <1>3, <1>4, <1>5 DEF Next, Main

THEOREM WaitAdvances == ChanSize = 1 => (Spec => AlwaysAdvances)
<1> SUFFICES ASSUME ChanSize = 1 PROVE Spec => AlwaysAdvances
  OBVIOUS
<1>1. WaitInv /\ [Next]_vars =>
        [\/ MainAdvances \/ (\E p \in Port : GoAdvances(p)) \/ UNCHANGED <<mainVars, wg, goVars>>]_vars
  BY StepAdvances DEF WaitInv
<1> QED BY <1>1, WaitInvariant, PTL DEF Spec, AlwaysAdvances
=============================================================================
