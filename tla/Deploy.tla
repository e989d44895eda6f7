------------------------------- MODULE Deploy -------------------------------
(***************************************************************************)
(* `kubergrunt eks deploy`: the staged roll out of src/eks/deploy.go and   *)
(* src/eks/deploy_state.go with the helpers of asg.go, instances.go and    *)
(* src/kubectl/node.go they call.  One invocation runs at a time; it may   *)
(* stop with an error or be killed at any step, and is then started again  *)
(* in the same directory, where it finds the recovery file it left.        *)
(***************************************************************************)
EXTENDS Workers

CONSTANTS
    MaxRetries,     \* --max-retries, 0 when the flag is not given
    WavePolls,      \* polls per wave of the default: 600s / sleepBetweenRetries
    WaveSize,       \* instances per wave (10 in the code)
    DetachBatch,    \* instances per DetachInstances call (20 in the code)
    TerminateBatch, \* instances per TerminateInstances call (1000 in the code)
    Operator,       \* what the operator may do, a subset of OperatorKind
    DesiredBound    \* bound of the model: no new roll out above this capacity

(* Pass --ignore-recovery-file, remove the file by hand, `terraform apply`. *)
OperatorKind == {"ignore", "remove", "apply"}

ASSUME DeployAssumption ==
    /\ MaxRetries \in Nat
    /\ WavePolls \in Nat
    /\ WaveSize \in Nat \ {0}
    /\ DetachBatch \in Nat \ {0}
    /\ TerminateBatch \in Nat \ {0}
    /\ Operator \subseteq OperatorKind
    /\ DesiredBound \in Nat

VARIABLES
    stage,      \* the stage RollOutDeployment is in, Idle when no process runs
    at,         \* the step of that stage the process takes next
    mem,        \* the DeployState of the process
    todo,       \* instances the current loop or fan-out has still to handle
    failed,     \* an error was collected in that loop or fan-out
    polls,      \* polls left in the current wait
    file        \* the recovery file

ctlVars == <<stage, at, todo, failed, polls>>
vars == <<worldVars, ctlVars, mem, file>>

(***************************************************************************)
(* The stages, in the order RollOutDeployment calls them.  The ...Done     *)
(* flag of a stage is its membership in the done set of a DeployState.     *)
(***************************************************************************)
Idle == 0
Gather == 1
SetMax == 2
ScaleUp == 3
WaitNodes == 4
Cordon == 5
Drain == 6
Detach == 7
Terminate == 8
Restore == 9
Delete == 10

Flag == Gather .. Restore

DeployState == [
    done      : SUBSET Flag,
    capacity  : Nat,                \* OriginalCapacity
    max       : Nat,                \* OriginalMaxCapacity
    updateMax : Nat,                \* MaxCapacityForUpdate
    original  : SUBSET Instance,    \* OriginalInstances
    new       : SUBSET Instance ]   \* NewInstances

newDeployState == [
    done |-> {}, capacity |-> 0, max |-> 0, updateMax |-> 0,
    original |-> {}, new |-> {} ]

(* A process at "hung" is blocked for good: only killing it takes it away. *)
Step == {"enter", "steady", "regather", "capacity", "launched", "ready", "lb",
         "hung", "node", "batch", "persist", "write"}

File == [status : {"absent", "corrupt", "saved"}, state : DeployState]
Absent  == [status |-> "absent", state |-> newDeployState]
Corrupt == [status |-> "corrupt", state |-> newDeployState]

(* Mutant: a field of the state is not exported, and so never written. *)
Saved_WithoutUpdateMax(s) == [status |-> "saved", state |-> [s EXCEPT !.updateMax = 0]]

Saved(s) == [status |-> "saved", state |-> s]

TypeOK ==
    /\ WorldTypeOK
    /\ stage \in Idle .. Delete
    /\ at \in Step
    /\ mem \in DeployState
    /\ todo \subseteq Instance
    /\ failed \in BOOLEAN
    /\ polls \in Nat
    /\ file \in File

Init ==
    /\ WorldInit
    /\ stage = Idle
    /\ at = "enter"
    /\ mem = newDeployState
    /\ todo = {}
    /\ failed = FALSE
    /\ polls = 0
    /\ file = Absent

-----------------------------------------------------------------------------
(* getDefaultMaxRetries and ensureMaxRetries. *)
getDefaultMaxRetries(n) == ((n + WaveSize - 1) \div WaveSize) * WavePolls

ensureMaxRetries(n) == IF MaxRetries = 0 THEN getDefaultMaxRetries(n) ELSE MaxRetries

(* AddError has a value receiver: what it appends is lost (errors.go:63). *)
AddError(errors, err) == errors

(* The process is gone, and its memory with it. *)
Stopped ==
    /\ stage' = Idle
    /\ at' = "enter"
    /\ mem' = newDeployState
    /\ todo' = {}
    /\ failed' = FALSE
    /\ polls' = 0

(* RollOutDeployment returns an error: nothing is persisted or undone. *)
ReturnError == Stopped /\ UNCHANGED file

(* The step of the current stage that follows, with the values it needs. *)
Continue(step, left, n) ==
    /\ at' = step
    /\ todo' = left
    /\ polls' = n
    /\ failed' = FALSE
    /\ UNCHANGED <<stage, file>>

(* The stage succeeded with state s: set its flag, then persist. *)
Succeed(s) ==
    /\ mem' = [s EXCEPT !.done = @ \cup {stage}]
    /\ Continue("persist", {}, 0)

(* The process is about to do the work of stage s. *)
Enter(s) == stage = s /\ at = "enter" /\ s \notin mem.done

(* The process runs a loop or a fan-out over the instances of stage s. *)
Looping(s, step) == stage = s /\ at = step

-----------------------------------------------------------------------------
(* Mutant: a file that does not parse is taken for an absent one. *)
initDeployState_IgnoresParseError ==
    {s \in {newDeployState} : file.status # "saved"}
        \cup {s \in {file.state} : file.status = "saved"}

(* initDeployState, the states it may return: a new one when the file is   *)
(* absent, ignored or cannot be read, the parsed one when it parses, none  *)
(* (an error) when it does not.                                            *)
initDeployState ==
    {s \in {newDeployState} :
        file.status = "absent" \/ "ignore" \in Operator \/ "read" \in Fault}
    \cup {s \in {file.state} : file.status = "saved"}

Start ==
    /\ stage = Idle
    /\ stage' = Gather
    /\ mem' \in initDeployState
    /\ mem' = newDeployState => desired =< DesiredBound
    /\ UNCHANGED <<worldVars, at, todo, failed, polls, file>>

(* A stage whose flag is set is skipped. *)
Skip ==
    /\ stage \in Flag
    /\ at = "enter"
    /\ stage \in mem.done
    /\ stage' = stage + 1
    /\ UNCHANGED <<worldVars, at, mem, todo, failed, polls, file>>

(* getAsgInfo. *)
WithAsgInfo(s) ==
    [s EXCEPT !.capacity = desired, !.max = maxSize, !.original = members]

(* gatherASGInfo: the group is read; if it is not steady it is awaited. *)
GatherASGInfo ==
    /\ Enter(Gather)
    /\ \/ AtCapacity /\ Succeed(WithAsgInfo(mem))
       \/ ~AtCapacity /\ Continue("steady", {}, ensureMaxRetries(desired)) /\ UNCHANGED mem
    /\ UNCHANGED worldVars

(* ... and read a second time, without comparing the two numbers again. *)
RegatherASGInfo ==
    /\ Looping(Gather, "regather")
    /\ Succeed(WithAsgInfo(mem))
    /\ UNCHANGED worldVars

(* Mutants: one poll too many; a wait that does not give up. *)
Polling_OneTooMany == polls >= 0
TimedOut_Never == FALSE

(* The loop of a wait: `for i := 0; i < maxRetries; i++`. *)
Polling == polls > 0
TimedOut == polls = 0

(* waitForCapacity, one poll, on behalf of gatherASGInfo and of scaleUp. *)
WaitForCapacity ==
    /\ at \in {"steady", "capacity"}
    /\ \/ /\ Polling
          /\ AtCapacity
          /\ Continue(IF at = "steady" THEN "regather" ELSE "launched", {}, 0)
          /\ UNCHANGED mem
       \/ /\ Polling
          /\ ~AtCapacity
          /\ Continue(at, {}, polls - 1)
          /\ UNCHANGED mem
       \/ /\ TimedOut
          /\ ReturnError
    /\ UNCHANGED worldVars

(* Mutant: the max size is only raised when it is below today's capacity. *)
MaxTooSmall_ForOriginal == mem.max < mem.capacity

maxCapacityForUpdate == mem.capacity * 2
MaxTooSmall == mem.max < maxCapacityForUpdate

SetMaxCapacity ==
    /\ Enter(SetMax)
    /\ \/ ~MaxTooSmall /\ UNCHANGED worldVars
       \/ MaxTooSmall /\ UpdateMaxSize(maxCapacityForUpdate)
    /\ Succeed([mem EXCEPT !.updateMax = maxCapacityForUpdate])

(* setAsgCapacity, then the wait. *)
ScaleUpGroup ==
    /\ Enter(ScaleUp)
    /\ SetDesiredCapacity(mem.updateMax)
    /\ Continue("capacity", {}, ensureMaxRetries(mem.capacity))
    /\ UNCHANGED mem

(* AWS refuses a desired capacity above the max size. *)
ScaleUpRefused ==
    /\ Enter(ScaleUp)
    /\ mem.updateMax > maxSize
    /\ ReturnError
    /\ UNCHANGED worldVars

(* Mutant: the instances that were there before are not left out. *)
LaunchedInstanceIds_All(existing) == members

LaunchedInstanceIds(existing) == members \ existing

(* getLaunchedInstanceIds, a read of its own after the wait. *)
GetLaunchedInstanceIds ==
    /\ Looping(ScaleUp, "launched")
    /\ Succeed([mem EXCEPT !.new = LaunchedInstanceIds(mem.original)])
    /\ UNCHANGED worldVars

(* waitAndVerifyNewInstances: the instances are described, ... *)
DescribeNewInstances ==
    /\ Enter(WaitNodes)
    /\ Continue("ready", Reported(mem.new), ensureMaxRetries(mem.capacity))
    /\ UNCHANGED <<worldVars, mem>>

(* Mutant: one Ready node is enough. *)
AllNodesReady_Any == \E i \in todo : i \in ready

(* All the nodes are registered, and all of them are Ready. *)
AllNodesReady == todo \subseteq ready

(* ... WaitForNodesReady wants all their nodes Ready in one poll, ... *)
WaitForNodesReady ==
    /\ Looping(WaitNodes, "ready")
    /\ \/ Polling /\ AllNodesReady /\ Continue("lb", {}, 0) /\ UNCHANGED mem
       \/ /\ Polling
          /\ ~AllNodesReady
          /\ Continue("ready", todo, polls - 1)
          /\ UNCHANGED mem
       \/ TimedOut /\ ReturnError
    /\ UNCHANGED worldVars

(* ... and one of them is in service in every load balancer.  The wait is  *)
(* module LoadBalancers; here it succeeds, fails (CallFails) or hangs.     *)
WaitForLoadBalancers ==
    /\ Looping(WaitNodes, "lb")
    /\ Succeed(mem)
    /\ UNCHANGED worldVars

(* A goroutine of that wait whose query fails sends into the full channel, *)
(* and the stage never gets past its WaitGroup (elb.go:95-98).             *)
LoadBalancersHang ==
    /\ "api" \in Fault
    /\ Looping(WaitNodes, "lb")
    /\ Continue("hung", {}, 0)
    /\ UNCHANGED <<worldVars, mem>>

-----------------------------------------------------------------------------
(* cordonNodes and drainNodes: one goroutine for each described node. *)
StartFanOut ==
    /\ Enter(Cordon) \/ Enter(Drain)
    /\ Continue("node", Reported(mem.original), 0)
    /\ UNCHANGED <<worldVars, mem>>

(* Mutant: only the error of the last goroutine is kept. *)
NodeDone_LastError(i, err) ==
    /\ todo' = todo \ {i}
    /\ failed' = err
    /\ UNCHANGED <<stage, at, polls, mem, file>>

(* One goroutine's kubectl, whose failure is kept until all have ended. *)
NodeDone(i, err) ==
    /\ todo' = todo \ {i}
    /\ failed' = (failed \/ err)
    /\ UNCHANGED <<stage, at, polls, mem, file>>

CordonNode(i) ==
    /\ Looping(Cordon, "node")
    /\ i \in todo
    /\ \/ KubectlCordon(i) /\ NodeDone(i, FALSE)
       \/ i \notin ready /\ NodeDone(i, TRUE) /\ UNCHANGED worldVars

DrainNode(i) ==
    /\ Looping(Drain, "node")
    /\ i \in todo
    /\ \/ KubectlDrain(i) /\ NodeDone(i, FALSE)
       \/ i \notin ready /\ NodeDone(i, TRUE) /\ UNCHANGED worldVars

(* Mutant: the collected errors are not looked at. *)
FanOutDone_IgnoresErrors ==
    /\ at = "node"
    /\ todo = {}
    /\ Succeed(mem)
    /\ UNCHANGED worldVars

(* wg.Wait() returned: the collected errors decide. *)
FanOutDone ==
    /\ at = "node"
    /\ todo = {}
    /\ IF failed THEN ReturnError ELSE Succeed(mem)
    /\ UNCHANGED worldVars

-----------------------------------------------------------------------------
(* BatchListIntoGroupsOf: the next group is full unless it is the last. *)
NextBatch(size) ==
    {b \in SUBSET todo : Cardinality(b) = size \/ (b = todo /\ Cardinality(b) < size)} \ {{}}

(* detachInstances and terminateInstances loop over OriginalInstances. *)
StartBatches ==
    /\ Enter(Detach) \/ Enter(Terminate)
    /\ Continue("batch", mem.original, 0)
    /\ UNCHANGED <<worldVars, mem>>

(* A batch that AWS refuses ends the invocation. *)
DetachInstances ==
    /\ Looping(Detach, "batch")
    /\ \E batch \in NextBatch(DetachBatch) :
          \/ /\ DetachFromGroup(batch)
             /\ Continue("batch", todo \ batch, 0)
             /\ UNCHANGED mem
          \/ /\ ~Detachable(batch)
             /\ ReturnError
             /\ UNCHANGED worldVars

TerminateInstances ==
    /\ Looping(Terminate, "batch")
    /\ \E batch \in NextBatch(TerminateBatch) :
          /\ TerminateInEC2(batch)
          /\ Continue("batch", todo \ batch, 0)
    /\ UNCHANGED mem

(* The loop goes on after a batch that failed, whatever became of it. *)
TerminateFails ==
    /\ "api" \in Fault
    /\ Looping(Terminate, "batch")
    /\ \E batch \in NextBatch(TerminateBatch) :
          /\ TerminateInEC2(batch) \/ UNCHANGED worldVars
          /\ todo' = todo \ batch
          /\ failed' = AddError(failed, TRUE)
    /\ UNCHANGED <<stage, at, polls, mem, file>>

BatchesDone ==
    /\ at = "batch"
    /\ todo = {}
    /\ IF failed THEN ReturnError ELSE Succeed(mem)
    /\ UNCHANGED worldVars

(* restoreCapacity: persists without setting RestoreCapacityDone. *)
RestoreCapacity ==
    /\ Enter(Restore)
    /\ UpdateMaxSize(mem.max)
    /\ Continue("persist", {}, 0)
    /\ UNCHANGED mem

-----------------------------------------------------------------------------
(* persist: ioutil.WriteFile first truncates the file, ... *)
TruncateFile ==
    /\ at = "persist"
    /\ at' = "write"
    /\ file' = Corrupt
    /\ UNCHANGED <<worldVars, stage, mem, todo, failed, polls>>

(* ... then writes it, after which the next stage is entered. *)
WriteFile ==
    /\ at = "write"
    /\ file' = Saved(mem)
    /\ stage' = stage + 1
    /\ at' = "enter"
    /\ UNCHANGED <<worldVars, mem, todo, failed, polls>>

(* Opening or writing the file fails; the invocation returns the error. *)
PersistFails ==
    /\ "disk" \in Fault
    /\ at \in {"persist", "write"}
    /\ ReturnError
    /\ UNCHANGED worldVars

(* delete: an error is only logged, and the invocation succeeds. *)
DeleteFile ==
    /\ stage = Delete
    /\ Stopped
    /\ \/ file' = Absent
       \/ "disk" \in Fault /\ UNCHANGED file
    /\ UNCHANGED worldVars

(* A read, or a call that is refused before it has any effect, fails. *)
CallFails ==
    /\ "api" \in Fault
    /\ \/ at \in {"steady", "regather", "capacity", "launched", "ready", "lb"}
       \/ \E s \in {Gather, ScaleUp, WaitNodes, Cordon, Drain, Restore} : Enter(s)
       \/ Enter(SetMax) /\ MaxTooSmall
       \/ Looping(Detach, "batch") /\ todo # {}
    /\ ReturnError
    /\ UNCHANGED worldVars

(* A call took effect although the caller sees an error. *)
ReplyLost ==
    /\ "api" \in Fault
    /\ \/ Enter(SetMax) /\ MaxTooSmall /\ UpdateMaxSize(maxCapacityForUpdate)
       \/ Enter(ScaleUp) /\ SetDesiredCapacity(mem.updateMax)
       \/ Looping(Detach, "batch") /\ \E batch \in NextBatch(DetachBatch) : DetachFromGroup(batch)
       \/ Enter(Restore) /\ UpdateMaxSize(mem.max)
    /\ ReturnError

(* kubectl fails for a node; a drain may have cordoned it, or evicted all. *)
NodeCallFails(i) ==
    /\ "api" \in Fault
    /\ at = "node"
    /\ i \in todo
    /\ \/ UNCHANGED worldVars
       \/ KubectlCordon(i)
       \/ stage = Drain /\ KubectlDrain(i)
    /\ NodeDone(i, TRUE)

(* The process is killed. *)
Crash ==
    /\ "crash" \in Fault
    /\ stage # Idle
    /\ Stopped
    /\ UNCHANGED <<worldVars, file>>

(* The operator removes the recovery file by hand. *)
RemoveFile ==
    /\ "remove" \in Operator
    /\ stage = Idle
    /\ file.status # "absent"
    /\ file' = Absent
    /\ UNCHANGED <<worldVars, ctlVars, mem>>

(* `terraform apply` between two invocations restores the configured max. *)
ApplyTerraform ==
    /\ "apply" \in Operator
    /\ stage = Idle
    /\ UpdateMaxSize(MaxSize)
    /\ UNCHANGED <<ctlVars, mem, file>>

-----------------------------------------------------------------------------
(* What the process does when nothing outside it interferes. *)
Process ==
    \/ Skip
    \/ GatherASGInfo \/ RegatherASGInfo \/ WaitForCapacity
    \/ SetMaxCapacity
    \/ ScaleUpGroup \/ ScaleUpRefused \/ GetLaunchedInstanceIds
    \/ DescribeNewInstances \/ WaitForNodesReady \/ WaitForLoadBalancers
    \/ StartFanOut \/ (\E i \in Instance : CordonNode(i) \/ DrainNode(i)) \/ FanOutDone
    \/ StartBatches \/ DetachInstances \/ TerminateInstances \/ BatchesDone
    \/ RestoreCapacity
    \/ TruncateFile \/ WriteFile \/ DeleteFile

World == WorldNext /\ UNCHANGED <<ctlVars, mem, file>>

(* What faults and the operator do to it. *)
Interference ==
    \/ PersistFails \/ CallFails \/ ReplyLost \/ TerminateFails \/ LoadBalancersHang
    \/ \E i \in Instance : NodeCallFails(i)
    \/ Crash
    \/ RemoveFile \/ ApplyTerraform

Next == Start \/ Process \/ Interference \/ World

Spec == Init /\ [][Next]_vars

-----------------------------------------------------------------------------
(* The states a process has, or would load: its memory and a good file. *)
Known == {mem} \cup (IF file.status = "saved" THEN {file.state} ELSE {})

(***************************************************************************)
(* What the flags of a loaded state promise is so in the cluster, whatever *)
(* crash or lost reply came in between: the running old workers are        *)
(* cordoned once CordonNodesDone, run no Pods once DrainNodesDone and have *)
(* left the group once DetachInstancesDone (deploy_state.go:245-300).      *)
(***************************************************************************)
CheckpointsHold ==
    \A s \in Known :
        /\ Cordon \in s.done => s.original \cap running \subseteq cordoned
        /\ Drain \in s.done  => s.original \cap pods = {}
        /\ Detach \in s.done => s.original \cap members = {}

(***************************************************************************)
(* No instance is detached or terminated while workload Pods run on it:    *)
(* the stages at deploy_state.go:285 and :303 only touch drained workers.  *)
(***************************************************************************)
NoWorkloadRemoved ==
    stage \in {Detach, Terminate} => todo \cap pods = {}

(***************************************************************************)
(* Zero downtime (deploy.go:18): from the first cordoned node on, the      *)
(* group has as many Ready and schedulable workers as before the roll out, *)
(* at every step, across crashes and restarts.                             *)
(***************************************************************************)
ZeroDowntime ==
    cordoned # {} => Cardinality((members \cap ready) \ cordoned) >= Capacity

(***************************************************************************)
(* Only the old workers of the group are cordoned: neither the new ones    *)
(* nor the workers of other groups (deploy_state.go:246).                  *)
(***************************************************************************)
OnlyOldCordoned ==
    cordoned \cap (Other \cup mem.new) = {}

(***************************************************************************)
(* When an invocation is about to report success, the group has the size   *)
(* and the max size it had before the roll out and no old worker is left   *)
(* in it: a restarted invocation never takes the doubled group for the     *)
(* original one (deploy.go:27, deploy_state.go:126-128).                   *)
(***************************************************************************)
RestoredOnSuccess ==
    stage = Delete =>
        /\ desired = Capacity
        /\ maxSize = MaxSize
        /\ mem.original \cap members = {}

(***************************************************************************)
(* Between setMaxCapacity and the end of the replacement the group may     *)
(* grow to the capacity scaleUp asks for (deploy_state.go:186, :215).      *)
(***************************************************************************)
MaxSizeRaised ==
    \A s \in Known :
        (SetMax \in s.done /\ Terminate \notin s.done) => s.updateMax =< maxSize

-----------------------------------------------------------------------------
(***************************************************************************)
(* Fairness.  A running process takes its next step unless it hangs: every *)
(* other wait of the code sleeps for a bounded time.  The group launches   *)
(* the instances it wants and they become Ready.  After an invocation that *)
(* did not delete the recovery file, the operator starts another.          *)
(***************************************************************************)
Fairness ==
    /\ WF_vars(Process)
    /\ WF_vars((\E i \in Instance : Launch(i) \/ BecomeReady(i)) /\ UNCHANGED <<ctlVars, mem, file>>)
    /\ WF_vars(Start)

FairSpec == Spec /\ Fairness

(***************************************************************************)
(* An invocation returns, however its waits go and its calls fail          *)
(* (asg.go:189, node.go:32), unless the wait for the load balancers hangs  *)
(* (elb.go:95-98, module LoadBalancers): that one does not end by itself.  *)
(***************************************************************************)
InvocationEnds == (stage # Idle) ~> (stage = Idle \/ at = "hung")

(* From some time on, nothing interferes with the process any more. *)
FaultsStop == <>[][Start \/ Process \/ World]_vars

(* A stopped roll out whose file loads and whose old workers are either    *)
(* all in the group, or recorded as detached.                              *)
Recoverable ==
    stage = Idle =>
        /\ file.status # "corrupt"
        /\ (Gather \in file.state.done /\ Detach \notin file.state.done) =>
               file.state.original \subseteq members

(* The operator kills a process that hangs before starting the command     *)
(* again: it ends no other way.                                            *)
HangsAreKilled == []<>(at # "hung")

(***************************************************************************)
(* A roll out that failed is resumed from its last successful stage and    *)
(* completes once nothing fails any more (README.md:267), unless it        *)
(* stopped in one of the two places the code cannot resume from: a half    *)
(* written file, a half detached group.  An invocation that hangs in the   *)
(* load balancer wait has to be killed first.                              *)
(***************************************************************************)
ResumesUnlessStranded ==
    (FaultsStop /\ HangsAreKilled /\ []Recoverable) => <>(stage = Delete)

(* Success means the old workers are gone (deploy.go:27, README.md:249). *)
OldTerminatedOnSuccess == stage = Delete => mem.original \cap running = {}
=============================================================================
