---------------------------- MODULE DeployProofs ----------------------------
(***************************************************************************)
(* Proofs about module Deploy, for any set of instances, any capacity, any *)
(* number of retries, any batch size and any combination of faults: types, *)
(* checkpoints, the max size, who is cordoned, zero downtime, that Deploy  *)
(* implements WorkerReplacement, and the size the group ends with.         *)
(***************************************************************************)
EXTENDS DeployRefinement, FiniteSetTheorems, TLAPS

(* The number of instances of a set is a number, and does not grow when    *)
(* instances are taken out of it.                                          *)
LEMMA Cardinalities ==
    ASSUME NEW S \in SUBSET Instance
    PROVE  Cardinality(S) \in Nat
<1>1. IsFiniteSet(Instance)
  BY WorkersAssumption
<1>2. IsFiniteSet(S)
  BY <1>1, FS_Subset
<1> QED
  BY <1>2, FS_CardinalityType

-----------------------------------------------------------------------------
(***************************************************************************)
(* Type correctness, first of the world, whatever moves it.                *)
(***************************************************************************)
LEMMA WorldInitType == WorldInit => WorldTypeOK
BY WorkersAssumption DEF WorldInit, WorldTypeOK

(* Each step of the cluster, and each call of an API, keeps the types.     *)
LEMMA WorldStepType == WorldTypeOK /\ WorldNext => WorldTypeOK'
<1> SUFFICES ASSUME WorldTypeOK, NEW i \in Instance,
                    Launch(i) \/ BecomeReady(i) \/ Schedule(i) \/ ScaleIn(i) \/ InstanceFails(i)
             PROVE  WorldTypeOK'
  BY DEF WorldNext
<1> USE DEF WorldTypeOK, asgVars, nodeVars, Terminated
<1>1. CASE Launch(i)
  BY <1>1 DEF Launch
<1>2. CASE BecomeReady(i)
  BY <1>2 DEF BecomeReady
<1>3. CASE Schedule(i)
  BY <1>3 DEF Schedule
<1>4. CASE ScaleIn(i)
  BY <1>4 DEF ScaleIn
<1>5. CASE InstanceFails(i)
  BY <1>5 DEF InstanceFails
<1> QED
  BY <1>1, <1>2, <1>3, <1>4, <1>5

LEMMA UpdateMaxSizeType ==
    ASSUME WorldTypeOK, NEW n \in Nat, UpdateMaxSize(n)
    PROVE  WorldTypeOK'
BY DEF WorldTypeOK, UpdateMaxSize, nodeVars

LEMMA SetDesiredCapacityType ==
    ASSUME WorldTypeOK, NEW n \in Nat, SetDesiredCapacity(n)
    PROVE  WorldTypeOK'
BY DEF WorldTypeOK, SetDesiredCapacity, nodeVars

LEMMA DetachFromGroupType ==
    ASSUME WorldTypeOK, NEW batch, DetachFromGroup(batch)
    PROVE  WorldTypeOK'
<1>1. batch \subseteq members /\ batch \in SUBSET Instance
  BY DEF DetachFromGroup, Detachable, WorldTypeOK
<1>2. Cardinality(batch) \in Nat /\ Cardinality(batch) =< desired
  BY <1>1, Cardinalities DEF DetachFromGroup, Detachable
<1>3. desired - Cardinality(batch) \in Nat
  BY <1>2 DEF WorldTypeOK
<1> QED
  BY <1>3 DEF WorldTypeOK, DetachFromGroup, nodeVars

LEMMA TerminateInEC2Type ==
    ASSUME WorldTypeOK, NEW batch, TerminateInEC2(batch)
    PROVE  WorldTypeOK'
BY DEF WorldTypeOK, TerminateInEC2, Terminated, asgVars

LEMMA KubectlType ==
    ASSUME WorldTypeOK, NEW i \in Instance, KubectlCordon(i) \/ KubectlDrain(i)
    PROVE  WorldTypeOK'
BY DEF WorldTypeOK, KubectlCordon, KubectlDrain, asgVars

LEMMA StutterType ==
    ASSUME WorldTypeOK, UNCHANGED worldVars
    PROVE  WorldTypeOK'
BY DEF WorldTypeOK, worldVars

(* Every change a step of Deploy makes to the world.                        *)
WorldChange ==
    \/ UNCHANGED worldVars
    \/ WorldNext
    \/ \E n \in Nat : UpdateMaxSize(n) \/ SetDesiredCapacity(n)
    \/ \E batch \in SUBSET Instance : DetachFromGroup(batch) \/ TerminateInEC2(batch)
    \/ \E i \in Instance : KubectlCordon(i) \/ KubectlDrain(i)

LEMMA WorldChangeType == WorldTypeOK /\ WorldChange => WorldTypeOK'
BY WorldStepType, UpdateMaxSizeType, SetDesiredCapacityType, DetachFromGroupType,
   TerminateInEC2Type, KubectlType, StutterType DEF WorldChange

(* ... and there is no other.                                               *)
LEMMA OnlyWorldChanges == TypeOK /\ [Next]_vars => WorldChange
<1> SUFFICES ASSUME TypeOK, [Next]_vars PROVE WorldChange
  OBVIOUS
<1>0. mem \in DeployState /\ todo \in SUBSET Instance
  BY DEF TypeOK
<1>1. /\ mem.updateMax \in Nat
      /\ mem.max \in Nat
      /\ maxCapacityForUpdate \in Nat
      /\ MaxSize \in Nat
  BY <1>0, WorkersAssumption DEF DeployState, maxCapacityForUpdate
<1>2. \A n : NextBatch(n) \subseteq SUBSET Instance
  BY <1>0 DEF NextBatch
<1>3. CASE Start
  BY <1>3 DEF Start, WorldChange
<1>4. CASE Process
  BY <1>1, <1>2, <1>4 DEF Process, WorldChange, Skip, GatherASGInfo, RegatherASGInfo,
     WaitForCapacity, SetMaxCapacity, ScaleUpGroup, ScaleUpRefused,
     GetLaunchedInstanceIds, DescribeNewInstances, WaitForNodesReady,
     WaitForLoadBalancers, StartFanOut, CordonNode, DrainNode, FanOutDone,
     StartBatches, DetachInstances, TerminateInstances, BatchesDone,
     RestoreCapacity, TruncateFile, WriteFile, DeleteFile
<1>5. CASE Interference
  BY <1>1, <1>2, <1>5 DEF Interference, WorldChange, PersistFails, CallFails, ReplyLost,
     TerminateFails, LoadBalancersHang, NodeCallFails, Crash, RemoveFile, ApplyTerraform
<1>6. CASE World
  BY <1>6 DEF World, WorldChange
<1>7. CASE UNCHANGED vars
  BY <1>7 DEF vars, WorldChange
<1> QED
  BY <1>3, <1>4, <1>5, <1>6, <1>7 DEF Next

-----------------------------------------------------------------------------
(***************************************************************************)
(* Type correctness of the process and of the recovery file.               *)
(***************************************************************************)
(* The steps of a stage: which of them the process may be at.              *)
StepFits(step, s) ==
    /\ step \in {"steady", "regather"} => s = Gather
    /\ step \in {"capacity", "launched"} => s = ScaleUp
    /\ step \in {"ready", "lb", "hung"} => s = WaitNodes
    /\ step = "node" => s \in {Cordon, Drain}
    /\ step = "batch" => s \in {Detach, Terminate}
    /\ s \notin Flag => step = "enter"

ControlTypeOK ==
    /\ StepFits(at, stage)
    /\ stage \in Idle .. Delete
    /\ at \in Step
    /\ mem \in DeployState
    /\ todo \subseteq Instance
    /\ failed \in BOOLEAN
    /\ polls \in Nat
    /\ file \in File

LEMMA NewDeployStateType == newDeployState \in DeployState
BY DEF newDeployState, DeployState, Flag

LEMMA FileType ==
    /\ Absent \in File
    /\ Corrupt \in File
    /\ \A s \in DeployState : Saved(s) \in File
BY NewDeployStateType DEF File, Absent, Corrupt, Saved

LEMMA StoppedType == Stopped /\ file' \in File => ControlTypeOK'
<1> SUFFICES ASSUME Stopped, file' \in File PROVE ControlTypeOK'
  OBVIOUS
<1>1. mem' \in DeployState
  BY NewDeployStateType DEF Stopped
<1>2. stage' \in Idle .. Delete /\ at' \in Step /\ polls' \in Nat
  BY DEF Stopped, Idle, Delete, Step
<1>3. todo' \subseteq Instance /\ failed' \in BOOLEAN
  BY DEF Stopped
<1>4. StepFits(at', stage')
  BY DEF Stopped, StepFits, Idle, Flag, Gather
<1> QED
  BY <1>1, <1>2, <1>3, <1>4 DEF ControlTypeOK

LEMMA RetriesType ==
    ASSUME NEW n \in Nat PROVE ensureMaxRetries(n) \in Nat
<1>1. (n + WaveSize - 1) \div WaveSize \in Nat
  BY DeployAssumption
<1> QED
  BY <1>1, DeployAssumption DEF ensureMaxRetries, getDefaultMaxRetries

LEMMA SucceedType ==
    ASSUME ControlTypeOK, stage \in Flag, NEW s \in DeployState, Succeed(s)
    PROVE  ControlTypeOK'
BY DEF ControlTypeOK, Succeed, Continue, DeployState, Step, StepFits

LEMMA ContinueType ==
    ASSUME ControlTypeOK, NEW step \in Step, NEW left \in SUBSET Instance, NEW n \in Nat,
           StepFits(step, stage), Continue(step, left, n), mem' = mem
    PROVE  ControlTypeOK'
BY DEF ControlTypeOK, Continue

LEMMA ReturnErrorType == ControlTypeOK /\ ReturnError => ControlTypeOK'
BY StoppedType DEF ReturnError, ControlTypeOK

LEMMA ProcessType ==
    ASSUME WorldTypeOK, ControlTypeOK, Process
    PROVE  ControlTypeOK'
<1>0. /\ mem \in DeployState
      /\ desired \in Nat /\ polls \in Nat /\ mem.capacity \in Nat
      /\ members \in SUBSET Instance /\ running \in SUBSET Instance
      /\ mem.original \in SUBSET Instance /\ mem.new \in SUBSET Instance
      /\ {} \in SUBSET Instance /\ todo \in SUBSET Instance
      /\ 0 \in Nat
  BY DEF WorldTypeOK, ControlTypeOK, DeployState
<1>1. \A s \in {Gather, SetMax, ScaleUp, WaitNodes, Cordon, Drain, Detach, Terminate, Restore} :
         s \in Flag /\ StepFits("persist", s)
  BY DEF Gather, SetMax, ScaleUp, WaitNodes, Cordon, Drain, Detach, Terminate, Restore,
         Flag, StepFits
<1>2. /\ StepFits("steady", Gather) /\ StepFits("regather", Gather)
      /\ StepFits("capacity", ScaleUp) /\ StepFits("launched", ScaleUp)
      /\ StepFits("ready", WaitNodes) /\ StepFits("lb", WaitNodes)
      /\ StepFits("node", Cordon) /\ StepFits("node", Drain)
      /\ StepFits("batch", Detach) /\ StepFits("batch", Terminate)
      /\ StepFits(at, stage)
  BY <1>1 DEF StepFits, ControlTypeOK
<1>3. \A n \in Nat : ensureMaxRetries(n) \in Nat
  BY RetriesType
<1>4. \A ids \in SUBSET Instance : Reported(ids) \in SUBSET Instance
  BY <1>0 DEF Reported
<1>5. /\ "steady" \in Step /\ "regather" \in Step /\ "capacity" \in Step
      /\ "launched" \in Step /\ "ready" \in Step /\ "lb" \in Step /\ "node" \in Step
      /\ "batch" \in Step /\ "persist" \in Step
  BY DEF Step
<1>6. Polling => polls - 1 \in Nat
  BY <1>0 DEF Polling
<1> USE <1>0, <1>1, <1>2, <1>5
<1>a. CASE Skip
  BY <1>a DEF Skip, ControlTypeOK, StepFits, Flag, Gather, Restore, Idle, Delete
<1>b. CASE GatherASGInfo \/ RegatherASGInfo
  <2>1. WithAsgInfo(mem) \in DeployState
    BY DEF WithAsgInfo, DeployState, WorldTypeOK
  <2> QED
    BY <1>b, <2>1, <1>3, SucceedType, ContinueType
       DEF GatherASGInfo, RegatherASGInfo, Enter, Looping
<1>c. CASE WaitForCapacity
  <2>1. CASE at = "steady"
    BY <1>c, <2>1, <1>6, ContinueType, ReturnErrorType DEF WaitForCapacity, StepFits
  <2>2. CASE at = "capacity"
    BY <1>c, <2>2, <1>6, ContinueType, ReturnErrorType DEF WaitForCapacity, StepFits
  <2> QED
    BY <1>c, <2>1, <2>2 DEF WaitForCapacity
<1>d. CASE SetMaxCapacity
  <2>1. [mem EXCEPT !.updateMax = maxCapacityForUpdate] \in DeployState
    BY DEF maxCapacityForUpdate, DeployState
  <2> QED
    BY <1>d, <2>1, SucceedType DEF SetMaxCapacity, Enter
<1>e. CASE ScaleUpGroup \/ ScaleUpRefused
  BY <1>e, <1>3, ContinueType, ReturnErrorType DEF ScaleUpGroup, ScaleUpRefused, Enter
<1>f. CASE GetLaunchedInstanceIds
  <2>1. [mem EXCEPT !.new = LaunchedInstanceIds(mem.original)] \in DeployState
    BY DEF LaunchedInstanceIds, DeployState
  <2> QED
    BY <1>f, <2>1, SucceedType DEF GetLaunchedInstanceIds, Looping
<1>g. CASE DescribeNewInstances
  BY <1>g, <1>3, <1>4, ContinueType DEF DescribeNewInstances, Enter
<1>h. CASE WaitForNodesReady
  BY <1>h, <1>6, ContinueType, ReturnErrorType DEF WaitForNodesReady, Looping
<1>i. CASE WaitForLoadBalancers
  BY <1>i, SucceedType DEF WaitForLoadBalancers, Looping
<1>j. CASE StartFanOut
  BY <1>j, <1>4, ContinueType DEF StartFanOut, Enter
<1>k. CASE \E i \in Instance : CordonNode(i) \/ DrainNode(i)
  <2>1. PICK i \in Instance, err \in BOOLEAN : NodeDone(i, err)
    BY <1>k DEF CordonNode, DrainNode
  <2> QED
    BY <2>1 DEF NodeDone, ControlTypeOK
<1>l. CASE FanOutDone \/ BatchesDone
  <2>1. stage \in Flag
    BY <1>l DEF FanOutDone, BatchesDone, StepFits
  <2> QED
    BY <1>l, <2>1, SucceedType, ReturnErrorType DEF FanOutDone, BatchesDone
<1>m. CASE StartBatches
  BY <1>m, ContinueType DEF StartBatches, Enter
<1>n. CASE DetachInstances \/ TerminateInstances
  <2>1. CASE ReturnError
    BY <2>1, ReturnErrorType
  <2>2. CASE ~ReturnError
    <3>1. PICK batch : Continue("batch", todo \ batch, 0) /\ mem' = mem
      BY <1>n, <2>2 DEF DetachInstances, TerminateInstances
    <3>2. StepFits("batch", stage)
      BY <1>n DEF DetachInstances, TerminateInstances, Looping
    <3>3. todo \ batch \in SUBSET Instance
      OBVIOUS
    <3> QED
      BY <3>1, <3>2, <3>3, ContinueType
  <2> QED
    BY <2>1, <2>2
<1>o. CASE RestoreCapacity
  BY <1>o, ContinueType DEF RestoreCapacity, Enter
<1>p. CASE TruncateFile
  <2>1. stage \in Flag
    BY <1>p DEF TruncateFile, StepFits
  <2>2. StepFits("write", stage) /\ "write" \in Step
    BY <2>1 DEF StepFits, Step
  <2> QED
    BY <1>p, <2>2, FileType DEF TruncateFile, ControlTypeOK
<1>q. CASE WriteFile
  <2>1. stage \in Flag
    BY <1>q DEF WriteFile, StepFits
  <2>2. StepFits("enter", stage + 1) /\ "enter" \in Step /\ stage + 1 \in Idle .. Delete
    BY <2>1 DEF StepFits, Step, Flag, Gather, Restore, Idle, Delete
  <2> QED
    BY <1>q, <2>2, FileType DEF WriteFile, ControlTypeOK
<1>r. CASE DeleteFile
  BY <1>r, StoppedType, FileType DEF DeleteFile, ControlTypeOK
<1> QED
  BY <1>a, <1>b, <1>c, <1>d, <1>e, <1>f, <1>g, <1>h, <1>i, <1>j, <1>k, <1>l, <1>m, <1>n,
     <1>o, <1>p, <1>q, <1>r DEF Process

LEMMA InterferenceType ==
    ASSUME ControlTypeOK, Interference
    PROVE  ControlTypeOK'
<1>1. CASE PersistFails \/ CallFails \/ ReplyLost
  BY <1>1, ReturnErrorType DEF PersistFails, CallFails, ReplyLost
<1>2. CASE TerminateFails
  BY <1>2 DEF TerminateFails, AddError, ControlTypeOK
<1>3. CASE \E i \in Instance : NodeCallFails(i)
  BY <1>3 DEF NodeCallFails, NodeDone, ControlTypeOK
<1>4. CASE Crash
  BY <1>4, StoppedType DEF Crash, ControlTypeOK
<1>5. CASE RemoveFile \/ ApplyTerraform
  BY <1>5, FileType DEF RemoveFile, ApplyTerraform, ctlVars, ControlTypeOK
<1>6. CASE LoadBalancersHang
  <2>1. stage = WaitNodes /\ mem' = mem /\ Continue("hung", {}, 0)
    BY <1>6 DEF LoadBalancersHang, Looping
  <2>2. StepFits("hung", WaitNodes) /\ "hung" \in Step
    BY DEF StepFits, Step, WaitNodes, Flag, Gather, Restore
  <2> QED
    BY <2>1, <2>2, ContinueType
<1> QED
  BY <1>1, <1>2, <1>3, <1>4, <1>5, <1>6 DEF Interference

LEMMA StartType == ControlTypeOK /\ Start => ControlTypeOK'
<1> SUFFICES ASSUME ControlTypeOK, Start PROVE ControlTypeOK'
  OBVIOUS
<1>1. initDeployState \subseteq DeployState
  BY NewDeployStateType DEF initDeployState, ControlTypeOK, File
<1>2. at = "enter"
  BY DEF Start, ControlTypeOK, StepFits, Idle, Flag, Gather
<1> QED
  BY <1>1, <1>2 DEF Start, ControlTypeOK, StepFits, Idle, Delete, Gather, Flag

LEMMA ControlStutterType == ControlTypeOK /\ UNCHANGED <<ctlVars, mem, file>> => ControlTypeOK'
BY DEF ControlTypeOK, ctlVars

(***************************************************************************)
(* TypeOK alone is not inductive: that a stage only reaches its own steps  *)
(* is needed to know that a flag that is set is one of the nine.           *)
(***************************************************************************)
TypeInv == WorldTypeOK /\ ControlTypeOK

LEMMA TypeInvStep == TypeInv /\ [Next]_vars => TypeInv'
<1> SUFFICES ASSUME TypeInv, [Next]_vars PROVE TypeInv'
  OBVIOUS
<1>1. TypeOK
  BY DEF TypeInv, TypeOK, ControlTypeOK
<1>2. WorldTypeOK'
  BY <1>1, OnlyWorldChanges, WorldChangeType DEF TypeInv
<1>3. ControlTypeOK'
  BY StartType, ProcessType, InterferenceType, ControlStutterType
     DEF TypeInv, Next, World, vars
<1> QED
  BY <1>2, <1>3 DEF TypeInv

LEMMA InitType == Init => TypeInv
<1> SUFFICES ASSUME Init PROVE TypeInv
  OBVIOUS
<1>1. StepFits(at, stage)
  BY DEF Init, StepFits
<1>2. stage \in Idle .. Delete /\ at \in Step /\ polls \in Nat
  BY DEF Init, Step, Idle, Delete
<1>3. mem \in DeployState /\ file \in File
  BY NewDeployStateType, FileType DEF Init
<1>4. todo \subseteq Instance /\ failed \in BOOLEAN /\ WorldTypeOK
  BY WorldInitType DEF Init
<1> QED
  BY <1>1, <1>2, <1>3, <1>4 DEF TypeInv, ControlTypeOK

(* The strengthened type invariant is one.                                 *)
THEOREM TypeInvariant == Spec => []TypeInv
BY InitType, TypeInvStep, PTL DEF Spec

(***************************************************************************)
(* Every variable of the roll out, in memory, on disk and in the cluster,  *)
(* stays in its type.                                                      *)
(***************************************************************************)
THEOREM TypeCorrect == Spec => []TypeOK
<1>1. TypeInv => TypeOK
  BY DEF TypeInv, TypeOK, ControlTypeOK
<1> QED
  BY <1>1, TypeInvariant, PTL

-----------------------------------------------------------------------------
(***************************************************************************)
(* The inductive invariant behind CheckpointsHold and NoWorkloadRemoved.   *)
(* A state is sound when its flags are true of the cluster, and remain so  *)
(* whatever the cluster does: old workers are known to have been launched, *)
(* so that none is launched again, and are cordoned, so that no Pod comes  *)
(* back to them.                                                           *)
(***************************************************************************)
Sound(s) ==
    /\ s.original \subseteq launched
    /\ s.done # {} => Gather \in s.done
    /\ (Cordon \in s.done \/ Drain \in s.done) => s.original \cap running \subseteq cordoned
    /\ Drain \in s.done => s.original \cap pods = {}
    /\ Detach \in s.done => s.original \cap members = {}

(* A stage is entered once the flags of all stages before it are set.      *)
Progress ==
    /\ \A s \in Gather .. Terminate : s < stage => s \in mem.done
    /\ (at \in {"persist", "write"} /\ stage # Restore) => stage \in mem.done
    /\ at \in {"steady", "regather"} => Gather \notin mem.done

(* What a loop has achieved for the instances it is done with.             *)
Loops ==
    /\ at \notin {"ready", "node", "batch"} => todo = {}
    /\ at = "batch" => todo \subseteq mem.original
    /\ (stage = Cordon /\ at = "node" /\ ~failed) =>
           (mem.original \cap running) \ todo \subseteq cordoned
    /\ (stage = Drain /\ at = "node" /\ ~failed) => mem.original \cap pods \subseteq todo
    /\ (stage = Detach /\ at = "batch") => mem.original \cap members \subseteq todo

CheckpointInv ==
    /\ TypeInv
    /\ Sound(mem)
    /\ Sound(file.state)
    /\ Progress
    /\ Loops

(* What no change of the world does to an instance that was launched.      *)
NoReturn ==
    /\ launched \subseteq launched'
    /\ running' \cap launched \subseteq running
    /\ members' \cap launched \subseteq members
    /\ cordoned \cap running' \subseteq cordoned'
    /\ pods' \subseteq pods \cup (ready \ cordoned)

LEMMA WorldChangeNoReturn == WorldTypeOK /\ WorldChange => NoReturn
<1> SUFFICES ASSUME WorldTypeOK, WorldChange PROVE NoReturn
  OBVIOUS
<1> USE DEF WorldTypeOK, NoReturn, asgVars, nodeVars, Terminated
<1>1. CASE UNCHANGED worldVars
  BY <1>1 DEF worldVars
<1>2. CASE WorldNext
  <2>1. PICK i \in Instance :
           Launch(i) \/ BecomeReady(i) \/ Schedule(i) \/ ScaleIn(i) \/ InstanceFails(i)
    BY <1>2 DEF WorldNext
  <2>2. CASE Launch(i)
    BY <2>2 DEF Launch
  <2>3. CASE BecomeReady(i)
    BY <2>3 DEF BecomeReady
  <2>4. CASE Schedule(i)
    BY <2>4 DEF Schedule
  <2>5. CASE ScaleIn(i)
    BY <2>5 DEF ScaleIn
  <2>6. CASE InstanceFails(i)
    BY <2>6 DEF InstanceFails
  <2> QED
    BY <2>1, <2>2, <2>3, <2>4, <2>5, <2>6
<1>3. CASE \E n \in Nat : UpdateMaxSize(n) \/ SetDesiredCapacity(n)
  BY <1>3 DEF UpdateMaxSize, SetDesiredCapacity
<1>4. CASE \E batch \in SUBSET Instance : DetachFromGroup(batch) \/ TerminateInEC2(batch)
  BY <1>4 DEF DetachFromGroup, TerminateInEC2
<1>5. CASE \E i \in Instance : KubectlCordon(i) \/ KubectlDrain(i)
  BY <1>5 DEF KubectlCordon, KubectlDrain
<1> QED
  BY <1>1, <1>2, <1>3, <1>4, <1>5 DEF WorldChange

(* A sound state stays sound.                                              *)
LEMMA SoundStable ==
    ASSUME NEW s, Sound(s), WorldTypeOK, NoReturn
    PROVE  Sound(s)'
BY DEF Sound, WorldTypeOK, NoReturn

LEMMA NewStateSound == Sound(newDeployState)
BY DEF Sound, newDeployState

LEMMA NewStateSoundNext == Sound(newDeployState)'
BY DEF Sound, newDeployState

(* The process stops: there is nothing left to be wrong about.             *)
LEMMA StoppedInv == Stopped => Sound(mem)' /\ Progress' /\ Loops'
BY NewStateSoundNext DEF Stopped, Progress, Loops, Sound, Idle, Gather, Terminate,
   Cordon, Drain, Detach

(* The current stage succeeds with state s, whose flag is then sound.      *)
LEMMA SucceedInv ==
    ASSUME CheckpointInv, stage \in Flag, NEW s \in DeployState, Succeed(s), Sound(s)',
           s.done = mem.done,
           stage = Cordon => (s.original \cap running \subseteq cordoned)',
           stage = Drain => (s.original \cap running \subseteq cordoned /\ s.original \cap pods = {})',
           stage = Detach => (s.original \cap members = {})'
    PROVE  Sound(mem)' /\ Progress' /\ Loops'
<1>1. mem' = [s EXCEPT !.done = @ \cup {stage}] /\ stage' = stage /\ at' = "persist" /\ todo' = {}
  BY DEF Succeed, Continue
<1>2. mem'.done = mem.done \cup {stage} /\ mem'.original = s.original
  BY <1>1 DEF DeployState
<1>3. Gather \in mem'.done
  BY <1>2 DEF CheckpointInv, Progress, Flag, Gather, Restore, Terminate
<1>4. Sound(mem)'
  BY <1>2, <1>3 DEF Sound, Cordon, Drain, Detach
<1>5. Progress'
  BY <1>1, <1>2 DEF CheckpointInv, Progress
<1>6. Loops'
  BY <1>1 DEF Loops
<1> QED
  BY <1>4, <1>5, <1>6

(* A step outside the loops changes neither flags nor old workers.         *)
LEMMA ContinueInv ==
    ASSUME CheckpointInv, Sound(mem)', NEW step, NEW left, NEW n,
           Continue(step, left, n), mem' = mem,
           step \in {"steady", "capacity", "regather", "launched", "ready", "lb", "hung"},
           step \in {"regather", "steady"} => Gather \notin mem.done,
           step # "ready" => left = {}
    PROVE  Sound(mem)' /\ Progress' /\ Loops'
BY DEF Continue, CheckpointInv, Progress, Loops

(* What a loop achieved is not undone while the process does nothing.      *)
LEMMA LoopsStable ==
    ASSUME CheckpointInv, NoReturn, WorldTypeOK',
           stage' = stage, at' = at, todo' = todo, failed' = failed, mem' = mem
    PROVE  Progress' /\ Loops'
<1>1. Progress'
  BY DEF CheckpointInv, Progress
<1>2. (stage = Drain /\ at = "node") => mem.original \cap running \subseteq cordoned
  BY DEF CheckpointInv, Progress, Sound, Drain, Cordon, Gather, Terminate
<1>3. mem.original \subseteq launched
  BY DEF CheckpointInv, Sound
<1> QED
  BY <1>1, <1>2, <1>3 DEF CheckpointInv, TypeInv, WorldTypeOK, Loops, NoReturn

LEMMA NodeDoneInv ==
    ASSUME CheckpointInv, NoReturn, Sound(mem)', NEW i, NEW err \in BOOLEAN,
           at = "node", NodeDone(i, err),
           (stage = Cordon /\ ~err) => i \in cordoned',
           (stage = Drain /\ ~err) => i \notin pods'
    PROVE  Sound(mem)' /\ Progress' /\ Loops'
<1>1. /\ stage' = stage /\ at' = at /\ mem' = mem
      /\ todo' = todo \ {i} /\ failed' = (failed \/ err)
  BY DEF NodeDone
<1>2. stage = Drain => mem.original \cap running \subseteq cordoned
  BY DEF CheckpointInv, Progress, Sound, Drain, Cordon, Gather, Terminate
<1>3. mem.original \subseteq launched /\ ready \subseteq running
  BY DEF CheckpointInv, Sound, TypeInv, WorldTypeOK
<1>4. Progress'
  BY <1>1 DEF CheckpointInv, Progress
<1>5. (stage = Cordon /\ ~failed /\ ~err) => (mem'.original \cap running') \ todo' \subseteq cordoned'
  BY <1>1, <1>3 DEF CheckpointInv, Loops, NoReturn
<1>6. (stage = Drain /\ ~failed /\ ~err) => mem'.original \cap pods' \subseteq todo'
  BY <1>1, <1>2, <1>3 DEF CheckpointInv, Loops, NoReturn
<1>7. stage \in {Cordon, Drain}
  BY DEF CheckpointInv, TypeInv, ControlTypeOK, StepFits
<1> QED
  BY <1>1, <1>4, <1>5, <1>6, <1>7 DEF Loops

(* The loops start with every old worker still to do.                      *)
LEMMA StartLoopInv ==
    ASSUME CheckpointInv, UNCHANGED worldVars, StartFanOut \/ StartBatches
    PROVE  Sound(mem)' /\ Progress' /\ Loops'
<1>1. stage' = stage /\ mem' = mem /\ at' \in {"node", "batch"}
  BY DEF StartFanOut, StartBatches, Continue
<1>2. Sound(mem)' /\ Progress'
  BY <1>1 DEF CheckpointInv, Sound, Progress, worldVars
<1>3. /\ running' = running /\ pods' = pods /\ members' = members /\ cordoned' = cordoned
  BY DEF worldVars
<1>4. CASE StartFanOut
  <2>1. at' = "node" /\ todo' = Reported(mem.original)
    BY <1>4 DEF StartFanOut, Continue
  <2>2. mem.original \subseteq todo'
    BY <2>1 DEF Reported
  <2> QED
    BY <1>1, <1>2, <1>3, <2>1, <2>2, Zenon DEF Loops
<1>5. CASE StartBatches
  <2>1. at' = "batch" /\ todo' = mem.original
    BY <1>5 DEF StartBatches, Continue
  <2> QED
    BY <1>1, <1>2, <1>3, <2>1 DEF Loops
<1> QED
  BY <1>2, <1>4, <1>5

(* Soundness speaks of a state, wherever it is kept.                        *)
LEMMA SoundValue ==
    ASSUME NEW s, Sound(s)', mem' = s
    PROVE  Sound(mem)'
BY DEF Sound

LEMMA ProcessInv ==
    ASSUME CheckpointInv, Process, NoReturn, WorldTypeOK', NEW m, m = mem, Sound(m)'
    PROVE  Sound(mem)' /\ Progress' /\ Loops'
<1>0. /\ mem \in DeployState /\ m \in DeployState
      /\ stage \in Idle .. Delete
      /\ StepFits(at, stage)
      /\ WorldTypeOK
  BY DEF CheckpointInv, TypeInv, ControlTypeOK
<1>1. mem' = mem => Sound(mem)'
  BY SoundValue
<1>2. ReturnError => Sound(mem)' /\ Progress' /\ Loops'
  BY StoppedInv DEF ReturnError
<1>3. stage = Drain => mem.original \cap running \subseteq cordoned
  BY DEF CheckpointInv, Progress, Sound, Drain, Cordon, Gather, Terminate
<1>4. \A s \in {Gather, SetMax, ScaleUp, WaitNodes} :
         s \in Flag /\ s # Cordon /\ s # Drain /\ s # Detach
  BY DEF Gather, SetMax, ScaleUp, WaitNodes, Cordon, Drain, Detach, Flag, Restore
<1> USE <1>0, <1>1
<1>a. CASE Skip
  BY <1>a DEF Skip, CheckpointInv, Progress, Loops, Flag, Restore, Gather, Terminate
<1>b. CASE GatherASGInfo \/ RegatherASGInfo
  <2>1. stage = Gather /\ Gather \notin mem.done
    BY <1>b DEF GatherASGInfo, RegatherASGInfo, Enter, Looping, CheckpointInv, Progress
  <2>2. mem.done = {}
    BY <2>1 DEF CheckpointInv, Sound
  <2>3. PICK s : s = WithAsgInfo(mem)
    OBVIOUS
  <2>4. s \in DeployState /\ s.done = {} /\ s.original = members
    BY <2>2, <2>3 DEF WithAsgInfo, DeployState, WorldTypeOK
  <2>5. Sound(s)'
    <3>1. members \subseteq launched'
      BY DEF WorldTypeOK, NoReturn
    <3> QED
      BY <2>4, <3>1 DEF Sound
  <2>6. CASE Succeed(WithAsgInfo(mem))
    BY <1>4, <2>1, <2>2, <2>3, <2>4, <2>5, <2>6, SucceedInv
  <2>7. CASE ~Succeed(WithAsgInfo(mem))
    BY <1>b, <2>1, <2>7, ContinueInv DEF GatherASGInfo, RegatherASGInfo
  <2> QED
    BY <2>6, <2>7
<1>c. CASE WaitForCapacity
  <2>1. at \in {"steady", "regather"} => Gather \notin mem.done
    BY DEF CheckpointInv, Progress
  <2>2. CASE at = "steady"
    BY <1>c, <1>2, <2>1, <2>2, ContinueInv DEF WaitForCapacity
  <2>3. CASE at = "capacity"
    BY <1>c, <1>2, <2>3, ContinueInv DEF WaitForCapacity
  <2> QED
    BY <1>c, <2>2, <2>3 DEF WaitForCapacity
<1>d. CASE SetMaxCapacity \/ GetLaunchedInstanceIds \/ WaitForLoadBalancers
  <2>1. stage \in {SetMax, ScaleUp, WaitNodes}
    BY <1>d DEF SetMaxCapacity, GetLaunchedInstanceIds, WaitForLoadBalancers, Enter, Looping
  <2>2. PICK s \in DeployState : /\ Succeed(s)
                                 /\ s.done = mem.done
                                 /\ s.original = mem.original
    <3>1. /\ [mem EXCEPT !.updateMax = maxCapacityForUpdate] \in DeployState
          /\ [mem EXCEPT !.new = LaunchedInstanceIds(mem.original)] \in DeployState
      BY DEF maxCapacityForUpdate, LaunchedInstanceIds, DeployState, WorldTypeOK
    <3> QED
      BY <1>d, <3>1 DEF SetMaxCapacity, GetLaunchedInstanceIds, WaitForLoadBalancers, DeployState
  <2>3. Sound(s)'
    BY <2>2 DEF Sound
  <2> QED
    BY <1>4, <2>1, <2>2, <2>3, SucceedInv
<1>e. CASE ScaleUpGroup \/ ScaleUpRefused \/ DescribeNewInstances \/ WaitForNodesReady
  BY <1>e, <1>2, ContinueInv
     DEF ScaleUpGroup, ScaleUpRefused, DescribeNewInstances, WaitForNodesReady
<1>f. CASE StartFanOut \/ StartBatches
  BY <1>f, StartLoopInv DEF StartFanOut, StartBatches
<1>g. CASE \E i \in Instance : CordonNode(i) \/ DrainNode(i)
  <2>1. PICK i \in Instance : CordonNode(i) \/ DrainNode(i)
    BY <1>g
  <2>2. at = "node"
    BY <2>1 DEF CordonNode, DrainNode, Looping
  <2>3. Cordon # Drain
    BY DEF Cordon, Drain
  <2>4. PICK err \in BOOLEAN : /\ NodeDone(i, err)
                               /\ (stage = Cordon /\ ~err) => i \in cordoned'
                               /\ (stage = Drain /\ ~err) => i \notin pods'
    BY <2>1, <2>3 DEF CordonNode, DrainNode, Looping, KubectlCordon, KubectlDrain
  <2> QED
    BY <2>2, <2>4, NodeDoneInv DEF NodeDone
<1>h. CASE FanOutDone \/ BatchesDone
  <2>1. CASE ReturnError
    BY <2>1, <1>2
  <2>2. CASE ~ReturnError
    <3>1. Succeed(mem) /\ todo = {} /\ ~failed /\ UNCHANGED worldVars /\ at \in {"node", "batch"}
      BY <1>h, <2>2 DEF FanOutDone, BatchesDone
    <3>2. stage \in Flag
      BY <3>1 DEF StepFits
    <3>3. /\ stage = Cordon => mem.original \cap running \subseteq cordoned
          /\ stage = Drain => mem.original \cap pods = {}
          /\ stage = Detach => mem.original \cap members = {}
      BY <3>1 DEF CheckpointInv, Loops, StepFits, Cordon, Drain, Detach, Terminate
    <3>4. /\ stage = Cordon => (m.original \cap running \subseteq cordoned)'
          /\ stage = Drain => (m.original \cap running \subseteq cordoned /\ m.original \cap pods = {})'
          /\ stage = Detach => (m.original \cap members = {})'
      BY <1>3, <3>1, <3>3 DEF worldVars
    <3> QED
      BY <3>1, <3>2, <3>4, SucceedInv
  <2> QED
    BY <2>1, <2>2
<1>i. CASE DetachInstances \/ TerminateInstances
  <2>1. CASE ReturnError
    BY <2>1, <1>2
  <2>2. CASE ~ReturnError
    <3>1. PICK batch : /\ Continue("batch", todo \ batch, 0) /\ mem' = mem
                       /\ stage = Detach => members' = members \ batch
      BY <1>i, <2>2 DEF DetachInstances, TerminateInstances, Looping, DetachFromGroup,
         Detach, Terminate
    <3>2. at = "batch"
      BY <1>i DEF DetachInstances, TerminateInstances, Looping
    <3>3. Progress'
      BY <3>1, <3>2 DEF Continue, CheckpointInv, Progress
    <3>4. Loops'
      BY <3>1, <3>2 DEF Continue, CheckpointInv, Loops
    <3> QED
      BY <3>1, <3>3, <3>4
  <2> QED
    BY <2>1, <2>2
<1>j. CASE RestoreCapacity
  <2>1. stage' = Restore /\ at' = "persist" /\ todo' = {} /\ mem' = mem /\ stage = Restore
    BY <1>j DEF RestoreCapacity, Enter, Continue
  <2> QED
    BY <2>1 DEF CheckpointInv, Progress, Loops
<1>k. CASE TruncateFile
  BY <1>k DEF TruncateFile, CheckpointInv, Progress, Loops
<1>l. CASE WriteFile
  <2>1. todo = {}
    BY <1>l DEF WriteFile, CheckpointInv, Loops
  <2>2. Loops'
    BY <1>l, <2>1 DEF WriteFile, Loops
  <2>3. Progress'
    BY <1>l DEF WriteFile, CheckpointInv, Progress, Restore, Terminate, Gather, Idle, Delete
  <2> QED
    BY <1>l, <2>2, <2>3 DEF WriteFile
<1>m. CASE DeleteFile
  BY <1>m, StoppedInv DEF DeleteFile
<1> QED
  BY <1>a, <1>b, <1>c, <1>d, <1>e, <1>f, <1>g, <1>h, <1>i, <1>j, <1>k, <1>l, <1>m DEF Process

LEMMA InterferenceInv ==
    ASSUME CheckpointInv, Interference, NoReturn, WorldTypeOK', NEW m, m = mem, Sound(m)'
    PROVE  Sound(mem)' /\ Progress' /\ Loops'
<1>1. mem' = mem => Sound(mem)'
  BY SoundValue
<1>2. CASE PersistFails \/ CallFails \/ ReplyLost \/ Crash
  BY <1>2, StoppedInv DEF PersistFails, CallFails, ReplyLost, Crash, ReturnError
<1>3. CASE TerminateFails
  <2>1. stage = Terminate /\ stage' = stage /\ at' = at /\ mem' = mem /\ at = "batch"
    BY <1>3 DEF TerminateFails, Looping
  <2>2. todo' \subseteq todo
    BY <1>3 DEF TerminateFails
  <2>3. Terminate # Detach /\ Terminate # Cordon /\ Terminate # Drain
    BY DEF Terminate, Detach, Cordon, Drain
  <2>4. Progress'
    BY <2>1 DEF CheckpointInv, Progress
  <2>5. Loops'
    BY <2>1, <2>2, <2>3 DEF CheckpointInv, Loops
  <2> QED
    BY <1>1, <2>1, <2>4, <2>5
<1>4. CASE \E i \in Instance : NodeCallFails(i)
  <2>1. PICK i \in Instance : at = "node" /\ NodeDone(i, TRUE)
    BY <1>4 DEF NodeCallFails
  <2> QED
    BY <1>1, <2>1, NodeDoneInv DEF NodeDone
<1>5. CASE RemoveFile \/ ApplyTerraform
  BY <1>1, <1>5, LoopsStable DEF RemoveFile, ApplyTerraform, ctlVars
<1>6. CASE LoadBalancersHang
  BY <1>1, <1>6, ContinueInv DEF LoadBalancersHang
<1> QED
  BY <1>2, <1>3, <1>4, <1>5, <1>6 DEF Interference

(* The file holds what it held, what the process wrote, or nothing of use. *)
LEMMA FileSource ==
    ASSUME [Next]_vars
    PROVE  file'.state \in {file.state, mem, newDeployState}
<1>1. CASE Start
  BY <1>1 DEF Start
<1>2. CASE Process
  <2>1. CASE TruncateFile \/ WriteFile \/ DeleteFile
    BY <2>1 DEF TruncateFile, WriteFile, DeleteFile, Corrupt, Absent, Saved
  <2>2. CASE \E i \in Instance : CordonNode(i) \/ DrainNode(i)
    BY <2>2 DEF CordonNode, DrainNode, NodeDone
  <2>3. CASE DetachInstances \/ TerminateInstances
    BY <2>3 DEF DetachInstances, TerminateInstances, Continue, ReturnError
  <2>4. CASE \/ FanOutDone \/ BatchesDone \/ StartFanOut \/ StartBatches \/ RestoreCapacity
    BY <2>4 DEF FanOutDone, BatchesDone, StartFanOut, StartBatches, RestoreCapacity,
       Succeed, Continue, ReturnError
  <2>5. CASE \/ GatherASGInfo \/ RegatherASGInfo \/ SetMaxCapacity \/ GetLaunchedInstanceIds
             \/ WaitForLoadBalancers \/ DescribeNewInstances \/ ScaleUpGroup
    <3>1. \/ \E s : Succeed(s)
          \/ \E step, left, n : Continue(step, left, n)
      BY <2>5, Zenon DEF GatherASGInfo, RegatherASGInfo, SetMaxCapacity, GetLaunchedInstanceIds,
         WaitForLoadBalancers, DescribeNewInstances, ScaleUpGroup
    <3> QED
      BY <3>1 DEF Succeed, Continue
  <2>6. CASE Skip
    BY <2>6 DEF Skip
  <2>7. CASE ScaleUpRefused
    BY <2>7 DEF ScaleUpRefused, ReturnError
  <2>8. CASE WaitForCapacity \/ WaitForNodesReady
    <3>1. ReturnError \/ \E step, left, n : Continue(step, left, n)
      BY <2>8, Zenon DEF WaitForCapacity, WaitForNodesReady
    <3> QED
      BY <3>1 DEF Continue, ReturnError
  <2> QED
    BY <1>2, <2>1, <2>2, <2>3, <2>4, <2>5, <2>6, <2>7, <2>8, Zenon DEF Process
<1>3. CASE Interference
  <2>1. CASE PersistFails \/ CallFails \/ ReplyLost
    BY <2>1 DEF PersistFails, CallFails, ReplyLost, ReturnError
  <2>2. CASE TerminateFails
    BY <2>2 DEF TerminateFails
  <2>3. CASE \E i \in Instance : NodeCallFails(i)
    BY <2>3 DEF NodeCallFails, NodeDone
  <2>4. CASE Crash \/ RemoveFile \/ ApplyTerraform
    BY <2>4 DEF Crash, RemoveFile, ApplyTerraform, ctlVars, Absent
  <2>5. CASE LoadBalancersHang
    BY <2>5 DEF LoadBalancersHang, Continue
  <2> QED
    BY <1>3, <2>1, <2>2, <2>3, <2>4, <2>5, Zenon DEF Interference
<1>4. CASE World \/ UNCHANGED vars
  BY <1>4 DEF World, vars
<1> QED
  BY <1>1, <1>2, <1>3, <1>4 DEF Next

LEMMA CheckpointInvStep == CheckpointInv /\ [Next]_vars => CheckpointInv'
<1> SUFFICES ASSUME CheckpointInv, [Next]_vars PROVE CheckpointInv'
  OBVIOUS
<1>1. TypeOK /\ WorldTypeOK
  BY DEF CheckpointInv, TypeInv, ControlTypeOK, TypeOK
<1>2. TypeInv' /\ WorldTypeOK'
  BY TypeInvStep DEF CheckpointInv, TypeInv
<1>3. NoReturn
  BY <1>1, OnlyWorldChanges, WorldChangeNoReturn
<1>4. PICK m : m = mem
  OBVIOUS
<1>5. PICK f : f = file.state
  OBVIOUS
<1>6. Sound(m)' /\ Sound(f)'
  <2>1. Sound(m) /\ Sound(f)
    BY <1>4, <1>5 DEF CheckpointInv, Sound
  <2> QED
    BY <2>1, <1>1, <1>3, SoundStable
<1>7. Sound(file.state)'
  BY <1>4, <1>5, <1>6, FileSource, NewStateSoundNext DEF Sound
<1>8. Sound(mem)' /\ Progress' /\ Loops'
  <2>1. CASE Start
    <3>1. stage' = Gather /\ at' = at /\ todo' = todo /\ stage = Idle /\ at = "enter"
      BY <2>1 DEF Start, CheckpointInv, TypeInv, ControlTypeOK, StepFits, Idle, Flag, Gather
    <3>2. mem' \in {newDeployState, file.state}
      BY <2>1 DEF Start, initDeployState
    <3>3. Sound(mem)'
      BY <3>2, <1>5, <1>6, NewStateSoundNext DEF Sound
    <3>4. Progress'
      BY <3>1 DEF Progress, Gather, Terminate
    <3>5. Loops'
      BY <3>1 DEF CheckpointInv, Loops
    <3> QED
      BY <3>3, <3>4, <3>5
  <2>2. CASE Process
    BY <1>2, <1>3, <1>4, <1>6, <2>2, ProcessInv
  <2>3. CASE Interference
    BY <1>2, <1>3, <1>4, <1>6, <2>3, InterferenceInv
  <2>4. CASE World \/ UNCHANGED vars
    <3>1. stage' = stage /\ at' = at /\ todo' = todo /\ failed' = failed /\ mem' = mem
      BY <2>4 DEF World, vars, ctlVars
    <3> QED
      BY <1>2, <1>3, <1>4, <1>6, <3>1, LoopsStable, SoundValue
  <2> QED
    BY <2>1, <2>2, <2>3, <2>4 DEF Next
<1> QED
  BY <1>2, <1>7, <1>8 DEF CheckpointInv

THEOREM CheckpointInvariant == Spec => []CheckpointInv
<1>1. Init => CheckpointInv
  <2> SUFFICES ASSUME Init PROVE CheckpointInv
    OBVIOUS
  <2>1. TypeInv
    BY InitType
  <2>2. Sound(mem) /\ Sound(file.state)
    BY NewStateSound DEF Init, Absent
  <2>3. Progress /\ Loops
    BY DEF Init, Progress, Loops, Idle, Gather, Terminate
  <2> QED
    BY <2>1, <2>2, <2>3 DEF CheckpointInv
<1> QED
  BY <1>1, CheckpointInvStep, PTL DEF Spec

(***************************************************************************)
(* Whatever fails and however often the roll out is restarted, the flags   *)
(* of a state the process has, or could load, are true of the cluster.     *)
(***************************************************************************)
THEOREM CheckpointsAlwaysHold == Spec => []CheckpointsHold
<1>1. CheckpointInv => CheckpointsHold
  BY DEF CheckpointInv, Sound, CheckpointsHold, Known
<1> QED
  BY <1>1, CheckpointInvariant, PTL

(***************************************************************************)
(* kubergrunt never detaches or terminates an instance that runs workload  *)
(* Pods, for any number of instances and any combination of faults.        *)
(***************************************************************************)
THEOREM WorkloadsAreSafe == Spec => []NoWorkloadRemoved
<1>1. CheckpointInv => NoWorkloadRemoved
  <2> SUFFICES ASSUME CheckpointInv, stage \in {Detach, Terminate}
               PROVE  todo \cap pods = {}
    BY DEF NoWorkloadRemoved
  <2>1. Drain \in mem.done
    BY DEF CheckpointInv, Progress, Drain, Detach, Terminate, Gather
  <2>2. mem.original \cap pods = {}
    BY <2>1 DEF CheckpointInv, Sound
  <2>3. todo \subseteq mem.original
    <3>1. at \notin {"ready", "node"}
      BY DEF CheckpointInv, TypeInv, ControlTypeOK, StepFits, Cordon, Drain, WaitNodes,
         Detach, Terminate
    <3> QED
      BY <3>1 DEF CheckpointInv, Loops
  <2> QED
    BY <2>2, <2>3
<1> QED
  BY <1>1, CheckpointInvariant, PTL

-----------------------------------------------------------------------------
(***************************************************************************)
(* The max size.  It is lowered in the last stage only, by a process whose *)
(* memory is what the file holds: no other state that could be resumed     *)
(* relies on it any more.                                                  *)
(***************************************************************************)
Fits(s, n) ==
    /\ (SetMax \in s.done /\ Terminate \notin s.done) => s.updateMax =< n
    /\ (Gather \in s.done /\ SetMax \notin s.done) => s.max =< n

(* What the process does not have yet to persist is in the file, if that   *)
(* is good, but for a file that a process that starts over did not read.   *)
Synced ==
    (file.status = "saved" /\ stage # Idle /\ at \notin {"persist", "write"}) =>
        mem = file.state \/ (stage = Gather /\ mem = newDeployState)

MaxInv ==
    /\ Fits(mem, maxSize)
    /\ file.status = "saved" => Fits(file.state, maxSize)
    /\ Synced

LEMMA NewStateFits == \A n : Fits(newDeployState, n)
BY DEF Fits, newDeployState

(* A step that leaves the max size and the file alone, or drops the file.  *)
LEMMA QuietMax ==
    ASSUME MaxInv, maxSize' = maxSize, mem' \in {mem, newDeployState},
           file' = file \/ file'.status # "saved",
           stage' = Idle \/ file'.status # "saved"
             \/ (stage' = stage /\ mem' = mem /\ at \notin {"persist", "write"})
    PROVE  MaxInv'
<1>1. Fits(mem', maxSize)
  BY NewStateFits DEF MaxInv
<1>2. Fits(mem, maxSize)'
  BY <1>1 DEF Fits
<1>3. file'.status = "saved" => Fits(file.state, maxSize)'
  BY DEF MaxInv, Fits
<1>4. Synced'
  BY DEF MaxInv, Synced
<1> QED
  BY <1>2, <1>3, <1>4 DEF MaxInv

(* A stage succeeds: its state is still to be persisted.                   *)
LEMMA SucceedMax ==
    ASSUME MaxInv, NEW s \in DeployState, Succeed(s), Fits([s EXCEPT !.done = @ \cup {stage}], maxSize'),
           file.status = "saved" => Fits(file.state, maxSize')
    PROVE  MaxInv'
<1>1. mem' = [s EXCEPT !.done = @ \cup {stage}] /\ at' = "persist" /\ file' = file
  BY DEF Succeed, Continue
<1>2. Fits(mem, maxSize)'
  BY <1>1 DEF Fits
<1>3. file'.status = "saved" => Fits(file.state, maxSize)'
  BY <1>1 DEF Fits
<1>4. Synced'
  BY <1>1 DEF Synced
<1> QED
  BY <1>2, <1>3, <1>4 DEF MaxInv

(* The stages between the two changes of the max size.                     *)
LEMMA SucceedElsewhere ==
    ASSUME MaxInv, NEW s \in DeployState, Succeed(s), stage \notin {Gather, SetMax}, maxSize' = maxSize,
           s.done = mem.done, s.updateMax = mem.updateMax, s.max = mem.max
    PROVE  MaxInv'
<1>1. Fits([s EXCEPT !.done = @ \cup {stage}], maxSize)
  BY DEF MaxInv, Fits, DeployState
<1> QED
  BY <1>1, SucceedMax DEF MaxInv

(* The file is as the memory when a stage begins to change the max size.   *)
LEMMA SetMaxSizeMax ==
    ASSUME MaxInv, CheckpointInv, Enter(SetMax), maxCapacityForUpdate \in Nat,
           (~MaxTooSmall /\ maxSize' = maxSize) \/ (MaxTooSmall /\ maxSize' = maxCapacityForUpdate)
    PROVE  /\ maxCapacityForUpdate =< maxSize'
           /\ Fits(mem, maxSize')
           /\ file.status = "saved" => Fits(file.state, maxSize')
<1>1. Gather \in mem.done /\ SetMax \notin mem.done /\ mem.max =< maxSize
  BY DEF CheckpointInv, Progress, Enter, MaxInv, Fits, Gather, SetMax, Terminate
<1>2. mem.max \in Nat /\ maxSize \in Nat
  BY DEF CheckpointInv, TypeInv, ControlTypeOK, WorldTypeOK, DeployState
<1>3. maxCapacityForUpdate =< maxSize' /\ mem.max =< maxSize'
  BY <1>1, <1>2 DEF MaxTooSmall
<1>4. file.status = "saved" => mem = file.state
  BY DEF Enter, MaxInv, Synced, SetMax, Gather, Idle
<1> QED
  BY <1>1, <1>3, <1>4 DEF Fits

LEMMA RestoreMax ==
    ASSUME MaxInv, CheckpointInv, Enter(Restore)
    PROVE  /\ \A n : Fits(mem, n)
           /\ file.status = "saved" => mem = file.state
<1>1. SetMax \in mem.done /\ Terminate \in mem.done
  BY DEF CheckpointInv, Progress, Enter, Gather, SetMax, Terminate, Restore
<1> QED
  BY <1>1 DEF Fits, Enter, MaxInv, Synced, Restore, Gather, Idle

(* Steps of the process before and between the changes of the max size.    *)
LEMMA ProcessMax ==
    ASSUME MaxInv, CheckpointInv, Process
    PROVE  MaxInv'
<1>0. /\ mem \in DeployState /\ stage \in Idle .. Delete /\ StepFits(at, stage)
      /\ WorldTypeOK /\ maxCapacityForUpdate \in Nat
  BY DEF CheckpointInv, TypeInv, ControlTypeOK, maxCapacityForUpdate, DeployState
<1>s. /\ Idle = 0 /\ Gather = 1 /\ SetMax = 2 /\ ScaleUp = 3 /\ WaitNodes = 4 /\ Cordon = 5
      /\ Drain = 6 /\ Detach = 7 /\ Terminate = 8 /\ Restore = 9 /\ Delete = 10
  BY DEF Idle, Gather, SetMax, ScaleUp, WaitNodes, Cordon, Drain, Detach, Terminate, Restore, Delete
<1>r. ASSUME ReturnError, maxSize' = maxSize PROVE MaxInv'
  BY <1>r, QuietMax DEF ReturnError, Stopped
<1>c. ASSUME NEW step, NEW left, NEW n, Continue(step, left, n), mem' = mem, maxSize' = maxSize,
             at \notin {"persist", "write"}
      PROVE  MaxInv'
  BY <1>c, QuietMax DEF Continue
<1>1. CASE Skip
  <2>1. /\ stage \in Flag /\ stage \in mem.done /\ stage' = stage + 1 /\ at = "enter" /\ at' = "enter"
        /\ mem' = mem /\ file' = file /\ maxSize' = maxSize
    BY <1>1 DEF Skip, worldVars
  <2>2. file.status = "saved" => mem = file.state
    BY <1>s, <2>1 DEF MaxInv, Synced, newDeployState, Flag
  <2> QED
    BY <2>1, <2>2 DEF MaxInv, Synced, Fits
<1>2. CASE GatherASGInfo \/ RegatherASGInfo
  <2>1. /\ stage = Gather /\ Gather \notin mem.done /\ maxSize' = maxSize
        /\ at \in {"enter", "regather"}
    BY <1>2 DEF GatherASGInfo, RegatherASGInfo, Enter, Looping, CheckpointInv, Progress, worldVars
  <2>2. mem.done = {}
    BY <2>1 DEF CheckpointInv, Sound
  <2>3. CASE Succeed(WithAsgInfo(mem))
    <3>1. WithAsgInfo(mem) \in DeployState
      BY <1>0 DEF WithAsgInfo, DeployState, WorldTypeOK
    <3>2. /\ [WithAsgInfo(mem) EXCEPT !.done = @ \cup {stage}].done = {Gather}
          /\ [WithAsgInfo(mem) EXCEPT !.done = @ \cup {stage}].max = maxSize
      BY <1>0, <2>1, <2>2 DEF WithAsgInfo, DeployState
    <3>3. Fits([WithAsgInfo(mem) EXCEPT !.done = @ \cup {stage}], maxSize)
      BY <1>0, <1>s, <3>2 DEF Fits, WorldTypeOK
    <3> QED
      BY <2>1, <2>3, <3>1, <3>3, SucceedMax DEF MaxInv
  <2>4. CASE ~Succeed(WithAsgInfo(mem))
    BY <1>2, <1>c, <2>1, <2>4 DEF GatherASGInfo, RegatherASGInfo
  <2> QED
    BY <2>3, <2>4
<1>3. CASE WaitForCapacity
  BY <1>3, <1>c, <1>r DEF WaitForCapacity, worldVars
<1>4. CASE SetMaxCapacity
  <2>1. /\ Enter(SetMax) /\ Succeed([mem EXCEPT !.updateMax = maxCapacityForUpdate])
        /\ (~MaxTooSmall /\ maxSize' = maxSize) \/ (MaxTooSmall /\ maxSize' = maxCapacityForUpdate)
    BY <1>4 DEF SetMaxCapacity, UpdateMaxSize, worldVars
  <2>2. /\ maxCapacityForUpdate =< maxSize' /\ Fits(mem, maxSize')
        /\ file.status = "saved" => Fits(file.state, maxSize')
    BY <1>0, <2>1, SetMaxSizeMax
  <2>3. [mem EXCEPT !.updateMax = maxCapacityForUpdate] \in DeployState
    BY <1>0 DEF DeployState
  <2>4. Fits([[mem EXCEPT !.updateMax = maxCapacityForUpdate] EXCEPT !.done = @ \cup {stage}], maxSize')
    BY <1>0, <1>s, <2>1, <2>2 DEF Fits, DeployState, Enter
  <2> QED
    BY <2>1, <2>2, <2>3, <2>4, SucceedMax
<1>5. CASE ScaleUpGroup \/ DescribeNewInstances \/ StartFanOut \/ StartBatches
  BY <1>5, <1>c DEF ScaleUpGroup, DescribeNewInstances, StartFanOut, StartBatches, SetDesiredCapacity, Enter, worldVars
<1>6. CASE ScaleUpRefused
  BY <1>6, <1>r DEF ScaleUpRefused, worldVars
<1>7. CASE GetLaunchedInstanceIds \/ WaitForLoadBalancers
  <2>1. /\ stage \in {ScaleUp, WaitNodes} /\ maxSize' = maxSize
    BY <1>7 DEF GetLaunchedInstanceIds, WaitForLoadBalancers, Looping, worldVars
  <2>2. PICK s \in DeployState : /\ Succeed(s) /\ s.done = mem.done
                                 /\ s.updateMax = mem.updateMax /\ s.max = mem.max
    <3>1. [mem EXCEPT !.new = LaunchedInstanceIds(mem.original)] \in DeployState
      BY <1>0 DEF LaunchedInstanceIds, DeployState, WorldTypeOK
    <3> QED
      BY <1>0, <1>7, <3>1 DEF GetLaunchedInstanceIds, WaitForLoadBalancers, DeployState
  <2> QED
    BY <1>s, <2>1, <2>2, SucceedElsewhere
<1>8. CASE WaitForNodesReady
  BY <1>8, <1>c, <1>r DEF WaitForNodesReady, Looping, worldVars
<1>9. CASE \E i \in Instance : CordonNode(i) \/ DrainNode(i)
  <2>1. PICK i \in Instance : CordonNode(i) \/ DrainNode(i)
    BY <1>9
  <2>2. /\ maxSize' = maxSize /\ UNCHANGED <<stage, mem, file>> /\ at = "node"
    BY <2>1 DEF CordonNode, DrainNode, KubectlCordon, KubectlDrain, NodeDone, Looping, worldVars, asgVars
  <2> QED
    BY <2>2, QuietMax
<1>10. CASE FanOutDone \/ BatchesDone
  <2>1. maxSize' = maxSize /\ at \in {"node", "batch"} /\ (ReturnError \/ Succeed(mem))
    BY <1>10 DEF FanOutDone, BatchesDone, worldVars
  <2>2. stage \notin {Gather, SetMax}
    BY <1>0, <1>s, <2>1 DEF StepFits
  <2> QED
    BY <1>0, <1>r, <2>1, <2>2, SucceedElsewhere
<1>11. CASE DetachInstances \/ TerminateInstances
  <2>1. /\ maxSize' = maxSize /\ at = "batch"
        /\ ReturnError \/ UNCHANGED <<stage, mem, file>>
    BY <1>11 DEF DetachInstances, TerminateInstances, DetachFromGroup, TerminateInEC2, Looping, Continue,
                 worldVars, asgVars
  <2> QED
    BY <1>r, <2>1, QuietMax
<1>12. CASE RestoreCapacity
  <2>1. /\ Enter(Restore) /\ maxSize' = mem.max /\ mem' = mem /\ file' = file /\ at' = "persist"
    BY <1>12 DEF RestoreCapacity, UpdateMaxSize, Continue
  <2>2. Fits(mem, maxSize') /\ (file.status = "saved" => Fits(file.state, maxSize'))
    BY <2>1, RestoreMax
  <2> QED
    BY <2>1, <2>2 DEF MaxInv, Fits, Synced
<1>13. CASE TruncateFile
  BY <1>13, QuietMax DEF TruncateFile, Corrupt, worldVars
<1>14. CASE WriteFile
  BY <1>14 DEF WriteFile, MaxInv, Fits, Synced, Saved, worldVars
<1>15. CASE DeleteFile
  BY <1>15, QuietMax DEF DeleteFile, Stopped, Absent, worldVars
<1> QED
  BY <1>1, <1>2, <1>3, <1>4, <1>5, <1>6, <1>7, <1>8, <1>9, <1>10, <1>11, <1>12, <1>13, <1>14, <1>15
     DEF Process

LEMMA MaxInvStep ==
    ASSUME "apply" \notin Operator, MaxInv, CheckpointInv, [Next]_vars
    PROVE  MaxInv'
<1>0. /\ mem \in DeployState /\ StepFits(at, stage) /\ maxCapacityForUpdate \in Nat
  BY DEF CheckpointInv, TypeInv, ControlTypeOK, maxCapacityForUpdate, DeployState
<1>1. CASE Start
  <2>1. /\ stage' = Gather /\ UNCHANGED <<at, file, maxSize>>
        /\ mem' = newDeployState \/ (file.status = "saved" /\ mem' = file.state)
    BY <1>1 DEF Start, initDeployState, worldVars
  <2>2. Fits(mem', maxSize)
    BY <2>1, NewStateFits DEF MaxInv
  <2> QED
    BY <2>1, <2>2 DEF MaxInv, Fits, Synced
<1>2. CASE Process
  BY <1>2, ProcessMax
<1>3. CASE PersistFails \/ CallFails \/ Crash
  <2>1. stage' = Idle /\ mem' = newDeployState /\ file' = file /\ maxSize' = maxSize
    BY <1>3 DEF PersistFails, CallFails, Crash, ReturnError, Stopped, worldVars
  <2> QED
    BY <2>1, QuietMax
<1>4. CASE ReplyLost
  <2>1. stage' = Idle /\ mem' = newDeployState /\ file' = file
    BY <1>4 DEF ReplyLost, ReturnError, Stopped
  <2>2. file.status = "saved" => Fits(file.state, maxSize')
    <3>1. CASE maxSize' = maxSize
      BY <3>1 DEF MaxInv
    <3>2. CASE Enter(SetMax) /\ MaxTooSmall /\ UpdateMaxSize(maxCapacityForUpdate)
      BY <1>0, <3>2, SetMaxSizeMax DEF UpdateMaxSize
    <3>3. CASE Enter(Restore) /\ UpdateMaxSize(mem.max)
      BY <3>3, RestoreMax
    <3> QED
      BY <1>4, <3>1, <3>2, <3>3 DEF ReplyLost, SetDesiredCapacity, DetachFromGroup
  <2>3. Fits(mem', maxSize')
    BY <2>1, NewStateFits
  <2> QED
    BY <2>1, <2>2, <2>3 DEF MaxInv, Fits, Synced
<1>5. CASE TerminateFails \/ \E i \in Instance : NodeCallFails(i)
  <2>1. UNCHANGED <<stage, mem, file, maxSize>> /\ at \in {"batch", "node"}
    BY <1>5 DEF TerminateFails, NodeCallFails, NodeDone, TerminateInEC2, KubectlCordon, KubectlDrain, Looping,
                worldVars, asgVars
  <2> QED
    BY <2>1, QuietMax
<1>6. CASE RemoveFile
  <2>1. file'.status # "saved" /\ mem' = mem /\ maxSize' = maxSize
    BY <1>6 DEF RemoveFile, Absent, worldVars
  <2> QED
    BY <2>1, QuietMax
<1>7. CASE ApplyTerraform
  BY <1>7 DEF ApplyTerraform
<1>8. CASE World \/ UNCHANGED vars
  <2>1. UNCHANGED <<stage, at, mem, file, maxSize>>
    BY <1>8 DEF World, WorldNext, Launch, BecomeReady, Schedule, ScaleIn, InstanceFails, vars, ctlVars, worldVars, asgVars
  <2> QED
    BY <2>1 DEF MaxInv, Fits, Synced
<1>9. CASE LoadBalancersHang
  BY <1>9, QuietMax DEF LoadBalancersHang, Looping, Continue, worldVars, asgVars
<1> QED
  BY <1>1, <1>2, <1>3, <1>4, <1>5, <1>6, <1>7, <1>8, <1>9 DEF Next, Interference

(***************************************************************************)
(* From the stage that raises the max size to the end of the replacement,  *)
(* the group may grow to the capacity scaleUp asks for, in whatever state  *)
(* an invocation is resumed, unless somebody else takes the max size back  *)
(* (deploy_state.go:186, :215).                                            *)
(***************************************************************************)
THEOREM RoomToGrow == "apply" \notin Operator => (Spec => []MaxSizeRaised)
<1> SUFFICES ASSUME "apply" \notin Operator PROVE Spec => []MaxSizeRaised
  OBVIOUS
<1>1. Init => MaxInv
  BY NewStateFits DEF Init, MaxInv, Synced, Absent
<1>2. CheckpointInv /\ MaxInv /\ [Next]_vars => MaxInv'
  BY MaxInvStep
<1>3. MaxInv => MaxSizeRaised
  BY DEF MaxInv, Fits, MaxSizeRaised, Known
<1> QED
  BY <1>1, <1>2, <1>3, CheckpointInvariant, PTL DEF Spec

-----------------------------------------------------------------------------
(***************************************************************************)
(* What a step does to the memory of the process and to the recovery file. *)
(***************************************************************************)
Quiet ==
    /\ UNCHANGED <<stage, mem>>
    /\ \/ file' = file /\ (at' = at \/ at \notin {"persist", "write"})
       \/ TruncateFile
       \/ RemoveFile

Ended == Stopped /\ (file' = file \/ (file' = Absent /\ stage = Delete))

(* A stage succeeds, with what it read or computed.                        *)
Completed ==
    /\ stage \in Flag
    /\ at \notin {"persist", "write"}
    /\ UNCHANGED <<members, launched, running, ready, cordoned, pods>>
    /\ \/ stage = Gather /\ Gather \notin mem.done /\ Succeed(WithAsgInfo(mem))
       \/ stage = SetMax /\ Succeed([mem EXCEPT !.updateMax = maxCapacityForUpdate])
       \/ stage = ScaleUp /\ Succeed([mem EXCEPT !.new = LaunchedInstanceIds(mem.original)])
       \/ stage \notin {Gather, SetMax, ScaleUp} /\ Succeed(mem)

LEMMA StepKinds ==
    ASSUME CheckpointInv, [Next]_vars
    PROVE  Start \/ Skip \/ WriteFile \/ Quiet \/ Ended \/ Completed
<1>0. StepFits(at, stage) /\ stage \in Idle .. Delete
  BY DEF CheckpointInv, TypeInv, ControlTypeOK
<1>s. /\ Idle = 0 /\ Gather = 1 /\ SetMax = 2 /\ ScaleUp = 3 /\ WaitNodes = 4 /\ Cordon = 5
      /\ Drain = 6 /\ Detach = 7 /\ Terminate = 8 /\ Restore = 9 /\ Delete = 10
  BY DEF Idle, Gather, SetMax, ScaleUp, WaitNodes, Cordon, Drain, Detach, Terminate, Restore, Delete
<1>r. ReturnError => Ended
  BY DEF ReturnError, Ended
<1>c. ASSUME NEW step, NEW left, NEW n, Continue(step, left, n), mem' = mem, at \notin {"persist", "write"}
      PROVE  Quiet
  BY <1>c DEF Continue, Quiet
<1>1. CASE Start \/ Skip \/ WriteFile
  BY <1>1
<1>2. CASE GatherASGInfo \/ RegatherASGInfo
  <2>1. /\ stage = Gather /\ Gather \notin mem.done /\ at \notin {"persist", "write"} /\ UNCHANGED worldVars
    BY <1>2 DEF GatherASGInfo, RegatherASGInfo, Enter, Looping, CheckpointInv, Progress
  <2>2. CASE Succeed(WithAsgInfo(mem))
    BY <1>s, <2>1, <2>2 DEF Completed, Flag, worldVars
  <2>3. CASE ~Succeed(WithAsgInfo(mem))
    BY <1>2, <1>c, <2>1, <2>3 DEF GatherASGInfo, RegatherASGInfo
  <2> QED
    BY <2>2, <2>3
<1>3. CASE WaitForCapacity \/ WaitForNodesReady
  BY <1>3, <1>c, <1>r DEF WaitForCapacity, WaitForNodesReady, Looping
<1>4. CASE SetMaxCapacity
  BY <1>4, <1>s DEF SetMaxCapacity, Enter, Completed, Flag, UpdateMaxSize, worldVars, nodeVars
<1>5. CASE ScaleUpGroup \/ DescribeNewInstances \/ StartFanOut \/ StartBatches \/ RestoreCapacity
  BY <1>5, <1>c DEF ScaleUpGroup, DescribeNewInstances, StartFanOut, StartBatches, RestoreCapacity, Enter
<1>6. CASE ScaleUpRefused
  BY <1>6, <1>r DEF ScaleUpRefused
<1>7. CASE GetLaunchedInstanceIds
  BY <1>7, <1>s DEF GetLaunchedInstanceIds, Looping, Completed, Flag, worldVars
<1>8. CASE WaitForLoadBalancers
  BY <1>8, <1>s DEF WaitForLoadBalancers, Looping, Completed, Flag, worldVars
<1>9. CASE \E i \in Instance : CordonNode(i) \/ DrainNode(i) \/ NodeCallFails(i)
  BY <1>9 DEF CordonNode, DrainNode, NodeCallFails, NodeDone, Quiet
<1>10. CASE FanOutDone \/ BatchesDone
  <2>1. /\ at \in {"node", "batch"} /\ stage \in {Cordon, Drain, Detach, Terminate}
        /\ UNCHANGED worldVars /\ (ReturnError \/ Succeed(mem))
    BY <1>0, <1>10 DEF FanOutDone, BatchesDone, StepFits
  <2> QED
    BY <1>r, <1>s, <2>1 DEF Completed, Flag, worldVars
<1>11. CASE DetachInstances \/ TerminateInstances \/ TerminateFails
  <2>1. at = "batch" /\ (ReturnError \/ UNCHANGED <<stage, mem, file>>)
    BY <1>11 DEF DetachInstances, TerminateInstances, TerminateFails, Looping, Continue
  <2> QED
    BY <1>r, <2>1 DEF Quiet
<1>12. CASE TruncateFile \/ RemoveFile
  BY <1>12 DEF TruncateFile, RemoveFile, Quiet, ctlVars
<1>13. CASE DeleteFile \/ Crash
  BY <1>13 DEF DeleteFile, Crash, Ended
<1>14. CASE PersistFails \/ CallFails \/ ReplyLost
  BY <1>14, <1>r DEF PersistFails, CallFails, ReplyLost
<1>15. CASE World \/ ApplyTerraform \/ UNCHANGED vars
  BY <1>15 DEF World, ApplyTerraform, Quiet, vars, ctlVars
<1>16. CASE LoadBalancersHang
  BY <1>16, <1>c DEF LoadBalancersHang, Looping
<1> QED
  BY <1>1, <1>2, <1>3, <1>4, <1>5, <1>6, <1>7, <1>8, <1>9, <1>10, <1>11, <1>12, <1>13, <1>14, <1>15, <1>16
     DEF Next, Process, Interference

(***************************************************************************)
(* The recovery file is what the process has, but for the stage it is      *)
(* about to persist.                                                       *)
(***************************************************************************)
FileInv ==
    /\ stage = Idle => mem = newDeployState
    /\ file.status # "saved" => file.state = newDeployState
    /\ file.status = "saved" => Gather \in file.state.done
    /\ (Gather \in mem.done /\ at \notin {"persist", "write"}) => file = Saved(mem)

LEMMA FileInvStep ==
    ASSUME CheckpointInv, FileInv, [Next]_vars
    PROVE  FileInv'
<1>s. Idle = 0 /\ Gather = 1 /\ Restore = 9 /\ Terminate = 8 /\ Delete = 10 /\ Flag = 1 .. 9
  BY DEF Idle, Gather, Terminate, Restore, Delete, Flag
<1>0. Gather \notin newDeployState.done
  BY DEF newDeployState
<1>t. StepFits(at, stage) /\ stage \in 0 .. 10 /\ file \in File
  BY <1>s DEF CheckpointInv, TypeInv, ControlTypeOK
<1>1. CASE Start
  <2>1. /\ stage' = Gather /\ UNCHANGED <<at, file>>
        /\ mem' = newDeployState \/ (file.status = "saved" /\ mem' = file.state)
    BY <1>1 DEF Start, initDeployState
  <2>2. file.status = "saved" => file = Saved(file.state)
    BY <1>t DEF File, Saved
  <2> QED
    BY <1>0, <1>s, <2>1, <2>2 DEF FileInv
<1>2. CASE Skip
  BY <1>s, <1>t, <1>2 DEF Skip, FileInv
<1>3. CASE WriteFile
  <2>1. at = "write" /\ file' = Saved(mem) /\ stage' = stage + 1 /\ mem' = mem
    BY <1>3 DEF WriteFile
  <2>2. stage \in Flag /\ Gather \in mem.done
    BY <1>s, <1>t, <2>1 DEF StepFits, CheckpointInv, Progress
  <2> QED
    BY <1>s, <2>1, <2>2 DEF FileInv, Saved
<1>4. CASE Quiet
  <2>1. CASE file' = file
    BY <1>4, <2>1 DEF Quiet, FileInv, TruncateFile, RemoveFile, ctlVars
  <2>2. CASE TruncateFile
    BY <1>4, <2>2 DEF Quiet, FileInv, TruncateFile, Corrupt
  <2>3. CASE RemoveFile
    BY <1>0, <1>4, <2>3 DEF Quiet, FileInv, RemoveFile, Absent
  <2> QED
    BY <1>4, <2>1, <2>2, <2>3 DEF Quiet
<1>5. CASE Ended
  <2>1. mem' = newDeployState /\ (file' = file \/ file' = Absent)
    BY <1>5 DEF Ended, Stopped
  <2> QED
    BY <1>0, <2>1 DEF FileInv, Absent
<1>6. CASE Completed
  <2>1. stage' = stage /\ stage \in Flag /\ at' = "persist" /\ file' = file
    BY <1>6 DEF Completed, Succeed, Continue
  <2> QED
    BY <1>s, <2>1 DEF FileInv
<1> QED
  BY <1>1, <1>2, <1>3, <1>4, <1>5, <1>6, StepKinds

LEMMA FileInvariant == Spec => []FileInv
<1>1. Init => FileInv
  BY DEF Init, FileInv, Absent, newDeployState
<1>2. CheckpointInv /\ FileInv /\ [Next]_vars => FileInv'
  BY FileInvStep
<1> QED
  BY <1>1, <1>2, CheckpointInvariant, PTL DEF Spec

-----------------------------------------------------------------------------
(***************************************************************************)
(* Who is cordoned: the old workers of a roll out, as long as it knows of  *)
(* any.  A roll out that recorded an empty group hands DescribeInstances   *)
(* an empty list, which is no filter (instances.go:16).                    *)
(***************************************************************************)
Staffed == Gather \in mem.done => mem.original # {}

(* A node is cordoned by the fan-out of a stage, which touches nothing     *)
(* else, and only there.                                                   *)
LEMMA CordonsInFanOut ==
    ASSUME CheckpointInv, [Next]_vars
    PROVE  \/ cordoned' \subseteq cordoned
           \/ /\ at = "node" /\ UNCHANGED <<stage, mem, file, members, launched>>
              /\ \E i \in todo : cordoned' = cordoned \cup {i}
<1>1. CASE \E i \in Instance : CordonNode(i) \/ DrainNode(i) \/ NodeCallFails(i)
  <2>1. PICK i \in Instance : CordonNode(i) \/ DrainNode(i) \/ NodeCallFails(i)
    BY <1>1
  <2>2. i \in todo /\ at = "node" /\ UNCHANGED <<stage, mem, file>>
    BY <2>1 DEF CordonNode, DrainNode, NodeCallFails, NodeDone, Looping
  <2>3. UNCHANGED worldVars \/ KubectlCordon(i) \/ KubectlDrain(i)
    BY <2>1 DEF CordonNode, DrainNode, NodeCallFails
  <2> QED
    BY <2>2, <2>3 DEF KubectlCordon, KubectlDrain, worldVars, asgVars
<1>2. CASE UNCHANGED worldVars
  BY <1>2 DEF worldVars
<1>3. CASE WorldNext
  BY <1>3 DEF WorldNext, Launch, BecomeReady, Schedule, ScaleIn, InstanceFails, Terminated, nodeVars
<1>4. CASE \E n : UpdateMaxSize(n) \/ SetDesiredCapacity(n) \/ DetachFromGroup(n) \/ TerminateInEC2(n)
  BY <1>4 DEF UpdateMaxSize, SetDesiredCapacity, DetachFromGroup, TerminateInEC2, Terminated, nodeVars
<1>5. CASE SetMaxCapacity
  BY <1>2, <1>4, <1>5 DEF SetMaxCapacity
<1>6. CASE DetachInstances \/ TerminateInstances
  BY <1>2, <1>4, <1>6 DEF DetachInstances, TerminateInstances
<1>7. CASE TerminateFails \/ ReplyLost
  BY <1>2, <1>4, <1>7 DEF TerminateFails, ReplyLost
<1>8. CASE ScaleUpGroup \/ RestoreCapacity \/ ApplyTerraform
  BY <1>2, <1>4, <1>8 DEF ScaleUpGroup, RestoreCapacity, ApplyTerraform
<1>9. CASE World
  BY <1>3, <1>9 DEF World
<1>10. CASE \/ Start \/ Skip \/ GatherASGInfo \/ RegatherASGInfo \/ WaitForCapacity \/ ScaleUpRefused
            \/ GetLaunchedInstanceIds \/ DescribeNewInstances \/ WaitForNodesReady \/ WaitForLoadBalancers
            \/ StartFanOut \/ FanOutDone \/ StartBatches \/ BatchesDone
            \/ TruncateFile \/ WriteFile \/ DeleteFile \/ PersistFails \/ CallFails \/ Crash \/ RemoveFile
            \/ LoadBalancersHang
  <2>1. UNCHANGED worldVars
    BY <1>10 DEF Start, Skip, GatherASGInfo, RegatherASGInfo, WaitForCapacity, ScaleUpRefused,
         GetLaunchedInstanceIds, DescribeNewInstances, WaitForNodesReady, WaitForLoadBalancers,
         StartFanOut, FanOutDone, StartBatches, BatchesDone, TruncateFile, WriteFile, DeleteFile,
         PersistFails, CallFails, LoadBalancersHang, Crash, RemoveFile
  <2> QED
    BY <1>2, <2>1
<1>11. CASE UNCHANGED vars
  BY <1>2, <1>11 DEF vars
<1> QED
  BY <1>1, <1>5, <1>6, <1>7, <1>8, <1>9, <1>10, <1>11 DEF Next, Process, Interference

(* The old and the new workers of a state.  The instances that a former    *)
(* roll out cordoned and left in the group are old ones of the next.       *)
OwnWorkers(s) ==
    /\ s.original \cap Other = {}
    /\ s.new \subseteq launched
    /\ s.new \cap s.original = {}
    /\ Gather \notin s.done => s.new = {}
    /\ Gather \in s.done => cordoned \cap members \subseteq s.original
    /\ cordoned \cap s.new = {}

OldInv ==
    /\ Other \subseteq launched
    /\ members \cap Other = {}
    /\ cordoned \cap Other = {}
    /\ OwnWorkers(mem)
    /\ OwnWorkers(file.state)
    /\ at = "node" => todo \subseteq mem.original

LEMMA NewStateOwn == OwnWorkers(newDeployState) /\ OwnWorkers(newDeployState)'
BY DEF OwnWorkers, newDeployState

(* Steps of the world and steps that uncordon leave it as it is.           *)
LEMMA OwnStable ==
    ASSUME NEW s, OwnWorkers(s), WorldTypeOK, NoReturn, cordoned' \subseteq cordoned
    PROVE  OwnWorkers(s)'
BY DEF OwnWorkers, WorldTypeOK, NoReturn

(* What is left to a fan-out only gets less.                               *)
LEMMA FanOutShrinks ==
    ASSUME CheckpointInv, [Next]_vars, at' = "node"
    PROVE  \/ StartFanOut
           \/ at = "node" /\ todo' \subseteq todo /\ mem' = mem
<1>1. CASE Start
  BY <1>1 DEF Start, CheckpointInv, TypeInv, ControlTypeOK, StepFits, Idle, Flag, Gather
<1>2. CASE Skip \/ Stopped
  BY <1>2 DEF Skip, Stopped
<1>3. CASE \E s : Succeed(s)
  BY <1>3 DEF Succeed, Continue
<1>4. CASE \E step \in Step \ {"node"} : \E left, n : Continue(step, left, n)
  BY <1>4 DEF Continue
<1>5. CASE \E i \in Instance : CordonNode(i) \/ DrainNode(i) \/ NodeCallFails(i)
  BY <1>5 DEF CordonNode, DrainNode, NodeCallFails, NodeDone
<1>6. CASE TruncateFile \/ WriteFile
  BY <1>6 DEF TruncateFile, WriteFile
<1>7. CASE World \/ RemoveFile \/ ApplyTerraform \/ UNCHANGED vars
  BY <1>7 DEF World, RemoveFile, ApplyTerraform, vars, ctlVars
<1>8. CASE TerminateFails
  BY <1>8 DEF TerminateFails, Looping
<1>9. CASE GatherASGInfo \/ RegatherASGInfo
  BY <1>3, <1>4, <1>9 DEF GatherASGInfo, RegatherASGInfo, Step
<1>10. CASE WaitForCapacity \/ WaitForNodesReady
  <2>1. Stopped \/ \E step \in Step \ {"node"} : \E left, n : Continue(step, left, n)
    BY <1>10 DEF WaitForCapacity, WaitForNodesReady, ReturnError, Step
  <2> QED
    BY <1>2, <1>4, <2>1
<1>11. CASE SetMaxCapacity \/ GetLaunchedInstanceIds \/ WaitForLoadBalancers
  BY <1>3, <1>11 DEF SetMaxCapacity, GetLaunchedInstanceIds, WaitForLoadBalancers
<1>12. CASE ScaleUpGroup \/ DescribeNewInstances \/ StartBatches \/ RestoreCapacity \/ LoadBalancersHang
  BY <1>4, <1>12
     DEF ScaleUpGroup, DescribeNewInstances, StartBatches, RestoreCapacity, LoadBalancersHang, Step
<1>13. CASE ScaleUpRefused \/ DeleteFile \/ PersistFails \/ CallFails \/ ReplyLost \/ Crash
  BY <1>2, <1>13 DEF ScaleUpRefused, DeleteFile, PersistFails, CallFails, ReplyLost, Crash, ReturnError
<1>14. CASE FanOutDone \/ BatchesDone
  BY <1>2, <1>3, <1>14 DEF FanOutDone, BatchesDone, ReturnError
<1>15. CASE DetachInstances \/ TerminateInstances
  <2>1. Stopped \/ \E step \in Step \ {"node"} : \E left, n : Continue(step, left, n)
    BY <1>15 DEF DetachInstances, TerminateInstances, ReturnError, Step
  <2> QED
    BY <1>2, <1>4, <2>1
<1> QED
  BY <1>1, <1>2, <1>5, <1>6, <1>7, <1>8, <1>9, <1>10, <1>11, <1>12, <1>13, <1>14, <1>15
     DEF Next, Process, Interference

(* A stage that succeeds has the workers it had, or has just read them.    *)
LEMMA CompletedOwn ==
    ASSUME CheckpointInv, OldInv, Completed
    PROVE  OwnWorkers(mem)'
<1>0. /\ mem \in DeployState /\ members \subseteq launched
      /\ UNCHANGED <<members, launched, cordoned>>
  BY DEF CheckpointInv, TypeInv, ControlTypeOK, WorldTypeOK, Completed
<1>s. Gather = 1 /\ SetMax = 2 /\ ScaleUp = 3 /\ Terminate = 8 /\ Flag = 1 .. 9
  BY DEF Gather, SetMax, ScaleUp, Terminate, Restore, Flag
<1>1. stage # Gather => Gather \in mem.done
  BY <1>s DEF CheckpointInv, Progress, Completed
<1>2. CASE stage = Gather /\ Gather \notin mem.done /\ Succeed(WithAsgInfo(mem))
  <2>1. mem'.original = members /\ mem'.new = mem.new
    <3>1. WithAsgInfo(mem) \in DeployState
      BY <1>0 DEF WithAsgInfo, DeployState, CheckpointInv, TypeInv, WorldTypeOK
    <3>2. WithAsgInfo(mem).original = members /\ WithAsgInfo(mem).new = mem.new
      BY <1>0 DEF WithAsgInfo, DeployState
    <3> QED
      BY <1>2, <3>1, <3>2 DEF Succeed, DeployState
  <2>2. mem.new = {}
    BY <1>2 DEF OldInv, OwnWorkers
  <2> QED
    BY <1>0, <2>1, <2>2 DEF OldInv, OwnWorkers
<1>3. CASE stage = SetMax /\ Succeed([mem EXCEPT !.updateMax = maxCapacityForUpdate])
  <2>1. mem'.original = mem.original /\ mem'.new = mem.new
    BY <1>0, <1>3 DEF Succeed, DeployState
  <2>2. Gather \in mem.done /\ Gather \in mem'.done
    BY <1>0, <1>1, <1>3, <1>s DEF Succeed, DeployState
  <2> QED
    BY <1>0, <2>1, <2>2 DEF OldInv, OwnWorkers
<1>4. CASE stage = ScaleUp /\ Succeed([mem EXCEPT !.new = LaunchedInstanceIds(mem.original)])
  <2>1. mem'.original = mem.original /\ mem'.new = members \ mem.original
    BY <1>0, <1>4 DEF Succeed, DeployState, LaunchedInstanceIds
  <2>2. Gather \in mem'.done
    BY <1>0, <1>1, <1>4, <1>s DEF Succeed, DeployState
  <2> QED
    BY <1>0, <1>1, <1>4, <1>s, <2>1, <2>2 DEF OldInv, OwnWorkers
<1>5. CASE stage # Gather /\ Succeed(mem)
  <2>1. mem'.original = mem.original /\ mem'.new = mem.new
    BY <1>0, <1>5 DEF Succeed, DeployState
  <2>2. Gather \in mem'.done
    BY <1>0, <1>1, <1>5 DEF Succeed, DeployState
  <2> QED
    BY <1>0, <1>1, <1>5, <2>1, <2>2 DEF OldInv, OwnWorkers
<1> QED
  BY <1>2, <1>3, <1>4, <1>5 DEF Completed

LEMMA OldInvStep ==
    ASSUME CheckpointInv, FileInv, OldInv, Staffed, [Next]_vars
    PROVE  OldInv'
<1>0. WorldTypeOK /\ NoReturn
  BY OnlyWorldChanges, WorldChangeNoReturn DEF CheckpointInv, TypeInv, ControlTypeOK, TypeOK
<1>1. PICK m : m = mem
  OBVIOUS
<1>2. PICK f : f = file.state
  OBVIOUS
<1>3. /\ OwnWorkers(m)' /\ OwnWorkers(f)'
      /\ cordoned' \cap Other = {}
  <2>1. OwnWorkers(m) /\ OwnWorkers(f)
    BY <1>1, <1>2 DEF OldInv, OwnWorkers
  <2>2. CASE cordoned' \subseteq cordoned
    BY <1>0, <2>1, <2>2, OwnStable DEF OldInv
  <2>3. CASE /\ at = "node" /\ UNCHANGED <<stage, mem, file, members, launched>>
             /\ \E i \in todo : cordoned' = cordoned \cup {i}
    <3>1. Gather \in mem.done
      BY <2>3 DEF CheckpointInv, TypeInv, ControlTypeOK, StepFits, Progress, Gather, Cordon, Drain, Terminate
    <3>2. f = m
      BY <1>1, <1>2, <2>3, <3>1 DEF FileInv, Saved
    <3>3. PICK i \in m.original : cordoned' = cordoned \cup {i}
      BY <1>1, <2>3 DEF OldInv
    <3> QED
      BY <2>1, <2>3, <3>2, <3>3 DEF OldInv, OwnWorkers
  <2> QED
    BY <2>2, <2>3, CordonsInFanOut
<1>4. Other \subseteq launched' /\ members' \cap Other = {}
  BY <1>0 DEF OldInv, NoReturn
<1>5. OwnWorkers(file.state)'
  BY <1>1, <1>2, <1>3, FileSource, NewStateOwn DEF OwnWorkers
<1>6. OwnWorkers(mem)'
  <2>1. CASE mem' \in {mem, file.state, newDeployState}
    BY <1>1, <1>2, <1>3, <2>1, NewStateOwn DEF OwnWorkers
  <2>2. CASE Completed
    BY <2>2, CompletedOwn
  <2> QED
    BY <2>1, <2>2, StepKinds DEF Start, initDeployState, Skip, WriteFile, Quiet, Ended, Stopped
<1>7. at' = "node" => todo' \subseteq mem'.original
  <2>1. CASE StartFanOut
    <3>1. Gather \in mem.done
      BY <2>1 DEF StartFanOut, Enter, CheckpointInv, Progress, Gather, Cordon, Drain, Terminate
    <3> QED
      BY <2>1, <3>1 DEF StartFanOut, Continue, Reported, Staffed
  <2> QED
    BY <2>1, FanOutShrinks DEF OldInv
<1> QED
  BY <1>3, <1>4, <1>5, <1>6, <1>7 DEF OldInv

(***************************************************************************)
(* As long as the group was not empty when it was read, only its old       *)
(* workers are ever cordoned, in whatever state a roll out is resumed, and *)
(* also when it starts over with the workers that are cordoned already     *)
(* (deploy_state.go:246).                                                  *)
(***************************************************************************)
THEOREM OthersStaySchedulable == Spec /\ []Staffed => []OnlyOldCordoned
<1>1. Init => OldInv
  BY NewStateOwn DEF Init, WorldInit, OldInv, Absent
<1>2. CheckpointInv /\ FileInv /\ OldInv /\ Staffed /\ [Next]_vars => OldInv'
  BY OldInvStep
<1>3. OldInv => OnlyOldCordoned
  BY DEF OldInv, OwnWorkers, OnlyOldCordoned
<1> QED
  BY <1>1, <1>2, <1>3, CheckpointInvariant, FileInvariant, PTL DEF Spec

-----------------------------------------------------------------------------
(***************************************************************************)
(* Zero downtime.  As long as no worker of the group fails and nobody      *)
(* changes its size meanwhile, the numbers of a roll out add up: it        *)
(* launches one new worker for each old one, and the desired capacity is   *)
(* what it recorded and the old workers that are still attached.           *)
(***************************************************************************)
Undisturbed == "instance" \notin Fault /\ "apply" \notin Operator

Sizes ==
    /\ Capacity =< desired
    /\ desired =< maxSize
    /\ Cardinality(members) =< desired

(* What the flags of a state promise about numbers.                        *)
Recorded(s) ==
    Gather \in s.done =>
        /\ s.capacity >= Capacity
        /\ s.capacity =< s.max
        /\ Cardinality(s.original) = s.capacity

Sized(s) ==
    Gather \in s.done =>
        IF ScaleUp \in s.done
        THEN desired = s.capacity + Cardinality(s.original \cap members)
        ELSE s.original \subseteq members /\ desired \in {s.capacity, 2 * s.capacity}

Doubled(s) ==
    /\ SetMax \in s.done => s.updateMax = 2 * s.capacity
    /\ ScaleUp \in s.done => s.new \subseteq members /\ Cardinality(s.new) = s.capacity
    /\ WaitNodes \in s.done => ScaleUp \in s.done /\ s.new \subseteq ready

Counted(s) == Recorded(s) /\ Sized(s) /\ Doubled(s)

(* What the loops that wait have seen.                                     *)
Waits ==
    /\ at \in {"regather", "launched"} => AtCapacity
    /\ at \in {"capacity", "launched"} => ScaleUp \notin mem.done /\ desired = mem.updateMax
    /\ at = "ready" => mem.new \subseteq todo
    /\ at = "lb" => mem.new \subseteq ready

CountInv ==
    /\ Sizes
    /\ Counted(mem)
    /\ Counted(file.state)
    /\ Waits
    /\ ZeroDowntime

(* What the process or the file has, and what it says about the numbers.   *)
LEMMA KnownState ==
    ASSUME CheckpointInv, OldInv, CountInv, NEW s, s \in {mem, file.state}
    PROVE  /\ s \in DeployState
           /\ s.capacity \in Nat /\ s.updateMax \in Nat /\ s.max \in Nat
           /\ s.original \in SUBSET Instance /\ s.new \in SUBSET Instance
           /\ Sound(s) /\ OwnWorkers(s) /\ Counted(s)
<1>1. mem \in DeployState /\ file.state \in DeployState
  BY DEF CheckpointInv, TypeInv, ControlTypeOK, File
<1>2. Sound(s)
  BY DEF CheckpointInv, Sound
<1>3. OwnWorkers(s)
  BY DEF OldInv, OwnWorkers
<1>4. Counted(s)
  BY DEF CountInv, Counted, Recorded, Sized, Doubled
<1> QED
  BY <1>1, <1>2, <1>3, <1>4 DEF DeployState

(* Between two stages the file has what the process has.                   *)
LEMMA AsPersisted ==
    ASSUME FileInv, Gather \in mem.done, at \notin {"persist", "write"}
    PROVE  file.state = mem
BY DEF FileInv, Saved

LEMMA WorldNumbers ==
    ASSUME WorldTypeOK
    PROVE  /\ desired \in Nat /\ maxSize \in Nat /\ Capacity \in Nat
           /\ \A S \in SUBSET Instance : IsFiniteSet(S) /\ Cardinality(S) \in Nat
           /\ members \in SUBSET Instance /\ ready \in SUBSET Instance
           /\ running \in SUBSET Instance /\ launched \in SUBSET Instance
           /\ members \subseteq running /\ running \subseteq launched /\ ready \subseteq running
           /\ cordoned \subseteq ready
<1>1. \A S \in SUBSET Instance : IsFiniteSet(S) /\ Cardinality(S) \in Nat
  BY WorkersAssumption, FS_Subset, Cardinalities
<1> QED
  BY <1>1, WorkersAssumption DEF WorldTypeOK

(* Steps that change no capacity and take away none of its workers.        *)
LEMMA CountedStable ==
    ASSUME NEW s, Counted(s), OwnWorkers(s), Sound(s), WorldTypeOK,
           desired' = desired, members \subseteq members', members' \cap launched \subseteq members,
           s.new \cap ready \subseteq ready'
    PROVE  Counted(s)'
<1>1. s.original \cap members' = s.original \cap members
  BY DEF Sound, WorldTypeOK
<1>2. Recorded(s)' /\ Sized(s)'
  BY <1>1 DEF Counted, Recorded, Sized
<1>3. Doubled(s)'
  BY DEF Counted, Doubled
<1> QED
  BY <1>2, <1>3 DEF Counted

(* The schedulable workers only get more.                                  *)
LEMMA ServingGrows ==
    ASSUME ZeroDowntime, WorldTypeOK, WorldTypeOK',
           cordoned' # {} => cordoned # {},
           (members \cap ready) \ cordoned \subseteq (members' \cap ready') \ cordoned'
    PROVE  ZeroDowntime'
<1>1. /\ Capacity \in Nat
      /\ Cardinality((members \cap ready) \ cordoned) \in Nat
      /\ Cardinality((members' \cap ready') \ cordoned') \in Nat
  BY WorldNumbers DEF WorldTypeOK
<1>2. IsFiniteSet((members' \cap ready') \ cordoned')
  BY WorldNumbers DEF WorldTypeOK
<1>3. Cardinality((members \cap ready) \ cordoned) =< Cardinality((members' \cap ready') \ cordoned')
  BY <1>2, FS_Subset
<1> QED
  BY <1>1, <1>3 DEF ZeroDowntime

LEMMA WorldCount ==
    ASSUME Undisturbed, CheckpointInv, OldInv, CountInv, WorldTypeOK', NEW s, s \in {mem, file.state},
           WorldNext \/ UNCHANGED worldVars
    PROVE  Sizes' /\ Counted(s)' /\ ZeroDowntime' /\ (AtCapacity => AtCapacity') /\ desired' = desired
           /\ ready \subseteq ready'
<1>0. WorldTypeOK
  BY DEF CheckpointInv, TypeInv
<1>1. /\ desired' = desired /\ maxSize' = maxSize /\ cordoned' = cordoned
      /\ ready \subseteq ready'
      /\ \/ members' = members
         \/ \E i \in Instance \ launched : members' = members \cup {i} /\ Cardinality(members) < desired
  <2>1. CASE UNCHANGED worldVars
    BY <2>1 DEF worldVars
  <2>2. CASE WorldNext
    <3>1. PICK i \in Instance : Launch(i) \/ BecomeReady(i) \/ Schedule(i) \/ ScaleIn(i) \/ InstanceFails(i)
      BY <2>2 DEF WorldNext
    <3>2. ~InstanceFails(i)
      BY DEF InstanceFails, Undisturbed
    <3>3. ~ScaleIn(i)
      BY <1>0, WorldNumbers DEF ScaleIn, CountInv, Sizes
    <3> QED
      BY <3>1, <3>2, <3>3 DEF Launch, BecomeReady, Schedule, asgVars, nodeVars
  <2> QED
    BY <2>1, <2>2
<1>2. members \subseteq members' /\ members' \cap launched \subseteq members
  BY <1>1
<1>3. Cardinality(members') =< desired /\ (AtCapacity => AtCapacity')
  <2>1. CASE members' = members
    BY <1>1, <2>1 DEF CountInv, Sizes, AtCapacity
  <2>2. CASE \E i \in Instance \ launched : members' = members \cup {i} /\ Cardinality(members) < desired
    <3>1. PICK i \in Instance \ launched : members' = members \cup {i} /\ Cardinality(members) < desired
      BY <2>2
    <3>2. Cardinality(members') = Cardinality(members) + 1
      BY <1>0, <3>1, FS_AddElement, WorldNumbers DEF WorldTypeOK
    <3> QED
      BY <1>0, <3>1, <3>2, WorldNumbers DEF AtCapacity
  <2> QED
    BY <1>1, <2>1, <2>2
<1>4. Sizes'
  BY <1>1, <1>3 DEF CountInv, Sizes
<1>5. Counted(s)'
  BY <1>0, <1>1, <1>2, KnownState, CountedStable
<1>6. ZeroDowntime'
  BY <1>0, <1>1, <1>2, ServingGrows DEF CountInv
<1> QED
  BY <1>1, <1>3, <1>4, <1>5, <1>6

(* The capacity that is asked for is twice the one that was recorded, and  *)
(* never more, so the max size cuts nothing off, before and after.         *)
LEMMA CapacityCount ==
    ASSUME CheckpointInv, FileInv, OldInv, CountInv, WorldTypeOK', NEW s, s \in {mem, file.state},
           \/ Enter(SetMax) /\ MaxTooSmall /\ UpdateMaxSize(maxCapacityForUpdate)
           \/ Enter(ScaleUp) /\ SetDesiredCapacity(mem.updateMax)
           \/ Enter(Restore) /\ UpdateMaxSize(mem.max)
    PROVE  /\ Sizes' /\ Counted(s)' /\ ZeroDowntime'
           /\ stage = ScaleUp => desired' = mem.updateMax
<1>0. WorldTypeOK
  BY DEF CheckpointInv, TypeInv
<1>s. Gather = 1 /\ SetMax = 2 /\ ScaleUp = 3 /\ Detach = 7 /\ Terminate = 8 /\ Restore = 9
  BY DEF Gather, SetMax, ScaleUp, Detach, Terminate, Restore
<1>1. stage \in {SetMax, ScaleUp, Restore} /\ at = "enter" /\ UNCHANGED <<members, launched, running, ready, cordoned>>
  BY DEF Enter, UpdateMaxSize, SetDesiredCapacity, nodeVars
<1>2. Gather \in mem.done
  BY <1>1, <1>s DEF CheckpointInv, Progress
<1>3. s = mem
  BY <1>1, <1>2, AsPersisted
<1>4. /\ mem \in DeployState /\ mem.capacity \in Nat /\ mem.updateMax \in Nat /\ mem.max \in Nat
      /\ Sound(mem) /\ OwnWorkers(mem) /\ Counted(mem)
  BY KnownState
<1>5. Cardinality(mem.original \cap members) \in Nat
      /\ Cardinality(mem.original \cap members) =< mem.capacity
  <2>1. IsFiniteSet(mem.original)
    BY <1>0, <1>4, WorldNumbers DEF DeployState
  <2> QED
    BY <1>0, <1>2, <1>4, <2>1, FS_Intersection, WorldNumbers DEF Counted, Recorded, DeployState
<1>6. Capacity \in Nat /\ desired \in Nat /\ maxSize \in Nat /\ Cardinality(members) \in Nat
  BY <1>0, WorldNumbers
<1>7. mem.capacity >= Capacity /\ mem.capacity =< mem.max /\ desired =< 2 * mem.capacity
  BY <1>2, <1>4, <1>5, <1>6 DEF Counted, Recorded, Sized
<1>8. ZeroDowntime'
  BY <1>0, <1>1, ServingGrows DEF CountInv
<1>9. CASE stage = ScaleUp
  <2>1. SetDesiredCapacity(mem.updateMax) /\ ScaleUp \notin mem.done /\ SetMax \in mem.done
    BY <1>9, <1>s DEF Enter, CheckpointInv, Progress
  <2>2. desired' = 2 * mem.capacity /\ maxSize' = maxSize /\ mem.updateMax = 2 * mem.capacity
        /\ 2 * mem.capacity =< maxSize
    BY <1>4, <2>1 DEF SetDesiredCapacity, Counted, Doubled
  <2>3. Sizes'
    BY <1>1, <1>6, <1>7, <1>4, <2>2 DEF CountInv, Sizes
  <2>4. Counted(s)'
    BY <1>1, <1>3, <1>4, <2>1, <2>2 DEF Counted, Recorded, Sized, Doubled
  <2> QED
    BY <1>8, <2>2, <2>3, <2>4
<1>10. CASE stage # ScaleUp
  <2>1. PICK n \in Nat : UpdateMaxSize(n) /\ desired =< n
    <3>1. CASE stage = SetMax
      <4>1. UpdateMaxSize(maxCapacityForUpdate)
        BY <1>s, <3>1 DEF Enter
      <4>2. maxCapacityForUpdate = 2 * mem.capacity /\ maxCapacityForUpdate \in Nat
        BY <1>4 DEF maxCapacityForUpdate
      <4> QED
        BY <1>7, <4>1, <4>2
    <3>2. CASE stage = Restore
      <4>1. UpdateMaxSize(mem.max) /\ ScaleUp \in mem.done /\ Detach \in mem.done
        BY <1>s, <3>2 DEF Enter, CheckpointInv, Progress
      <4>2. mem.original \cap members = {}
        BY <1>4, <4>1 DEF Sound
      <4>3. desired = mem.capacity
        BY <1>2, <1>4, <4>1, <4>2, FS_EmptySet DEF Counted, Sized
      <4> QED
        BY <1>4, <1>7, <4>1, <4>3
    <3> QED
      BY <1>1, <1>10, <3>1, <3>2
  <2>2. desired' = desired /\ maxSize' = n
    BY <1>6, <2>1 DEF UpdateMaxSize
  <2>3. Sizes'
    BY <1>1, <2>1, <2>2 DEF CountInv, Sizes
  <2>4. Counted(s)'
    BY <1>0, <1>1, <1>3, <1>4, <2>2, CountedStable
  <2> QED
    BY <1>8, <1>10, <2>3, <2>4
<1> QED
  BY <1>9, <1>10

(* The new workers outnumber the capacity: none of them is cordoned.       *)
LEMMA NodeCount ==
    ASSUME CheckpointInv, OldInv, CountInv, WorldTypeOK', NEW s, s \in {mem, file.state},
           at = "node", NEW i \in todo, KubectlCordon(i) \/ KubectlDrain(i)
    PROVE  Sizes' /\ Counted(s)' /\ ZeroDowntime'
<1>0. WorldTypeOK
  BY DEF CheckpointInv, TypeInv
<1>1. /\ cordoned' = cordoned \cup {i}
      /\ UNCHANGED <<desired, maxSize, members, launched, running, ready>>
  BY DEF KubectlCordon, KubectlDrain, asgVars
<1>2. Sizes' /\ Counted(s)'
  BY <1>0, <1>1, KnownState, CountedStable DEF CountInv, Sizes
<1>3. Gather \in mem.done /\ ScaleUp \in mem.done /\ WaitNodes \in mem.done
  BY DEF CheckpointInv, TypeInv, ControlTypeOK, StepFits, Progress,
         Gather, ScaleUp, WaitNodes, Cordon, Drain, Terminate
<1>4. /\ mem.new \subseteq (members \cap ready) \ cordoned'
      /\ Cardinality(mem.new) = mem.capacity /\ mem.capacity >= Capacity
      /\ mem.capacity \in Nat
  <2>1. i \in mem.original /\ OwnWorkers(mem) /\ Counted(mem) /\ mem.capacity \in Nat
    BY KnownState DEF OldInv
  <2> QED
    BY <1>1, <1>3, <2>1 DEF OwnWorkers, Counted, Recorded, Doubled
<1>5. Cardinality((members' \cap ready') \ cordoned') >= Capacity
  <2>1. (members \cap ready) \ cordoned' \in SUBSET Instance
    BY <1>0, WorldNumbers
  <2>2. Cardinality(mem.new) =< Cardinality((members \cap ready) \ cordoned')
    BY <1>0, <1>4, <2>1, WorldNumbers, FS_Subset
  <2>3. Cardinality((members \cap ready) \ cordoned') \in Nat /\ Capacity \in Nat
    BY <1>0, <2>1, WorldNumbers
  <2> QED
    BY <1>1, <1>4, <2>2, <2>3
<1> QED
  BY <1>2, <1>5 DEF ZeroDowntime

(* Each old worker that is detached takes its place in the desired         *)
(* capacity with it.                                                       *)
LEMMA DetachCount ==
    ASSUME CheckpointInv, FileInv, OldInv, CountInv, WorldTypeOK', NEW s, s \in {mem, file.state},
           Looping(Detach, "batch"), NEW batch \in SUBSET todo, DetachFromGroup(batch)
    PROVE  Sizes' /\ Counted(s)' /\ ZeroDowntime'
<1>0. WorldTypeOK
  BY DEF CheckpointInv, TypeInv
<1>1. /\ Gather \in mem.done /\ ScaleUp \in mem.done /\ Cordon \in mem.done /\ at = "batch"
  BY DEF CheckpointInv, Progress, Looping, Gather, ScaleUp, Cordon, Detach, Terminate
<1>2. s = mem
  BY <1>1, AsPersisted
<1>3. /\ mem \in DeployState /\ mem.capacity \in Nat /\ Sound(mem) /\ OwnWorkers(mem) /\ Counted(mem)
      /\ mem.original \in SUBSET Instance
  BY KnownState
<1>4. batch \subseteq mem.original \cap members
  BY <1>1 DEF CheckpointInv, Loops, DetachFromGroup, Detachable
<1>5. /\ members' = members \ batch /\ desired' = desired - Cardinality(batch)
      /\ UNCHANGED <<maxSize, launched, running, ready, cordoned>>
  BY DEF DetachFromGroup, nodeVars
<1> DEFINE left == mem.original \cap members
<1>6. /\ IsFiniteSet(left) /\ Cardinality(left) \in Nat /\ Cardinality(batch) \in Nat
      /\ Cardinality(left \ batch) = Cardinality(left) - Cardinality(batch)
      /\ Cardinality(left \ batch) \in Nat
      /\ Cardinality(members \ batch) = Cardinality(members) - Cardinality(batch)
  <2>1. /\ IsFiniteSet(left) /\ IsFiniteSet(members) /\ Cardinality(left) \in Nat
        /\ Cardinality(batch) \in Nat /\ Cardinality(left \ batch) \in Nat
    BY <1>0, <1>3, <1>4, WorldNumbers
  <2>2. left \cap batch = batch /\ members \cap batch = batch
    BY <1>4
  <2>3. Cardinality(left \ batch) = Cardinality(left) - Cardinality(left \cap batch)
    BY <2>1, FS_Difference
  <2>4. Cardinality(members \ batch) = Cardinality(members) - Cardinality(members \cap batch)
    BY <2>1, FS_Difference
  <2> QED
    BY <2>1, <2>2, <2>3, <2>4
<1>7. mem.original \cap members' = left \ batch
  BY <1>5
<1>8. /\ desired = mem.capacity + Cardinality(left)
      /\ mem.capacity >= Capacity
      /\ Capacity \in Nat /\ maxSize \in Nat /\ Cardinality(members) \in Nat
  BY <1>0, <1>1, <1>3, WorldNumbers DEF Counted, Recorded, Sized
<1>9. desired' = mem.capacity + Cardinality(left \ batch)
  BY <1>3, <1>5, <1>6, <1>8
<1>10. Sizes'
  <2>1. Capacity =< desired'
    BY <1>3, <1>6, <1>8, <1>9
  <2>2. desired' =< maxSize
    BY <1>3, <1>5, <1>6, <1>8 DEF CountInv, Sizes
  <2>3. Cardinality(members') =< desired'
    BY <1>3, <1>5, <1>6, <1>8 DEF CountInv, Sizes
  <2> QED
    BY <1>5, <2>1, <2>2, <2>3 DEF Sizes
<1>11. Counted(s)'
  <2>1. Recorded(s)'
    BY <1>2, <1>3 DEF Counted, Recorded
  <2>2. Sized(s)'
    BY <1>1, <1>2, <1>7, <1>9 DEF Sized
  <2>3. Doubled(s)'
    BY <1>2, <1>3, <1>4, <1>5 DEF Counted, Doubled, OwnWorkers
  <2> QED
    BY <2>1, <2>2, <2>3 DEF Counted
<1>12. ZeroDowntime'
  <2>1. batch \subseteq cordoned
    BY <1>0, <1>1, <1>3, <1>4, WorldNumbers DEF Sound
  <2> QED
    BY <1>0, <1>5, <2>1, ServingGrows DEF CountInv
<1> QED
  BY <1>10, <1>11, <1>12

(* What is terminated is no member any more.                               *)
LEMMA TerminateCount ==
    ASSUME CheckpointInv, FileInv, OldInv, CountInv, WorldTypeOK', NEW s, s \in {mem, file.state},
           Looping(Terminate, "batch"), NEW batch \in SUBSET todo, TerminateInEC2(batch)
    PROVE  Sizes' /\ Counted(s)' /\ ZeroDowntime'
<1>0. WorldTypeOK
  BY DEF CheckpointInv, TypeInv
<1>1. Gather \in mem.done /\ Detach \in mem.done /\ at = "batch"
  BY DEF CheckpointInv, Progress, Looping, Gather, Detach, Terminate
<1>2. s = mem
  BY <1>1, AsPersisted
<1>3. Sound(mem) /\ OwnWorkers(mem) /\ Counted(mem)
  BY KnownState
<1>4. batch \subseteq mem.original /\ mem.original \cap members = {}
  BY <1>1, <1>3 DEF CheckpointInv, Loops, Sound
<1>5. /\ members' = members /\ ready' = ready \ batch /\ cordoned' \subseteq cordoned
      /\ UNCHANGED <<desired, maxSize, launched>>
  BY <1>4 DEF TerminateInEC2, Terminated, asgVars
<1>6. Sizes'
  BY <1>5 DEF CountInv, Sizes
<1>7. s.new \cap ready \subseteq ready'
  BY <1>2, <1>3, <1>4, <1>5 DEF OwnWorkers
<1>8. Counted(s)'
  BY <1>0, <1>2, <1>3, <1>5, <1>7, CountedStable
<1>9. ZeroDowntime'
  BY <1>0, <1>4, <1>5, ServingGrows DEF CountInv
<1> QED
  BY <1>6, <1>8, <1>9

(* Every change a step of the roll out makes to the world, and at which    *)
(* step of which stage, as long as nobody else changes the group.          *)
LEMMA WorldChanges ==
    ASSUME CheckpointInv, "apply" \notin Operator, [Next]_vars
    PROVE  \/ WorldNext \/ UNCHANGED worldVars
           \/ Enter(SetMax) /\ MaxTooSmall /\ UpdateMaxSize(maxCapacityForUpdate)
           \/ Enter(ScaleUp) /\ SetDesiredCapacity(mem.updateMax)
           \/ Enter(Restore) /\ UpdateMaxSize(mem.max)
           \/ at = "node" /\ \E i \in todo : KubectlCordon(i) \/ KubectlDrain(i)
           \/ Looping(Detach, "batch") /\ \E batch \in SUBSET todo : DetachFromGroup(batch)
           \/ Looping(Terminate, "batch") /\ \E batch \in SUBSET todo : TerminateInEC2(batch)
<1>0. \A n : NextBatch(n) \subseteq SUBSET todo
  BY DEF NextBatch
<1>1. CASE SetMaxCapacity \/ ScaleUpGroup \/ RestoreCapacity
  BY <1>1 DEF SetMaxCapacity, ScaleUpGroup, RestoreCapacity
<1>2. CASE \E i \in Instance : CordonNode(i) \/ DrainNode(i) \/ NodeCallFails(i)
  BY <1>2 DEF CordonNode, DrainNode, NodeCallFails, Looping
<1>3. CASE DetachInstances \/ TerminateInstances
  BY <1>0, <1>3 DEF DetachInstances, TerminateInstances
<1>4. CASE TerminateFails
  BY <1>0, <1>4 DEF TerminateFails
<1>5. CASE ReplyLost
  BY <1>0, <1>5 DEF ReplyLost
<1>6. CASE World \/ ApplyTerraform
  BY <1>6 DEF World, ApplyTerraform
<1>7. CASE \/ Start \/ Skip \/ GatherASGInfo \/ RegatherASGInfo \/ WaitForCapacity \/ ScaleUpRefused
           \/ GetLaunchedInstanceIds \/ DescribeNewInstances \/ WaitForNodesReady \/ WaitForLoadBalancers
           \/ StartFanOut \/ FanOutDone \/ StartBatches \/ BatchesDone
           \/ TruncateFile \/ WriteFile \/ DeleteFile \/ PersistFails \/ CallFails \/ Crash \/ RemoveFile
           \/ LoadBalancersHang
           \/ UNCHANGED vars
  <2>1. UNCHANGED worldVars
    BY <1>7 DEF Start, Skip, GatherASGInfo, RegatherASGInfo, WaitForCapacity, ScaleUpRefused,
         GetLaunchedInstanceIds, DescribeNewInstances, WaitForNodesReady, WaitForLoadBalancers,
         StartFanOut, FanOutDone, StartBatches, BatchesDone, TruncateFile, WriteFile, DeleteFile,
         PersistFails, CallFails, LoadBalancersHang, Crash, RemoveFile, vars
  <2> QED
    BY <2>1
<1> QED
  BY <1>1, <1>2, <1>3, <1>4, <1>5, <1>6, <1>7 DEF Next, Process, Interference

(* What was counted for a state stays so, whatever the step.               *)
LEMMA KeptCount ==
    ASSUME Undisturbed, CheckpointInv, FileInv, OldInv, CountInv, [Next]_vars, NEW s, s \in {mem, file.state}
    PROVE  Sizes' /\ Counted(s)' /\ ZeroDowntime'
<1>0. WorldTypeOK'
  BY TypeInvStep DEF CheckpointInv, TypeInv
<1>1. CASE WorldNext \/ UNCHANGED worldVars
  BY <1>0, <1>1, WorldCount
<1>2. CASE \/ Enter(SetMax) /\ MaxTooSmall /\ UpdateMaxSize(maxCapacityForUpdate)
           \/ Enter(ScaleUp) /\ SetDesiredCapacity(mem.updateMax)
           \/ Enter(Restore) /\ UpdateMaxSize(mem.max)
  BY <1>0, <1>2, CapacityCount
<1>3. CASE at = "node" /\ \E i \in todo : KubectlCordon(i) \/ KubectlDrain(i)
  <2>1. PICK i \in todo : KubectlCordon(i) \/ KubectlDrain(i)
    BY <1>3
  <2> QED
    BY <1>0, <1>3, <2>1, NodeCount
<1>4. CASE Looping(Detach, "batch") /\ \E batch \in SUBSET todo : DetachFromGroup(batch)
  <2>1. PICK batch \in SUBSET todo : DetachFromGroup(batch)
    BY <1>4
  <2> QED
    BY <1>0, <1>4, <2>1, DetachCount
<1>5. CASE Looping(Terminate, "batch") /\ \E batch \in SUBSET todo : TerminateInEC2(batch)
  <2>1. PICK batch \in SUBSET todo : TerminateInEC2(batch)
    BY <1>5
  <2> QED
    BY <1>0, <1>5, <2>1, TerminateCount
<1> QED
  BY <1>1, <1>2, <1>3, <1>4, <1>5, WorldChanges DEF Undisturbed

LEMMA NewStateCount == Counted(newDeployState) /\ Counted(newDeployState)'
BY DEF newDeployState, Counted, Recorded, Sized, Doubled, Gather, SetMax, ScaleUp, WaitNodes

(* When a stage succeeds.                                                  *)
LEMMA CompletedWhen ==
    ASSUME CheckpointInv, [Next]_vars, Completed
    PROVE  /\ stage = Gather => AtCapacity \/ at = "regather"
           /\ stage = ScaleUp => at = "launched"
           /\ stage = WaitNodes => at = "lb"
           /\ stage = Terminate => at = "batch" /\ todo = {}
           /\ stage # SetMax => UNCHANGED worldVars
           /\ stage # Restore
<1>s. Gather = 1 /\ SetMax = 2 /\ ScaleUp = 3 /\ WaitNodes = 4 /\ Cordon = 5 /\ Drain = 6
      /\ Detach = 7 /\ Terminate = 8 /\ Restore = 9 /\ Flag = 1 .. 9 /\ Idle = 0 /\ Delete = 10
  BY DEF Gather, SetMax, ScaleUp, WaitNodes, Cordon, Drain, Detach, Terminate, Restore, Flag, Idle, Delete
<1>1. StepFits(at, stage) /\ at' = "persist" /\ stage \in 1 .. 9 /\ at \notin {"persist", "write"}
  BY <1>s DEF CheckpointInv, TypeInv, ControlTypeOK, Completed, Succeed, Continue
<1>2. CASE GatherASGInfo \/ RegatherASGInfo
  BY <1>1, <1>2, <1>s DEF GatherASGInfo, RegatherASGInfo, Enter, Looping, Continue, Step
<1>3. CASE SetMaxCapacity
  BY <1>3, <1>s DEF SetMaxCapacity, Enter
<1>4. CASE GetLaunchedInstanceIds \/ WaitForLoadBalancers
  BY <1>4, <1>s DEF GetLaunchedInstanceIds, WaitForLoadBalancers, Looping
<1>5. CASE FanOutDone \/ BatchesDone
  BY <1>1, <1>5, <1>s DEF FanOutDone, BatchesDone, StepFits
<1>6. CASE RestoreCapacity
  <2>1. stage = Restore /\ mem' = mem /\ Restore \notin mem.done
    BY <1>6 DEF RestoreCapacity, Enter
  <2>2. Succeed(mem) /\ mem \in DeployState
    BY <1>s, <2>1 DEF Completed, CheckpointInv, TypeInv, ControlTypeOK
  <2> QED
    BY <2>1, <2>2 DEF Succeed, DeployState
<1>7. CASE Start \/ Skip \/ Stopped \/ TruncateFile \/ WriteFile
  BY <1>1, <1>7, <1>s DEF Start, Skip, Stopped, TruncateFile, WriteFile
<1>8. CASE WaitForCapacity \/ WaitForNodesReady
  BY <1>1, <1>7, <1>8 DEF WaitForCapacity, WaitForNodesReady, Continue, ReturnError, Looping
<1>9. CASE ScaleUpGroup \/ DescribeNewInstances \/ StartFanOut \/ StartBatches \/ LoadBalancersHang
  BY <1>1, <1>9
     DEF ScaleUpGroup, DescribeNewInstances, StartFanOut, StartBatches, LoadBalancersHang, Continue
<1>10. CASE ScaleUpRefused \/ DeleteFile \/ PersistFails \/ CallFails \/ ReplyLost \/ Crash
  BY <1>7, <1>10 DEF ScaleUpRefused, DeleteFile, PersistFails, CallFails, ReplyLost, Crash, ReturnError
<1>11. CASE \E i \in Instance : CordonNode(i) \/ DrainNode(i) \/ NodeCallFails(i)
  BY <1>1, <1>11 DEF CordonNode, DrainNode, NodeCallFails, NodeDone, Looping
<1>12. CASE DetachInstances \/ TerminateInstances \/ TerminateFails
  BY <1>1, <1>7, <1>12 DEF DetachInstances, TerminateInstances, TerminateFails, Looping, Continue, ReturnError
<1>13. CASE World \/ RemoveFile \/ ApplyTerraform \/ UNCHANGED vars
  BY <1>1, <1>13 DEF World, RemoveFile, ApplyTerraform, vars, ctlVars
<1> QED
  BY <1>2, <1>3, <1>4, <1>5, <1>6, <1>7, <1>8, <1>9, <1>10, <1>11, <1>12, <1>13
     DEF Next, Process, Interference

(* A stage that succeeds has read, or made, what its flag says.            *)
LEMMA CompletedCount ==
    ASSUME Undisturbed, CheckpointInv, FileInv, OldInv, CountInv, [Next]_vars, Completed
    PROVE  Counted(mem)'
<1>0. /\ mem \in DeployState /\ mem.capacity \in Nat /\ mem.original \in SUBSET Instance
      /\ Sound(mem) /\ OwnWorkers(mem) /\ Counted(mem)
      /\ WorldTypeOK /\ UNCHANGED <<members, ready, launched, cordoned>>
  BY KnownState DEF CheckpointInv, TypeInv, Completed
<1>s. /\ Gather = 1 /\ SetMax = 2 /\ ScaleUp = 3 /\ WaitNodes = 4 /\ Terminate = 8 /\ Flag = 1 .. 9
  BY DEF Gather, SetMax, ScaleUp, WaitNodes, Terminate, Restore, Flag
<1>1. \A d \in 1 .. 8 : d < stage => d \in mem.done
  BY <1>s DEF CheckpointInv, Progress
<1>2. PICK m : m = mem
  OBVIOUS
<1>3. Counted(m)'
  BY <1>2, KeptCount
<1>w. stage # SetMax => desired' = desired /\ maxSize' = maxSize
  BY CompletedWhen DEF worldVars, asgVars
<1>4. CASE stage = Gather /\ Gather \notin mem.done /\ Succeed(WithAsgInfo(mem))
  <2>1. AtCapacity
    BY <1>4, CompletedWhen DEF CountInv, Waits
  <2>2. mem.done = {}
    BY <1>0, <1>4 DEF Sound
  <2>3. /\ mem'.done = {Gather} /\ mem'.capacity = desired /\ mem'.max = maxSize
        /\ mem'.original = members
    <3>1. /\ WithAsgInfo(mem) \in DeployState /\ WithAsgInfo(mem).done = mem.done
          /\ WithAsgInfo(mem).capacity = desired /\ WithAsgInfo(mem).max = maxSize
          /\ WithAsgInfo(mem).original = members
      BY <1>0 DEF WithAsgInfo, DeployState, WorldTypeOK
    <3> QED
      BY <1>4, <2>2, <3>1 DEF Succeed, DeployState
  <2>4. Recorded(mem)'
    BY <1>0, <2>1, <2>3 DEF Recorded, AtCapacity, CountInv, Sizes
  <2>5. Sized(mem)'
    BY <1>0, <1>4, <1>s, <1>w, <2>3 DEF Sized
  <2>6. Doubled(mem)'
    BY <1>s, <2>3 DEF Doubled
  <2> QED
    BY <2>4, <2>5, <2>6 DEF Counted
<1>5. CASE stage = SetMax /\ Succeed([mem EXCEPT !.updateMax = maxCapacityForUpdate])
  <2>1. /\ mem'.done = mem.done \cup {SetMax} /\ mem'.updateMax = 2 * mem.capacity
        /\ mem'.capacity = mem.capacity /\ mem'.max = mem.max
        /\ mem'.original = mem.original /\ mem'.new = mem.new
    BY <1>0, <1>5 DEF Succeed, DeployState, maxCapacityForUpdate
  <2>2. Recorded(mem)' /\ Sized(mem)'
    BY <1>2, <1>3, <1>s, <2>1 DEF Counted, Recorded, Sized
  <2>3. Doubled(mem)'
    BY <1>2, <1>3, <1>s, <2>1 DEF Counted, Doubled
  <2> QED
    BY <2>2, <2>3 DEF Counted
<1>6. CASE stage = ScaleUp /\ Succeed([mem EXCEPT !.new = LaunchedInstanceIds(mem.original)])
  <2>1. /\ mem'.done = mem.done \cup {ScaleUp} /\ mem'.updateMax = mem.updateMax
        /\ mem'.capacity = mem.capacity /\ mem'.max = mem.max
        /\ mem'.original = mem.original /\ mem'.new = members \ mem.original
    BY <1>0, <1>6 DEF Succeed, DeployState, LaunchedInstanceIds
  <2>2. /\ Gather \in mem.done /\ SetMax \in mem.done /\ ScaleUp \notin mem.done
        /\ AtCapacity /\ desired = mem.updateMax /\ mem.updateMax = 2 * mem.capacity
    BY <1>0, <1>1, <1>6, <1>s, CompletedWhen DEF CountInv, Waits, Counted, Doubled
  <2>3. mem.original \subseteq members /\ Cardinality(mem.original) = mem.capacity
    BY <1>0, <2>2 DEF Counted, Recorded, Sized
  <2>4. Cardinality(members \ mem.original) = mem.capacity
    <3>1. IsFiniteSet(members) /\ IsFiniteSet(mem.original) /\ members \cap mem.original = mem.original
      BY <1>0, <2>3, WorldNumbers
    <3>2. Cardinality(members \ mem.original) = Cardinality(members) - Cardinality(members \cap mem.original)
      BY <3>1, FS_Difference
    <3>3. Cardinality(members \cap mem.original) = mem.capacity
      BY <2>3, <3>1
    <3>4. Cardinality(members) = 2 * mem.capacity
      BY <2>2 DEF AtCapacity
    <3> QED
      BY <1>0, <3>2, <3>3, <3>4
  <2>5. Recorded(mem)'
    BY <1>2, <1>3, <2>1, <2>2 DEF Counted, Recorded
  <2>6. Cardinality(mem'.original \cap members') = mem.capacity
    <3>1. mem'.original \cap members' = mem.original
      BY <1>0, <2>1, <2>3
    <3> QED
      BY <2>3, <3>1
  <2>7. Sized(mem)'
    <3>1. desired' = mem'.capacity + Cardinality(mem'.original \cap members')
      BY <1>0, <1>6, <1>s, <1>w, <2>1, <2>2, <2>6
    <3> QED
      BY <2>1, <3>1 DEF Sized
  <2>8. Doubled(mem)'
    BY <1>0, <1>s, <2>1, <2>2, <2>4 DEF Counted, Doubled
  <2> QED
    BY <2>5, <2>7, <2>8 DEF Counted
<1>7. CASE stage \notin {Gather, SetMax, ScaleUp} /\ Succeed(mem)
  <2>1. /\ mem'.done = mem.done \cup {stage} /\ mem'.updateMax = mem.updateMax
        /\ mem'.capacity = mem.capacity /\ mem'.max = mem.max
        /\ mem'.original = mem.original /\ mem'.new = mem.new
    BY <1>0, <1>7 DEF Succeed, DeployState
  <2>2. Recorded(mem)' /\ Sized(mem)'
    BY <1>2, <1>3, <1>7, <2>1 DEF Counted, Recorded, Sized
  <2>3. stage = WaitNodes => ScaleUp \in mem.done /\ mem.new \subseteq ready
    BY <1>1, <1>s, CompletedWhen DEF CountInv, Waits
  <2>4. Doubled(mem)'
    BY <1>0, <1>2, <1>3, <1>7, <2>1, <2>3 DEF Counted, Doubled
  <2> QED
    BY <2>2, <2>4 DEF Counted
<1> QED
  BY <1>4, <1>5, <1>6, <1>7 DEF Completed

(* Which steps a process that waits comes from.                            *)
LEMMA WaitSteps ==
    ASSUME CheckpointInv, "apply" \notin Operator, [Next]_vars,
           at' \in {"regather", "capacity", "launched", "ready", "lb"}
    PROVE  \/ WaitForCapacity \/ ScaleUpGroup \/ DescribeNewInstances \/ WaitForNodesReady
           \/ at' = at /\ UNCHANGED <<mem, todo>> /\ (WorldNext \/ UNCHANGED worldVars)
<1>1. CASE Start
  BY <1>1 DEF Start, CheckpointInv, TypeInv, ControlTypeOK, StepFits, Idle, Flag, Gather
<1>2. CASE Skip \/ Stopped \/ TruncateFile \/ WriteFile
  BY <1>2 DEF Skip, Stopped, TruncateFile, WriteFile
<1>3. CASE \E s : Succeed(s)
  BY <1>3 DEF Succeed, Continue
<1>4. CASE \E step \in {"steady", "node", "batch", "persist", "hung"} : \E left, n : Continue(step, left, n)
  BY <1>4 DEF Continue
<1>5. CASE \E i \in Instance : CordonNode(i) \/ DrainNode(i) \/ NodeCallFails(i)
  BY <1>5 DEF CordonNode, DrainNode, NodeCallFails, NodeDone, Looping
<1>6. CASE World \/ ApplyTerraform \/ UNCHANGED vars
  BY <1>6 DEF World, ApplyTerraform, vars, ctlVars
<1>7. CASE RemoveFile
  BY <1>7 DEF RemoveFile, ctlVars
<1>8. CASE TerminateFails
  BY <1>8 DEF TerminateFails, Looping
<1>9. CASE GatherASGInfo \/ RegatherASGInfo
  BY <1>3, <1>4, <1>9 DEF GatherASGInfo, RegatherASGInfo
<1>10. CASE SetMaxCapacity \/ GetLaunchedInstanceIds \/ WaitForLoadBalancers
  BY <1>3, <1>10 DEF SetMaxCapacity, GetLaunchedInstanceIds, WaitForLoadBalancers
<1>11. CASE StartFanOut \/ StartBatches \/ RestoreCapacity \/ LoadBalancersHang
  BY <1>4, <1>11 DEF StartFanOut, StartBatches, RestoreCapacity, LoadBalancersHang
<1>12. CASE ScaleUpRefused \/ DeleteFile \/ PersistFails \/ CallFails \/ ReplyLost \/ Crash
  BY <1>2, <1>12 DEF ScaleUpRefused, DeleteFile, PersistFails, CallFails, ReplyLost, Crash, ReturnError
<1>13. CASE FanOutDone \/ BatchesDone
  BY <1>2, <1>3, <1>13 DEF FanOutDone, BatchesDone, ReturnError
<1>14. CASE DetachInstances \/ TerminateInstances
  <2>1. Stopped \/ \E step \in {"steady", "node", "batch", "persist"} : \E left, n : Continue(step, left, n)
    BY <1>14 DEF DetachInstances, TerminateInstances, ReturnError
  <2> QED
    BY <1>2, <1>4, <2>1
<1> QED
  BY <1>1, <1>2, <1>5, <1>6, <1>7, <1>8, <1>9, <1>10, <1>11, <1>12, <1>13, <1>14
     DEF Next, Process, Interference

(* What the loops that wait have seen is still so when they end.           *)
LEMMA WaitsStep ==
    ASSUME Undisturbed, CheckpointInv, OldInv, CountInv, [Next]_vars
    PROVE  Waits'
<1>0. WorldTypeOK' /\ WorldTypeOK
  BY TypeInvStep DEF CheckpointInv, TypeInv
<1> SUFFICES ASSUME at' \in {"regather", "capacity", "launched", "ready", "lb"} PROVE Waits'
  BY DEF Waits
<1>1. CASE WaitForCapacity
  <2>1. UNCHANGED worldVars /\ mem' = mem /\ (at = "steady" => at' \in {"steady", "regather"})
        /\ (at = "capacity" => at' \in {"capacity", "launched"}) /\ at \in {"steady", "capacity"}
        /\ (at' \in {"regather", "launched"} => AtCapacity)
    BY <1>1 DEF WaitForCapacity, Continue, ReturnError, Stopped
  <2>2. AtCapacity => AtCapacity'
    BY <2>1 DEF worldVars, asgVars, AtCapacity
  <2> QED
    BY <2>1, <2>2 DEF CountInv, Waits, worldVars, asgVars
<1>2. CASE ScaleUpGroup
  BY <1>2 DEF ScaleUpGroup, Enter, Continue, SetDesiredCapacity, Waits
<1>3. CASE DescribeNewInstances
  <2>1. at' = "ready" /\ todo' = Reported(mem.new) /\ mem' = mem
    BY <1>3 DEF DescribeNewInstances, Continue
  <2>2. mem.new \subseteq Reported(mem.new)
    BY DEF Reported
  <2> QED
    BY <2>1, <2>2 DEF Waits
<1>4. CASE WaitForNodesReady
  <2>1. /\ at = "ready" /\ mem' = mem /\ ready' = ready
        /\ \/ at' = "ready" /\ todo' = todo
           \/ at' = "lb" /\ todo \subseteq ready
    BY <1>4 DEF WaitForNodesReady, Looping, Continue, ReturnError, Stopped, AllNodesReady, worldVars, nodeVars
  <2> QED
    BY <2>1 DEF CountInv, Waits
<1>5. CASE at' = at /\ UNCHANGED <<mem, todo>> /\ (WorldNext \/ UNCHANGED worldVars)
  <2>1. (AtCapacity => AtCapacity') /\ desired' = desired /\ ready \subseteq ready'
    BY <1>0, <1>5, WorldCount
  <2> QED
    BY <1>5, <2>1 DEF CountInv, Waits
<1> QED
  BY <1>1, <1>2, <1>3, <1>4, <1>5, WaitSteps DEF Undisturbed

LEMMA CountInvStep ==
    ASSUME Undisturbed, CheckpointInv, FileInv, OldInv, CountInv, [Next]_vars
    PROVE  CountInv'
<1>1. PICK m : m = mem
  OBVIOUS
<1>2. PICK f : f = file.state
  OBVIOUS
<1>3. Sizes' /\ ZeroDowntime' /\ Counted(m)' /\ Counted(f)'
  BY <1>1, <1>2, KeptCount
<1>v. \A s \in {m, f, newDeployState} : Counted(s)'
  BY <1>3, NewStateCount
<1>w. \A s \in {m, f, newDeployState} :
         (mem' = s => Counted(mem)') /\ (file'.state = s => Counted(file.state)')
  BY <1>v DEF Counted, Recorded, Sized, Doubled
<1>4. Counted(file.state)'
  BY <1>1, <1>2, <1>w, FileSource
<1>5. Counted(mem)'
  <2>1. CASE mem' \in {mem, file.state, newDeployState}
    BY <1>1, <1>2, <1>w, <2>1
  <2>2. CASE Completed
    BY <2>2, CompletedCount
  <2> QED
    BY <2>1, <2>2, StepKinds DEF Start, initDeployState, Skip, WriteFile, Quiet, Ended, Stopped
<1> QED
  BY <1>3, <1>4, <1>5, WaitsStep DEF CountInv

(* A roll out that counted its workers is never one of an empty group.     *)
LEMMA CountedStaffed ==
    ASSUME Capacity > 0, CheckpointInv, CountInv
    PROVE  Staffed
<1>1. Gather \in mem.done => Cardinality(mem.original) >= Capacity
  BY DEF CountInv, Counted, Recorded
<1> QED
  BY <1>1, WorkersAssumption, FS_EmptySet DEF Staffed

LEMMA CountInvInit == Init => OldInv /\ CountInv
<1> SUFFICES ASSUME Init PROVE OldInv /\ CountInv
  OBVIOUS
<1>1. OldInv
  BY NewStateOwn DEF Init, WorldInit, OldInv, Absent
<1>2. Sizes /\ ZeroDowntime
  BY WorkersAssumption DEF Init, WorldInit, Sizes, ZeroDowntime
<1>3. Counted(mem) /\ Counted(file.state)
  BY NewStateCount DEF Init, Absent
<1>4. Waits
  BY DEF Init, Waits
<1> QED
  BY <1>1, <1>2, <1>3, <1>4 DEF CountInv

LEMMA CountInvariant == Undisturbed /\ Capacity > 0 => (Spec => [](OldInv /\ CountInv))
<1> SUFFICES ASSUME Undisturbed, Capacity > 0 PROVE Spec => [](OldInv /\ CountInv)
  OBVIOUS
<1>1. CheckpointInv /\ FileInv /\ (OldInv /\ CountInv) /\ [Next]_vars => (OldInv /\ CountInv)'
  BY CountInvStep, CountedStaffed, OldInvStep
<1> QED
  BY <1>1, CountInvInit, CheckpointInvariant, FileInvariant, PTL DEF Spec

(***************************************************************************)
(* Zero downtime (deploy.go:18): while no worker of the group fails and    *)
(* nobody else changes its size, the roll out of a group of any capacity   *)
(* leaves it that many Ready and schedulable workers at every step, across *)
(* crashes, lost replies, a file that is ignored or removed, and restarts. *)
(***************************************************************************)
THEOREM NoDowntime == Undisturbed => (Spec => []ZeroDowntime)
<1>1. CASE Capacity > 0
  <2>1. OldInv /\ CountInv => ZeroDowntime
    BY DEF CountInv
  <2> QED
    BY <1>1, <2>1, CountInvariant, PTL
<1>2. CASE ~(Capacity > 0)
  <2>1. TypeInv => ZeroDowntime
    BY <1>2, WorldNumbers DEF TypeInv, ZeroDowntime
  <2> QED
    BY <2>1, TypeInvariant, PTL
<1> QED
  BY <1>1, <1>2

(* Undisturbed, a group that has workers is never found empty.             *)
THEOREM StaysStaffed == Undisturbed /\ Capacity > 0 => (Spec => []Staffed)
<1> SUFFICES ASSUME Undisturbed, Capacity > 0 PROVE Spec => []Staffed
  OBVIOUS
<1>1. CheckpointInv /\ OldInv /\ CountInv => Staffed
  BY CountedStaffed
<1> QED
  BY <1>1, CountInvariant, CheckpointInvariant, PTL

-----------------------------------------------------------------------------
(***************************************************************************)
(* The refinement.  Without a file that is ignored or cannot be read, an   *)
(* invocation resumes the roll out of the file: the old workers of the     *)
(* abstract specification are changed by GatherASGInfo only.               *)
(***************************************************************************)
Resumes ==
    (file.status = "saved" /\ stage # Idle) =>
        mem.original = file.state.original /\ file.state.done \subseteq mem.done

LEMMA ResumesStep ==
    ASSUME "ignore" \notin Operator, "read" \notin Fault,
           CheckpointInv, FileInv, Resumes, [Next]_vars
    PROVE  Resumes'
<1>0. mem \in DeployState
  BY DEF CheckpointInv, TypeInv, ControlTypeOK
<1>s. /\ Idle = 0 /\ Flag = 1 .. 9
  BY DEF Idle, Gather, Restore, Flag
<1>1. CASE Start
  BY <1>1 DEF Start, initDeployState, Resumes
<1>2. CASE Skip
  BY <1>2, <1>s DEF Skip, Resumes
<1>3. CASE WriteFile
  BY <1>3 DEF WriteFile, Resumes, Saved
<1>4. CASE Quiet
  BY <1>4 DEF Quiet, Resumes, TruncateFile, RemoveFile, Corrupt, Absent
<1>5. CASE Ended
  BY <1>5 DEF Ended, Stopped, Resumes
<1>6. CASE Completed
  <2>1. file' = file /\ stage' = stage /\ stage # Idle
    BY <1>6, <1>s DEF Completed, Succeed, Continue
  <2>2. CASE stage = Gather
    BY <1>6, <2>1, <2>2 DEF Completed, FileInv, Resumes, SetMax, ScaleUp, Gather
  <2>3. CASE stage # Gather
    <3>1. mem'.original = mem.original /\ mem.done \subseteq mem'.done
      BY <1>0, <1>6, <2>3 DEF Completed, Succeed, DeployState
    <3> QED
      BY <2>1, <3>1 DEF Resumes
  <2> QED
    BY <2>2, <2>3
<1> QED
  BY <1>1, <1>2, <1>3, <1>4, <1>5, <1>6, StepKinds

(* A step that moves workers leaves the roll out alone ...                 *)
RolloutKept ==
    /\ Rollout' = Rollout
    /\ stage' = Delete <=> stage = Delete

LEMMA MovesTogether ==
    ASSUME NEW W \in SUBSET Instance, NEW from, NEW to, RolloutKept,
           \A w \in W : LifeOf(w) = from /\ LifeOf(w)' = to,
           \A i \in Instance \ W : LifeOf(i)' = LifeOf(i)
    PROVE  Replacement!Move(W, from, to)
BY DEF Replacement!Move, RolloutKept

LEMMA MovesNobody ==
    ASSUME RolloutKept, \A i \in Instance : LifeOf(i)' = LifeOf(i)
    PROVE  UNCHANGED Replacement!vars
BY DEF Replacement!vars, RolloutKept

(* Workers are only lost where the abstract specification allows for it.   *)
MayShrink ==
    \/ "instance" \in Fault \/ "apply" \in Operator
    \/ Cardinality(members) =< desired

LEMMA WorldMaps ==
    ASSUME WorldTypeOK, OldInv, RolloutKept, WorldNext, MayShrink
    PROVE  [Replacement!Next]_(Replacement!vars)
<1>1. PICK i \in Instance : Launch(i) \/ BecomeReady(i) \/ Schedule(i) \/ ScaleIn(i) \/ InstanceFails(i)
  BY DEF WorldNext
<1>2. CASE Launch(i)
  <2>1. LifeOf(i) = "absent" /\ LifeOf(i)' = "serving"
    BY <1>2 DEF Launch, LifeOf, WorldTypeOK, nodeVars
  <2>2. \A j \in Instance \ {i} : LifeOf(j)' = LifeOf(j)
    BY <1>2 DEF Launch, LifeOf, nodeVars
  <2>3. Replacement!Join(i)
    BY <2>1, <2>2, MovesTogether DEF Replacement!Join
  <2> QED
    BY <2>3 DEF Replacement!Next
<1>3. CASE BecomeReady(i)
  BY <1>3, MovesNobody DEF BecomeReady, LifeOf
<1>4. CASE Schedule(i)
  <2>1. \A j \in Instance : LifeOf(j)' = LifeOf(j)
    BY <1>4 DEF Schedule, LifeOf
  <2> QED
    BY <2>1, MovesNobody
<1>5. CASE ScaleIn(i) \/ InstanceFails(i)
  <2>0. "instance" \in Fault \/ "apply" \in Operator
    BY <1>5, WorldNumbers DEF MayShrink, ScaleIn, InstanceFails
  <2>1. LifeOf(i) \in Replacement!InGroup /\ LifeOf(i)' = "gone"
    BY <1>5 DEF ScaleIn, InstanceFails, Terminated, LifeOf, WorldTypeOK, Replacement!InGroup
  <2>2. \A j \in Instance \ {i} : LifeOf(j)' = LifeOf(j)
    BY <1>5 DEF ScaleIn, InstanceFails, Terminated, LifeOf
  <2>3. Replacement!Lose(i)
    BY <2>0, <2>1, <2>2, MovesTogether DEF Replacement!Lose
  <2> QED
    BY <2>3 DEF Replacement!Next
<1> QED
  BY <1>1, <1>2, <1>3, <1>4, <1>5

LEMMA FanOutMaps ==
    ASSUME CheckpointInv, OldInv, RolloutKept, NEW i \in todo, at = "node",
           KubectlCordon(i) \/ (stage = Drain /\ KubectlDrain(i))
    PROVE  [Replacement!Next]_(Replacement!vars)
<1>0. /\ WorldTypeOK /\ i \in Instance /\ i \in mem.original /\ i \in ready /\ i \in running
      /\ stage \in {Cordon, Drain}
  BY DEF CheckpointInv, TypeInv, ControlTypeOK, StepFits, OldInv, KubectlCordon, KubectlDrain, WorldTypeOK
<1>1. /\ Gather \in mem.done /\ WaitNodes \in mem.done
      /\ stage = Drain => Cordon \in mem.done
  BY <1>0 DEF CheckpointInv, Progress, Gather, WaitNodes, Cordon, Drain, Terminate
<1>2. Rollout = mem /\ i \notin Other
  BY <1>0, <1>1 DEF Rollout, OldInv, OwnWorkers
<1>3. \A j \in Instance \ {i} : LifeOf(j)' = LifeOf(j)
  BY DEF KubectlCordon, KubectlDrain, LifeOf
<1>4. CASE LifeOf(i)' = LifeOf(i)
  BY <1>3, <1>4, MovesNobody
<1>5. CASE LifeOf(i)' # LifeOf(i) /\ stage = Cordon
  <2>1. KubectlCordon(i)
    BY <1>5 DEF Cordon, Drain
  <2>2. LifeOf(i) = "serving" /\ LifeOf(i)' \in {"cordoned", "evicted"}
    BY <1>0, <1>2, <1>5, <2>1 DEF KubectlCordon, LifeOf, WorldTypeOK
  <2>3. Replacement!Cordon(i)
    BY <1>0, <1>1, <1>2, <1>3, <2>2, MovesTogether DEF Replacement!Cordon
  <2> QED
    BY <1>0, <2>3 DEF Replacement!Next
<1>6. CASE LifeOf(i)' # LifeOf(i) /\ stage = Drain
  <2>1. mem.original \cap running \subseteq cordoned
    BY <1>1, <1>6 DEF CheckpointInv, Sound
  <2>2. LifeOf(i) = "cordoned" /\ LifeOf(i)' = "evicted"
    BY <1>0, <1>2, <1>6, <2>1 DEF KubectlCordon, KubectlDrain, LifeOf, WorldTypeOK
  <2>3. Replacement!Past({"serving"})
    BY <1>2, <2>1 DEF Replacement!Past, LifeOf, OldInv, OwnWorkers, CheckpointInv, TypeInv, ControlTypeOK, DeployState
  <2>4. Replacement!Evict(i)
    BY <1>0, <1>2, <1>3, <2>2, <2>3, MovesTogether DEF Replacement!Evict
  <2> QED
    BY <1>0, <2>4 DEF Replacement!Next
<1> QED
  BY <1>0, <1>4, <1>5, <1>6

(* Old workers that are drained, and those that have left the group.       *)
LEMMA DrainedLife ==
    ASSUME CheckpointInv, OldInv, NEW i \in mem.original, Drain \in mem.done, Cordon \in mem.done
    PROVE  /\ LifeOf(i) \notin {"serving", "cordoned"}
           /\ i \in members => LifeOf(i) = "evicted"
<1>1. i \notin Other /\ i \notin pods /\ (i \in running => i \in cordoned)
  BY DEF CheckpointInv, Sound, OldInv, OwnWorkers
<1>2. members \subseteq running /\ running \subseteq launched
  BY DEF CheckpointInv, TypeInv, WorldTypeOK
<1> QED
  BY <1>1, <1>2 DEF LifeOf

LEMMA DetachedLife ==
    ASSUME CheckpointInv, OldInv, NEW i \in mem.original, Detach \in mem.done
    PROVE  /\ LifeOf(i) \notin Replacement!InGroup
           /\ i \in running => LifeOf(i) = "detached"
<1>1. i \notin Other /\ i \notin members
  BY DEF CheckpointInv, Sound, OldInv, OwnWorkers
<1>2. running \subseteq launched
  BY DEF CheckpointInv, TypeInv, WorldTypeOK
<1> QED
  BY <1>1, <1>2 DEF LifeOf, Replacement!InGroup

LEMMA DetachMaps ==
    ASSUME CheckpointInv, OldInv, RolloutKept, Looping(Detach, "batch"),
           NEW batch \in SUBSET todo, DetachFromGroup(batch)
    PROVE  [Replacement!Next]_(Replacement!vars)
<1>0. todo \subseteq mem.original /\ batch \subseteq members /\ mem.original \subseteq Instance
  BY DEF CheckpointInv, TypeInv, ControlTypeOK, DeployState, Loops, Looping, DetachFromGroup, Detachable
<1>1. Gather \in mem.done /\ Cordon \in mem.done /\ Drain \in mem.done
  BY DEF CheckpointInv, Progress, Looping, Gather, Cordon, Drain, Detach, Terminate
<1>2. Rollout = mem
  BY <1>1 DEF Rollout
<1>3. \A i \in batch : LifeOf(i) = "evicted" /\ LifeOf(i)' = "detached"
  <2> SUFFICES ASSUME NEW i \in batch PROVE LifeOf(i) = "evicted" /\ LifeOf(i)' = "detached"
    OBVIOUS
  <2>1. i \in mem.original /\ i \in members
    BY <1>0
  <2>2. LifeOf(i) = "evicted" /\ i \notin Other
    BY <1>1, <2>1, DrainedLife DEF OldInv
  <2>3. i \in running /\ i \in launched
    BY <2>1 DEF CheckpointInv, TypeInv, WorldTypeOK
  <2> QED
    BY <2>2, <2>3 DEF LifeOf, DetachFromGroup
<1>4. \A i \in Instance \ batch : LifeOf(i)' = LifeOf(i)
  BY DEF LifeOf, DetachFromGroup, nodeVars
<1>5. Replacement!Past({"serving", "cordoned"})
  BY <1>0, <1>1, <1>2, DrainedLife DEF Replacement!Past
<1>6. Replacement!Detach(batch)
  BY <1>0, <1>2, <1>3, <1>4, <1>5, MovesTogether DEF Replacement!Detach
<1> QED
  BY <1>0, <1>6 DEF Replacement!Next

LEMMA TerminateMaps ==
    ASSUME CheckpointInv, OldInv, RolloutKept, Looping(Terminate, "batch"),
           NEW batch \in SUBSET todo, TerminateInEC2(batch)
    PROVE  [Replacement!Next]_(Replacement!vars)
<1>0. todo \subseteq mem.original /\ mem.original \subseteq Instance
  BY DEF CheckpointInv, TypeInv, ControlTypeOK, DeployState, Loops, Looping
<1>1. Gather \in mem.done /\ Detach \in mem.done
  BY DEF CheckpointInv, Progress, Looping, Gather, Detach, Terminate
<1>2. Rollout = mem
  BY <1>1 DEF Rollout
<1> DEFINE W == batch \cap running
<1>3. \A i \in W : LifeOf(i) = "detached" /\ LifeOf(i)' = "gone"
  <2> SUFFICES ASSUME NEW i \in W PROVE LifeOf(i) = "detached" /\ LifeOf(i)' = "gone"
    OBVIOUS
  <2>1. LifeOf(i) = "detached"
    BY <1>0, <1>1, DetachedLife
  <2> QED
    BY <2>1 DEF LifeOf, TerminateInEC2, Terminated
<1>4. \A i \in Instance \ W : LifeOf(i)' = LifeOf(i)
  BY DEF LifeOf, TerminateInEC2, Terminated, CheckpointInv, TypeInv, WorldTypeOK
<1>5. Replacement!Past(Replacement!InGroup)
  BY <1>0, <1>1, <1>2, DetachedLife DEF Replacement!Past
<1>6. Replacement!Terminate(W)
  <2>1. W \in SUBSET Instance /\ W \subseteq Rollout.original
    BY <1>0, <1>2
  <2>2. Replacement!Move(W, "detached", "gone")
    BY <1>3, <1>4, <2>1, MovesTogether
  <2> QED
    BY <1>5, <2>1, <2>2 DEF Replacement!Terminate
<1> QED
  BY <1>0, <1>6 DEF Replacement!Next

(* ... and a step that moves none takes the roll out one step further, or  *)
(* back to what was persisted of it.                                       *)
LEMMA SuccessMaps ==
    ASSUME CheckpointInv, OldInv, stage = Restore, stage' = Delete, Gather \in mem.done,
           Rollout' = Rollout, \A i \in Instance : LifeOf(i)' = LifeOf(i)
    PROVE  [Replacement!Next]_(Replacement!vars)
<1>1. Rollout = mem /\ Detach \in mem.done /\ mem.original \subseteq Instance
  BY DEF Rollout, CheckpointInv, TypeInv, ControlTypeOK, DeployState, Progress, Gather, Detach, Terminate, Restore
<1>2. Replacement!Past(Replacement!InGroup)
  BY <1>1, DetachedLife DEF Replacement!Past
<1>3. Replacement!Succeed
  BY <1>2 DEF Replacement!Succeed
<1> QED
  BY <1>3 DEF Replacement!Next

LEMMA StopMaps ==
    ASSUME stage' # Delete, \A i \in Instance : LifeOf(i)' = LifeOf(i),
           \/ /\ Rollout'.original = Rollout.original
              /\ WaitNodes \in Rollout'.done => WaitNodes \in Rollout.done
           \/ Rollout' = newDeployState
    PROVE  [Replacement!Next]_(Replacement!vars)
<1>1. Replacement!Stop
  <2>1. (stage' = Delete) = FALSE
    OBVIOUS
  <2>2. CASE /\ Rollout'.original = Rollout.original
             /\ WaitNodes \in Rollout'.done => WaitNodes \in Rollout.done
    <3>1. \/ (WaitNodes \in Rollout'.done) = (WaitNodes \in Rollout.done)
          \/ (WaitNodes \in Rollout'.done) = FALSE
      BY <2>2
    <3> QED
      BY <2>1, <2>2, <3>1 DEF Replacement!Stop
  <2>3. CASE Rollout' = newDeployState
    <3>1. Rollout'.original = {} /\ (WaitNodes \in Rollout'.done) = FALSE
      BY <2>3 DEF newDeployState
    <3> QED
      BY <2>1, <3>1 DEF Replacement!Stop
  <2> QED
    BY <2>2, <2>3
<1> QED
  BY <1>1 DEF Replacement!Next

LEMMA CompletedMaps ==
    ASSUME CheckpointInv, Completed, \A i \in Instance : LifeOf(i)' = LifeOf(i)
    PROVE  [Replacement!Next]_(Replacement!vars)
<1>0. mem \in DeployState /\ WorldTypeOK /\ stage' = stage /\ stage \in Flag /\ file' = file
  BY DEF CheckpointInv, TypeInv, ControlTypeOK, Completed, Succeed, Continue
<1>s. /\ Gather = 1 /\ SetMax = 2 /\ ScaleUp = 3 /\ WaitNodes = 4 /\ Terminate = 8 /\ Delete = 10
      /\ Flag = 1 .. 9
  BY DEF Gather, SetMax, ScaleUp, WaitNodes, Terminate, Restore, Delete, Flag
<1>d. (stage = Delete) = FALSE /\ (stage' = Delete) = FALSE
  BY <1>0, <1>s
<1>1. CASE stage = Gather
  <2>1. Gather \notin mem.done /\ Succeed(WithAsgInfo(mem))
    BY <1>1, <1>s DEF Completed
  <2>2. mem.done = {}
    BY <2>1 DEF CheckpointInv, Sound
  <2>3. WithAsgInfo(mem) \in DeployState
    BY <1>0 DEF WithAsgInfo, DeployState, WorldTypeOK
  <2>4. WithAsgInfo(mem).original = members /\ WithAsgInfo(mem).done = {}
    BY <1>0, <2>2 DEF WithAsgInfo, DeployState
  <2>5. mem'.original = members /\ mem'.done = {Gather}
    BY <1>1, <2>1, <2>3, <2>4 DEF Succeed, DeployState
  <2>6. Rollout'.original = members /\ (WaitNodes \in Rollout'.done) = FALSE
    BY <1>s, <2>5 DEF Rollout
  <2>7. \A w \in members : w \in Instance /\ LifeOf(w) \in Replacement!InGroup
    BY <1>0 DEF LifeOf, WorldTypeOK, Replacement!InGroup
  <2>8. Replacement!Record(members)
    BY <1>d, <2>6, <2>7 DEF Replacement!Record
  <2>9. members \in SUBSET Instance
    BY <2>7
  <2> QED
    BY <2>8, <2>9 DEF Replacement!Next
<1>2. CASE stage # Gather
  <2>1. Gather \in mem.done
    BY <1>0, <1>2, <1>s DEF CheckpointInv, Progress, Completed
  <2>2. mem'.original = mem.original /\ mem'.done = mem.done \cup {stage}
    BY <1>0, <1>2 DEF Completed, Succeed, DeployState
  <2>3. Rollout'.original = Rollout.original /\ Rollout = mem /\ Rollout' = mem'
    BY <2>1, <2>2 DEF Rollout
  <2>4. CASE stage = WaitNodes
    <3>1. (WaitNodes \in Rollout'.done) = TRUE
      BY <2>2, <2>3, <2>4
    <3>2. Replacement!Verify
      BY <1>d, <2>3, <3>1 DEF Replacement!Verify
    <3> QED
      BY <3>2 DEF Replacement!Next
  <2>5. CASE stage # WaitNodes
    <3>1. (WaitNodes \in Rollout'.done) = (WaitNodes \in Rollout.done)
      BY <2>2, <2>3, <2>5
    <3> QED
      BY <1>d, <2>3, <3>1 DEF Replacement!vars
  <2> QED
    BY <2>4, <2>5
<1> QED
  BY <1>1, <1>2

LEMMA ControlMaps ==
    ASSUME "ignore" \notin Operator, "read" \notin Fault,
           CheckpointInv, FileInv, OldInv, Resumes, [Next]_vars,
           \A i \in Instance : LifeOf(i)' = LifeOf(i)
    PROVE  [Replacement!Next]_(Replacement!vars)
<1>s. Idle = 0 /\ Gather = 1 /\ Terminate = 8 /\ Restore = 9 /\ Delete = 10 /\ Flag = 1 .. 9
  BY DEF Idle, Gather, Terminate, Restore, Delete, Flag
<1>0. Gather \notin newDeployState.done
  BY DEF newDeployState
<1>1. CASE Start
  <2>1. /\ stage = Idle /\ stage' = Gather /\ file' = file /\ mem = newDeployState
        /\ \/ mem' = newDeployState
           \/ file.status = "saved" /\ mem' = file.state
    BY <1>1 DEF Start, initDeployState, FileInv
  <2>2. Rollout = file.state /\ Rollout' = file.state
    BY <1>0, <2>1 DEF Rollout, FileInv
  <2> QED
    BY <1>s, <2>1, <2>2, MovesNobody DEF RolloutKept
<1>2. CASE Skip
  <2>1. stage' = stage + 1 /\ stage \in Flag /\ mem' = mem /\ file' = file /\ stage \in mem.done
    BY <1>2 DEF Skip
  <2>2. Rollout' = Rollout
    BY <2>1 DEF Rollout
  <2>3. Gather \in mem.done
    BY <2>1 DEF CheckpointInv, Sound
  <2>4. CASE stage = Restore
    BY <1>s, <2>1, <2>2, <2>3, <2>4, SuccessMaps
  <2>5. CASE stage # Restore
    BY <1>s, <2>1, <2>2, <2>5, MovesNobody DEF RolloutKept
  <2> QED
    BY <2>4, <2>5
<1>3. CASE WriteFile
  <2>1. stage' = stage + 1 /\ mem' = mem /\ file' = Saved(mem) /\ at = "write"
    BY <1>3 DEF WriteFile
  <2>2. stage \in Flag /\ Gather \in mem.done
    BY <1>s, <2>1 DEF CheckpointInv, TypeInv, ControlTypeOK, StepFits, Progress
  <2>3. Rollout' = Rollout
    BY <2>1, <2>2 DEF Rollout
  <2>4. CASE stage = Restore
    BY <1>s, <2>1, <2>2, <2>3, <2>4, SuccessMaps
  <2>5. CASE stage # Restore
    BY <1>s, <2>1, <2>2, <2>3, <2>5, MovesNobody DEF RolloutKept
  <2> QED
    BY <2>4, <2>5
<1>4. CASE Quiet
  <2>1. mem' = mem /\ stage' = stage
    BY <1>4 DEF Quiet
  <2>2. CASE Gather \in mem.done \/ file' = file
    BY <2>1, <2>2, MovesNobody DEF Rollout, RolloutKept
  <2>3. CASE Gather \notin mem.done /\ TruncateFile
    BY <1>s, <2>3 DEF TruncateFile, CheckpointInv, TypeInv, ControlTypeOK, StepFits, Progress
  <2>4. CASE Gather \notin mem.done /\ RemoveFile
    <3>1. Rollout' = newDeployState /\ stage' # Delete
      BY <1>s, <2>1, <2>4 DEF RemoveFile, Rollout, Absent
    <3> QED
      BY <3>1, StopMaps
  <2> QED
    BY <1>4, <2>2, <2>3, <2>4 DEF Quiet
<1>5. CASE Ended
  <2>1. mem' = newDeployState /\ stage' = Idle /\ (file' = file \/ file' = Absent)
    BY <1>5 DEF Ended, Stopped
  <2>2. Rollout' = file'.state /\ stage' # Delete
    BY <1>0, <1>s, <2>1 DEF Rollout
  <2>3. CASE file'.state = newDeployState
    BY <2>2, <2>3, StopMaps
  <2>4. CASE file' = file /\ file.status = "saved"
    <3>1. CASE Gather \notin mem.done
      BY <2>2, <2>4, <3>1, StopMaps DEF Rollout
    <3>2. CASE Gather \in mem.done
      <4>1. stage # Idle
        BY <1>0, <3>2 DEF FileInv
      <4>2. Rollout = mem /\ mem.original = file.state.original /\ file.state.done \subseteq mem.done
        BY <2>4, <3>2, <4>1 DEF Rollout, Resumes
      <4> QED
        BY <2>2, <2>4, <4>2, StopMaps
    <3> QED
      BY <3>1, <3>2
  <2> QED
    BY <2>1, <2>3, <2>4 DEF FileInv, Absent
<1>6. CASE Completed
  BY <1>6, CompletedMaps
<1> QED
  BY <1>1, <1>2, <1>3, <1>4, <1>5, <1>6, StepKinds

LEMMA StepMaps ==
    ASSUME MayShrink, "ignore" \notin Operator, "read" \notin Fault,
           CheckpointInv, FileInv, OldInv, Resumes, [Next]_vars
    PROVE  [Replacement!Next]_(Replacement!vars)
<1>1. CASE UNCHANGED worldVars
  <2>1. \A i \in Instance : LifeOf(i)' = LifeOf(i)
    BY <1>1 DEF worldVars, LifeOf
  <2> QED
    BY <2>1, ControlMaps
<1>2. CASE \E n : UpdateMaxSize(n) \/ SetDesiredCapacity(n)
  <2>1. \A i \in Instance : LifeOf(i)' = LifeOf(i)
    BY <1>2 DEF UpdateMaxSize, SetDesiredCapacity, nodeVars, LifeOf
  <2> QED
    BY <2>1, ControlMaps
<1>k. UNCHANGED <<stage, mem, file>> => RolloutKept
  BY DEF RolloutKept, Rollout
<1>3. CASE World
  BY <1>3, <1>k, WorldMaps DEF World, ctlVars, CheckpointInv, TypeInv
<1>4. CASE \E i \in Instance : CordonNode(i) \/ DrainNode(i) \/ NodeCallFails(i)
  <2>1. PICK i \in Instance : CordonNode(i) \/ DrainNode(i) \/ NodeCallFails(i)
    BY <1>4
  <2>2. i \in todo /\ at = "node" /\ RolloutKept
    BY <1>k, <2>1 DEF CordonNode, DrainNode, NodeCallFails, NodeDone, Looping
  <2>3. UNCHANGED worldVars \/ KubectlCordon(i) \/ (stage = Drain /\ KubectlDrain(i))
    BY <2>1 DEF CordonNode, DrainNode, NodeCallFails, Looping
  <2> QED
    BY <1>1, <2>2, <2>3, FanOutMaps
<1>5. CASE DetachInstances
  <2>1. PICK batch \in SUBSET todo :
           \/ DetachFromGroup(batch) /\ UNCHANGED <<stage, mem, file>>
           \/ UNCHANGED worldVars
    BY <1>5 DEF DetachInstances, NextBatch, Continue
  <2>2. Looping(Detach, "batch")
    BY <1>5 DEF DetachInstances
  <2> QED
    BY <1>1, <1>k, <2>1, <2>2, DetachMaps
<1>6. CASE TerminateInstances \/ TerminateFails
  <2>1. PICK batch \in SUBSET todo : TerminateInEC2(batch) \/ UNCHANGED worldVars
    BY <1>6 DEF TerminateInstances, TerminateFails, NextBatch
  <2>2. Looping(Terminate, "batch") /\ UNCHANGED <<stage, mem, file>>
    BY <1>6 DEF TerminateInstances, TerminateFails, Continue
  <2> QED
    BY <1>1, <1>k, <2>1, <2>2, TerminateMaps
<1>7. CASE ReplyLost
  <2>1. CASE Looping(Detach, "batch") /\ \E batch \in NextBatch(DetachBatch) : DetachFromGroup(batch)
    <3>1. PICK batch \in SUBSET todo : DetachFromGroup(batch)
      BY <2>1 DEF NextBatch
    <3>2. Gather \in mem.done /\ at = "batch" /\ stage = Detach
      BY <2>1 DEF Looping, CheckpointInv, Progress, Gather, Detach, Terminate
    <3>3. mem' = newDeployState /\ file' = file /\ file = Saved(mem) /\ stage' = Idle
      BY <1>7, <3>2 DEF ReplyLost, ReturnError, Stopped, FileInv
    <3>4. RolloutKept
      BY <3>2, <3>3 DEF RolloutKept, Rollout, Saved, newDeployState, Idle, Detach, Delete
    <3> QED
      BY <2>1, <3>1, <3>4, DetachMaps
  <2> QED
    BY <1>2, <1>7, <2>1 DEF ReplyLost
<1>8. CASE SetMaxCapacity \/ ScaleUpGroup \/ RestoreCapacity \/ ApplyTerraform
  BY <1>1, <1>2, <1>8 DEF SetMaxCapacity, ScaleUpGroup, RestoreCapacity, ApplyTerraform
<1>9. CASE \/ Start \/ Skip \/ GatherASGInfo \/ RegatherASGInfo \/ WaitForCapacity \/ ScaleUpRefused
           \/ GetLaunchedInstanceIds \/ DescribeNewInstances \/ WaitForNodesReady \/ WaitForLoadBalancers
           \/ StartFanOut \/ FanOutDone \/ StartBatches \/ BatchesDone
           \/ TruncateFile \/ WriteFile \/ DeleteFile \/ PersistFails \/ CallFails \/ Crash \/ RemoveFile
           \/ LoadBalancersHang
  <2>1. UNCHANGED worldVars
    BY <1>9 DEF Start, Skip, GatherASGInfo, RegatherASGInfo, WaitForCapacity, ScaleUpRefused,
         GetLaunchedInstanceIds, DescribeNewInstances, WaitForNodesReady, WaitForLoadBalancers,
         StartFanOut, FanOutDone, StartBatches, BatchesDone, TruncateFile, WriteFile, DeleteFile,
         PersistFails, CallFails, LoadBalancersHang, Crash, RemoveFile
  <2> QED
    BY <1>1, <2>1
<1>10. CASE UNCHANGED vars
  BY <1>1, <1>10 DEF vars
<1> QED
  BY <1>3, <1>4, <1>5, <1>6, <1>7, <1>8, <1>9, <1>10 DEF Next, Process, Interference

LEMMA ReplacementInit == Init => Replacement!Init
<1> SUFFICES ASSUME Init PROVE Replacement!Init
  OBVIOUS
<1>1. \A i \in Instance : LifeOf(i) \in {"absent", "serving"}
  BY DEF Init, WorldInit, LifeOf
<1>2. Rollout = newDeployState
  BY DEF Init, Rollout, Absent
<1>3. Rollout.original = {} /\ (WaitNodes \in Rollout.done) = FALSE /\ (stage = Delete) = FALSE
  BY <1>2 DEF newDeployState, Init, Idle, Delete
<1> QED
  BY <1>1, <1>3 DEF Replacement!Init

(***************************************************************************)
(* The roll out replaces workers barrier by barrier (deploy.go:18-27),     *)
(* whatever crashes, fails, loses replies, removes the recovery file or    *)
(* changes the max size, for any number of workers: as long as the group   *)
(* was not empty when it was read and no recovery file is ignored.         *)
(***************************************************************************)
THEOREM ReplacesBarrierByBarrier ==
    "ignore" \notin Operator /\ "read" \notin Fault
        => (Spec /\ []Staffed => ImplementsReplacement)
<1> SUFFICES ASSUME "ignore" \notin Operator, "read" \notin Fault
             PROVE  Spec /\ []Staffed => ImplementsReplacement
  OBVIOUS
<1> DEFINE Inv == OldInv /\ Resumes /\ (Undisturbed => CountInv)
<1>1. Init => Inv
  BY CountInvInit, NewStateOwn DEF Init, WorldInit, OldInv, Absent, Resumes
<1>2. CheckpointInv /\ FileInv /\ Inv /\ Staffed /\ [Next]_vars => Inv'
  BY OldInvStep, ResumesStep, CountInvStep DEF Undisturbed
<1>3. CheckpointInv /\ FileInv /\ Inv /\ [Next]_vars => [Replacement!Next]_(Replacement!vars)
  <2>1. Inv => MayShrink
    BY DEF Undisturbed, MayShrink, CountInv, Sizes
  <2> QED
    BY <2>1, StepMaps
<1> QED
  BY <1>1, <1>2, <1>3, ReplacementInit, CheckpointInvariant, FileInvariant, PTL
     DEF Spec, ImplementsReplacement, Replacement!Spec

(***************************************************************************)
(* Undisturbed, a group that has workers is never found empty, so that     *)
(* both results above hold of every behaviour.  Only its old workers are   *)
(* cordoned (deploy_state.go:246), whatever file is ignored or removed.    *)
(***************************************************************************)
THEOREM UndisturbedCordonsOld == Undisturbed /\ Capacity > 0 => (Spec => []OnlyOldCordoned)
BY StaysStaffed, OthersStaySchedulable, PTL

(***************************************************************************)
(* And they are replaced barrier by barrier (deploy.go:18-27), as long as  *)
(* the recovery file can be read and is not ignored.                       *)
(***************************************************************************)
THEOREM UndisturbedReplacement ==
    Undisturbed /\ Capacity > 0 /\ "ignore" \notin Operator /\ "read" \notin Fault
        => (Spec => ImplementsReplacement)
BY StaysStaffed, ReplacesBarrierByBarrier, PTL

-----------------------------------------------------------------------------
(***************************************************************************)
(* The size of the group at the end.  When in addition the recovery file   *)
(* is left alone and can be read, a roll out never records a capacity or a *)
(* max size but the original ones: it starts over only where no file is,   *)
(* and there the group has the size it had before.                         *)
(***************************************************************************)
FileLeftAlone ==
    /\ "ignore" \notin Operator /\ "remove" \notin Operator
    /\ "read" \notin Fault

OriginalSize(s) ==
    /\ Restore \notin s.done
    /\ Gather \in s.done => s.capacity = Capacity /\ s.max = MaxSize

RestInv ==
    /\ OriginalSize(mem)
    /\ OriginalSize(file.state)
    /\ (stage # Idle /\ Gather \notin mem.done) => file.status = "absent"
    /\ file.status = "absent" => desired = Capacity /\ maxSize = MaxSize
    /\ (stage = Delete \/ (stage = Restore /\ at \in {"persist", "write"})) => maxSize = mem.max

LEMMA NewStateRest == OriginalSize(newDeployState)
BY DEF OriginalSize, newDeployState

(* The stages that change the size of the group have gathered it.          *)
(* restoreCapacity is the only step of its stage before it is persisted.   *)
LEMMA RestoreBegins ==
    ASSUME CheckpointInv, [Next]_vars, stage = Restore, stage' = Restore, mem' = mem,
           at \notin {"persist", "write"}, at' \in {"persist", "write"}
    PROVE  RestoreCapacity
<1>s. Gather = 1 /\ SetMax = 2 /\ ScaleUp = 3 /\ WaitNodes = 4 /\ Cordon = 5 /\ Drain = 6
      /\ Detach = 7 /\ Terminate = 8 /\ Restore = 9 /\ Idle = 0 /\ Delete = 10
  BY DEF Gather, SetMax, ScaleUp, WaitNodes, Cordon, Drain, Detach, Terminate, Restore, Idle, Delete
<1>1. StepFits(at, stage)
  BY DEF CheckpointInv, TypeInv, ControlTypeOK
<1>2. CASE GatherASGInfo \/ RegatherASGInfo \/ SetMaxCapacity \/ GetLaunchedInstanceIds \/ WaitForLoadBalancers
  BY <1>2, <1>s DEF GatherASGInfo, RegatherASGInfo, SetMaxCapacity, GetLaunchedInstanceIds,
     WaitForLoadBalancers, Enter, Looping
<1>3. CASE Start \/ Skip \/ Stopped \/ TruncateFile \/ WriteFile
  BY <1>3, <1>s DEF Start, Skip, Stopped, TruncateFile, WriteFile
<1>4. CASE FanOutDone \/ BatchesDone
  BY <1>1, <1>4, <1>s DEF FanOutDone, BatchesDone, StepFits
<1>5. CASE WaitForCapacity \/ WaitForNodesReady
  BY <1>1, <1>5, <1>s DEF WaitForCapacity, WaitForNodesReady, Looping, StepFits
<1>6. CASE ScaleUpGroup \/ DescribeNewInstances \/ StartFanOut \/ StartBatches \/ LoadBalancersHang
  BY <1>6, <1>s
     DEF ScaleUpGroup, DescribeNewInstances, StartFanOut, StartBatches, LoadBalancersHang, Enter, Looping
<1>7. CASE ScaleUpRefused \/ DeleteFile \/ PersistFails \/ CallFails \/ ReplyLost \/ Crash
  BY <1>3, <1>7 DEF ScaleUpRefused, DeleteFile, PersistFails, CallFails, ReplyLost, Crash, ReturnError
<1>8. CASE \E i \in Instance : CordonNode(i) \/ DrainNode(i) \/ NodeCallFails(i)
  BY <1>8 DEF CordonNode, DrainNode, NodeCallFails, NodeDone
<1>9. CASE DetachInstances \/ TerminateInstances \/ TerminateFails
  BY <1>9, <1>s DEF DetachInstances, TerminateInstances, TerminateFails, Looping
<1>10. CASE World \/ RemoveFile \/ ApplyTerraform \/ UNCHANGED vars
  BY <1>10 DEF World, RemoveFile, ApplyTerraform, vars, ctlVars
<1> QED
  BY <1>2, <1>3, <1>4, <1>5, <1>6, <1>7, <1>8, <1>9, <1>10 DEF Next, Process, Interference

LEMMA SizeChanges ==
    ASSUME CheckpointInv, "apply" \notin Operator, [Next]_vars
    PROVE  \/ UNCHANGED asgVars
           \/ /\ stage \in {SetMax, ScaleUp, Detach, Restore} /\ at \in {"enter", "batch"}
              /\ Gather \in mem.done
<1>s. /\ Gather = 1 /\ SetMax = 2 /\ ScaleUp = 3 /\ Detach = 7 /\ Terminate = 8 /\ Restore = 9
  BY DEF Gather, SetMax, ScaleUp, Detach, Terminate, Restore
<1>1. CASE WorldNext \/ UNCHANGED worldVars
  BY <1>1 DEF WorldNext, Launch, BecomeReady, Schedule, ScaleIn, InstanceFails, worldVars, asgVars
<1>2. CASE (at = "node" /\ \E i \in todo : KubectlCordon(i) \/ KubectlDrain(i))
           \/ \E batch \in SUBSET todo : TerminateInEC2(batch)
  BY <1>2 DEF KubectlCordon, KubectlDrain, TerminateInEC2
<1>3. CASE Enter(SetMax) \/ Enter(ScaleUp) \/ Enter(Restore) \/ Looping(Detach, "batch")
  BY <1>3, <1>s DEF Enter, Looping, CheckpointInv, Progress
<1> QED
  BY <1>1, <1>2, <1>3, WorldChanges

(* Only one step gets a roll out past restoreCapacity.                     *)
LEMMA RestoreSteps ==
    ASSUME CheckpointInv, FileInv, RestInv, "apply" \notin Operator, [Next]_vars,
           stage' = Delete \/ (stage' = Restore /\ at' \in {"persist", "write"})
    PROVE  /\ mem' = mem
           /\ \/ RestoreCapacity
              \/ /\ stage = Delete \/ (stage = Restore /\ at \in {"persist", "write"})
                 /\ UNCHANGED asgVars
<1>s. /\ Idle = 0 /\ Gather = 1 /\ SetMax = 2 /\ ScaleUp = 3 /\ WaitNodes = 4 /\ Cordon = 5
      /\ Drain = 6 /\ Detach = 7 /\ Terminate = 8 /\ Restore = 9 /\ Delete = 10 /\ Flag = 1 .. 9
  BY DEF Idle, Gather, SetMax, ScaleUp, WaitNodes, Cordon, Drain, Detach, Terminate, Restore, Delete, Flag
<1>0. StepFits(at, stage)
  BY DEF CheckpointInv, TypeInv, ControlTypeOK
<1>1. CASE Start \/ Ended
  BY <1>s, <1>1 DEF Start, Ended, Stopped
<1>2. CASE Skip
  BY <1>s, <1>2 DEF Skip, RestInv, OriginalSize
<1>3. CASE WriteFile
  BY <1>0, <1>s, <1>3 DEF WriteFile, StepFits, worldVars, asgVars
<1>4. CASE Completed
  <2>1. stage' = stage /\ stage \in Flag /\ stage # Restore
    BY <1>4, CompletedWhen DEF Completed, Succeed, Continue
  <2> QED
    BY <1>s, <2>1
<1>5. CASE Quiet
  <2>1. mem' = mem /\ stage' = stage
    BY <1>5 DEF Quiet
  <2>2. CASE stage = Delete \/ at \in {"persist", "write"}
    <3>1. stage = Delete => at = "enter"
      BY <1>0, <1>s, <2>2 DEF StepFits
    <3> QED
      BY <1>s, <2>1, <2>2, <3>1, SizeChanges
  <2>3. CASE stage = Restore /\ at \notin {"persist", "write"}
    BY <1>0, <1>5, <1>s, <2>1, <2>3, RestoreBegins
  <2> QED
    BY <2>1, <2>2, <2>3
<1> QED
  BY <1>1, <1>2, <1>3, <1>4, <1>5, StepKinds

(* With all old workers gone, the desired capacity is the recorded one.    *)
LEMMA AtTheEnd ==
    ASSUME CheckpointInv, OldInv, CountInv, RestInv, stage = Delete
    PROVE  desired = Capacity /\ maxSize = MaxSize /\ mem.original \cap members = {}
<1>1. Gather \in mem.done /\ ScaleUp \in mem.done /\ Detach \in mem.done
  BY DEF CheckpointInv, Progress, Gather, ScaleUp, Detach, Terminate, Delete
<1>2. mem.original \cap members = {}
  BY <1>1 DEF CheckpointInv, Sound
<1>3. desired = mem.capacity + 0
  BY <1>1, <1>2, FS_EmptySet DEF CountInv, Counted, Sized
<1> QED
  BY <1>1, <1>2, <1>3, KnownState, WorkersAssumption DEF RestInv, OriginalSize

LEMMA RestInvStep ==
    ASSUME Undisturbed, FileLeftAlone, CheckpointInv, FileInv, OldInv, CountInv, Resumes, RestInv, [Next]_vars
    PROVE  RestInv'
<1>s. /\ Idle = 0 /\ Gather = 1 /\ SetMax = 2 /\ ScaleUp = 3 /\ Terminate = 8 /\ Restore = 9
      /\ Delete = 10 /\ Flag = 1 .. 9
  BY DEF Idle, Gather, SetMax, ScaleUp, Terminate, Restore, Delete, Flag
<1>0. /\ mem \in DeployState /\ file \in File /\ StepFits(at, stage) /\ stage \in 0 .. 10
      /\ WorldTypeOK
  BY <1>s DEF CheckpointInv, TypeInv, ControlTypeOK
<1>1. OriginalSize(file.state)'
  <2>1. PICK m : m = mem
    OBVIOUS
  <2>2. PICK f : f = file.state
    OBVIOUS
  <2>3. \A s \in {m, f, newDeployState} : OriginalSize(s)
    BY <2>1, <2>2, NewStateRest DEF RestInv
  <2> QED
    BY <2>1, <2>2, <2>3, FileSource DEF OriginalSize
<1>2. OriginalSize(mem)'
  <2>1. CASE mem' \in {mem, file.state, newDeployState}
    BY <2>1, NewStateRest DEF RestInv, OriginalSize
  <2>2. CASE Completed
    <3>1. CASE stage = Gather /\ Gather \notin mem.done /\ Succeed(WithAsgInfo(mem))
      <4>1. desired = Capacity /\ maxSize = MaxSize
        BY <1>s, <3>1 DEF RestInv
      <4>2. WithAsgInfo(mem) \in DeployState
        BY <1>0 DEF WithAsgInfo, DeployState, WorldTypeOK
      <4>3. mem'.done = mem.done \cup {Gather} /\ mem'.capacity = desired /\ mem'.max = maxSize
        BY <1>0, <3>1, <4>2 DEF Succeed, WithAsgInfo, DeployState
      <4> QED
        BY <1>s, <4>1, <4>3 DEF OriginalSize, RestInv
    <3>2. CASE stage # Gather
      <4>1. stage # Restore
        BY <2>2, CompletedWhen
      <4>2. /\ mem'.done = mem.done \cup {stage} /\ mem'.capacity = mem.capacity
            /\ mem'.max = mem.max
        BY <1>0, <2>2, <3>2 DEF Completed, Succeed, DeployState
      <4> QED
        BY <3>2, <4>1, <4>2 DEF OriginalSize, RestInv
    <3> QED
      BY <1>s, <2>2, <3>1, <3>2 DEF Completed
  <2> QED
    BY <2>1, <2>2, StepKinds DEF Start, initDeployState, Skip, WriteFile, Quiet, Ended, Stopped
<1>3. (stage' # Idle /\ Gather \notin mem'.done) => file'.status = "absent"
  <2>1. CASE Start
    BY <2>1 DEF Start, initDeployState, FileLeftAlone, FileInv
  <2>2. CASE Skip
    BY <1>s, <2>2 DEF Skip, RestInv
  <2>3. CASE WriteFile
    BY <1>0, <1>s, <2>3 DEF WriteFile, CheckpointInv, Progress, StepFits
  <2>4. CASE Quiet
    BY <1>0, <1>s, <2>4 DEF Quiet, TruncateFile, RemoveFile, RestInv, CheckpointInv, Progress, StepFits, Absent
  <2>5. CASE Ended
    BY <2>5 DEF Ended, Stopped
  <2>6. CASE Completed
    <3>1. file' = file /\ stage' = stage /\ stage # Idle
      BY <1>s, <2>6 DEF Completed, Succeed, Continue
    <3>2. CASE stage = Gather
      <4>1. WithAsgInfo(mem) \in DeployState
        BY <1>0 DEF WithAsgInfo, DeployState, WorldTypeOK
      <4> QED
        BY <1>s, <2>6, <3>1, <3>2, <4>1 DEF Completed, Succeed, RestInv
    <3>3. CASE stage # Gather
      <4>1. Gather \in mem.done
        BY <1>s, <2>6, <3>3 DEF Completed, CheckpointInv, Progress
      <4> QED
        BY <1>0, <2>6, <3>3, <4>1 DEF Completed, Succeed, DeployState
    <3> QED
      BY <3>2, <3>3
  <2> QED
    BY <2>1, <2>2, <2>3, <2>4, <2>5, <2>6, StepKinds
<1>4. file'.status = "absent" => desired' = Capacity /\ maxSize' = MaxSize
  <2> SUFFICES ASSUME file'.status = "absent" PROVE desired' = Capacity /\ maxSize' = MaxSize
    OBVIOUS
  <2>1. CASE file.status = "absent"
    <3>1. UNCHANGED asgVars
      <4>1. Gather \in mem.done => at \in {"persist", "write"}
        BY <2>1 DEF FileInv, Saved
      <4> QED
        BY <4>1, SizeChanges DEF Undisturbed
    <3> QED
      BY <2>1, <3>1 DEF RestInv, asgVars
  <2>2. CASE file.status # "absent"
    <3>1. stage = Delete
      <4>1. Completed => file' = file
        BY DEF Completed, Succeed, Continue
      <4>2. Quiet => file' = file \/ file' = Corrupt
        BY DEF Quiet, TruncateFile, RemoveFile, FileLeftAlone
      <4>3. (Start \/ Skip => file' = file) /\ (WriteFile => file' = Saved(mem))
        BY DEF Start, Skip, WriteFile
      <4> QED
        BY <2>2, <4>1, <4>2, <4>3, StepKinds DEF Ended, Saved, Corrupt
    <3>2. UNCHANGED asgVars
      BY <1>0, <1>s, <3>1, SizeChanges DEF Undisturbed, StepFits, Detach
    <3>3. desired = Capacity /\ maxSize = MaxSize
      BY <3>1, AtTheEnd DEF CheckpointInv, RestInv
    <3> QED
      BY <3>2, <3>3 DEF asgVars
  <2> QED
    BY <2>1, <2>2
<1>5. (stage' = Delete \/ (stage' = Restore /\ at' \in {"persist", "write"})) => maxSize' = mem'.max
  BY RestoreSteps DEF RestInv, RestoreCapacity, UpdateMaxSize, asgVars, Undisturbed
<1> QED
  BY <1>1, <1>2, <1>3, <1>4, <1>5 DEF RestInv

(***************************************************************************)
(* When an invocation is about to report success, the group has the size   *)
(* and the max size it had, and no old worker is left in it, however often *)
(* the roll out was killed or failed and was resumed (deploy.go:27): while *)
(* no worker fails, nobody changes the group and the recovery file is kept.*)
(***************************************************************************)
THEOREM RestoresTheGroup ==
    Undisturbed /\ FileLeftAlone /\ Capacity > 0 => (Spec => []RestoredOnSuccess)
<1> SUFFICES ASSUME Undisturbed, FileLeftAlone, Capacity > 0 PROVE Spec => []RestoredOnSuccess
  OBVIOUS
<1>1. Init => Resumes /\ RestInv
  BY NewStateRest DEF Init, WorldInit, Absent, Resumes, RestInv, Idle, Delete, Restore
<1>2. CheckpointInv /\ FileInv /\ (OldInv /\ CountInv) /\ (Resumes /\ RestInv) /\ [Next]_vars => (Resumes /\ RestInv)'
  BY ResumesStep, RestInvStep DEF FileLeftAlone
<1>3. CheckpointInv /\ (OldInv /\ CountInv) /\ RestInv => RestoredOnSuccess
  BY AtTheEnd DEF RestoredOnSuccess
<1> QED
  BY <1>1, <1>2, <1>3, CountInvariant, CheckpointInvariant, FileInvariant, PTL DEF Spec
-----------------------------------------------------------------------------
(***************************************************************************)
(* The size of the group while its workers fail.  A worker that fails is   *)
(* missing from the group, so the numbers of Sized no longer add up.  What *)
(* remains is a lower bound: the capacity that is asked for covers the     *)
(* recorded one and the old workers that can still be detached.            *)
(***************************************************************************)
Covered(s) ==
    /\ Gather \in s.done =>
           /\ Capacity =< s.capacity
           /\ s.capacity =< s.max
           /\ Cardinality(s.original) =< s.capacity
    /\ SetMax \in s.done => s.updateMax = 2 * s.capacity
    /\ ScaleUp \in s.done => desired >= s.capacity + Cardinality(s.original \cap members)

KeepInv ==
    /\ Capacity =< desired
    /\ desired =< maxSize
    /\ Covered(mem)
    /\ Covered(file.state)
    /\ at = "regather" => Cardinality(members) =< desired
    /\ at \in {"capacity", "launched"} => ScaleUp \notin mem.done /\ desired = mem.updateMax

LEMMA NewStateCovered == Covered(newDeployState) /\ Covered(newDeployState)'
BY DEF newDeployState, Covered, Gather, SetMax, ScaleUp

(* Fewer old workers in the group need no larger capacity.                 *)
LEMMA CoveredStable ==
    ASSUME WorldTypeOK, NEW s, s \in DeployState, Sound(s), Covered(s),
           desired' = desired, members' \cap launched \subseteq members
    PROVE  Covered(s)'
<1>1. s.original \cap members' \subseteq s.original \cap members
  BY DEF Sound, WorldTypeOK
<1>2. Cardinality(s.original \cap members') =< Cardinality(s.original \cap members)
      /\ Cardinality(s.original \cap members') \in Nat /\ Cardinality(s.original \cap members) \in Nat
  BY <1>1, WorldNumbers, FS_Subset DEF DeployState
<1>3. s.capacity \in Nat /\ desired \in Nat
  BY DEF DeployState, WorldTypeOK
<1> QED
  BY <1>2, <1>3 DEF Covered

(* What the group does by itself changes no capacity, and when it grows it *)
(* does not grow above it.                                                 *)
LEMMA GroupKept ==
    ASSUME WorldTypeOK, WorldNext \/ UNCHANGED worldVars
    PROVE  /\ desired' = desired /\ maxSize' = maxSize /\ members' \cap launched \subseteq members
           /\ Cardinality(members) =< desired => Cardinality(members') =< desired
<1>1. CASE UNCHANGED worldVars
  BY <1>1 DEF worldVars
<1>2. CASE WorldNext
  <2>1. PICK i \in Instance : Launch(i) \/ BecomeReady(i) \/ Schedule(i) \/ ScaleIn(i) \/ InstanceFails(i)
    BY <1>2 DEF WorldNext
  <2>2. CASE Launch(i)
    <3>1. Cardinality(members \cup {i}) = Cardinality(members) + 1
      BY <2>2, FS_AddElement, WorldNumbers DEF Launch, WorldTypeOK
    <3> QED
      BY <2>2, <3>1, WorldNumbers DEF Launch, asgVars
  <2>3. CASE BecomeReady(i) \/ Schedule(i)
    BY <2>3 DEF BecomeReady, Schedule, asgVars
  <2>4. CASE ScaleIn(i) \/ InstanceFails(i)
    <3>1. members' = members \ {i} /\ desired' = desired /\ maxSize' = maxSize
      BY <2>4 DEF ScaleIn, InstanceFails, asgVars
    <3>2. Cardinality(members') =< Cardinality(members)
      BY <3>1, WorldNumbers, FS_Subset
    <3>3. Cardinality(members') \in Nat /\ Cardinality(members) \in Nat /\ desired \in Nat
      BY <3>1, WorldNumbers
    <3> QED
      BY <3>1, <3>2, <3>3
  <2> QED
    BY <2>1, <2>2, <2>3, <2>4
<1> QED
  BY <1>1, <1>2

LEMMA CoveredState ==
    ASSUME CheckpointInv, KeepInv, NEW s, s \in {mem, file.state}
    PROVE  /\ s \in DeployState /\ Sound(s) /\ Covered(s)
           /\ s.capacity \in Nat /\ s.updateMax \in Nat /\ s.max \in Nat
<1>1. mem \in DeployState /\ file.state \in DeployState
  BY DEF CheckpointInv, TypeInv, ControlTypeOK, File
<1>2. Sound(s)
  BY DEF CheckpointInv, Sound
<1>3. Covered(s)
  BY DEF KeepInv, Covered
<1> QED
  BY <1>1, <1>2, <1>3 DEF DeployState

(* No call for another size asks for less than the recorded capacity.      *)
LEMMA CapacityCovered ==
    ASSUME CheckpointInv, FileInv, KeepInv, NEW s, s \in {mem, file.state},
           \/ Enter(SetMax) /\ MaxTooSmall /\ UpdateMaxSize(maxCapacityForUpdate)
           \/ Enter(ScaleUp) /\ SetDesiredCapacity(mem.updateMax)
           \/ Enter(Restore) /\ UpdateMaxSize(mem.max)
    PROVE  /\ Capacity =< desired' /\ desired' =< maxSize' /\ Covered(s)'
           /\ stage = ScaleUp => desired' = mem.updateMax
<1>0. WorldTypeOK
  BY DEF CheckpointInv, TypeInv
<1>s. Gather = 1 /\ SetMax = 2 /\ ScaleUp = 3 /\ Detach = 7 /\ Terminate = 8 /\ Restore = 9
  BY DEF Gather, SetMax, ScaleUp, Detach, Terminate, Restore
<1>1. stage \in {SetMax, ScaleUp, Restore} /\ at = "enter" /\ members' = members
  BY DEF Enter, UpdateMaxSize, SetDesiredCapacity
<1>2. Gather \in mem.done
  BY <1>1, <1>s DEF CheckpointInv, Progress
<1>3. s = mem
  BY <1>1, <1>2, AsPersisted
<1>4. /\ Sound(mem) /\ Covered(mem)
      /\ mem.capacity \in Nat /\ mem.updateMax \in Nat /\ mem.max \in Nat
  BY CoveredState
<1>5. Capacity \in Nat /\ desired \in Nat /\ maxSize \in Nat
  BY <1>0, WorldNumbers
<1>6. Capacity =< mem.capacity /\ mem.capacity =< mem.max /\ Capacity =< desired /\ desired =< maxSize
  BY <1>2, <1>4 DEF Covered, KeepInv
<1> DEFINE left == Cardinality(mem.original \cap members)
<1>l. left \in Nat /\ left =< mem.capacity
  <2>1. IsFiniteSet(mem.original) /\ Cardinality(mem.original) \in Nat /\ left \in Nat
    BY <1>0, WorldNumbers, CoveredState DEF DeployState
  <2>2. left =< Cardinality(mem.original)
    BY <2>1, FS_Subset
  <2> QED
    BY <1>2, <1>4, <2>1, <2>2 DEF Covered
<1>k. ASSUME ScaleUp \in mem.done => desired' >= mem.capacity + left
      PROVE  Covered(s)'
  BY <1>1, <1>3, <1>4, <1>k DEF Covered
<1>7. CASE stage = SetMax
  <2>1. UpdateMaxSize(maxCapacityForUpdate) /\ maxCapacityForUpdate = 2 * mem.capacity
    BY <1>4, <1>7, <1>s DEF Enter, maxCapacityForUpdate
  <2>2. Capacity =< desired' /\ desired' =< maxSize'
    BY <1>4, <1>5, <1>6, <2>1 DEF UpdateMaxSize
  <2>3. ScaleUp \in mem.done => desired >= mem.capacity + left
    BY <1>4 DEF Covered
  <2>4. ScaleUp \in mem.done => desired' >= mem.capacity + left
    BY <1>4, <1>5, <1>l, <2>1, <2>3 DEF UpdateMaxSize
  <2> QED
    BY <1>7, <1>k, <1>s, <2>2, <2>4
<1>8. CASE stage = ScaleUp
  <2>1. SetDesiredCapacity(mem.updateMax) /\ ScaleUp \notin mem.done /\ SetMax \in mem.done
    BY <1>8, <1>s DEF Enter, CheckpointInv, Progress
  <2>2. desired' = mem.updateMax /\ mem.updateMax = 2 * mem.capacity /\ maxSize' = maxSize
        /\ mem.updateMax =< maxSize
    BY <1>4, <2>1 DEF SetDesiredCapacity, Covered
  <2>3. Capacity =< desired' /\ desired' =< maxSize'
    BY <1>4, <1>5, <1>6, <2>2
  <2> QED
    BY <1>k, <2>1, <2>2, <2>3
<1>9. CASE stage = Restore
  <2>1. UpdateMaxSize(mem.max) /\ ScaleUp \in mem.done /\ Detach \in mem.done
    BY <1>9, <1>s DEF Enter, CheckpointInv, Progress
  <2>2. mem.original \cap members = {}
    BY <1>4, <2>1 DEF Sound
  <2>3. left = 0
    BY <2>2, FS_EmptySet
  <2>4. desired >= mem.capacity
    BY <1>4, <1>5, <2>1, <2>3 DEF Covered
  <2>5. Capacity =< desired' /\ desired' =< maxSize' /\ desired' >= mem.capacity
    BY <1>4, <1>5, <1>6, <2>1, <2>4 DEF UpdateMaxSize
  <2>6. desired' >= mem.capacity + left
    BY <1>4, <2>3, <2>5
  <2> QED
    BY <1>9, <1>k, <1>s, <2>5, <2>6
<1> QED
  BY <1>1, <1>7, <1>8, <1>9

(* AWS detaches members only: each takes its own place with it.            *)
LEMMA DetachCovered ==
    ASSUME CheckpointInv, FileInv, KeepInv, NEW s, s \in {mem, file.state},
           Looping(Detach, "batch"), NEW batch \in SUBSET todo, DetachFromGroup(batch)
    PROVE  Capacity =< desired' /\ desired' =< maxSize' /\ Covered(s)'
<1>0. WorldTypeOK
  BY DEF CheckpointInv, TypeInv
<1>1. Gather \in mem.done /\ ScaleUp \in mem.done /\ at = "batch"
  BY DEF CheckpointInv, Progress, Looping, Gather, ScaleUp, Detach, Terminate
<1>2. s = mem
  BY <1>1, AsPersisted
<1>3. Covered(mem) /\ mem.capacity \in Nat /\ mem.original \in SUBSET Instance
  BY CoveredState DEF DeployState
<1>4. batch \subseteq mem.original \cap members
  BY <1>1 DEF CheckpointInv, Loops, DetachFromGroup, Detachable
<1>5. members' = members \ batch /\ desired' = desired - Cardinality(batch) /\ maxSize' = maxSize
  BY DEF DetachFromGroup
<1> DEFINE left == mem.original \cap members
<1>6. /\ Cardinality(left) \in Nat /\ Cardinality(batch) \in Nat /\ Cardinality(left \ batch) \in Nat
      /\ Cardinality(left \ batch) = Cardinality(left) - Cardinality(batch)
  <2>1. /\ IsFiniteSet(left) /\ Cardinality(left) \in Nat
        /\ Cardinality(batch) \in Nat /\ Cardinality(left \ batch) \in Nat
    BY <1>0, <1>3, <1>4, WorldNumbers
  <2>2. left \cap batch = batch
    BY <1>4
  <2>3. Cardinality(left \ batch) = Cardinality(left) - Cardinality(left \cap batch)
    BY <2>1, FS_Difference
  <2> QED
    BY <2>1, <2>2, <2>3
<1>7. mem.original \cap members' = left \ batch
  BY <1>5
<1>8. desired >= mem.capacity + Cardinality(left) /\ Capacity =< mem.capacity /\ desired =< maxSize
      /\ desired \in Nat /\ maxSize \in Nat /\ Capacity \in Nat
  BY <1>0, <1>1, <1>3, WorldNumbers DEF Covered, KeepInv
<1>9. desired' >= mem.capacity + Cardinality(left \ batch)
  BY <1>3, <1>5, <1>6, <1>8
<1>10. Capacity =< desired' /\ desired' =< maxSize'
  BY <1>3, <1>5, <1>6, <1>8, <1>9
<1> QED
  BY <1>1, <1>2, <1>3, <1>7, <1>9, <1>10 DEF Covered

(* What covered a state still does, whatever the step.                     *)
LEMMA StaysCovered ==
    ASSUME "apply" \notin Operator, CheckpointInv, FileInv, KeepInv, [Next]_vars,
           NEW s, s \in {mem, file.state}
    PROVE  Capacity =< desired' /\ desired' =< maxSize' /\ Covered(s)'
<1>0. WorldTypeOK /\ s \in DeployState /\ Sound(s) /\ Covered(s)
  BY CoveredState DEF CheckpointInv, TypeInv
<1>1. CASE WorldNext \/ UNCHANGED worldVars
  BY <1>0, <1>1, GroupKept, CoveredStable DEF KeepInv
<1>2. CASE \/ Enter(SetMax) /\ MaxTooSmall /\ UpdateMaxSize(maxCapacityForUpdate)
           \/ Enter(ScaleUp) /\ SetDesiredCapacity(mem.updateMax)
           \/ Enter(Restore) /\ UpdateMaxSize(mem.max)
  BY <1>2, CapacityCovered
<1>3. CASE at = "node" /\ \E i \in todo : KubectlCordon(i) \/ KubectlDrain(i)
  <2>1. desired' = desired /\ maxSize' = maxSize /\ members' = members
    BY <1>3 DEF KubectlCordon, KubectlDrain, asgVars
  <2> QED
    BY <1>0, <2>1, CoveredStable DEF KeepInv
<1>4. CASE Looping(Detach, "batch") /\ \E batch \in SUBSET todo : DetachFromGroup(batch)
  <2>1. PICK batch \in SUBSET todo : DetachFromGroup(batch)
    BY <1>4
  <2> QED
    BY <1>4, <2>1, DetachCovered
<1>5. CASE Looping(Terminate, "batch") /\ \E batch \in SUBSET todo : TerminateInEC2(batch)
  <2>1. desired' = desired /\ maxSize' = maxSize /\ members' \subseteq members
    BY <1>5 DEF TerminateInEC2, asgVars
  <2> QED
    BY <1>0, <2>1, CoveredStable DEF KeepInv
<1> QED
  BY <1>1, <1>2, <1>3, <1>4, <1>5, WorldChanges

(* A stage that succeeds has read, or made, what covers its flag.          *)
LEMMA CompletedCovered ==
    ASSUME "apply" \notin Operator, CheckpointInv, FileInv, KeepInv, [Next]_vars, Completed
    PROVE  Covered(mem)'
<1>0. /\ mem \in DeployState /\ mem.capacity \in Nat /\ Sound(mem) /\ Covered(mem)
      /\ WorldTypeOK /\ members' = members
  BY CoveredState DEF CheckpointInv, TypeInv, Completed
<1>s. /\ Gather = 1 /\ SetMax = 2 /\ ScaleUp = 3 /\ Terminate = 8 /\ Flag = 1 .. 9
  BY DEF Gather, SetMax, ScaleUp, Terminate, Restore, Flag
<1>1. \A d \in 1 .. 8 : d < stage => d \in mem.done
  BY <1>s DEF CheckpointInv, Progress
<1>2. PICK m : m = mem
  OBVIOUS
<1>3. Covered(m)'
  BY <1>2, StaysCovered
<1>4. CASE stage = Gather /\ Gather \notin mem.done /\ Succeed(WithAsgInfo(mem))
  <2>1. Cardinality(members) =< desired
    BY <1>0, <1>4, CompletedWhen DEF KeepInv, AtCapacity, WorldTypeOK
  <2>2. mem.done = {}
    BY <1>0, <1>4 DEF Sound
  <2>3. mem'.done = {Gather} /\ mem'.capacity = desired /\ mem'.max = maxSize /\ mem'.original = members
    BY <1>0, <1>4, <2>2 DEF Succeed, WithAsgInfo, DeployState
  <2> QED
    BY <1>s, <2>1, <2>3 DEF Covered, KeepInv
<1>5. CASE stage = SetMax /\ Succeed([mem EXCEPT !.updateMax = maxCapacityForUpdate])
  <2>1. /\ mem'.done = mem.done \cup {SetMax} /\ mem'.updateMax = 2 * mem.capacity
        /\ mem'.capacity = mem.capacity /\ mem'.max = mem.max /\ mem'.original = mem.original
    BY <1>0, <1>5 DEF Succeed, DeployState, maxCapacityForUpdate
  <2> QED
    BY <1>2, <1>3, <1>s, <2>1 DEF Covered
<1>6. CASE stage = ScaleUp /\ Succeed([mem EXCEPT !.new = LaunchedInstanceIds(mem.original)])
  <2>1. /\ mem'.done = mem.done \cup {ScaleUp} /\ mem'.updateMax = mem.updateMax
        /\ mem'.capacity = mem.capacity /\ mem'.max = mem.max /\ mem'.original = mem.original
    BY <1>0, <1>6 DEF Succeed, DeployState
  <2>2. Gather \in mem.done /\ SetMax \in mem.done /\ desired = 2 * mem.capacity /\ desired' = desired
    BY <1>0, <1>1, <1>6, <1>s, CompletedWhen DEF KeepInv, Covered, worldVars
  <2>3. Cardinality(mem.original \cap members) \in Nat /\ Cardinality(mem.original \cap members) =< mem.capacity
    <3>1. IsFiniteSet(mem.original) /\ Cardinality(mem.original) \in Nat
          /\ Cardinality(mem.original \cap members) \in Nat
      BY <1>0, WorldNumbers DEF DeployState
    <3>2. Cardinality(mem.original \cap members) =< Cardinality(mem.original)
      BY <3>1, FS_Subset
    <3> QED
      BY <1>0, <2>2, <3>1, <3>2 DEF Covered
  <2>4. desired' >= mem.capacity + Cardinality(mem.original \cap members)
    BY <1>0, <2>2, <2>3
  <2> QED
    BY <1>0, <1>2, <1>3, <1>s, <2>1, <2>2, <2>4 DEF Covered
<1>7. CASE stage \notin {Gather, SetMax, ScaleUp} /\ Succeed(mem)
  <2>1. /\ mem'.done = mem.done \cup {stage} /\ mem'.updateMax = mem.updateMax
        /\ mem'.capacity = mem.capacity /\ mem'.max = mem.max /\ mem'.original = mem.original
    BY <1>0, <1>7 DEF Succeed, DeployState
  <2> QED
    BY <1>2, <1>3, <1>7, <2>1 DEF Covered
<1> QED
  BY <1>4, <1>5, <1>6, <1>7 DEF Completed

LEMMA KeepInvStep ==
    ASSUME "apply" \notin Operator, CheckpointInv, FileInv, KeepInv, [Next]_vars
    PROVE  KeepInv'
<1>1. PICK m : m = mem
  OBVIOUS
<1>2. PICK f : f = file.state
  OBVIOUS
<1>3. Capacity =< desired' /\ desired' =< maxSize' /\ Covered(m)' /\ Covered(f)'
  BY <1>1, <1>2, StaysCovered
<1>v. \A s \in {m, f, newDeployState} :
         (mem' = s => Covered(mem)') /\ (file'.state = s => Covered(file.state)')
  BY <1>3, NewStateCovered DEF Covered
<1>4. Covered(file.state)'
  BY <1>1, <1>2, <1>v, FileSource
<1>5. Covered(mem)'
  <2>1. CASE mem' \in {mem, file.state, newDeployState}
    BY <1>1, <1>2, <1>v, <2>1
  <2>2. CASE Completed
    BY <2>2, CompletedCovered
  <2> QED
    BY <2>1, <2>2, StepKinds DEF Start, initDeployState, Skip, WriteFile, Quiet, Ended, Stopped
<1>6. ASSUME at' \in {"regather", "capacity", "launched"}
      PROVE  /\ at' = "regather" => Cardinality(members') =< desired'
             /\ at' \in {"capacity", "launched"} => ScaleUp \notin mem'.done /\ desired' = mem'.updateMax
  <2>0. WorldTypeOK
    BY DEF CheckpointInv, TypeInv
  <2>1. CASE WaitForCapacity
    <3>1. /\ UNCHANGED worldVars /\ mem' = mem
          /\ at \in {"steady", "capacity"}
          /\ at' = "regather" => AtCapacity
          /\ at' \in {"capacity", "launched"} => at = "capacity"
      BY <1>6, <2>1 DEF WaitForCapacity, Continue, ReturnError, Stopped
    <3> QED
      BY <2>0, <3>1 DEF KeepInv, AtCapacity, worldVars, WorldTypeOK
  <2>2. CASE ScaleUpGroup
    BY <2>2 DEF ScaleUpGroup, Enter, Continue, SetDesiredCapacity
  <2>3. CASE DescribeNewInstances \/ WaitForNodesReady
    BY <1>6, <2>3 DEF DescribeNewInstances, WaitForNodesReady, Continue, ReturnError, Stopped
  <2>4. CASE at' = at /\ UNCHANGED <<mem, todo>> /\ (WorldNext \/ UNCHANGED worldVars)
    BY <2>0, <2>4, GroupKept DEF KeepInv
  <2> QED
    BY <1>6, <2>1, <2>2, <2>3, <2>4, WaitSteps
<1> QED
  BY <1>3, <1>4, <1>5, <1>6 DEF KeepInv

(***************************************************************************)
(* A roll out never asks for fewer workers than the group had before       *)
(* (deploy.go:18): even while workers of the group fail under it, whatever *)
(* crash, lost reply or removed file makes it start over in between.       *)
(***************************************************************************)
KeepsCapacity == Capacity =< desired

THEOREM NeverSmaller == "apply" \notin Operator => (Spec => []KeepsCapacity)
<1> SUFFICES ASSUME "apply" \notin Operator PROVE Spec => []KeepsCapacity
  OBVIOUS
<1>1. Init => KeepInv
  BY NewStateCovered, WorkersAssumption DEF Init, WorldInit, Absent, KeepInv
<1>2. CheckpointInv /\ FileInv /\ KeepInv /\ [Next]_vars => KeepInv'
  BY KeepInvStep
<1>3. KeepInv => KeepsCapacity
  BY DEF KeepInv, KeepsCapacity
<1> QED
  BY <1>1, <1>2, <1>3, CheckpointInvariant, FileInvariant, PTL DEF Spec

-----------------------------------------------------------------------------
(***************************************************************************)
(* What drives an invocation to its end.  Every step the process takes,    *)
(* and every fault that hits it, ends it, or brings it closer to its end   *)
(* in an order that has no infinite descent: a later stage, a later step   *)
(* of the stage, less left to do in the loop of that step, or fewer polls  *)
(* left in its wait.  So an invocation that does not end is one that takes *)
(* no step any more, as it does once the wait for the load balancers hangs.*)
(***************************************************************************)
Position == [
    enter |-> 0, steady |-> 1, regather |-> 2, capacity |-> 3, launched |-> 4, ready |-> 5,
    lb |-> 6, hung |-> 7, node |-> 8, batch |-> 9, persist |-> 10, write |-> 11 ]

Advances ==
    \/ stage' = Idle
    \/ stage' > stage
    \/ stage' = stage /\ Position[at'] > Position[at]
    \/ stage' = stage /\ at' = at /\ todo' \subseteq todo /\ todo' # todo
    \/ stage' = stage /\ at' = at /\ todo' = todo /\ polls' < polls

(***************************************************************************)
(* No invocation repeats itself (asg.go:189, node.go:32): while it runs,   *)
(* each step is one of the world around it or advances it, and from a hang *)
(* (elb.go:95-98) the only way out is the end of the process.  That it     *)
(* goes on taking steps is not said here.                                  *)
(***************************************************************************)
AlwaysAdvances ==
    [][stage # Idle => World \/ (Advances /\ (at = "hung" => stage' = Idle))]_vars

LEMMA ContinueAdvances ==
    ASSUME NEW step \in Step, NEW left, NEW n, Continue(step, left, n), Position[step] > Position[at]
    PROVE  Advances
BY DEF Continue, Advances

LEMMA SucceedAdvances ==
    ASSUME at \in Step \ {"persist", "write"}, NEW s, Succeed(s)
    PROVE  Advances
<1>1. Position["persist"] > Position[at]
  BY DEF Step, Position
<1> QED
  BY <1>1, ContinueAdvances DEF Succeed, Step

LEMMA StepAdvances ==
    ASSUME CheckpointInv, Process \/ Interference, stage # Idle
    PROVE  Advances
<1>0. /\ stage \in Nat /\ polls \in Nat /\ at \in Step /\ StepFits(at, stage)
  BY DEF CheckpointInv, TypeInv, ControlTypeOK, Idle, Delete
<1>1. Stopped => Advances
  BY DEF Stopped, Advances
<1>2. CASE Skip \/ WriteFile
  <2>1. stage' = stage + 1
    BY <1>2 DEF Skip, WriteFile
  <2> QED
    BY <1>0, <2>1 DEF Advances
<1>3. CASE GatherASGInfo \/ RegatherASGInfo
  <2>1. \/ Succeed(WithAsgInfo(mem)) /\ at \in {"enter", "regather"}
        \/ at = "enter" /\ Continue("steady", {}, ensureMaxRetries(desired))
    BY <1>3 DEF GatherASGInfo, RegatherASGInfo, Enter, Looping
  <2> QED
    BY <1>0, <2>1, SucceedAdvances, ContinueAdvances DEF Position, Step
<1>4. CASE WaitForCapacity
  <2>1. at \in {"steady", "capacity"} /\ todo = {}
    BY <1>4 DEF WaitForCapacity, CheckpointInv, Loops
  <2>2. \/ Continue(IF at = "steady" THEN "regather" ELSE "launched", {}, 0)
        \/ polls > 0 /\ Continue(at, {}, polls - 1)
        \/ Stopped
    BY <1>4 DEF WaitForCapacity, Polling, ReturnError
  <2>3. CASE Continue(IF at = "steady" THEN "regather" ELSE "launched", {}, 0)
    BY <2>1, <2>3, ContinueAdvances DEF Position, Step
  <2>4. CASE polls > 0 /\ Continue(at, {}, polls - 1)
    BY <1>0, <2>1, <2>4 DEF Continue, Advances
  <2> QED
    BY <1>1, <2>2, <2>3, <2>4
<1>5. CASE WaitForNodesReady
  <2>1. at = "ready" /\ (Continue("lb", {}, 0) \/ (polls > 0 /\ Continue("ready", todo, polls - 1)) \/ Stopped)
    BY <1>5 DEF WaitForNodesReady, Looping, Polling, ReturnError
  <2>2. CASE Continue("lb", {}, 0)
    BY <2>1, <2>2, ContinueAdvances DEF Position, Step
  <2>3. CASE polls > 0 /\ Continue("ready", todo, polls - 1)
    BY <1>0, <2>1, <2>3 DEF Continue, Advances
  <2> QED
    BY <1>1, <2>1, <2>2, <2>3
<1>6. CASE SetMaxCapacity \/ GetLaunchedInstanceIds \/ WaitForLoadBalancers
  <2>1. at \in {"enter", "launched", "lb"} /\ \E s : Succeed(s)
    BY <1>6 DEF SetMaxCapacity, GetLaunchedInstanceIds, WaitForLoadBalancers, Enter, Looping
  <2> QED
    BY <1>0, <2>1, SucceedAdvances
<1>7. CASE ScaleUpGroup \/ DescribeNewInstances \/ StartFanOut \/ StartBatches \/ RestoreCapacity
  <2>1. at = "enter" /\ \E step \in {"capacity", "ready", "node", "batch", "persist"} :
                            \E left, n : Continue(step, left, n)
    BY <1>7 DEF ScaleUpGroup, DescribeNewInstances, StartFanOut, StartBatches, RestoreCapacity, Enter
  <2> QED
    BY <2>1, ContinueAdvances DEF Position, Step
<1>8. CASE \/ ScaleUpRefused \/ DeleteFile \/ PersistFails \/ CallFails \/ ReplyLost \/ Crash
  BY <1>1, <1>8 DEF ScaleUpRefused, DeleteFile, PersistFails, CallFails, ReplyLost, Crash, ReturnError
<1>9. CASE \E i \in Instance : CordonNode(i) \/ DrainNode(i) \/ NodeCallFails(i)
  <2>1. PICK i \in todo : todo' = todo \ {i} /\ stage' = stage /\ at' = at
    BY <1>9 DEF CordonNode, DrainNode, NodeCallFails, NodeDone
  <2> QED
    BY <2>1 DEF Advances
<1>10. CASE FanOutDone \/ BatchesDone
  <2>1. at \in {"node", "batch"} /\ (Stopped \/ Succeed(mem))
    BY <1>10 DEF FanOutDone, BatchesDone, ReturnError
  <2> QED
    BY <1>0, <1>1, <2>1, SucceedAdvances
<1>11. CASE DetachInstances \/ TerminateInstances \/ TerminateFails
  <2>1. \/ Stopped
        \/ \E batch \in (SUBSET todo) \ {{}} : todo' = todo \ batch /\ stage' = stage /\ at' = at
    BY <1>11 DEF DetachInstances, TerminateInstances, TerminateFails, NextBatch, Looping, Continue, ReturnError
  <2>2. ASSUME NEW batch \in (SUBSET todo) \ {{}}, todo' = todo \ batch, stage' = stage, at' = at
        PROVE  Advances
    BY <2>2 DEF Advances
  <2> QED
    BY <1>1, <2>1, <2>2
<1>12. CASE TruncateFile
  BY <1>12 DEF TruncateFile, Advances, Position
<1>13. CASE RemoveFile \/ ApplyTerraform
  BY <1>13 DEF RemoveFile, ApplyTerraform
<1>14. CASE LoadBalancersHang
  <2>1. at = "lb" /\ Continue("hung", {}, 0)
    BY <1>14 DEF LoadBalancersHang, Looping
  <2> QED
    BY <2>1, ContinueAdvances DEF Position, Step
<1> QED
  BY <1>2, <1>3, <1>4, <1>5, <1>6, <1>7, <1>8, <1>9, <1>10, <1>11, <1>12, <1>13, <1>14 DEF Process, Interference

(* A process that hangs takes no step of its own.                           *)
LEMMA HungStays ==
    ASSUME CheckpointInv, Process \/ Interference, at = "hung"
    PROVE  stage' = Idle
<1>0. stage = WaitNodes /\ StepFits(at, stage)
  BY DEF CheckpointInv, TypeInv, ControlTypeOK, StepFits
<1>s. WaitNodes # Delete /\ WaitNodes # Idle
  BY DEF WaitNodes, Delete, Idle
<1>1. CASE Process
  BY <1>0, <1>1, <1>s DEF Process, Skip, GatherASGInfo, RegatherASGInfo, WaitForCapacity, SetMaxCapacity,
     ScaleUpGroup, ScaleUpRefused, GetLaunchedInstanceIds, DescribeNewInstances, WaitForNodesReady,
     WaitForLoadBalancers, StartFanOut, CordonNode, DrainNode, FanOutDone, StartBatches,
     DetachInstances, TerminateInstances, BatchesDone, RestoreCapacity, TruncateFile, WriteFile,
     DeleteFile, Enter, Looping
<1>2. CASE Interference
  BY <1>0, <1>2, <1>s DEF Interference, PersistFails, CallFails, ReplyLost, TerminateFails, LoadBalancersHang,
     NodeCallFails, Crash, RemoveFile, ApplyTerraform, Enter, Looping, ReturnError, Stopped
<1> QED
  BY <1>1, <1>2

(***************************************************************************)
(* Each step of a running invocation takes it nearer to its end, whatever  *)
(* is refused, lost or fails (asg.go:189, node.go:32), and a hang          *)
(* (elb.go:95-98) is left by the end of the process only.  Not that there  *)
(* is a next step: a process that hangs has none.                          *)
(***************************************************************************)
THEOREM InvocationsAdvance == Spec => AlwaysAdvances
<1>1. CheckpointInv /\ [Next]_vars => [stage # Idle => World \/ (Advances /\ (at = "hung" => stage' = Idle))]_vars
  BY StepAdvances, HungStays DEF Next, Start
<1> QED
  BY <1>1, CheckpointInvariant, PTL DEF Spec, AlwaysAdvances

-----------------------------------------------------------------------------
(***************************************************************************)
(* What leaves old workers running: a terminate call that fails, whose     *)
(* error AddError loses (errors.go:63), and nothing else.  The batches the *)
(* loop is done with are gone for good, and so is what a flag speaks of.   *)
(***************************************************************************)
TerminatedOld(s) == Terminate \in s.done => s.original \cap running = {}

Terminating == stage = Terminate /\ at = "batch"

GoneInv ==
    /\ TerminatedOld(mem)
    /\ TerminatedOld(file.state)
    /\ Terminating => mem.original \cap running \subseteq todo

LEMMA NewStateGone == TerminatedOld(newDeployState) /\ TerminatedOld(newDeployState)'
BY DEF newDeployState, TerminatedOld

LEMMA GoneStable ==
    ASSUME NEW s, Sound(s), TerminatedOld(s), NoReturn
    PROVE  TerminatedOld(s)'
BY DEF Sound, TerminatedOld, NoReturn

(* The loop over the batches is entered with all the old workers, and      *)
(* terminates what it takes out of them.                                   *)
LEMMA LoopTerminates ==
    ASSUME "api" \notin Fault, CheckpointInv, NoReturn, GoneInv, [Next]_vars, Terminating'
    PROVE  (mem.original \cap running \subseteq todo)'
<1>s. Gather = 1 /\ SetMax = 2 /\ ScaleUp = 3 /\ WaitNodes = 4 /\ Cordon = 5 /\ Drain = 6
      /\ Detach = 7 /\ Terminate = 8 /\ Restore = 9 /\ Flag = 1 .. 9 /\ Idle = 0 /\ Delete = 10
  BY DEF Gather, SetMax, ScaleUp, WaitNodes, Cordon, Drain, Detach, Terminate, Restore, Flag, Idle, Delete
<1>0. /\ StepFits(at, stage) /\ stage' = Terminate /\ at' = "batch" /\ stage \in 0 .. 10
      /\ mem.original \subseteq launched
  BY <1>s DEF CheckpointInv, TypeInv, ControlTypeOK, Terminating, Sound
<1>g. ASSUME stage' = stage, at' = at, mem' = mem, todo' = todo
      PROVE  (mem.original \cap running \subseteq todo)'
  BY <1>0, <1>g DEF GoneInv, Terminating, NoReturn
<1>1. CASE Start \/ Skip \/ Stopped \/ TruncateFile \/ WriteFile
  BY <1>0, <1>1, <1>s DEF Start, Skip, Stopped, TruncateFile, WriteFile, StepFits
<1>2. CASE StartBatches
  BY <1>2, <1>0 DEF StartBatches, Continue, worldVars
<1>3. CASE TerminateInstances
  <2>1. PICK batch : todo' = todo \ batch /\ running' = running \ batch /\ mem' = mem
    BY <1>3 DEF TerminateInstances, TerminateInEC2, Terminated, Continue
  <2>2. mem.original \cap running \subseteq todo
    BY <1>3 DEF TerminateInstances, Looping, GoneInv, Terminating
  <2> QED
    BY <2>1, <2>2
<1>4. CASE DetachInstances
  BY <1>0, <1>1, <1>4, <1>s DEF DetachInstances, Looping, Continue, ReturnError
<1>5. CASE TerminateFails
  BY <1>5 DEF TerminateFails
<1>6. CASE \E i \in Instance : CordonNode(i) \/ DrainNode(i) \/ NodeCallFails(i)
  BY <1>0, <1>6, <1>s DEF CordonNode, DrainNode, NodeCallFails, NodeDone, Looping, StepFits
<1>7. CASE FanOutDone \/ BatchesDone \/ GatherASGInfo \/ RegatherASGInfo \/ SetMaxCapacity
           \/ GetLaunchedInstanceIds \/ WaitForLoadBalancers \/ ScaleUpGroup
           \/ DescribeNewInstances \/ RestoreCapacity
  <2>1. Stopped \/ stage # Terminate \/ \E s : Succeed(s)
    BY <1>7, <1>s DEF FanOutDone, BatchesDone, GatherASGInfo, RegatherASGInfo, SetMaxCapacity,
       GetLaunchedInstanceIds, WaitForLoadBalancers, ScaleUpGroup, DescribeNewInstances,
       RestoreCapacity, Enter, Looping, ReturnError
  <2>2. Stopped \/ stage' = stage
    BY <1>7 DEF FanOutDone, BatchesDone, GatherASGInfo, RegatherASGInfo, SetMaxCapacity,
       GetLaunchedInstanceIds, WaitForLoadBalancers, ScaleUpGroup, DescribeNewInstances,
       RestoreCapacity, ReturnError, Succeed, Continue
  <2> QED
    BY <1>0, <1>1, <2>1, <2>2 DEF Succeed, Continue
<1>8. CASE StartFanOut
  BY <1>0, <1>8, <1>s DEF StartFanOut, Continue
<1>9. CASE WaitForCapacity \/ WaitForNodesReady
  <2>1. stage # Terminate /\ (Stopped \/ stage' = stage)
    BY <1>0, <1>9, <1>s
       DEF WaitForCapacity, WaitForNodesReady, Looping, Continue, ReturnError, StepFits
  <2> QED
    BY <1>0, <1>1, <2>1
<1>10. CASE ScaleUpRefused \/ DeleteFile \/ PersistFails \/ CallFails \/ ReplyLost \/ Crash
  BY <1>1, <1>10 DEF ScaleUpRefused, DeleteFile, PersistFails, CallFails, ReplyLost, Crash, ReturnError
<1>11. CASE World \/ RemoveFile \/ ApplyTerraform \/ UNCHANGED vars
  BY <1>g, <1>11 DEF World, RemoveFile, ApplyTerraform, vars, ctlVars
<1>12. CASE LoadBalancersHang
  BY <1>0, <1>12 DEF LoadBalancersHang, Continue
<1> QED
  BY <1>1, <1>2, <1>3, <1>4, <1>5, <1>6, <1>7, <1>8, <1>9, <1>10, <1>11, <1>12
     DEF Next, Process, Interference

(* A stage that succeeds leaves a state whose flags are true.              *)
LEMMA CompletedGone ==
    ASSUME CheckpointInv, NoReturn, GoneInv, [Next]_vars, Completed
    PROVE  TerminatedOld(mem)'
<1>s. Gather # Terminate /\ SetMax # Terminate /\ ScaleUp # Terminate
  BY DEF Gather, SetMax, ScaleUp, Terminate
<1>0. mem \in DeployState /\ running' = running
  BY DEF CheckpointInv, TypeInv, ControlTypeOK, Completed
<1>1. CASE stage = Gather
  <2>1. Succeed(WithAsgInfo(mem)) /\ mem.done = {}
    BY <1>1 DEF Completed, CheckpointInv, Sound, Gather, SetMax, ScaleUp
  <2>2. Terminate \notin mem'.done
    BY <1>0, <1>1, <1>s, <2>1 DEF Succeed, WithAsgInfo, DeployState
  <2> QED
    BY <2>2 DEF TerminatedOld
<1>2. CASE stage \notin {Gather, Terminate}
  <2>1. mem'.done = mem.done \cup {stage} /\ mem'.original = mem.original
    BY <1>0, <1>2 DEF Completed, Succeed, DeployState
  <2> QED
    BY <1>0, <1>2, <2>1 DEF GoneInv, TerminatedOld
<1>3. CASE stage = Terminate
  <2>1. mem'.original = mem.original
    BY <1>0, <1>3, <1>s DEF Completed, Succeed, DeployState
  <2>2. mem.original \cap running = {}
    BY <1>3, CompletedWhen DEF GoneInv, Terminating
  <2> QED
    BY <1>0, <2>1, <2>2 DEF TerminatedOld
<1> QED
  BY <1>1, <1>2, <1>3

LEMMA GoneInvStep ==
    ASSUME "api" \notin Fault, CheckpointInv, GoneInv, [Next]_vars
    PROVE  GoneInv'
<1>0. NoReturn /\ TypeOK
  BY OnlyWorldChanges, WorldChangeNoReturn DEF CheckpointInv, TypeInv, ControlTypeOK, TypeOK
<1>1. PICK m : m = mem
  OBVIOUS
<1>2. PICK f : f = file.state
  OBVIOUS
<1>3. TerminatedOld(m)' /\ TerminatedOld(f)'
  <2>1. Sound(m) /\ TerminatedOld(m) /\ Sound(f) /\ TerminatedOld(f)
    BY <1>1, <1>2 DEF CheckpointInv, GoneInv, Sound, TerminatedOld
  <2> QED
    BY <1>0, <2>1, GoneStable
<1>4. TerminatedOld(file.state)'
  BY <1>1, <1>2, <1>3, FileSource, NewStateGone DEF TerminatedOld
<1>5. TerminatedOld(mem)'
  <2>1. CASE mem' \in {mem, file.state, newDeployState}
    BY <1>1, <1>2, <1>3, <2>1, NewStateGone DEF TerminatedOld
  <2>2. CASE Completed
    BY <1>0, <2>2, CompletedGone
  <2> QED
    BY <2>1, <2>2, StepKinds
       DEF Start, initDeployState, Skip, WriteFile, Quiet, Ended, Stopped
<1> QED
  BY <1>0, <1>4, <1>5, LoopTerminates DEF GoneInv

(***************************************************************************)
(* Success means that the old workers are gone (deploy.go:27), as long as  *)
(* no call to AWS or Kubernetes fails: neither a crash, nor a full disk, a *)
(* failing worker or the operator leaves one running.                      *)
(***************************************************************************)
THEOREM OldAreTerminated == "api" \notin Fault => (Spec => []OldTerminatedOnSuccess)
<1> SUFFICES ASSUME "api" \notin Fault PROVE Spec => []OldTerminatedOnSuccess
  OBVIOUS
<1>1. Init => GoneInv
  BY NewStateGone DEF Init, GoneInv, Absent, Terminating, Idle, Terminate
<1>2. CheckpointInv /\ GoneInv /\ [Next]_vars => GoneInv'
  BY GoneInvStep
<1>3. CheckpointInv /\ GoneInv => OldTerminatedOnSuccess
  BY DEF CheckpointInv, Progress, GoneInv, TerminatedOld, OldTerminatedOnSuccess,
     Gather, Terminate, Delete
<1> QED
  BY <1>1, <1>2, <1>3, CheckpointInvariant, PTL DEF Spec
=============================================================================
