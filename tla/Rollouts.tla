------------------------------- MODULE Rollouts -------------------------------
(***************************************************************************)
(* `kubergrunt eks deploy` for several worker groups from one working      *)
(* directory.  The invocations, one at a time, share one recovery file     *)
(* (src/eks/deploy_state.go), and that file decides which group they work  *)
(* on.  What a stage does within a group, and how it may be interrupted,   *)
(* is module Deploy, and so are a file that is not read, for whatever      *)
(* reason, and AWS calls that fail after their effect; here a stage is one *)
(* step and its persist another.                                           *)
(***************************************************************************)
EXTENDS Integers

CONSTANTS
    Group,    \* Auto Scaling Groups of the cluster
    Roomy,    \* those whose max size has room for twice their capacity
    Newest,   \* launch configurations are 0 .. Newest (bound)
    Fault     \* what may go wrong, a subset of FaultKind

FaultKind == {"crash", "api", "disk"}

ASSUME RolloutsAssumption ==
    /\ Roomy \subseteq Group
    /\ Newest \in Nat
    /\ Fault \subseteq FaultKind

VARIABLES
    latest,     \* the launch configuration of each group
    serving,    \* the one its regular workers were launched with
    extra,      \* the one of the workers it was scaled up by, or NoWorkers
    raised,     \* groups whose max size is above the configured one
    stage,      \* the stage of the process, Idle when none runs
    at,         \* whether it enters the stage or persists it
    asked,      \* the group in its --asg-name
    wanted,     \* the launch configuration of that group when it was started
    mem,        \* the DeployState of the process
    file,       \* the recovery file
    result      \* what the last invocation returned

groupVars == <<latest, serving, extra, raised>>
vars == <<groupVars, stage, at, asked, wanted, mem, file, result>>

Idle == 0
Gather == 1
SetMax == 2
ScaleUp == 3
WaitNodes == 4
Cordon == 5
Drain == 6
Detach == 7
Terminate == 8
Restore == 9
Delete == 10

Configuration == 0 .. Newest
NoWorkers == -1

(* The name of ASGs[0], and how many of the ...Done flags are set: they    *)
(* are set in the order of the stages, and Restore has none in the file.   *)
DeployState == [group : Group, done : Idle .. Terminate]
File == [status : {"absent", "corrupt", "saved"}, state : DeployState]

TypeOK ==
    /\ latest \in [Group -> Configuration]
    /\ serving \in [Group -> Configuration]
    /\ extra \in [Group -> Configuration \cup {NoWorkers}]
    /\ raised \subseteq Group
    /\ stage \in Idle .. Delete
    /\ at \in {"enter", "persist"}
    /\ asked \in Group
    /\ wanted \in Configuration
    /\ mem \in DeployState
    /\ file \in File
    /\ result \in {"none", "ok", "error"}

(* The configurations of the groups were changed; nothing is deployed yet. *)
Init ==
    /\ latest \in [Group -> Configuration]
    /\ serving = [g \in Group |-> 0]
    /\ extra = [g \in Group |-> NoWorkers]
    /\ raised = {}
    /\ stage = Idle
    /\ at = "enter"
    /\ asked \in Group
    /\ wanted = latest[asked]
    /\ mem = [group |-> asked, done |-> Idle]
    /\ file = [status |-> "absent", state |-> mem]
    /\ result = "none"

-----------------------------------------------------------------------------
(* newDeployState has no group yet: gatherASGInfo will take the one asked  *)
(* for.                                                                    *)
newDeployState(g) == [group |-> g, done |-> Idle]

(* Mutant: the state of another group is not resumed but dropped. *)
initDeployState_OwnGroupOnly(g) ==
    IF file.status = "saved" /\ file.state.group = g THEN file.state ELSE newDeployState(g)

(* initDeployState: the file is resumed whichever group it is about. *)
initDeployState(g) ==
    IF file.status = "saved" THEN file.state ELSE newDeployState(g)

Return(r) ==
    /\ stage' = Idle
    /\ at' = "enter"
    /\ mem' = newDeployState(asked)
    /\ result' = r
    /\ UNCHANGED <<asked, wanted>>

(* A file that does not parse ends the invocation. *)
Start(g) ==
    /\ stage = Idle
    /\ file.status # "corrupt"
    /\ stage' = Gather
    /\ asked' = g
    /\ wanted' = latest[g]
    /\ mem' = initDeployState(g)
    /\ result' = "none"
    /\ UNCHANGED <<groupVars, at, file>>

Skip ==
    /\ stage \in Gather .. Terminate
    /\ at = "enter"
    /\ stage <= mem.done
    /\ stage' = stage + 1
    /\ UNCHANGED <<groupVars, at, asked, wanted, mem, file, result>>

Enter(s) == stage = s /\ at = "enter" /\ s > mem.done

Done(s) ==
    /\ mem' = [mem EXCEPT !.done = s]
    /\ at' = "persist"
    /\ UNCHANGED <<stage, asked, wanted, file, result>>

(* The stages that leave configurations and sizes of the groups alone. *)
OtherStage ==
    \E s \in {Gather, WaitNodes, Cordon, Drain, Terminate} :
        Enter(s) /\ Done(s) /\ UNCHANGED groupVars

SetMaxCapacity ==
    /\ Enter(SetMax)
    /\ raised' = IF mem.group \in Roomy THEN raised ELSE raised \cup {mem.group}
    /\ Done(SetMax)
    /\ UNCHANGED <<latest, serving, extra>>

(* Workers are launched with the configuration the group has now, unless   *)
(* an invocation that failed had it scaled up before.                      *)
ScaleUpGroup ==
    /\ Enter(ScaleUp)
    /\ extra' = [extra EXCEPT ![mem.group] = IF @ = NoWorkers THEN latest[mem.group] ELSE @]
    /\ Done(ScaleUp)
    /\ UNCHANGED <<latest, serving, raised>>

(* The old workers leave the group; AWS refuses to detach them twice.      *)
DetachInstances ==
    /\ Enter(Detach)
    /\ extra[mem.group] # NoWorkers
    /\ serving' = [serving EXCEPT ![mem.group] = extra[mem.group]]
    /\ extra' = [extra EXCEPT ![mem.group] = NoWorkers]
    /\ Done(Detach)
    /\ UNCHANGED <<latest, raised>>

DetachRefused ==
    /\ Enter(Detach)
    /\ extra[mem.group] = NoWorkers
    /\ Return("error")
    /\ UNCHANGED <<groupVars, file>>

RestoreCapacity ==
    /\ Enter(Restore)
    /\ raised' = raised \ {mem.group}
    /\ at' = "persist"
    /\ UNCHANGED <<latest, serving, extra, stage, asked, wanted, mem, file, result>>

Persist ==
    /\ at = "persist"
    /\ file' = [status |-> "saved", state |-> mem]
    /\ stage' = stage + 1
    /\ at' = "enter"
    /\ UNCHANGED <<groupVars, asked, wanted, mem, result>>

(* Mutant: the file is not deleted. *)
DeleteFile_Never == stage = Delete /\ Return("ok") /\ UNCHANGED <<groupVars, file>>

DeleteFile ==
    /\ stage = Delete
    /\ file' = [file EXCEPT !.status = "absent"]
    /\ Return("ok")
    /\ UNCHANGED groupVars

(* An error of os.Remove is only logged. *)
DeleteFails ==
    /\ "disk" \in Fault
    /\ stage = Delete
    /\ Return("ok")
    /\ UNCHANGED <<groupVars, file>>

-----------------------------------------------------------------------------
(* A call of a stage fails before it has an effect. *)
StageFails ==
    /\ "api" \in Fault
    /\ \E s \in Gather .. Restore : Enter(s)
    /\ Return("error")
    /\ UNCHANGED <<groupVars, file>>

(* The stage took effect and cannot be persisted. *)
PersistFails ==
    /\ "disk" \in Fault
    /\ at = "persist"
    /\ Return("error")
    /\ UNCHANGED <<groupVars, file>>

(* The process is killed, maybe while it writes the file. *)
Crash ==
    /\ "crash" \in Fault
    /\ stage # Idle
    /\ Return("error")
    /\ \/ UNCHANGED file
       \/ at = "persist" /\ file' = [file EXCEPT !.status = "corrupt"]
    /\ UNCHANGED groupVars

(* The operator changes the launch configuration of a group. *)
Configure(g) ==
    /\ latest[g] < Newest
    /\ latest' = [latest EXCEPT ![g] = @ + 1]
    /\ UNCHANGED <<serving, extra, raised, stage, at, asked, wanted, mem, file, result>>

Process ==
    \/ Skip
    \/ OtherStage \/ SetMaxCapacity \/ ScaleUpGroup \/ DetachInstances \/ DetachRefused \/ RestoreCapacity
    \/ Persist
    \/ DeleteFile

Next ==
    \/ \E g \in Group : Start(g) \/ Configure(g)
    \/ Process
    \/ DeleteFails \/ StageFails \/ PersistFails \/ Crash

Spec == Init /\ [][Next]_vars

-----------------------------------------------------------------------------
(* A roll out of the group has changed its size and not yet undone that. *)
Unfinished(g) == g \in raised \/ extra[g] # NoWorkers

(***************************************************************************)
(* A group that is larger than configured is the one in the recovery file, *)
(* so that the next invocation, for whichever group, completes it: no      *)
(* sequence of failed invocations for different groups leaves one behind   *)
(* (deploy_state.go:126-138), short of a file half written by a kill.      *)
(***************************************************************************)
AlwaysResumable ==
    file.status # "corrupt" =>
        \A g \in Group : Unfinished(g) => file.status = "saved" /\ file.state.group = g

(* A roll out that cannot be resumed: its file does not parse, or its old  *)
(* workers are detached and the file does not say so.                      *)
Stranded ==
    /\ stage = Idle
    /\ \/ file.status = "corrupt"
       \/ /\ file.status = "saved"
          /\ file.state.done \in ScaleUp .. Drain
          /\ extra[file.state.group] = NoWorkers

(***************************************************************************)
(* Fairness: a process goes on, and the operator deploys each of the       *)
(* groups again and again.  An invocation that hangs in the load balancer  *)
(* wait (elb.go:95-98, module LoadBalancers) is one that was killed: no    *)
(* other can be started before.                                            *)
(***************************************************************************)
FairSpec ==
    /\ Spec
    /\ WF_vars(Process)
    /\ \A g \in Group : SF_vars(Start(g))

FaultsStop == <>[][Process \/ \E g \in Group : Start(g)]_vars

(***************************************************************************)
(* Whatever file earlier invocations left, repeating the command for every *)
(* group brings all of them to their launch configurations once nothing    *)
(* fails (README.md:263-267), unless a roll out is stranded, and provided  *)
(* that an invocation that hangs in the load balancer wait is killed.      *)
(***************************************************************************)
CatchesUp ==
    (FaultsStop /\ []~Stranded) =>
        \A g \in Group : <>[](serving[g] = latest[g])

(* Success means that the group asked for runs the configuration it had    *)
(* when the command was started, or a later one (deploy.go:18-19, :112).   *)
RolledOutOnSuccess == result = "ok" => serving[asked] >= wanted
=============================================================================
