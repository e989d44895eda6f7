---------------------------- MODULE RolloutsProofs ----------------------------
(***************************************************************************)
(* AlwaysResumable for any set of worker groups, any number of             *)
(* invocations and all faults of module Rollouts: the recovery file of the *)
(* one working directory names the only group that may be unfinished.      *)
(***************************************************************************)
EXTENDS Rollouts, TLAPS

(* A stage is persisted only while the process is in one. *)
TypeInv == TypeOK /\ (at = "persist" => stage \in Gather .. Restore)

(* The process works on the group of the file, at least as far as it says. *)
OneGroup ==
    stage # Idle =>
        /\ file.status # "corrupt"
        /\ file.status = "saved" =>
               file.state.group = mem.group /\ file.state.done <= mem.done

(* Nothing is changed before the file names the group. *)
NamedFirst ==
    /\ stage > Gather => file.status = "saved"
    /\ stage = Gather /\ at = "enter" /\ mem.done >= Gather => file.status = "saved"

(* The extra workers are regular ones once the old ones are detached. *)
Settled(state) == state.done >= Detach => extra[state.group] = NoWorkers

DetachedOnce ==
    /\ file.status = "saved" => Settled(file.state)
    /\ stage # Idle => Settled(mem)
    /\ stage > Detach => mem.done >= Detach
    /\ stage = Detach /\ at = "persist" => mem.done >= Detach

(* The file is deleted after the max size was restored. *)
RestoredFirst ==
    stage = Delete \/ (stage = Restore /\ at = "persist") => mem.group \notin raised

RolloutsInv ==
    /\ TypeInv
    /\ AlwaysResumable
    /\ OneGroup
    /\ NamedFirst
    /\ DetachedOnce
    /\ RestoredFirst

-----------------------------------------------------------------------------
LEMMA Sizes ==
    /\ Idle = 0 /\ Gather = 1 /\ SetMax = 2 /\ ScaleUp = 3 /\ WaitNodes = 4
    /\ Cordon = 5 /\ Drain = 6 /\ Detach = 7 /\ Terminate = 8 /\ Restore = 9 /\ Delete = 10
  BY DEF Idle, Gather, SetMax, ScaleUp, WaitNodes, Cordon, Drain, Detach, Terminate, Restore, Delete

(* Changing the two fields of a state leaves a state. *)
LEMMA States ==
    /\ \A g \in Group : newDeployState(g) \in DeployState
    /\ \A d \in DeployState, s \in Idle .. Terminate :
          /\ [d EXCEPT !.done = s] \in DeployState
          /\ [d EXCEPT !.done = s].group = d.group
          /\ [d EXCEPT !.done = s].done = s
    /\ \A d \in DeployState : d.group \in Group /\ d.done \in Idle .. Terminate
    /\ \A f \in File, st \in {"absent", "corrupt", "saved"} :
          [f EXCEPT !.status = st] \in File /\ f.state \in DeployState
    /\ \A d \in DeployState : [status |-> "saved", state |-> d] \in File
  BY Sizes DEF newDeployState, DeployState, File

LEMMA InitTypeInv == Init => TypeInv
<1> SUFFICES ASSUME Init PROVE TypeInv
  OBVIOUS
<1>1. mem \in DeployState /\ file \in File
  BY States, Sizes DEF Init, DeployState, File
<1>2. /\ 0 \in Configuration /\ wanted \in Configuration
      /\ serving \in [Group -> Configuration] /\ latest \in [Group -> Configuration]
  BY RolloutsAssumption DEF Init, Configuration
<1> QED BY <1>1, <1>2, Sizes DEF Init, TypeInv, TypeOK

LEMMA NextTypeInv == TypeInv /\ [Next]_vars => TypeInv'
<1> SUFFICES ASSUME TypeInv, [Next]_vars PROVE TypeInv'
  OBVIOUS
<1> USE Sizes
<1>g. /\ mem \in DeployState /\ mem.group \in Group
      /\ file \in File /\ file.state \in DeployState
  BY States DEF TypeInv, TypeOK
<1>r. ASSUME NEW r \in {"ok", "error"}, Return(r), UNCHANGED groupVars, file' \in File
      PROVE TypeInv'
  <2>1. mem' \in DeployState
    BY <1>r, States DEF Return, TypeInv, TypeOK
  <2> QED BY <1>r, <2>1 DEF Return, groupVars, TypeInv, TypeOK
<1>d. ASSUME NEW s \in Gather .. Terminate, Enter(s), Done(s),
             latest' = latest, serving' \in [Group -> Configuration],
             extra' \in [Group -> Configuration \cup {NoWorkers}], raised' \subseteq Group
      PROVE TypeInv'
  <2>1. mem' \in DeployState
    BY <1>d, <1>g DEF Done, DeployState
  <2> QED BY <1>d, <2>1 DEF Enter, Done, TypeInv, TypeOK
<1>1. ASSUME NEW g \in Group, Start(g) PROVE TypeInv'
  <2>1. initDeployState(g) \in DeployState
    BY <1>g, States DEF initDeployState
  <2>2. latest[g] \in Configuration
    BY DEF TypeInv, TypeOK
  <2> QED BY <1>1, <2>1, <2>2 DEF Start, groupVars, TypeInv, TypeOK
<1>2. ASSUME NEW g \in Group, Configure(g) PROVE TypeInv'
  <2>1. latest' \in [Group -> Configuration]
    BY <1>2, RolloutsAssumption DEF Configure, TypeInv, TypeOK, Configuration
  <2> QED BY <1>2, <2>1 DEF Configure, TypeInv, TypeOK
<1>3. CASE Skip
  BY <1>3 DEF Skip, groupVars, TypeInv, TypeOK
<1>4. CASE OtherStage
  BY <1>4, <1>d DEF OtherStage, groupVars, TypeInv, TypeOK
<1>5. CASE SetMaxCapacity
  <2>1. raised' \subseteq Group
    BY <1>5, <1>g DEF SetMaxCapacity, TypeInv, TypeOK
  <2> QED BY <1>5, <2>1, <1>d DEF SetMaxCapacity, TypeInv, TypeOK
<1>6. CASE ScaleUpGroup
  <2>1. extra' \in [Group -> Configuration \cup {NoWorkers}]
    BY <1>6, <1>g DEF ScaleUpGroup, TypeInv, TypeOK
  <2> QED BY <1>6, <2>1, <1>d DEF ScaleUpGroup, TypeInv, TypeOK
<1>7. CASE DetachInstances
  <2>1. /\ serving' \in [Group -> Configuration]
        /\ extra' \in [Group -> Configuration \cup {NoWorkers}]
    BY <1>7, <1>g DEF DetachInstances, TypeInv, TypeOK
  <2> QED BY <1>7, <2>1, <1>d DEF DetachInstances, TypeInv, TypeOK
<1>8. CASE DetachRefused \/ StageFails \/ PersistFails
  BY <1>8, <1>r, <1>g DEF DetachRefused, StageFails, PersistFails
<1>9. CASE RestoreCapacity
  <2>1. raised' \subseteq Group
    BY <1>9 DEF RestoreCapacity, TypeInv, TypeOK
  <2> QED BY <1>9, <2>1 DEF RestoreCapacity, Enter, TypeInv, TypeOK
<1>10. CASE Persist
  <2>1. file' \in File
    BY <1>10, <1>g, States DEF Persist
  <2>2. stage' \in Idle .. Delete /\ at' = "enter"
    BY <1>10 DEF Persist, TypeInv, TypeOK
  <2> QED BY <1>10, <2>1, <2>2 DEF Persist, groupVars, TypeInv, TypeOK
<1>11. CASE DeleteFile \/ DeleteFails
  BY <1>11, <1>r, <1>g, States DEF DeleteFile, DeleteFails
<1>12. CASE Crash
  <2>1. file' \in File
    BY <1>12, <1>g, States DEF Crash
  <2> QED BY <1>12, <2>1, <1>r DEF Crash
<1>13. CASE UNCHANGED vars
  BY <1>13 DEF vars, groupVars, TypeInv, TypeOK
<1> QED BY <1>1, <1>2, <1>3, <1>4, <1>5, <1>6, <1>7, <1>8, <1>9, <1>10, <1>11, <1>12, <1>13
        DEF Next, Process

(***************************************************************************)
(* The processes, the files and the groups are what they are meant to be.  *)
(***************************************************************************)
THEOREM TypeCorrect == Spec => []TypeOK
<1>1. TypeInv => TypeOK
  BY DEF TypeInv
<1> QED BY <1>1, InitTypeInv, NextTypeInv, PTL DEF Spec

-----------------------------------------------------------------------------
LEMMA InitRolloutsInv == Init => RolloutsInv
<1> SUFFICES ASSUME Init PROVE RolloutsInv
  OBVIOUS
<1>1. AlwaysResumable
  BY DEF Init, AlwaysResumable, Unfinished
<1>2. OneGroup /\ NamedFirst /\ DetachedOnce /\ RestoredFirst
  BY Sizes DEF Init, OneGroup, NamedFirst, DetachedOnce, RestoredFirst
<1> QED BY <1>1, <1>2, InitTypeInv DEF RolloutsInv

LEMMA NextRolloutsInv == RolloutsInv /\ [Next]_vars => RolloutsInv'
<1> SUFFICES ASSUME RolloutsInv, [Next]_vars PROVE RolloutsInv'
  OBVIOUS
<1> USE Sizes
<1>t. TypeInv'
  BY NextTypeInv DEF RolloutsInv
<1>g. /\ mem \in DeployState /\ mem.group \in Group /\ mem.done \in Idle .. Terminate
      /\ file \in File /\ file.state \in DeployState
      /\ file.state.group \in Group /\ file.state.done \in Idle .. Terminate
      /\ stage \in Idle .. Delete /\ extra \in [Group -> Configuration \cup {NoWorkers}]
  BY States DEF RolloutsInv, TypeInv, TypeOK
(* The invocation ends; the groups and the file stay as they are. *)
<1>r. ASSUME NEW r \in {"ok", "error"}, Return(r), UNCHANGED <<groupVars, file>>
      PROVE RolloutsInv'
  <2>1. AlwaysResumable'
    BY <1>r DEF RolloutsInv, AlwaysResumable, Unfinished, groupVars
  <2>2. OneGroup' /\ NamedFirst' /\ DetachedOnce' /\ RestoredFirst'
    BY <1>r DEF RolloutsInv, Return, OneGroup, NamedFirst, DetachedOnce, RestoredFirst, Settled, groupVars
  <2> QED BY <1>t, <2>1, <2>2 DEF RolloutsInv
(* A stage that changes something finds the group named in the file. *)
<1>n. ASSUME NEW s \in SetMax .. Restore, Enter(s)
      PROVE file.status = "saved" /\ file.state.group = mem.group /\ file.state.done <= mem.done
  BY <1>n DEF RolloutsInv, OneGroup, NamedFirst, Enter
(* What Done(s) leaves to be shown of a stage. *)
<1>d. ASSUME NEW s \in Gather .. Terminate, Enter(s), Done(s), AlwaysResumable',
             file.status = "saved" => Settled(file.state)',
             Settled(mem)'
      PROVE RolloutsInv'
  <2>1. /\ mem'.group = mem.group /\ mem'.done = s /\ s > mem.done
        /\ file' = file /\ stage' = s /\ stage = s /\ at' = "persist"
    BY <1>d, <1>g DEF Enter, Done, DeployState
  <2>2. OneGroup' /\ NamedFirst'
    BY <1>g, <2>1 DEF RolloutsInv, OneGroup, NamedFirst
  <2>3. DetachedOnce' /\ RestoredFirst'
    BY <1>d, <1>g, <2>1 DEF RolloutsInv, DetachedOnce, RestoredFirst
  <2> QED BY <1>t, <1>d, <2>2, <2>3 DEF RolloutsInv
<1>1. ASSUME NEW g \in Group, Start(g) PROVE RolloutsInv'
  <2>1. AlwaysResumable'
    BY <1>1 DEF Start, RolloutsInv, AlwaysResumable, Unfinished, groupVars
  <2>2. CASE file.status = "saved"
    <3>1. mem' = file.state /\ stage' = Gather /\ at' = at /\ file' = file /\ extra' = extra
      BY <1>1, <2>2 DEF Start, initDeployState, groupVars
    <3>2. at = "enter"
      BY <1>1 DEF Start, RolloutsInv, TypeInv, TypeOK
    <3>3. OneGroup' /\ NamedFirst' /\ DetachedOnce' /\ RestoredFirst'
      BY <1>g, <2>2, <3>1, <3>2
         DEF RolloutsInv, OneGroup, NamedFirst, DetachedOnce, RestoredFirst, Settled
    <3> QED BY <1>t, <2>1, <3>3 DEF RolloutsInv
  <2>3. CASE file.status # "saved"
    <3>1. /\ mem'.group = g /\ mem'.done = Idle /\ stage' = Gather
          /\ file' = file /\ file.status # "corrupt"
      BY <1>1, <2>3 DEF Start, initDeployState, newDeployState
    <3>2. OneGroup' /\ NamedFirst' /\ DetachedOnce' /\ RestoredFirst'
      BY <2>3, <3>1 DEF OneGroup, NamedFirst, DetachedOnce, RestoredFirst, Settled
    <3> QED BY <1>t, <2>1, <3>2 DEF RolloutsInv
  <2> QED BY <2>2, <2>3
<1>2. ASSUME NEW g \in Group, Configure(g) PROVE RolloutsInv'
  BY <1>2, <1>t DEF Configure, RolloutsInv, AlwaysResumable, Unfinished, OneGroup, NamedFirst,
                    DetachedOnce, RestoredFirst, Settled
<1>3. CASE Skip
  <2>1. /\ stage \in Gather .. Terminate /\ stage <= mem.done /\ at = "enter"
        /\ stage' = stage + 1 /\ UNCHANGED <<latest, serving, extra, raised, at, mem, file>>
    BY <1>3 DEF Skip, groupVars
  <2>2. OneGroup' /\ NamedFirst' /\ RestoredFirst'
    BY <1>g, <2>1 DEF RolloutsInv, OneGroup, NamedFirst, RestoredFirst
  <2>3. AlwaysResumable' /\ DetachedOnce'
    BY <1>g, <2>1 DEF RolloutsInv, AlwaysResumable, Unfinished, DetachedOnce, Settled
  <2> QED BY <1>t, <2>2, <2>3 DEF RolloutsInv
<1>4. CASE OtherStage
  <2> PICK s \in {Gather, WaitNodes, Cordon, Drain, Terminate} : Enter(s) /\ Done(s) /\ UNCHANGED groupVars
    BY <1>4 DEF OtherStage
  <2>1. AlwaysResumable' /\ (file.status = "saved" => Settled(file.state)')
    BY DEF RolloutsInv, AlwaysResumable, Unfinished, DetachedOnce, Settled, Done, groupVars
  <2>2. mem'.group = mem.group /\ mem'.done = s /\ stage = s /\ extra' = extra
    BY <1>g DEF Done, Enter, DeployState, groupVars
  <2>3. Settled(mem)'
    <3>1. s >= Detach => mem.done >= Detach
      BY <2>2 DEF RolloutsInv, DetachedOnce
    <3> QED BY <1>g, <2>2, <3>1 DEF RolloutsInv, DetachedOnce, Settled
  <2> QED BY <1>d, <2>1, <2>3
<1>5. CASE SetMaxCapacity
  <2>1. /\ Enter(SetMax) /\ Done(SetMax) /\ extra' = extra /\ file' = file
        /\ raised' \subseteq raised \cup {mem.group}
    BY <1>5 DEF SetMaxCapacity, Done
  <2>2. AlwaysResumable' /\ (file.status = "saved" => Settled(file.state)')
    BY <1>n, <2>1 DEF RolloutsInv, AlwaysResumable, Unfinished, DetachedOnce, Settled
  <2>3. Settled(mem)'
    BY <1>g, <2>1 DEF Done, Settled, DeployState
  <2> QED BY <1>d, <2>1, <2>2, <2>3
<1>6. CASE ScaleUpGroup
  <2>1. /\ Enter(ScaleUp) /\ Done(ScaleUp) /\ raised' = raised /\ file' = file
        /\ \A g \in Group : g # mem.group => extra'[g] = extra[g]
    BY <1>6, <1>g DEF ScaleUpGroup, Done
  <2>2. /\ file.status = "saved" /\ file.state.group = mem.group
        /\ file.state.done < Detach
    BY <1>g, <1>n, <2>1 DEF Enter
  <2>3. AlwaysResumable' /\ (file.status = "saved" => Settled(file.state)')
    BY <1>g, <2>1, <2>2 DEF RolloutsInv, AlwaysResumable, Unfinished, Settled
  <2>4. Settled(mem)'
    BY <1>g, <2>1 DEF Done, Settled, DeployState
  <2> QED BY <1>d, <2>1, <2>3, <2>4
<1>7. CASE DetachInstances
  <2>1. /\ Enter(Detach) /\ Done(Detach) /\ raised' = raised /\ file' = file
        /\ \A g \in Group : extra'[g] = IF g = mem.group THEN NoWorkers ELSE extra[g]
    BY <1>7, <1>g DEF DetachInstances, Done
  <2>2. file.status = "saved" /\ file.state.group = mem.group
    BY <1>n, <2>1
  <2>3. AlwaysResumable' /\ (file.status = "saved" => Settled(file.state)')
    BY <1>g, <2>1, <2>2 DEF RolloutsInv, AlwaysResumable, Unfinished, Settled
  <2>4. mem'.group = mem.group
    BY <1>g, <2>1 DEF Done, DeployState
  <2>5. Settled(mem)'
    BY <1>g, <2>1, <2>4 DEF Settled
  <2> QED BY <1>d, <2>1, <2>3, <2>5
<1>8. CASE DetachRefused \/ StageFails \/ PersistFails \/ DeleteFails
  BY <1>8, <1>r DEF DetachRefused, StageFails, PersistFails, DeleteFails
<1>9. CASE RestoreCapacity
  <2>1. /\ Enter(Restore) /\ raised' = raised \ {mem.group} /\ at' = "persist"
        /\ UNCHANGED <<latest, serving, extra, stage, mem, file>>
    BY <1>9 DEF RestoreCapacity
  <2>2. AlwaysResumable'
    BY <2>1 DEF RolloutsInv, AlwaysResumable, Unfinished
  <2>3. OneGroup' /\ NamedFirst' /\ DetachedOnce' /\ RestoredFirst'
    BY <1>g, <2>1 DEF Enter, RolloutsInv, OneGroup, NamedFirst, DetachedOnce, RestoredFirst, Settled
  <2> QED BY <1>t, <2>2, <2>3 DEF RolloutsInv
<1>10. CASE Persist
  <2>1. /\ at = "persist" /\ at' = "enter" /\ stage' = stage + 1 /\ stage # Idle
        /\ file'.status = "saved" /\ file'.state = mem
        /\ mem' = mem /\ raised' = raised /\ extra' = extra
    BY <1>10 DEF Persist, groupVars, RolloutsInv, TypeInv
  <2>2. AlwaysResumable'
    BY <2>1 DEF RolloutsInv, AlwaysResumable, Unfinished, OneGroup
  <2>3. OneGroup' /\ NamedFirst'
    BY <1>g, <2>1 DEF OneGroup, NamedFirst
  <2>4. DetachedOnce' /\ RestoredFirst'
    BY <1>g, <2>1 DEF RolloutsInv, DetachedOnce, RestoredFirst, Settled
  <2> QED BY <1>t, <2>2, <2>3, <2>4 DEF RolloutsInv
<1>11. CASE DeleteFile
  <2>1. /\ stage = Delete /\ stage' = Idle /\ at' = "enter" /\ file'.status = "absent"
        /\ raised' = raised /\ extra' = extra
    BY <1>11, <1>g DEF DeleteFile, Return, File, groupVars
  <2>2. mem.group \notin raised /\ extra[mem.group] = NoWorkers
    BY <2>1 DEF RolloutsInv, RestoredFirst, DetachedOnce, Settled
  <2>3. \A g \in Group : ~Unfinished(g)
    BY <2>1, <2>2 DEF RolloutsInv, AlwaysResumable, OneGroup, Unfinished
  <2>4. AlwaysResumable'
    BY <2>1, <2>3 DEF AlwaysResumable, Unfinished
  <2>5. OneGroup' /\ NamedFirst' /\ DetachedOnce' /\ RestoredFirst'
    BY <2>1 DEF OneGroup, NamedFirst, DetachedOnce, RestoredFirst
  <2> QED BY <1>t, <2>4, <2>5 DEF RolloutsInv
<1>12. CASE Crash
  <2>1. CASE UNCHANGED file
    BY <1>12, <2>1, <1>r DEF Crash
  <2>2. CASE file' = [file EXCEPT !.status = "corrupt"]
    <3>1. file'.status = "corrupt" /\ stage' = Idle
      BY <1>12, <1>g, <2>2 DEF Crash, Return, File
    <3>2. AlwaysResumable' /\ OneGroup' /\ NamedFirst' /\ DetachedOnce' /\ RestoredFirst'
      BY <3>1 DEF AlwaysResumable, OneGroup, NamedFirst, DetachedOnce, RestoredFirst
    <3> QED BY <1>t, <3>2 DEF RolloutsInv
  <2> QED BY <1>12, <2>1, <2>2 DEF Crash
<1>13. CASE UNCHANGED vars
  BY <1>13, <1>t DEF vars, groupVars, RolloutsInv, AlwaysResumable, Unfinished, OneGroup, NamedFirst,
                     DetachedOnce, RestoredFirst, Settled
<1> QED BY <1>1, <1>2, <1>3, <1>4, <1>5, <1>6, <1>7, <1>8, <1>9, <1>10, <1>11, <1>12, <1>13
        DEF Next, Process

(***************************************************************************)
(* However many invocations for different groups fail, are killed or       *)
(* cannot save their progress, the only group that may be unfinished is    *)
(* the one in the recovery file, so that the next invocation completes it  *)
(* (deploy_state.go:126-138).                                              *)
(***************************************************************************)
THEOREM OneGroupAtATime == Spec => []AlwaysResumable
<1>1. RolloutsInv => AlwaysResumable
  BY DEF RolloutsInv
<1> QED BY <1>1, InitRolloutsInv, NextRolloutsInv, PTL DEF Spec

-----------------------------------------------------------------------------
(* How an invocation goes when nothing ever fails: it finds no file, works *)
(* on the group it was asked for, and skips no stage.                      *)
FreshStart ==
    /\ stage = Idle => file.status = "absent" /\ result \in {"none", "ok"}
    /\ stage # Idle => mem.group = asked /\ wanted <= latest[asked] /\ result = "none"
    /\ file.status # "corrupt"

InStep ==
    stage # Idle =>
        /\ at = "enter" /\ stage <= Terminate => mem.done = stage - 1
        /\ at = "persist" /\ stage <= Terminate => mem.done = stage
        /\ stage > Terminate => mem.done = Terminate

(* The group is at its size, then scaled up, and then at its size again.   *)
ScaledUp == mem.done \in ScaleUp .. Drain /\ stage # Idle

NewWorkers ==
    /\ \A g \in Group : extra[g] # NoWorkers => g = asked /\ ScaledUp
    /\ ScaledUp => extra[asked] # NoWorkers /\ extra[asked] >= wanted
    /\ stage # Idle /\ mem.done >= Detach => serving[asked] >= wanted
    /\ result = "ok" => serving[asked] >= wanted

FaultlessInv == TypeInv /\ FreshStart /\ InStep /\ NewWorkers

LEMMA InitFaultlessInv == Init => FaultlessInv
<1> SUFFICES ASSUME Init PROVE FaultlessInv
  OBVIOUS
<1> QED BY InitTypeInv, Sizes DEF Init, FaultlessInv, FreshStart, InStep, NewWorkers, ScaledUp

(* Workers launched later have a later configuration: numbers are ordered. *)
LEMMA NextFaultlessInv ==
  ASSUME Fault = {}, FaultlessInv, [Next]_vars
  PROVE  FaultlessInv'
<1> USE Sizes
<1>t. TypeInv /\ FreshStart /\ InStep /\ NewWorkers /\ TypeInv'
  BY NextTypeInv DEF FaultlessInv
<1>g. /\ mem \in DeployState /\ mem.group \in Group /\ mem.done \in Idle .. Terminate
      /\ asked \in Group /\ wanted \in Int /\ \A g \in Group : latest[g] \in Int
  <2>1. mem \in DeployState /\ asked \in Group /\ wanted \in Int
    BY <1>t DEF TypeInv, TypeOK, Configuration
  <2>2. \A g \in Group : latest[g] \in Configuration
    BY <1>t DEF TypeInv, TypeOK
  <2> QED BY <2>1, <2>2, States DEF Configuration
<1> USE DEF FreshStart, InStep, NewWorkers, ScaledUp
<1>d. ASSUME NEW s \in Gather .. Terminate, Enter(s), Done(s)
      PROVE  /\ s = mem.done + 1 /\ mem'.done = s /\ mem'.group = mem.group
             /\ stage = s /\ stage' = s /\ at = "enter" /\ at' = "persist"
             /\ UNCHANGED <<asked, wanted, file, result>>
  BY <1>d, <1>t, <1>g, States DEF Enter, Done
<1>1. ASSUME NEW g \in Group, Start(g) PROVE FaultlessInv'
  <2>1. /\ stage = Idle /\ stage' = Gather /\ at' = at /\ asked' = g /\ wanted' = latest[g]
        /\ mem'.group = g /\ mem'.done = Idle /\ result' = "none" /\ UNCHANGED <<groupVars, file>>
    BY <1>1, <1>t, States DEF Start, initDeployState, newDeployState
  <2>2. at = "enter"
    BY <2>1, <1>t DEF TypeInv, TypeOK
  <2>3. FreshStart'
    BY <2>1, <1>t, <1>g DEF groupVars
  <2>4. InStep'
    BY <2>1, <2>2
  <2>5. NewWorkers'
    BY <2>1, <1>t DEF groupVars
  <2> QED BY <1>t, <2>3, <2>4, <2>5 DEF FaultlessInv
<1>2. ASSUME NEW g \in Group, Configure(g) PROVE FaultlessInv'
  <2>1. UNCHANGED <<serving, extra, stage, at, asked, wanted, mem, file, result>>
    BY <1>2 DEF Configure
  <2>2. latest'[asked] >= latest[asked]
    BY <1>2, <1>g, <1>t DEF Configure, TypeInv, TypeOK
  <2>3. latest'[asked] \in Int
    BY <1>2, <1>g, <1>t DEF Configure, TypeInv, TypeOK
  <2> QED BY <1>t, <1>g, <2>1, <2>2, <2>3 DEF FaultlessInv
<1>3. CASE Skip
  BY <1>3, <1>t, <1>g DEF Skip
<1>4. CASE OtherStage
  <2>1. PICK s \in {Gather, WaitNodes, Cordon, Drain, Terminate} : Enter(s) /\ Done(s)
    BY <1>4 DEF OtherStage
  <2>2. UNCHANGED groupVars
    BY <1>4 DEF OtherStage
  <2>3. s \in Gather .. Terminate
    BY <2>1
  <2> QED BY <1>t, <1>g, <2>1, <2>2, <2>3, <1>d DEF groupVars, FaultlessInv
<1>5. CASE SetMaxCapacity
  <2>1. Enter(SetMax) /\ Done(SetMax) /\ UNCHANGED <<latest, serving, extra>>
    BY <1>5 DEF SetMaxCapacity
  <2> QED BY <1>t, <1>g, <2>1, <1>d DEF FaultlessInv
<1>6. CASE ScaleUpGroup
  <2>1. Enter(ScaleUp) /\ Done(ScaleUp) /\ UNCHANGED <<latest, serving>>
    BY <1>6 DEF ScaleUpGroup
  <2>2. mem.group = asked /\ mem.done = SetMax /\ extra[asked] = NoWorkers
    BY <2>1, <1>t, <1>g, <1>d
  <2>3. extra'[asked] = latest[asked] /\ \A g \in Group : g # asked => extra'[g] = extra[g]
    BY <1>6, <2>2, <1>g, <1>t DEF ScaleUpGroup, TypeInv, TypeOK
  <2>4. latest[asked] # NoWorkers
    BY <1>g, <1>t, RolloutsAssumption DEF TypeInv, TypeOK, Configuration, NoWorkers
  <2> QED BY <1>t, <1>g, <2>1, <2>2, <2>3, <2>4, <1>d DEF FaultlessInv
<1>7. CASE DetachInstances
  <2>1. Enter(Detach) /\ Done(Detach) /\ latest' = latest
    BY <1>7 DEF DetachInstances
  <2>2. mem.group = asked /\ mem.done = Drain /\ extra[asked] >= wanted
    BY <2>1, <1>t, <1>g, <1>d
  <2>3. /\ serving'[asked] = extra[asked] /\ extra'[asked] = NoWorkers
        /\ \A g \in Group : g # asked => extra'[g] = extra[g]
    BY <1>7, <2>2, <1>g, <1>t DEF DetachInstances, TypeInv, TypeOK
  <2> QED BY <1>t, <1>g, <2>1, <2>2, <2>3, <1>d DEF FaultlessInv
<1>8. CASE DetachRefused
  BY <1>8, <1>t, <1>g DEF DetachRefused, Enter
<1>9. CASE RestoreCapacity
  BY <1>9, <1>t, <1>g DEF RestoreCapacity, Enter, FaultlessInv
<1>10. CASE Persist
  <2>1. /\ stage' = stage + 1 /\ at = "persist" /\ at' = "enter" /\ stage \in Gather .. Restore
        /\ UNCHANGED <<groupVars, asked, wanted, mem, result>> /\ file'.status = "saved"
    BY <1>10, <1>t DEF Persist, TypeInv
  <2> QED BY <1>t, <1>g, <2>1 DEF groupVars, FaultlessInv
<1>11. CASE DeleteFile
  <2>1. /\ stage = Delete /\ stage' = Idle /\ result' = "ok" /\ UNCHANGED <<groupVars, asked, wanted>>
    BY <1>11 DEF DeleteFile, Return
  <2>2. file'.status = "absent"
    BY <1>11, <1>t DEF DeleteFile, TypeInv, TypeOK, File
  <2> QED BY <1>t, <1>g, <2>1, <2>2 DEF groupVars, FaultlessInv
<1>12. ~DeleteFails /\ ~StageFails /\ ~PersistFails /\ ~Crash
  BY DEF DeleteFails, StageFails, PersistFails, Crash
<1>13. CASE UNCHANGED vars
  BY <1>13, <1>t DEF vars, groupVars, FaultlessInv
<1> QED BY <1>1, <1>2, <1>3, <1>4, <1>5, <1>6, <1>7, <1>8, <1>9, <1>10, <1>11, <1>12, <1>13
        DEF Next, Process

(***************************************************************************)
(* Only an earlier invocation that failed can make a successful one leave  *)
(* its group on an older launch configuration (deploy.go:18-19): when      *)
(* nothing fails, the workers of the group asked for have the one it had   *)
(* at the start, or a later one, whatever is configured meanwhile.         *)
(***************************************************************************)
THEOREM FaultlessRollsOut == Fault = {} => (Spec => []RolledOutOnSuccess)
<1> SUFFICES ASSUME Fault = {} PROVE Spec => []RolledOutOnSuccess
  OBVIOUS
<1>1. FaultlessInv /\ [Next]_vars => FaultlessInv'
  BY NextFaultlessInv
<1>2. FaultlessInv => RolledOutOnSuccess
  BY DEF FaultlessInv, NewWorkers, RolledOutOnSuccess
<1> QED BY <1>1, <1>2, InitFaultlessInv, PTL DEF Spec
=============================================================================
