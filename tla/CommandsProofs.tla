---------------------------- MODULE CommandsProofs ----------------------------
(***************************************************************************)
(* Properties of the small commands for any number of invocations, calls,  *)
(* retries, contexts and clusters.  Each component has an inductive        *)
(* invariant of its own; the steps of the others leave its state alone.    *)
(***************************************************************************)
EXTENDS Commands, EksBuildSearchProofs

(* A step of the whole is a step of a component, or leaves it alone.       *)
LEMMA Composition ==
  ASSUME [Next]_vars
  PROVE  /\ SearchNext \/ UNCHANGED searchVars
         /\ Verify!Next \/ UNCHANGED verifyVars
         /\ Retries!Next \/ UNCHANGED retriesVars
         /\ Schedule!Next \/ UNCHANGED scheduleVars
         /\ Waits!Next \/ UNCHANGED apiVars
         /\ Configure!Next \/ UNCHANGED configureVars
         /\ (Calls!Next /\ UNCHANGED configureVars) \/ UNCHANGED callVars
         /\ Tls!Next \/ UNCHANGED tlsVars
<1>1. CASE UNCHANGED vars
  BY <1>1 DEF vars
<1>2. CASE VerifyStep \/ DeployStep \/ ScheduleStep \/ WaitStep \/ SearchStep \/ TlsStep
  BY <1>2 DEF VerifyStep, DeployStep, ScheduleStep, WaitStep, SearchStep, TlsStep
<1>3. CASE ConfigureStep
  BY <1>3 DEF ConfigureStep
<1>4. CASE KubectlStep
  <2>1. ConfigureBeside => Configure!Next
    BY DEF ConfigureBeside, Configure!Next
  <2> QED BY <1>4, <2>1 DEF KubectlStep
<1> QED BY <1>1, <1>2, <1>3, <1>4 DEF Next

-----------------------------------------------------------------------------
(* `eks verify`: a serving cluster was active, and queries are counted.    *)
VerifyInv ==
    /\ Verify!TypeOK
    /\ serving => status \in {"ACTIVE", "UPDATING"}
    /\ verifyAt \in {"cluster", "server"} => queries = 0
    /\ verifyAt \in {"waitCluster", "waitServer"} => wait /\ queries = verifyI + 1
    /\ verifyAt # "done" => verifyResult = "none"
    /\ VerifiedOnSuccess
    /\ PatientOnlyWhenWaiting

LEMMA InitVerifyInv == Verify!Init => VerifyInv
<1> SUFFICES ASSUME Verify!Init PROVE VerifyInv
  OBVIOUS
<1>1. /\ status \in {"none", "CREATING", "ACTIVE"} /\ serving \in BOOLEAN /\ wait \in BOOLEAN
      /\ serving => status = "ACTIVE"
      /\ verifyAt = "cluster" /\ verifyI = 0 /\ queries = 0 /\ verifyResult = "none"
  BY DEF Verify!Init
<1> QED BY <1>1, CommandsAssumption
        DEF VerifyInv, Verify!TypeOK, Verify!Step, VerifiedOnSuccess, Verify!VerifiedOnSuccess,
            PatientOnlyWhenWaiting, Verify!PatientOnlyWhenWaiting

LEMMA NextVerifyInv == VerifyInv /\ (Verify!Next \/ UNCHANGED verifyVars) => VerifyInv'
<1> SUFFICES ASSUME VerifyInv, Verify!Next \/ UNCHANGED verifyVars PROVE VerifyInv'
  OBVIOUS
<1> USE CommandsAssumption
        DEF VerifyInv, Verify!TypeOK, Verify!Step, VerifiedOnSuccess, Verify!VerifiedOnSuccess,
            PatientOnlyWhenWaiting, Verify!PatientOnlyWhenWaiting
<1>1. ASSUME NEW holds \in BOOLEAN, holds => Verify!Holds, Verify!Check(holds) PROVE VerifyInv'
  BY <1>1 DEF Verify!Check, Verify!BeginWait, Verify!Verified, Verify!Return, Verify!clusterVars, Verify!Holds
<1>2. ASSUME NEW holds \in BOOLEAN, holds => Verify!Holds, Verify!Retry(holds) PROVE VerifyInv'
  BY <1>2 DEF Verify!Retry, Verify!Verified, Verify!Miss, Verify!Return, Verify!clusterVars, Verify!Holds
<1>3. CASE Verify!ClusterChanges
  BY <1>3 DEF Verify!ClusterChanges
<1>4. CASE Verify!ServerStarts
  BY <1>4 DEF Verify!ServerStarts
<1>5. CASE UNCHANGED verifyVars
  BY <1>5 DEF verifyVars
<1>6. Verify!Holds \in BOOLEAN
  BY DEF Verify!Holds, Verify!clusterIsActive
<1> QED BY <1>1, <1>2, <1>3, <1>4, <1>5, <1>6 DEF Verify!Next, Verify!Query, Verify!QueryFails

(***************************************************************************)
(* "Ready" is said of a cluster that became active and whose API server    *)
(* answers (README.md:90-93), for any number of retries and any failures.  *)
(***************************************************************************)
THEOREM ReadyMeansServing == Spec => []VerifiedOnSuccess
<1>1. Init => VerifyInv
  BY InitVerifyInv DEF Init
<1>2. VerifyInv /\ [Next]_vars => VerifyInv'
  BY Composition, NextVerifyInv
<1>3. VerifyInv => VerifiedOnSuccess
  BY DEF VerifyInv
<1> QED BY <1>1, <1>2, <1>3, PTL DEF Spec

(***************************************************************************)
(* For any number of retries: with --wait no condition is given up before  *)
(* it was asked for as many times as --max-retries says, whatever the one  *)
(* before it used up and however many queries failed (README.md:97-98,     *)
(* cluster.go:81).                                                         *)
(***************************************************************************)
THEOREM PatienceAsAsked == Spec => []PatientOnlyWhenWaiting
<1>1. Init => VerifyInv
  BY InitVerifyInv DEF Init
<1>2. VerifyInv /\ [Next]_vars => VerifyInv'
  BY Composition, NextVerifyInv
<1>3. VerifyInv => PatientOnlyWhenWaiting
  BY DEF VerifyInv
<1> QED BY <1>1, <1>2, <1>3, PTL DEF Spec

-----------------------------------------------------------------------------
(* `eks schedule-coredns`: the way each invocation takes fits what it was  *)
(* asked for, and it restarts only Pods it found without the annotation.   *)
ScheduleInv ==
    /\ Schedule!TypeOK
    /\ ScheduledOnSuccess
    /\ \A p \in Scheduler :
          /\ scheduleAt[p] \in {"get", "remove", "restart"} => compute[p] = "fargate"
          /\ scheduleAt[p] = "add" => compute[p] = "ec2"
          /\ scheduleAt[p] = "restart" => touched[p] \/ Schedule!ComputeType \notin annotations
          /\ scheduleAt[p] # "idle" => scheduleResult[p] = "none"

LEMMA InitScheduleInv == Schedule!Init => ScheduleInv
  BY DEF Schedule!Init, ScheduleInv, Schedule!TypeOK, ScheduledOnSuccess, Schedule!ScheduledOnSuccess

(* Everybody but the invocation that changed the template is told.        *)
LEMMA TemplateChanges ==
  ASSUME Schedule!TypeOK, NEW new, NEW p \in Scheduler, Schedule!Template(new, p)
  PROVE  /\ annotations' = new
         /\ \A q \in Scheduler : replaced'[q] = TRUE
         /\ replaced' \in [Scheduler -> BOOLEAN]
         /\ touched' \in [Scheduler -> BOOLEAN]
         /\ \A q \in Scheduler : touched[q] => touched'[q]
         /\ (Schedule!ComputeType \in new <=> Schedule!ComputeType \notin annotations)
               => \A q \in Scheduler \ {p} : touched'[q]
<1>1. annotations' = new /\ replaced' = [q \in Scheduler |-> TRUE]
  BY DEF Schedule!Template
<1>2. touched' = [q \in Scheduler |->
          touched[q] \/ (q # p /\ (Schedule!ComputeType \in new <=> Schedule!ComputeType \notin annotations))]
  BY DEF Schedule!Template
<1>3. \A q \in Scheduler : touched'[q] =
          (touched[q] \/ (q # p /\ (Schedule!ComputeType \in new <=> Schedule!ComputeType \notin annotations)))
  BY <1>2, Zenon
<1>4. touched' \in [Scheduler -> BOOLEAN]
  BY <1>2, Zenon
<1> QED BY <1>1, <1>3, <1>4, Zenon

LEMMA NextScheduleInv == ScheduleInv /\ (Schedule!Next \/ UNCHANGED scheduleVars) => ScheduleInv'
<1> SUFFICES ASSUME ScheduleInv, Schedule!Next \/ UNCHANGED scheduleVars PROVE ScheduleInv'
  OBVIOUS
<1> USE CommandsAssumption
        DEF ScheduleInv, Schedule!TypeOK, ScheduledOnSuccess, Schedule!ScheduledOnSuccess, Schedule!Annotation,
            Schedule!Other, Schedule!ComputeType, Schedule!RestartedAt
<1>1. ASSUME NEW p \in Scheduler, NEW c \in {"fargate", "ec2"}, Schedule!Start(p, c) PROVE ScheduleInv'
  BY <1>1 DEF Schedule!Start
<1>2. ASSUME NEW p \in Scheduler, Schedule!GetMetadata(p) PROVE ScheduleInv'
  BY <1>2 DEF Schedule!GetMetadata, Schedule!Goto
<1>3. ASSUME NEW p \in Scheduler, Schedule!RemoveAnnotation(p) PROVE ScheduleInv'
  <2>1. CASE "compute-type" \in annotations
    <3>1. Schedule!Template(annotations \ {"compute-type"}, p)
      BY <1>3, <2>1 DEF Schedule!RemoveAnnotation
    <3>2. /\ scheduleAt' = [scheduleAt EXCEPT ![p] = "idle"]
          /\ scheduleResult' = [scheduleResult EXCEPT ![p] = "ok"]
          /\ compute' = compute /\ compute[p] = "fargate"
      BY <1>3, <2>1 DEF Schedule!RemoveAnnotation, Schedule!Return
    <3>3. /\ annotations' = annotations \ {"compute-type"}
          /\ replaced' \in [Scheduler -> BOOLEAN] /\ touched' \in [Scheduler -> BOOLEAN]
          /\ \A q \in Scheduler : replaced'[q] /\ (q # p => touched'[q]) /\ (touched[q] => touched'[q])
      <4>1. "compute-type" \in annotations \ {"compute-type"} <=> "compute-type" \notin annotations
        BY <2>1
      <4>2. Schedule!TypeOK
        OBVIOUS
      <4> QED BY <3>1, <4>1, <4>2, TemplateChanges
    <3> QED BY <2>1, <3>2, <3>3
  <2>2. CASE "compute-type" \notin annotations
    BY <1>3, <2>2 DEF Schedule!RemoveAnnotation, Schedule!Return
  <2> QED BY <2>1, <2>2
<1>4. ASSUME NEW p \in Scheduler, Schedule!RolloutRestart(p) PROVE ScheduleInv'
  BY <1>4 DEF Schedule!RolloutRestart, Schedule!Template, Schedule!Return
<1>5. ASSUME NEW p \in Scheduler, Schedule!AddAnnotation(p) PROVE ScheduleInv'
  <2>1. /\ scheduleAt' = [scheduleAt EXCEPT ![p] = "idle"]
        /\ scheduleResult' = [scheduleResult EXCEPT ![p] = "ok"]
        /\ compute' = compute /\ compute[p] = "ec2"
    BY <1>5 DEF Schedule!AddAnnotation, Schedule!Return
  <2>2. CASE annotations = {"compute-type"}
    BY <1>5, <2>1, <2>2 DEF Schedule!AddAnnotation
  <2>3. CASE annotations # {"compute-type"}
    <3>1. Schedule!Template({"compute-type"}, p)
      BY <1>5, <2>3 DEF Schedule!AddAnnotation
    <3>2. /\ annotations' = {"compute-type"}
          /\ replaced' \in [Scheduler -> BOOLEAN] /\ touched' \in [Scheduler -> BOOLEAN]
          /\ \A q \in Scheduler : replaced'[q] /\ (touched[q] => touched'[q])
          /\ "compute-type" \in annotations \/ \A q \in Scheduler : q # p => touched'[q]
      BY <2>3, <3>1, TemplateChanges
    <3> QED BY <2>1, <3>2
  <2> QED BY <2>2, <2>3
<1>6. ASSUME NEW p \in Scheduler, Schedule!KubectlFails(p) PROVE ScheduleInv'
  BY <1>6 DEF Schedule!KubectlFails, Schedule!Return
<1>7. ASSUME NEW a \in Schedule!Annotation, Schedule!Annotate(a) PROVE ScheduleInv'
  BY <1>7 DEF Schedule!Annotate
<1>8. CASE UNCHANGED scheduleVars
  BY <1>8 DEF scheduleVars
<1> QED BY <1>1, <1>2, <1>3, <1>4, <1>5, <1>6, <1>7, <1>8 DEF Schedule!Next, Schedule!ScheduleCoredns

(***************************************************************************)
(* However many invocations of `eks schedule-coredns` and operators        *)
(* overlap, each that succeeds left the annotation as it was asked to      *)
(* until somebody else changed it, and had the Pods replaced for fargate   *)
(* (coredns.go:59).                                                        *)
(***************************************************************************)
THEOREM SuccessMeansScheduled == Spec => []ScheduledOnSuccess
<1>1. Init => ScheduleInv
  BY InitScheduleInv DEF Init
<1>2. ScheduleInv /\ [Next]_vars => ScheduleInv'
  BY Composition, NextScheduleInv
<1>3. ScheduleInv => ScheduledOnSuccess
  BY DEF ScheduleInv
<1> QED BY <1>1, <1>2, <1>3, PTL DEF Spec
-----------------------------------------------------------------------------
(* The waits for the API: how old the token of a client can be.            *)
WaitsInv ==
    /\ Waits!TypeOK
    /\ waitAt = "poll" => polls < MaxRetries
    /\ loop = "nodes" /\ waitAt = "client" => polls = 0
    /\ scheme = "EKSClusterBased" /\ loop = "ingress" /\ waitAt = "poll" => age = 0
    /\ scheme = "EKSClusterBased" /\ loop = "nodes" => age <= polls
    /\ WaitsOutlastTokens

LEMMA InitWaitsInv == Waits!Init => WaitsInv
<1> SUFFICES ASSUME Waits!Init PROVE WaitsInv
  OBVIOUS
<1>1. /\ loop \in {"ingress", "nodes"} /\ scheme \in {"ConfigBased", "DirectAuth", "EKSClusterBased"}
      /\ there = FALSE /\ polls = 0 /\ refused = FALSE /\ waitAt = "client" /\ outcome = "none"
      /\ age \in Nat /\ (scheme = "EKSClusterBased" => age = 0)
  BY CommandsAssumption DEF Waits!Init
<1>2. Waits!TypeOK
  <2>1. there \in BOOLEAN /\ refused \in BOOLEAN
    BY <1>1, Zenon
  <2>2. polls \in 0 .. MaxRetries
    BY <1>1, CommandsAssumption
  <2> QED BY <1>1, <2>1, <2>2 DEF Waits!TypeOK
<1>3. WaitsOutlastTokens
  BY <1>1 DEF WaitsOutlastTokens, Waits!WaitsOutlastTokens
<1>4. scheme = "EKSClusterBased" => age <= polls
  BY <1>1
<1> QED BY <1>1, <1>2, <1>3, <1>4 DEF WaitsInv

LEMMA NextWaitsInv ==
  ASSUME Lifetime > 0, WaitsInv, Waits!Next \/ UNCHANGED apiVars
  PROVE  WaitsInv'
<1> USE CommandsAssumption DEF WaitsInv, Waits!TypeOK, WaitsOutlastTokens, Waits!WaitsOutlastTokens
<1>1. CASE Waits!GetClient
  BY <1>1 DEF Waits!GetClient
<1>2. CASE Waits!Found \/ Waits!GiveUp \/ Waits!ReportNotReady
  BY <1>2 DEF Waits!Found, Waits!GiveUp, Waits!ReportNotReady, Waits!End
<1>3. CASE Waits!NotYet
  BY <1>3 DEF Waits!NotYet, Waits!SleepAndRetry, Waits!NextPoll
<1>4. CASE Waits!PollFails
  BY <1>4 DEF Waits!PollFails, Waits!SleepAndRetry, Waits!NextPoll, Waits!Expired
<1>5. CASE Waits!CallFails
  BY <1>5 DEF Waits!CallFails, Waits!End, Waits!Expired
<1>6. CASE Waits!Provisioned
  BY <1>6 DEF Waits!Provisioned
<1>7. CASE UNCHANGED apiVars
  BY <1>7 DEF apiVars
<1> QED BY <1>1, <1>2, <1>3, <1>4, <1>5, <1>6, <1>7 DEF Waits!Next

(***************************************************************************)
(* For any number of polls and tokens of any lifetime, `k8s wait-for-      *)
(* ingress` never has a poll refused for a token it got itself             *)
(* (ingress.go:61), and the wait for nodes not before it has lasted as     *)
(* long as the token (node.go:28).                                         *)
(***************************************************************************)
THEOREM IngressOutlastsTokens == Lifetime > 0 => (Spec => []WaitsOutlastTokens)
<1> SUFFICES ASSUME Lifetime > 0 PROVE Spec => []WaitsOutlastTokens
  OBVIOUS
<1>1. Init => WaitsInv
  BY InitWaitsInv DEF Init
<1>2. WaitsInv /\ [Next]_vars => WaitsInv'
  BY Composition, NextWaitsInv
<1>3. WaitsInv => WaitsOutlastTokens
  BY DEF WaitsInv
<1> QED BY <1>1, <1>2, <1>3, PTL DEF Spec

-----------------------------------------------------------------------------
(***************************************************************************)
(* The search for the latest eksbuild returns the one in front of the      *)
(* first gap that is long enough, in the composition as by itself          *)
(* (sync.go:641-684).                                                      *)
(***************************************************************************)
THEOREM SearchFindsLatest == Spec => []LatestBuildFound
<1>1. Init => SearchInv
  BY InitSearchInv DEF Init
<1>2. SearchInv /\ [Next]_vars => SearchInv'
  BY Composition, NextSearchInv
<1>3. SearchInv => LatestBuildFound
  BY DEF SearchInv, LatestBuildFound
<1> QED BY <1>1, <1>2, <1>3, PTL DEF Spec
-----------------------------------------------------------------------------
(* `eks configure`, when no two invocations overlap.                       *)
NoOverlap == \A p, q \in Configurer : p = q

(* An invocation that is saving has every context of the file in memory,   *)
(* the one it adds besides, and the parts it has saved are in the file.    *)
Saving(p) ==
    LET c == target[p].context
        k == target[p].cluster
    IN  /\ config[p].contexts[c] = k
        /\ k \in config[p].clusters \cap config[p].users
        /\ config[p].current = c
        /\ \A d \in Context : d # c => config[p].contexts[d] = file.contexts[d]
        /\ IF "contexts" \in unsaved[p]
           THEN file.contexts[c] = "none"
           ELSE file.contexts = config[p].contexts
        /\ "clusters" \notin unsaved[p] => file.clusters = config[p].clusters
        /\ "users" \notin unsaved[p] => file.users = config[p].users
        /\ "current" \notin unsaved[p] => file.current = config[p].current

ConfigureInv ==
    /\ Configure!TypeOK
    /\ ~exists => file = Configure!Blank
    /\ \A p \in Configurer :
          /\ configureAt[p] = "create" => ~exists
          /\ configureAt[p] \in {"load", "save"} => exists
          /\ configureAt[p] = "save" => Saving(p)
          /\ configureAt[p] # "idle" => configureResult[p] = "none"
    /\ ConfiguredOnSuccess

(* What a run of the command does to the file.                             *)
ContextsKept == \A c \in Context : file.contexts[c] # "none" => file'.contexts[c] = file.contexts[c]

LEMMA BlankConfig == Configure!Blank \in Configure!Config
  BY DEF Configure!Blank, Configure!Config, Configure!None

LEMMA InitConfigureInv == Configure!Init => ConfigureInv
<1> SUFFICES ASSUME Configure!Init PROVE ConfigureInv
  OBVIOUS
<1>1. file \in Configure!Config /\ (~exists => file = Configure!Blank) /\ exists \in BOOLEAN
  BY BlankConfig DEF Configure!Init
<1>2. /\ configureAt = [p \in Configurer |-> "idle"]
      /\ target \in [Configurer -> [context : Context, cluster : Cluster]]
      /\ config = [p \in Configurer |-> Configure!Blank]
      /\ unsaved = [p \in Configurer |-> {}]
      /\ configureResult = [p \in Configurer |-> "none"]
  BY DEF Configure!Init
<1>3. Configure!TypeOK
  BY <1>1, <1>2, BlankConfig DEF Configure!TypeOK, Configure!Parts
<1> QED BY <1>1, <1>2, <1>3 DEF ConfigureInv, ConfiguredOnSuccess, Configure!ConfiguredOnSuccess

(* Steps that leave the file alone.                                        *)
LEMMA FileUnchanged ==
  ASSUME NoOverlap, ConfigureInv, NEW p \in Configurer,
         \/ \E c \in Context, k \in Cluster : Configure!Start(p, c, k)
         \/ Configure!CheckFile(p) \/ Configure!Fails(p)
  PROVE  ConfigureInv' /\ ContextsKept
<1> USE DEF NoOverlap, ConfigureInv, ContextsKept, ConfiguredOnSuccess, Configure!ConfiguredOnSuccess
<1>1. ASSUME NEW c \in Context, NEW k \in Cluster, Configure!Start(p, c, k) PROVE ConfigureInv' /\ ContextsKept
  <2>1. Configure!TypeOK'
    BY <1>1 DEF Configure!Start, Configure!TypeOK
  <2> QED BY <1>1, <2>1 DEF Configure!Start, Configure!TypeOK
<1>2. CASE Configure!CheckFile(p)
  <2>1. Configure!TypeOK'
    BY <1>2 DEF Configure!CheckFile, Configure!Goto, Configure!TypeOK
  <2> QED BY <1>2, <2>1 DEF Configure!CheckFile, Configure!Goto, Configure!FileMissing, Configure!TypeOK
<1>3. CASE Configure!Fails(p)
  <2>1. Configure!TypeOK'
    BY <1>3, BlankConfig DEF Configure!Fails, Configure!Return, Configure!TypeOK
  <2> QED BY <1>3, <2>1 DEF Configure!Fails, Configure!Return, Configure!TypeOK
<1> QED BY <1>1, <1>2, <1>3

LEMMA CreateKeeps ==
  ASSUME NoOverlap, ConfigureInv, NEW p \in Configurer, Configure!CreateInitialConfig(p)
  PROVE  ConfigureInv' /\ ContextsKept
<1>1. /\ configureAt[p] = "create" /\ exists' /\ exists' \in BOOLEAN
      /\ file = Configure!Blank /\ file' = file
      /\ configureAt' = [configureAt EXCEPT ![p] = "load"]
      /\ UNCHANGED <<config, unsaved, configureResult, target>>
  BY DEF Configure!CreateInitialConfig, Configure!Goto, ConfigureInv
<1>2. Configure!TypeOK'
  BY <1>1 DEF ConfigureInv, Configure!TypeOK
<1> QED BY <1>1, <1>2
        DEF NoOverlap, ConfigureInv, ContextsKept, ConfiguredOnSuccess, Configure!ConfiguredOnSuccess, Configure!TypeOK

LEMMA LoadKeeps ==
  ASSUME NoOverlap, ConfigureInv, NEW p \in Configurer, Configure!AddEksConfigContext(p)
  PROVE  ConfigureInv' /\ ContextsKept
<1> DEFINE c == target[p].context
           k == target[p].cluster
<1>t. /\ Configure!TypeOK /\ c \in Context /\ k \in Cluster
  BY DEF ConfigureInv, Configure!TypeOK
<1>1. CASE Configure!ContextExists(c)
  <2>1. /\ Configure!Return(p, "error") /\ UNCHANGED <<exists, file, target>>
    BY <1>1 DEF Configure!AddEksConfigContext
  <2>2. Configure!TypeOK'
    BY <1>t, <2>1, BlankConfig DEF Configure!Return, Configure!TypeOK
  <2> QED BY <2>1, <2>2 DEF Configure!Return, NoOverlap, ConfigureInv, ContextsKept, ConfiguredOnSuccess,
                            Configure!ConfiguredOnSuccess, Configure!TypeOK
<1>2. CASE ~Configure!ContextExists(c)
  <2>1. /\ configureAt[p] = "load" /\ configureAt' = [configureAt EXCEPT ![p] = "save"]
        /\ config' = [config EXCEPT ![p] = Configure!WithContext(file, c, k)]
        /\ unsaved' = [unsaved EXCEPT ![p] = Configure!Parts]
        /\ UNCHANGED <<configureResult, exists, file, target>>
    BY <1>2 DEF Configure!AddEksConfigContext
  <2>2. file.contexts[c] = "none"
    BY <1>2 DEF Configure!ContextExists, Configure!None
  <2>3. /\ Configure!WithContext(file, c, k) \in Configure!Config
        /\ config'[p].contexts = [file.contexts EXCEPT ![c] = k]
        /\ k \in config'[p].clusters /\ k \in config'[p].users /\ config'[p].current = c
    BY <1>t, <2>1 DEF Configure!WithContext, Configure!Config, Configure!TypeOK
  <2>4. Configure!TypeOK'
    BY <1>t, <2>1, <2>3 DEF Configure!TypeOK
  <2>5. file.contexts \in [Context -> Cluster \cup {"none"}]
    BY <1>t DEF Configure!TypeOK, Configure!Config, Configure!None
  <2>6. /\ config'[p].contexts[c] = k
        /\ \A d \in Context : d # c => config'[p].contexts[d] = file.contexts[d]
    BY <1>t, <2>3, <2>5
  <2>7. Saving(p)'
    BY <1>t, <2>1, <2>2, <2>3, <2>6 DEF Saving, Configure!Parts, Configure!TypeOK
  <2>8. exists
    BY <2>1 DEF ConfigureInv
  <2>9. \A q \in Configurer : q = p
    BY DEF NoOverlap
  <2>10. configureAt'[p] = "save" /\ configureResult'[p] = "none"
    BY <1>t, <2>1 DEF ConfigureInv, Configure!TypeOK
  <2> QED BY <2>1, <2>4, <2>7, <2>8, <2>9, <2>10
          DEF ConfigureInv, ContextsKept, ConfiguredOnSuccess, Configure!ConfiguredOnSuccess
<1> QED BY <1>1, <1>2

LEMMA SaveKeeps ==
  ASSUME NoOverlap, ConfigureInv, NEW p \in Configurer, NEW part \in Configure!Parts,
         Configure!SavePart(p, part)
  PROVE  ConfigureInv' /\ ContextsKept
<1>1. /\ configureAt[p] = "save" /\ part \in unsaved[p]
      /\ file' = [file EXCEPT ![part] = config[p][part]]
      /\ unsaved' = [unsaved EXCEPT ![p] = @ \ {part}]
      /\ UNCHANGED <<exists, configureAt, target, config, configureResult>>
  BY DEF Configure!SavePart
<1>2. /\ Saving(p) /\ exists /\ configureResult[p] = "none"
      /\ Configure!TypeOK
      /\ \A q \in Configurer : q = p
  BY <1>1 DEF ConfigureInv, NoOverlap
<1>3. unsaved'[p] = unsaved[p] \ {part}
  BY <1>1, <1>2 DEF Configure!TypeOK
<1>4. config[p] \in Configure!Config /\ file \in Configure!Config /\ target[p].context \in Context
  BY <1>2 DEF Configure!TypeOK
<1>5. /\ part = "contexts" => file'.contexts = config[p].contexts
      /\ part # "contexts" => file'.contexts = file.contexts
      /\ part = "clusters" => file'.clusters = config[p].clusters
      /\ part # "clusters" => file'.clusters = file.clusters
      /\ part = "users" => file'.users = config[p].users
      /\ part # "users" => file'.users = file.users
      /\ part = "current" => file'.current = config[p].current
      /\ part # "current" => file'.current = file.current
      /\ file' \in Configure!Config
  BY <1>1, <1>4 DEF Configure!Config, Configure!Parts
<1>6. Configure!TypeOK'
  <2>1. unsaved' \in [Configurer -> SUBSET Configure!Parts]
    BY <1>1, <1>2 DEF Configure!TypeOK
  <2> QED BY <1>1, <1>2, <1>5, <2>1 DEF Configure!TypeOK
<1>7. ContextsKept
  <2>1. CASE part = "contexts"
    BY <1>1, <1>2, <1>5, <2>1 DEF ContextsKept, Saving
  <2>2. CASE part # "contexts"
    BY <1>5, <2>2 DEF ContextsKept
  <2> QED BY <2>1, <2>2
<1>8. Saving(p)'
  <2>1. \A d \in Context : d # target[p].context => config[p].contexts[d] = file'.contexts[d]
    BY <1>2, <1>5 DEF Saving
  <2> QED BY <1>1, <1>2, <1>3, <1>5, <2>1 DEF Saving
<1> QED BY <1>1, <1>2, <1>6, <1>7, <1>8 DEF ConfigureInv, ConfiguredOnSuccess, Configure!ConfiguredOnSuccess

(* With all parts saved, the file is what was in memory.                   *)
LEMMA SuccessKeeps ==
  ASSUME NoOverlap, ConfigureInv, NEW p \in Configurer, Configure!ConfigSaved(p)
  PROVE  ConfigureInv' /\ ContextsKept
<1>1. /\ configureAt[p] = "save" /\ unsaved[p] = {}
      /\ Configure!Return(p, "ok") /\ UNCHANGED <<exists, file, target>>
  BY DEF Configure!ConfigSaved
<1>2. /\ Saving(p) /\ exists /\ Configure!TypeOK
      /\ \A q \in Configurer : q = p
  BY <1>1 DEF ConfigureInv, NoOverlap
<1>3. /\ file.contexts[target[p].context] = target[p].cluster
      /\ Configure!Complete(target[p].context, file)
      /\ file.current = target[p].context
  BY <1>1, <1>2 DEF Saving, Configure!Complete
<1>4. Configure!TypeOK'
  BY <1>1, <1>2, BlankConfig DEF Configure!Return, Configure!TypeOK
<1>5. configureAt'[p] = "idle"
  BY <1>1, <1>2 DEF Configure!Return, Configure!TypeOK
<1>6. ConfiguredOnSuccess'
  BY <1>1, <1>2, <1>3 DEF ConfiguredOnSuccess, Configure!ConfiguredOnSuccess, Configure!Complete
<1> QED BY <1>1, <1>2, <1>4, <1>5, <1>6 DEF ConfigureInv, ContextsKept

LEMMA NextConfigureInv ==
  ASSUME NoOverlap, ConfigureInv, Configure!Next \/ UNCHANGED configureVars
  PROVE  ConfigureInv' /\ ContextsKept
<1>1. ASSUME NEW p \in Configurer, Configure!ConfigureKubectlForEks(p) PROVE ConfigureInv' /\ ContextsKept
  BY <1>1, FileUnchanged, CreateKeeps, LoadKeeps, SaveKeeps, SuccessKeeps DEF Configure!ConfigureKubectlForEks
<1>2. ASSUME NEW p \in Configurer, NEW c \in Context, NEW k \in Cluster, Configure!Start(p, c, k)
      PROVE ConfigureInv' /\ ContextsKept
  BY <1>2, FileUnchanged
<1>3. ASSUME NEW p \in Configurer, Configure!Fails(p) PROVE ConfigureInv' /\ ContextsKept
  BY <1>3, FileUnchanged
<1>4. CASE UNCHANGED configureVars
  BY <1>4 DEF configureVars, ConfigureInv, ContextsKept, Configure!TypeOK, Saving, ConfiguredOnSuccess,
              Configure!ConfiguredOnSuccess, Configure!Complete
<1> QED BY <1>1, <1>2, <1>3, <1>4 DEF Configure!Next

(***************************************************************************)
(* Whatever was in the kubeconfig file, runs of `eks configure` one after  *)
(* the other, failed and killed ones included, keep the contexts of others *)
(* (config.go:49-51), ...                                                  *)
(***************************************************************************)
THEOREM ContextsOfOthersKept == NoOverlap => (Spec => OthersKept)
<1> SUFFICES ASSUME NoOverlap PROVE Spec => OthersKept
  OBVIOUS
<1>1. Init => ConfigureInv
  BY InitConfigureInv DEF Init
<1>2. ConfigureInv /\ [Next]_vars => ConfigureInv' /\ ContextsKept
  BY Composition, NextConfigureInv
<1>3. ContextsKept =>
        [\A c \in Context : file.contexts[c] # Configure!None => file'.contexts[c] = file.contexts[c]]_Configure!vars
  BY DEF ContextsKept, Configure!None
<1> QED BY <1>1, <1>2, <1>3, PTL DEF Spec, OthersKept, Configure!OthersKept

(***************************************************************************)
(* ... and each that succeeds leaves the context asked for complete and    *)
(* current (kubectl_configure.go:12-13).                                   *)
(***************************************************************************)
THEOREM SuccessMeansConfigured == NoOverlap => (Spec => []ConfiguredOnSuccess)
<1> SUFFICES ASSUME NoOverlap PROVE Spec => []ConfiguredOnSuccess
  OBVIOUS
<1>1. Init => ConfigureInv
  BY InitConfigureInv DEF Init
<1>2. ConfigureInv /\ [Next]_vars => ConfigureInv'
  BY Composition, NextConfigureInv
<1>3. ConfigureInv => ConfiguredOnSuccess
  BY DEF ConfigureInv
<1> QED BY <1>1, <1>2, <1>3, PTL DEF Spec

-----------------------------------------------------------------------------
(* The calls of kubectl: the options are those of the flags, and the       *)
(* temporary file is there between its creation and its removal only.      *)
CallsInv ==
    /\ Calls!TypeOK
    /\ \A p \in Call :
          /\ callAt[p] \in {"start", "fill", "exec", "remove"} => options \in Calls!parseKubectlOptions(flags)
          /\ callAt[p] \in {"parse", "start"} => temp[p] = "absent"
          /\ callAt[p] = "fill" => Calls!UsesTempFile
          /\ callAt[p] = "exec" /\ ~Calls!UsesTempFile => temp[p] = "absent"
    /\ TempFilesRemoved
    /\ MeantCluster

(* What flags and the options made of them have to do with each other.     *)
LEMMA ParsedOptions ==
  ASSUME NEW f \in Calls!Flags, NEW o \in Calls!parseKubectlOptions(f)
  PROVE  /\ o \in Calls!Options
         /\ f.server # "none" => f.ca /\ f.token /\ o.server = f.server /\ o.arn = "none"
         /\ f.server = "none" => o.server = "none" /\ o.arn = f.arn
         /\ f.server = "none" /\ f.arn = "none" => o.context = f.context
<1> USE DEF Calls!NoOptions, Calls!Options, Calls!Flags, Calls!None
<1>1. CASE f.server # "none"
  BY <1>1 DEF Calls!parseKubectlOptions
<1>2. CASE f.server = "none" /\ f.arn # "none"
  BY <1>2 DEF Calls!parseKubectlOptions
<1>3. CASE f.server = "none" /\ f.arn = "none"
  BY <1>3 DEF Calls!parseKubectlOptions
<1> QED BY <1>1, <1>2, <1>3

(* Where a call goes is where the flags of the command point.              *)
LEMMA GoesWhereMeant ==
  ASSUME flags \in Calls!Flags, options \in Calls!parseKubectlOptions(flags), NEW k \in Calls!Destination
  PROVE  /\ flags.server # "none" => flags.ca /\ flags.token
         /\ (flags.server # "none" \/ flags.arn # "none" \/ flags.context # "none") => k = Calls!NamedBy(flags)
<1> USE CommandsAssumption, ParsedOptions
        DEF Calls!AuthScheme, Calls!NamedBy, Calls!Destination, Calls!None
<1>1. CASE flags.server # "none"
  BY <1>1
<1>2. CASE flags.server = "none" /\ flags.arn # "none"
  BY <1>2
<1>3. CASE flags.server = "none" /\ flags.arn = "none"
  BY <1>3 DEF Calls!ClusterOf, Calls!ContextArg
<1> QED BY <1>1, <1>2, <1>3

LEMMA InitCallsInv == Calls!Init => CallsInv
<1> SUFFICES ASSUME Calls!Init PROVE CallsInv
  OBVIOUS
<1>1. Calls!NoOptions \in Calls!Options
  BY DEF Calls!NoOptions, Calls!Options
<1> QED BY <1>1 DEF Calls!Init, CallsInv, Calls!TypeOK, Calls!Step, TempFilesRemoved, Calls!TempFilesRemoved,
                    MeantCluster, Calls!MeantCluster

(* A step that reaches no cluster while the file keeps its contexts.       *)
LEMMA MeantStays ==
  ASSUME CallsInv, Configure!TypeOK, ContextsKept, UNCHANGED <<flags, reached>>
  PROVE  MeantCluster'
<1> SUFFICES ASSUME NEW p \in Call, reached[p] # "none"
             PROVE  /\ flags.server # "none" => flags.ca /\ flags.token
                    /\ (flags.server # "none" \/ flags.arn # "none" \/ flags.context # "none") =>
                           reached[p] = Calls!NamedBy(flags)'
  BY DEF MeantCluster, Calls!MeantCluster, Calls!None
<1>1. /\ flags.server # "none" => flags.ca /\ flags.token
      /\ (flags.server # "none" \/ flags.arn # "none" \/ flags.context # "none") =>
             reached[p] = Calls!NamedBy(flags)
  BY DEF CallsInv, MeantCluster, Calls!MeantCluster, Calls!None
<1>2. flags \in Calls!Flags
  BY FlagsAssumption DEF CallsInv, Calls!TypeOK
<1>3. CASE flags.server # "none" \/ flags.arn # "none"
  BY <1>1, <1>3 DEF Calls!NamedBy, Calls!None
<1>4. CASE flags.server = "none" /\ flags.arn = "none" /\ flags.context # "none"
  <2>1. flags.context \in Context /\ reached[p] = file.contexts[flags.context]
    BY <1>1, <1>2, <1>4 DEF Calls!NamedBy, Calls!Flags, Calls!None
  <2>2. file'.contexts[flags.context] = reached[p]
    BY <2>1 DEF ContextsKept
  <2> QED BY <1>1, <1>4, <2>1, <2>2 DEF Calls!NamedBy, Calls!None
<1> QED BY <1>1, <1>3, <1>4

LEMMA NextCallsInv ==
  ASSUME CallsInv, Configure!TypeOK, ContextsKept,
         (Calls!Next /\ UNCHANGED configureVars) \/ UNCHANGED callVars
  PROVE  CallsInv'
<1> USE DEF CallsInv, Calls!TypeOK, Calls!Step, TempFilesRemoved, Calls!TempFilesRemoved
<1>f. flags \in Calls!Flags
  BY FlagsAssumption
<1>1. CASE Calls!ParseOptions
  <2>1. MeantCluster'
    BY <1>1, MeantStays DEF Calls!ParseOptions
  <2>2. options' \in Calls!Options
    BY <1>1, <1>f, ParsedOptions DEF Calls!ParseOptions
  <2> QED BY <1>1, <2>1, <2>2 DEF Calls!ParseOptions
<1>2. ASSUME NEW p \in Call, Calls!RunKubectl(p) PROVE CallsInv'
  <2>1. MeantCluster'
    BY <1>2, MeantStays DEF Calls!RunKubectl
  <2> QED BY <1>2, <2>1 DEF Calls!RunKubectl, Calls!Goto, Calls!UsesTempFile
<1>3. ASSUME NEW p \in Call, Calls!CreateTempFile(p) PROVE CallsInv'
  <2>1. MeantCluster'
    BY <1>3, MeantStays DEF Calls!CreateTempFile
  <2> QED BY <1>3, <2>1 DEF Calls!CreateTempFile, Calls!Goto, Calls!UsesTempFile
<1>4. ASSUME NEW p \in Call, Calls!TempConfigFromAuthInfo(p) \/ Calls!FillFails(p) PROVE CallsInv'
  <2>1. MeantCluster'
    BY <1>4, MeantStays DEF Calls!TempConfigFromAuthInfo, Calls!FillFails
  <2> QED BY <1>4, <2>1 DEF Calls!TempConfigFromAuthInfo, Calls!FillFails, Calls!OnError, Calls!Goto, Calls!UsesTempFile
<1>5. ASSUME NEW p \in Call, Calls!ExecKubectl(p) PROVE CallsInv'
  <2>1. MeantCluster'
    <3>1. CASE UNCHANGED reached
      BY <1>5, <3>1, MeantStays DEF Calls!ExecKubectl
    <3>2. ASSUME NEW k \in Calls!Destination, reached' = [reached EXCEPT ![p] = k] PROVE MeantCluster'
      <4>1. UNCHANGED <<flags, file>> /\ options \in Calls!parseKubectlOptions(flags)
        BY <1>5 DEF Calls!ExecKubectl, Calls!configVars
      <4> QED BY <1>f, <3>2, <4>1, GoesWhereMeant DEF MeantCluster, Calls!MeantCluster, Calls!NamedBy, Calls!None
    <3> QED BY <1>5, <3>1, <3>2 DEF Calls!ExecKubectl
  <2>2. Calls!Destination \subseteq Cluster
    BY <1>f, ParsedOptions DEF Calls!Destination, Calls!ClusterOf, Calls!AuthScheme, Calls!Options, Calls!None,
       Configure!TypeOK, Configure!Config
  <2> QED BY <1>5, <2>1, <2>2 DEF Calls!ExecKubectl, Calls!Goto, Calls!UsesTempFile
<1>6. ASSUME NEW p \in Call, Calls!RemoveTempFile(p) PROVE CallsInv'
  <2>1. MeantCluster'
    BY <1>6, MeantStays DEF Calls!RemoveTempFile
  <2> QED BY <1>6, <2>1 DEF Calls!RemoveTempFile, Calls!Goto, Calls!UsesTempFile
<1>7. CASE Calls!Kill
  <2>1. MeantCluster'
    BY <1>7, MeantStays DEF Calls!Kill
  <2> QED BY <1>7, <2>1 DEF Calls!Kill, Calls!UsesTempFile
<1>8. CASE UNCHANGED callVars
  <2>1. MeantCluster'
    BY <1>8, MeantStays DEF callVars
  <2> QED BY <1>8, <2>1 DEF callVars, Calls!UsesTempFile
<1> QED BY <1>1, <1>2, <1>3, <1>4, <1>5, <1>6, <1>7, <1>8 DEF Calls!Next

(* The calls and the `eks configure` beside them.                          *)
LEMMA NextBoth ==
  ASSUME NoOverlap, ConfigureInv, CallsInv, [Next]_vars
  PROVE  ConfigureInv' /\ CallsInv'
<1>1. ConfigureInv' /\ ContextsKept
  BY Composition, NextConfigureInv
<1>2. CallsInv'
  BY <1>1, Composition, NextCallsInv DEF ConfigureInv
<1> QED BY <1>1, <1>2

(***************************************************************************)
(* All calls of kubectl of one command go to the cluster its flags name,   *)
(* however many there are, and whatever `eks configure` does to the file   *)
(* meanwhile (command.go:9, common.go:280-313).                            *)
(***************************************************************************)
THEOREM CallsGoWhereMeant == NoOverlap => (Spec => []MeantCluster)
<1> SUFFICES ASSUME NoOverlap PROVE Spec => []MeantCluster
  OBVIOUS
<1>1. Init => ConfigureInv /\ CallsInv
  BY InitConfigureInv, InitCallsInv DEF Init
<1>2. (ConfigureInv /\ CallsInv) /\ [Next]_vars => (ConfigureInv /\ CallsInv)'
  BY NextBoth
<1>3. ConfigureInv /\ CallsInv => MeantCluster
  BY DEF CallsInv
<1> QED BY <1>1, <1>2, <1>3, PTL DEF Spec

(***************************************************************************)
(* No call leaves a file with a token behind when it returns, unless the   *)
(* file could not be removed (command.go:25-26).                           *)
(***************************************************************************)
THEOREM TokensRemoved == NoOverlap => (Spec => []TempFilesRemoved)
<1> SUFFICES ASSUME NoOverlap PROVE Spec => []TempFilesRemoved
  OBVIOUS
<1>1. Init => ConfigureInv /\ CallsInv
  BY InitConfigureInv, InitCallsInv DEF Init
<1>2. (ConfigureInv /\ CallsInv) /\ [Next]_vars => (ConfigureInv /\ CallsInv)'
  BY NextBoth
<1>3. ConfigureInv /\ CallsInv => TempFilesRemoved
  BY DEF CallsInv
<1> QED BY <1>1, <1>2, <1>3, PTL DEF Spec

-----------------------------------------------------------------------------
(* The default retries of `eks deploy`: every poll sleeps once.            *)
Total == Retries!getDefaultMaxRetries(capacity, sleep)

RetriesInv ==
    /\ Retries!TypeOK
    /\ retriesResult \in {"waiting", "timeout"} =>
           /\ Retries!Seconds(sleep) # 0
           /\ retries <= Total
           /\ waited = (Total - retries) * sleep
    /\ retriesResult = "none" => waited = 0
    /\ retriesResult = "timeout" => retries = 0
    /\ WaitsDocumentedTime

LEMMA DivBounds ==
  ASSUME NEW a \in Nat, NEW b \in Nat \ {0}
  PROVE  /\ a \div b \in Nat
         /\ (a \div b) * b <= a
         /\ a < (a \div b) * b + b
  BY Z3

(* n sleeps of s seconds and f milliseconds, when n is b \div s and at     *)
(* least one: they fill half of b.                                         *)
LEMMA SleepsFillHalf ==
  ASSUME NEW b \in Nat, NEW n \in Nat, NEW s \in Nat, NEW f \in Nat,
         b < n * s + s, s <= b
  PROVE  2 * (n * (1000 * s + f)) >= b * 1000
<1>1. n * (1000 * s + f) = 1000 * (n * s) + n * f
  BY SMT
<1>2. n * f \in Nat /\ n * s \in Nat
  BY SMT
<1>3. n # 0
  BY SMT
<1>4. s <= n * s
  BY <1>3, Z3
<1> QED BY <1>1, <1>2, <1>4

LEMMA Constants ==
  ASSUME Retries!TypeOK
  PROVE  /\ capacity \in Nat /\ sleep \in Nat \ {0} /\ retries \in Nat /\ waited \in Nat
         /\ Retries!Seconds(sleep) \in Nat
         /\ Retries!Waves(capacity) * 600 \in Nat
         /\ sleep % 1000 = sleep - 1000 * Retries!Seconds(sleep)
         /\ sleep % 1000 \in Nat
<1>1. capacity \in Nat /\ sleep \in Nat \ {0} /\ retries \in Nat /\ waited \in Nat
  BY CommandsAssumption DEF Retries!TypeOK
<1>2. Retries!Seconds(sleep) \in Nat /\ sleep % 1000 \in Nat /\ sleep % 1000 = sleep - 1000 * Retries!Seconds(sleep)
  BY <1>1 DEF Retries!Seconds
<1>3. Retries!Waves(capacity) \in Nat
  <2>1. capacity + 9 \in Nat
    BY <1>1
  <2>2. (capacity + 9) \div 10 \in Nat
    BY <2>1, DivBounds
  <2> QED BY <1>1, <2>2 DEF Retries!Waves, Retries!WaveSize
<1> QED BY <1>1, <1>2, <1>3

LEMMA TotalNat ==
  ASSUME Retries!TypeOK, Retries!Seconds(sleep) # 0
  PROVE  /\ Total \in Nat
         /\ Retries!Waves(capacity) * 600 < Total * Retries!Seconds(sleep) + Retries!Seconds(sleep)
  BY Constants, DivBounds DEF Total, Retries!getDefaultMaxRetries, Retries!WaveSeconds

LEMMA InitRetriesInv == Retries!Init => RetriesInv
  BY DEF Retries!Init, RetriesInv, Retries!TypeOK, WaitsDocumentedTime, Retries!WaitsDocumentedTime

LEMMA NextRetriesInv == RetriesInv /\ (Retries!Next \/ UNCHANGED retriesVars) => RetriesInv'
<1> SUFFICES ASSUME RetriesInv, Retries!Next \/ UNCHANGED retriesVars PROVE RetriesInv'
  OBVIOUS
<1>t. Retries!TypeOK
  BY DEF RetriesInv
<1>1. CASE Retries!EnsureMaxRetries
  <2>1. /\ retriesResult = "none" /\ UNCHANGED <<capacity, sleep, waited>> 
        /\ \/ retriesResult' = "waiting" /\ retries' = Total /\ Retries!Seconds(sleep) # 0
           \/ retriesResult' = "panic" /\ retries' = retries
    BY <1>1 DEF Retries!EnsureMaxRetries, Total
  <2>2. waited = 0
    BY <2>1 DEF RetriesInv
  <2>3. retries' \in Nat
    BY <1>t, <2>1, TotalNat, Constants
  <2>4. (Total - Total) * sleep = 0 \/ Retries!Seconds(sleep) = 0
    BY <1>t, TotalNat, Constants
  <2> QED BY <1>t, <2>1, <2>2, <2>3, <2>4, TotalNat 
      DEF RetriesInv, Retries!TypeOK, WaitsDocumentedTime, Retries!WaitsDocumentedTime, Total
<1>2. CASE Retries!Poll
  <2>1. CASE retries > 0
    <3>1. /\ retriesResult = "waiting" /\ retriesResult' = "waiting" /\ retries' = retries - 1
          /\ waited' = waited + sleep /\ UNCHANGED <<capacity, sleep>>
      BY <1>2, <2>1 DEF Retries!Poll
    <3>2. retries' \in Nat /\ waited' \in Nat
      BY <1>t, <2>1, <3>1, Constants
    <3>3. Total \in Nat /\ waited = (Total - retries) * sleep /\ retries <= Total /\ Retries!Seconds(sleep) # 0
      BY <1>t, <3>1, TotalNat DEF RetriesInv
    <3>4. waited' = (Total - retries') * sleep
      BY <1>t, <3>1, <3>3, Constants
    <3>5. Total' = Total
      BY <3>1 DEF Total
    <3> QED BY <1>t, <3>1, <3>2, <3>3, <3>4, <3>5, Constants
        DEF RetriesInv, Retries!TypeOK, WaitsDocumentedTime, Retries!WaitsDocumentedTime
  <2>2. CASE ~(retries > 0)
    <3>1. /\ retriesResult = "waiting" /\ retriesResult' = "timeout" /\ retries = 0
          /\ UNCHANGED <<retries, waited, capacity, sleep>>
      BY <1>2, <2>2 DEF Retries!Poll
    <3>2. Total \in Nat /\ waited = (Total - retries) * sleep /\ Retries!Seconds(sleep) # 0
      BY <1>t, <3>1, TotalNat DEF RetriesInv
    <3>3. waited = Total * sleep
      BY <1>t, <3>1, <3>2, Constants
    <3> DEFINE b == Retries!Waves(capacity) * 600
               s == Retries!Seconds(sleep)
               f == sleep % 1000
    <3>4. s <= b => 2 * (Total * (1000 * s + f)) >= b * 1000
      <4>1. b \in Nat /\ s \in Nat /\ f \in Nat /\ b < Total * s + s
        BY <1>t, <3>2, TotalNat, Constants
      <4> HIDE DEF b, s, f
      <4> QED BY <3>2, <4>1, SleepsFillHalf
    <3>5. sleep \in Nat /\ s \in Nat /\ f \in Nat /\ f = sleep - 1000 * s
      BY <1>t, Constants
    <3>6. 1000 * s + f = sleep
      <4> HIDE DEF s, f
      <4> QED BY <3>5
    <3>7. 2 * waited >= b * 1000 \/ sleep > b * 500
      <4>1. b \in Nat
        BY <1>t, Constants
      <4> HIDE DEF b, s, f
      <4>2. s > b => sleep > b * 500
        BY <3>5, <4>1
      <4> QED BY <3>3, <3>4, <3>5, <3>6, <4>1, <4>2
    <3>8. b = 2 * (Retries!Waves(capacity) * 300)
      BY Constants, <1>t DEF Retries!Waves, Retries!WaveSize
    <3>9. WaitsDocumentedTime'
      <4>1. b \in Nat /\ Retries!Waves(capacity) * 300 * 1000 = b * 500
        BY <3>8, <1>t, Constants DEF Retries!Waves, Retries!WaveSize
      <4>2. waited \in Nat
        BY <1>t, Constants
      <4> HIDE DEF b
      <4>3. waited >= b * 500 \/ sleep > b * 500
        BY <3>7, <4>1, <4>2
      <4> QED BY <3>1, <4>1, <4>3 DEF WaitsDocumentedTime, Retries!WaitsDocumentedTime, Retries!DocumentedTime, Retries!DocumentedWaveSeconds
    <3> QED BY <1>t, <3>1, <3>2, <3>9 DEF RetriesInv, Retries!TypeOK, Total
  <2> QED BY <2>1, <2>2
<1>3. CASE UNCHANGED retriesVars
  BY <1>3 DEF retriesVars, RetriesInv, Retries!TypeOK, WaitsDocumentedTime, Retries!WaitsDocumentedTime, Retries!DocumentedTime, Retries!DocumentedWaveSeconds, Total
<1> QED BY <1>1, <1>2, <1>3 DEF Retries!Next

(***************************************************************************)
(* For a group of any size and any duration of a sleep: a default wait of  *)
(* `eks deploy` that times out has lasted the documented five minutes per  *)
(* wave, unless a single sleep is longer than that (deploy.go:116-118).    *)
(***************************************************************************)
THEOREM DocumentedTimeWaited == Spec => []WaitsDocumentedTime
<1>1. Init => RetriesInv
  BY InitRetriesInv DEF Init
<1>2. RetriesInv /\ [Next]_vars => RetriesInv'
  BY Composition, NextRetriesInv
<1>3. RetriesInv => WaitsDocumentedTime
  BY DEF RetriesInv
<1> QED BY <1>1, <1>2, <1>3, PTL DEF Spec
-----------------------------------------------------------------------------
(* `tls gen`: what a run has in its workspace, and what Secrets hold.  A   *)
(* Secret with a pair of a run can sign: its annotations name the pair and *)
(* the algorithm of its key.                                               *)
CanSign(secret) ==
    Tls!Made(secret) =>
        /\ Tls!HasPair(secret)
        /\ Tls!KnownAlgorithm(secret)
        /\ Tls!CAPair(secret).algorithm = secret.annotations["algorithm"]

Chained(secret) ==
    "tls" \in DOMAIN secret.pairs =>
        \E ca \in secret.trust : ca.key = secret.pairs["tls"].crt.signer

TlsInv ==
    /\ request \in [Run -> Tls!Request]
    /\ step \in [Run -> {"start", "sign", "store", "ok", "error", "panicked"}]
    /\ \A n \in DOMAIN secrets : CanSign(secrets[n]) /\ Chained(secrets[n])
    /\ \A p \in DOMAIN loaded : CanSign(loaded[p])
    /\ \A p \in Run :
          /\ step[p] = "sign" => p \in DOMAIN loaded
          /\ step[p] = "store" =>
                /\ p \in DOMAIN pair
                /\ pair[p].algorithm = request[p].algorithm
                /\ ~Tls!GenCA(p) => p \in DOMAIN loaded /\ pair[p].crt.signer = Tls!CAPair(loaded[p]).crt.key

(* The Secret a run stores names its pair and its algorithm, whatever      *)
(* annotations were asked for, and has the certificate of its signer.      *)
LEMMA StoredSecret ==
  ASSUME TlsInv, NEW p \in Run, step[p] = "store"
  PROVE  CanSign(Tls!NewSecret(p)) /\ Chained(Tls!NewSecret(p))
<1> DEFINE s == Tls!NewSecret(p)
           b == Tls!FilenameBase(p)
<1>1. /\ s.annotations = Tls!Annotations(p)
      /\ s.pairs = Tls!Put(Tls!Empty, b, pair[p])
      /\ s.trust = Tls!CACertificate(p)
  BY DEF Tls!NewSecret
<1>2. DOMAIN s.pairs = {b} /\ s.pairs[b] = pair[p]
  BY <1>1 DEF Tls!Put, Tls!Empty
<1>3. /\ "base" \in DOMAIN s.annotations /\ s.annotations["base"] = b
      /\ "algorithm" \in DOMAIN s.annotations /\ s.annotations["algorithm"] = request[p].algorithm
  <2> DEFINE a == Tls!Put(request[p].annotations, "base", b)
  <2>1. "base" \in DOMAIN a /\ a["base"] = b
    BY DEF Tls!Put
  <2>2. s.annotations = Tls!Put(a, "algorithm", request[p].algorithm)
    BY <1>1 DEF Tls!Annotations
  <2> HIDE DEF a
  <2>3. "base" # "algorithm"
    OBVIOUS
  <2> QED BY <2>1, <2>2, <2>3 DEF Tls!Put
<1>4. request[p].algorithm \in Tls!Algorithm /\ pair[p].algorithm = request[p].algorithm
  BY DEF TlsInv, Tls!Request
<1> HIDE DEF s
<1>5. CanSign(s)
  BY <1>2, <1>3, <1>4 DEF CanSign, Tls!HasPair, Tls!KnownAlgorithm, Tls!CAPair
<1>6. Chained(s)
  <2>1. CASE Tls!GenCA(p)
    BY <1>2, <2>1 DEF Chained, Tls!FilenameBase
  <2>2. CASE ~Tls!GenCA(p)
    <3>1. s.trust = {Tls!CAPair(loaded[p]).crt} /\ b = "tls"
      BY <1>1, <2>2 DEF Tls!CACertificate, Tls!FilenameBase
    <3>2. pair[p].crt.signer = Tls!CAPair(loaded[p]).crt.key
      BY <2>2 DEF TlsInv
    <3> QED BY <1>2, <3>1, <3>2 DEF Chained
  <2> QED BY <2>1, <2>2
<1> QED BY <1>5, <1>6 DEF s

(* A Secret of another origin has a pair that no run made.                 *)
LEMMA ImportedSecret ==
  ASSUME NEW s \in Tls!Imported
  PROVE  CanSign(s) /\ Chained(s)
<1>1. s.pairs = Tls!Put(Tls!Empty, "ca", Tls!Pair(Tls!External, Tls!External, "RSA"))
  BY DEF Tls!Imported
<1>2. DOMAIN s.pairs = {"ca"} /\ s.pairs["ca"] = Tls!Pair(Tls!External, Tls!External, "RSA")
  BY <1>1 DEF Tls!Put, Tls!Empty
<1>3. s.pairs["ca"].crt.key = "external"
  BY <1>2 DEF Tls!Pair, Tls!External
<1>4. ~Tls!Made(s)
  BY <1>2, <1>3, CommandsAssumption DEF Tls!Made
<1> QED BY <1>2, <1>4 DEF CanSign, Chained

(* A run that ends leaves the workspaces of others as they were.           *)
LEMMA RunEnds ==
  ASSUME TlsInv, NEW p \in Run, NEW s \in {"ok", "error", "panicked"}, Tls!End(p, s), UNCHANGED request,
         \A n \in DOMAIN secrets' : CanSign(secrets'[n]) /\ Chained(secrets'[n])
  PROVE  TlsInv'
<1>1. /\ step'[p] = s /\ \A q \in Run : q # p => step'[q] = step[q]
      /\ step' \in [Run -> {"start", "sign", "store", "ok", "error", "panicked"}]
  BY DEF Tls!End, Tls!Goto, TlsInv
<1>2. /\ DOMAIN loaded' = DOMAIN loaded \ {p} /\ \A q \in DOMAIN loaded : q # p => loaded'[q] = loaded[q]
      /\ DOMAIN pair' = DOMAIN pair \ {p} /\ \A q \in DOMAIN pair : q # p => pair'[q] = pair[q]
  BY DEF Tls!Without, Tls!Restrict, Tls!End
<1>3. \A q \in DOMAIN loaded' : CanSign(loaded'[q])
  BY <1>2 DEF TlsInv
<1> QED BY <1>1, <1>2, <1>3 DEF TlsInv, Tls!GenCA, Tls!CAPair

LEMMA InitTlsInv == Tls!Init => TlsInv
<1> SUFFICES ASSUME Tls!Init PROVE TlsInv
  OBVIOUS
<1>1. DOMAIN secrets = {} /\ DOMAIN loaded = {}
  BY DEF Tls!Empty, Tls!Init
<1> QED BY <1>1 DEF Tls!Init, TlsInv

LEMMA NextTlsInv == TlsInv /\ (Tls!Next \/ UNCHANGED tlsVars) => TlsInv'
<1> SUFFICES ASSUME TlsInv, Tls!Next \/ UNCHANGED tlsVars PROVE TlsInv'
  OBVIOUS
<1>1. ASSUME NEW p \in Run, Tls!generateCAKeyPair(p) PROVE TlsInv'
  <2>1. /\ UNCHANGED <<secrets, request, loaded>> /\ Tls!GenCA(p)
        /\ pair' = Tls!Put(pair, p, Tls!Pair(p, p, request[p].algorithm))
        /\ step' = [step EXCEPT ![p] = "store"]
    BY <1>1 DEF Tls!generateCAKeyPair, Tls!Goto
  <2>2. /\ p \in DOMAIN pair' /\ pair'[p].algorithm = request[p].algorithm
        /\ \A q \in DOMAIN pair : q \in DOMAIN pair' /\ (q # p => pair'[q] = pair[q])
    BY <2>1 DEF Tls!Put, Tls!Pair
  <2> QED BY <2>1, <2>2 DEF TlsInv, Tls!GenCA, Tls!CAPair
<1>2. ASSUME NEW p \in Run, Tls!loadCAKeyPair(p) PROVE TlsInv'
  <2>1. /\ UNCHANGED <<secrets, request, pair>> /\ request[p].ca \in DOMAIN secrets /\ step[p] = "start"
        /\ loaded' = Tls!Put(loaded, p, secrets[request[p].ca])
        /\ step' = [step EXCEPT ![p] = "sign"]
    BY <1>2 DEF Tls!loadCAKeyPair, Tls!Goto
  <2>2. /\ DOMAIN loaded' = DOMAIN loaded \cup {p} /\ loaded'[p] = secrets[request[p].ca]
        /\ \A q \in DOMAIN loaded : q # p => loaded'[q] = loaded[q]
    BY <2>1 DEF Tls!Put
  <2>3. \A q \in DOMAIN loaded' : CanSign(loaded'[q])
    BY <2>1, <2>2 DEF TlsInv
  <2> QED BY <2>1, <2>2, <2>3 DEF TlsInv, Tls!GenCA, Tls!CAPair
<1>3. ASSUME NEW p \in Run, Tls!generateSignedTLSKeyPair(p) PROVE TlsInv'
  <2>1. UNCHANGED <<secrets, request>> /\ step[p] = "sign"
    BY <1>3 DEF Tls!generateSignedTLSKeyPair
  <2>2. CASE Tls!End(p, "panicked") \/ Tls!End(p, "error")
    BY <2>1, <2>2, RunEnds DEF TlsInv
  <2>3. CASE /\ pair' = Tls!Put(pair, p, Tls!Pair(p, Tls!CAPair(loaded[p]).crt.key, request[p].algorithm))
             /\ Tls!Goto(p, "store")
             /\ UNCHANGED loaded
    <3>1. /\ p \in DOMAIN pair' /\ pair'[p].algorithm = request[p].algorithm
          /\ pair'[p].crt.signer = Tls!CAPair(loaded[p]).crt.key
          /\ \A q \in DOMAIN pair : q \in DOMAIN pair' /\ (q # p => pair'[q] = pair[q])
      BY <2>3 DEF Tls!Put, Tls!Pair
    <3>2. step' = [step EXCEPT ![p] = "store"]
      BY <2>3 DEF Tls!Goto
    <3> QED BY <2>1, <2>3, <3>1, <3>2 DEF TlsInv, Tls!GenCA, Tls!CAPair
  <2> QED BY <1>3, <2>2, <2>3 DEF Tls!generateSignedTLSKeyPair
<1>4. ASSUME NEW p \in Run, Tls!StoreCertificateKeyPairAsKubernetesSecret(p) PROVE TlsInv'
  <2>1. /\ step[p] = "store" /\ UNCHANGED request
        /\ secrets' = Tls!Put(secrets, request[p].name, Tls!NewSecret(p))
        /\ Tls!End(p, "ok") \/ Tls!End(p, "error")
    BY <1>4 DEF Tls!StoreCertificateKeyPairAsKubernetesSecret
  <2>2. \A n \in DOMAIN secrets' : secrets'[n] = Tls!NewSecret(p) \/ (n \in DOMAIN secrets /\ secrets'[n] = secrets[n])
    BY <2>1 DEF Tls!Put
  <2>3. \A n \in DOMAIN secrets' : CanSign(secrets'[n]) /\ Chained(secrets'[n])
    BY <2>1, <2>2, StoredSecret DEF TlsInv
  <2> QED BY <2>1, <2>3, RunEnds
<1>5. ASSUME NEW p \in Run, Tls!Fails(p) PROVE TlsInv'
  BY <1>5, RunEnds DEF Tls!Fails, TlsInv
<1>6. ASSUME UNCHANGED <<request, step, loaded, pair>>,
             \A n \in DOMAIN secrets' : CanSign(secrets'[n]) /\ Chained(secrets'[n])
      PROVE  TlsInv'
  BY <1>6 DEF TlsInv, Tls!GenCA, Tls!CAPair
<1>7. ASSUME NEW n \in Name, Tls!ImportSecret(n) PROVE TlsInv'
  <2>1. PICK s \in Tls!Imported : secrets' = Tls!Put(secrets, n, s)
    BY <1>7 DEF Tls!ImportSecret
  <2>2. \A m \in DOMAIN secrets' : secrets'[m] = s \/ (m \in DOMAIN secrets /\ secrets'[m] = secrets[m])
    BY <2>1 DEF Tls!Put
  <2>3. \A m \in DOMAIN secrets' : CanSign(secrets'[m]) /\ Chained(secrets'[m])
    BY <2>2, ImportedSecret DEF TlsInv
  <2> QED BY <1>6, <1>7, <2>3 DEF Tls!ImportSecret
<1>8. ASSUME NEW n \in Name, Tls!DeleteSecret(n) PROVE TlsInv'
  <2>1. \A m \in DOMAIN secrets' : m \in DOMAIN secrets /\ secrets'[m] = secrets[m]
    BY <1>8 DEF Tls!Without, Tls!Restrict, Tls!DeleteSecret
  <2>2. \A m \in DOMAIN secrets' : CanSign(secrets'[m]) /\ Chained(secrets'[m])
    BY <2>1 DEF TlsInv
  <2> QED BY <1>6, <1>8, <2>2 DEF Tls!DeleteSecret
<1>9. CASE UNCHANGED tlsVars
  BY <1>6, <1>9 DEF tlsVars, TlsInv
<1> QED BY <1>1, <1>2, <1>3, <1>4, <1>5, <1>7, <1>8, <1>9 DEF Tls!Next, Tls!GenerateAndStoreAsK8SSecret

(***************************************************************************)
(* However many runs of `tls gen` overlap, and whoever replaces the Secret *)
(* of the CA meanwhile, a signed pair verifies against the ca.crt that is  *)
(* stored with it (gencmd_test.go:83).                                     *)
(***************************************************************************)
THEOREM SignedPairsVerify == Spec => []ChainVerifies
<1>1. Init => TlsInv
  BY InitTlsInv DEF Init
<1>2. TlsInv /\ [Next]_vars => TlsInv'
  BY Composition, NextTlsInv
<1>3. TlsInv => ChainVerifies
  BY DEF TlsInv, Chained, ChainVerifies, Tls!ChainVerifies
<1> QED BY <1>1, <1>2, <1>3, PTL DEF Spec

(***************************************************************************)
(* A run that panics while it signs was given a CA of another origin: what *)
(* `tls gen` stored names a pair it has, by the algorithm of its key       *)
(* (gencmd.go:79-81, 140-150, 167-169).                                    *)
(***************************************************************************)
THEOREM StoredPairsSign == Spec => OwnSecretsSign
<1> DEFINE Signs == \A p \in Run : step[p] = "sign" /\ step'[p] = "panicked" => ~Tls!Made(loaded[p])
<1>1. Init => TlsInv
  BY InitTlsInv DEF Init
<1>2. TlsInv /\ [Next]_vars => TlsInv'
  BY Composition, NextTlsInv
<1>3. TlsInv /\ [Next]_vars => [Signs]_Tls!vars
  <2> SUFFICES ASSUME TlsInv, [Next]_vars, NEW p \in Run, step[p] = "sign", step'[p] = "panicked"
               PROVE  ~Tls!Made(loaded[p])
    BY DEF Tls!vars
  <2>1. Tls!Next
    BY Composition DEF tlsVars
  <2>2. PICK q \in Run : Tls!GenerateAndStoreAsK8SSecret(q)
    BY <2>1 DEF Tls!Next, Tls!ImportSecret, Tls!DeleteSecret
  <2>3. CASE Tls!generateSignedTLSKeyPair(q) /\ q = p /\ Tls!Panics(loaded[p])
    BY <2>3 DEF TlsInv, CanSign, Tls!Panics
  <2>4. CASE ~(Tls!generateSignedTLSKeyPair(q) /\ q = p /\ Tls!Panics(loaded[p]))
    <3>1. step' = [step EXCEPT ![q] = step'[q]] /\ step \in [Run -> {"start", "sign", "store", "ok", "error", "panicked"}]
      BY <2>2 DEF TlsInv, Tls!GenerateAndStoreAsK8SSecret, Tls!generateCAKeyPair, Tls!loadCAKeyPair,
                  Tls!generateSignedTLSKeyPair, Tls!StoreCertificateKeyPairAsKubernetesSecret, Tls!Fails,
                  Tls!End, Tls!Goto
    <3>2. q = p
      BY <3>1
    <3> QED BY <2>2, <2>4, <3>2 DEF TlsInv, Tls!GenerateAndStoreAsK8SSecret, Tls!generateCAKeyPair, Tls!loadCAKeyPair,
                  Tls!generateSignedTLSKeyPair, Tls!StoreCertificateKeyPairAsKubernetesSecret, Tls!Fails,
                  Tls!End, Tls!Goto
  <2> QED BY <2>3, <2>4
<1> QED BY <1>1, <1>2, <1>3, PTL DEF Spec, OwnSecretsSign, Tls!OwnSecretsSign
=============================================================================
