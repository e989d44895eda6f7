------------------------------- MODULE Commands -------------------------------
(***************************************************************************)
(* The small commands of `kubergrunt` (src/cmd) side by side: a process is *)
(* started for one of them, which it stays.  `schedule-coredns` and        *)
(* `tls gen` may run several times at once, and `configure` beside the     *)
(* kubectl calls of others.  Of `deploy` and `sync-core-components` only   *)
(* their waits for the API and the search for an eksbuild are here; the    *)
(* rest is modules Deploy and SyncComponents.                              *)
(***************************************************************************)
EXTENDS EksBuildSearch

CONSTANTS
    MaxRetries, Fault,             \* of verify
    MaxCapacity, Sleep,            \* of deploy
    Scheduler, Custom,             \* of schedule-coredns
    Configurer, Context, Cluster,  \* of configure
    Call, Given,                   \* of the calls of kubectl
    Lifetime,                      \* of the waits for the API
    Run, Name                      \* of tls gen

ASSUME CommandsAssumption ==
    /\ MaxRetries \in Nat
    /\ Fault \subseteq {"api", "update"}
    /\ MaxCapacity \in Nat
    /\ Sleep \subseteq Nat \ {0}
    /\ {"compute-type", "restartedAt"} \cap Custom = {}
    /\ "none" \notin Cluster
    /\ "external" \notin Run
    /\ Lifetime \in Nat

VARIABLES
    command,
    status, serving, wait, verifyAt, verifyI, queries, verifyResult,
    capacity, sleep, retries, waited, retriesResult,
    annotations, scheduleAt, compute, replaced, touched, scheduleResult,
    exists, file, configureAt, target, config, unsaved, configureResult,
    flags, options, callAt, temp, kept, reached,
    loop, scheme, there, age, polls, refused, waitAt, outcome,
    secrets, request, step, loaded, pair

verifyVars == <<status, serving, wait, verifyAt, verifyI, queries, verifyResult>>
retriesVars == <<capacity, sleep, retries, waited, retriesResult>>
scheduleVars == <<annotations, scheduleAt, compute, replaced, touched, scheduleResult>>
configureVars == <<exists, file, configureAt, target, config, unsaved, configureResult>>
callVars == <<flags, options, callAt, temp, kept, reached>>
apiVars == <<loop, scheme, there, age, polls, refused, waitAt, outcome>>
tlsVars == <<secrets, request, step, loaded, pair>>
vars == <<command, searchVars, verifyVars, retriesVars, scheduleVars, configureVars, callVars, apiVars, tlsVars>>

Verify == INSTANCE ClusterVerify WITH at <- verifyAt, i <- verifyI, result <- verifyResult
Retries == INSTANCE DefaultRetries WITH result <- retriesResult
Schedule == INSTANCE CorednsSchedule WITH
    Process <- Scheduler, at <- scheduleAt, result <- scheduleResult
Configure == INSTANCE KubeConfig WITH
    Process <- Configurer, at <- configureAt, result <- configureResult
Calls == INSTANCE KubectlCalls
Waits == INSTANCE ApiWaits
Tls == INSTANCE TlsGen

ASSUME FlagsAssumption == Given \subseteq Calls!Flags

Command == {"verify", "deploy", "schedule-coredns", "configure", "kubectl", "wait", "search", "tls gen"}

TypeOK ==
    /\ command \in Command
    /\ SearchTypeOK
    /\ Verify!TypeOK
    /\ Retries!TypeOK
    /\ Schedule!TypeOK
    /\ Configure!TypeOK
    /\ Calls!TypeOK
    /\ Waits!TypeOK
    /\ Tls!TypeOK

(* A command that is not started stays in one of its initial states. *)
Init ==
    /\ command \in Command
    /\ SearchInit
    /\ command = "search" \/ tags = {}
    /\ Verify!Init
    /\ command = "verify" \/ (status = "none" /\ ~wait)
    /\ Retries!Init
    /\ command = "deploy" \/ (capacity = 0 /\ sleep = CHOOSE ms \in Sleep : TRUE)
    /\ Schedule!Init
    /\ \/ command = "schedule-coredns"
       \/ annotations = {} /\ \A p \in Scheduler : compute[p] = "ec2"
    /\ Configure!Init
    /\ \/ command = "configure"
       \/ /\ target = CHOOSE t \in [Configurer -> [context : Context, cluster : Cluster]] : TRUE
          /\ command = "kubectl" \/ ~exists
    /\ Calls!Init
    /\ command = "kubectl" \/ flags = CHOOSE f \in Given : TRUE
    /\ Waits!Init
    /\ command = "wait" \/ (loop = "nodes" /\ scheme = "ConfigBased")
    /\ Tls!Init
    /\ command = "tls gen" \/ request \in {[p \in Run |-> CHOOSE r \in Tls!Request : TRUE]}

VerifyStep == Verify!Next /\ UNCHANGED <<searchVars, retriesVars, scheduleVars, configureVars, callVars, apiVars, tlsVars>>
DeployStep == Retries!Next /\ UNCHANGED <<searchVars, verifyVars, scheduleVars, configureVars, callVars, apiVars, tlsVars>>
ScheduleStep == Schedule!Next /\ UNCHANGED <<searchVars, verifyVars, retriesVars, configureVars, callVars, apiVars, tlsVars>>
ConfigureStep == Configure!Next /\ UNCHANGED <<searchVars, verifyVars, retriesVars, scheduleVars, callVars, apiVars, tlsVars>>
WaitStep == Waits!Next /\ UNCHANGED <<searchVars, verifyVars, retriesVars, scheduleVars, configureVars, callVars, tlsVars>>
SearchStep == SearchNext /\ UNCHANGED <<verifyVars, retriesVars, scheduleVars, configureVars, callVars, apiVars, tlsVars>>
TlsStep == Tls!Next /\ UNCHANGED <<searchVars, verifyVars, retriesVars, scheduleVars, configureVars, callVars, apiVars>>

(* A run of `eks configure` begins and goes on. *)
ConfigureBeside ==
    \E p \in Configurer :
        \/ configureResult[p] = "none" /\ \E c \in Context, k \in Cluster : Configure!Start(p, c, k)
        \/ Configure!ConfigureKubectlForEks(p)

KubectlStep ==
    /\ \/ Calls!Next /\ UNCHANGED configureVars
       \/ ConfigureBeside /\ UNCHANGED callVars
    /\ UNCHANGED <<searchVars, verifyVars, retriesVars, scheduleVars, apiVars, tlsVars>>

Next ==
    /\ \/ command = "verify" /\ VerifyStep
       \/ command = "deploy" /\ DeployStep
       \/ command = "schedule-coredns" /\ ScheduleStep
       \/ command = "configure" /\ ConfigureStep
       \/ command = "kubectl" /\ KubectlStep
       \/ command = "wait" /\ WaitStep
       \/ command = "search" /\ SearchStep
       \/ command = "tls gen" /\ TlsStep
    /\ UNCHANGED command

Spec == Init /\ [][Next]_vars

-----------------------------------------------------------------------------
(* What the commands promise, as their modules state it: "ready" means an  *)
(* active cluster with an API server that answers (README.md:90-93), ...   *)
VerifiedOnSuccess == Verify!VerifiedOnSuccess

(* ... asked for at least as often as was wanted, errors included          *)
(* (README.md:97-98, cluster.go:81).                                       *)
PatientOnlyWhenWaiting == Verify!PatientOnlyWhenWaiting

(* The default wait of deploy is at least as long as documented            *)
(* (deploy.go:116-118).                                                    *)
WaitsDocumentedTime == Retries!WaitsDocumentedTime

(* CoreDNS is annotated as asked for and its Pods are replaced             *)
(* (coredns.go:59).                                                        *)
ScheduledOnSuccess == Schedule!ScheduledOnSuccess

(* Contexts of others are neither removed nor redirected (config.go:49).   *)
OthersKept == Configure!OthersKept

(* The context asked for is there, complete and current                    *)
(* (kubectl_configure.go:12-13).                                           *)
ConfiguredOnSuccess == Configure!ConfiguredOnSuccess

(* Calls of kubectl go to the cluster the flags name, whatever             *)
(* `eks configure` does to the file (command.go:9), ...                    *)
MeantCluster == Calls!MeantCluster

(* ... and leave no token behind when they return (command.go:25-26).      *)
TempFilesRemoved == Calls!TempFilesRemoved

(* An expired token does not cut off a wait for an Ingress                 *)
(* (ingress.go:61).                                                        *)
WaitsOutlastTokens == Waits!WaitsOutlastTokens

(* A signed certificate verifies against the ca.crt stored with it         *)
(* (gencmd_test.go:83).                                                    *)
ChainVerifies == Tls!ChainVerifies

(* What `tls gen` stored can be loaded to sign (gencmd.go:167-169).        *)
OwnSecretsSign == Tls!OwnSecretsSign
=============================================================================
