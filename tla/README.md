# A TLA+ development for kubergrunt

kubergrunt is a command line tool for operators of EKS clusters. Each invocation is one short-lived process, but what it
does is long, has many steps, talks to AWS and Kubernetes while both change, and is interrupted and run again. This
directory holds TLA+ modules of those commands, the configurations that check them with TLC, and proofs checked by TLAPS.

All line numbers below refer to files under `src/`; `README.md:n` is the README of kubergrunt itself.

## 1. Inventory

| Component | State it keeps | Operations | Talks to | What is hard | What makes it correct |
|---|---|---|---|---|---|
| Roll out, `eks deploy` (`eks/deploy.go`, `deploy_state.go`, `asg.go`, `instances.go`, `errors.go`) | the `DeployState` in memory, the recovery file | nine persisted stages, resume, delete the file | Auto Scaling, EC2, kubectl, load balancer wait | a kill, a lost reply or a disk error between any two steps; resumption from the file; reads that are stale when used | a flag in the file is true of the cluster; old workers leave one barrier at a time; the group never has less capacity than before; a rerun completes |
| Workers: one Auto Scaling Group, its instances, their nodes (outside the repository) | capacity, members, readiness, cordons, Pods | launch, get ready, schedule, scale in, fail | | acts between any two calls | |
| Load balancer wait (`eks/elb.go`, `kubectl/service.go`, `eks/asg.go`) | one goroutine, channel and retry loop per target group | list, classify, wait | ELB, Kubernetes | goroutines, a `WaitGroup` and bounded channels | success means served; the wait returns |
| Fan-out of kubectl and `eks drain` (`eks/drain.go`, `kubectl/node.go`) | one goroutine and channel per node | read groups, cordon all, drain all | Auto Scaling, EC2, kubectl | goroutines; the scheduler moves Pods meanwhile | drained on success; no Pod evicted twice |
| `eks cleanup-security-group` (`eks/cleanup.go`) | lists it has read | find, detach, wait, delete, wait, delete group; the same for tagged groups | EC2 | AWS, the CNI plugin and others change what was read; reruns | goes to its end only when everything is gone; touches nothing else; a rerun copes |
| `eks sync-core-components` (`eks/sync.go`) | the version it read, an object it fetched | kube-proxy, CoreDNS configuration, role and image, VPC CNI | EKS, Kubernetes, ECR, kubectl | overlapping invocations, upgrades and edits between fetch and save | synced on success; CoreDNS never meets a configuration it cannot read; no lost edit; reruns converge |
| Search for an eksbuild (`eks/sync.go`) | index, last hit, misses | one request per number | ECR | gaps, bounds | the build in front of the first long gap |
| `eks verify` (`eks/cluster.go`) | a retry counter | two conditions, each with retries | EKS, the API server | the cluster does not exist yet, or changes | success means both conditions were met; at least the retries asked for |
| Default retries (`eks/deploy.go`) | | a formula, a loop | | integer division, units | waits at least as long as documented |
| `eks schedule-coredns` (`eks/coredns.go`) | | get, remove, restart; or patch | kubectl | overlapping invocations and operators | annotated as asked, Pods replaced |
| `eks configure` (`eks/kubectl_configure.go`, `kubectl/config.go`) | the configuration loaded from the kubeconfig | check, create, load, extend, save | a file | saved in parts; killed in between; reruns | contexts of others kept; the context asked for is complete |
| `tls gen` (`tls/*.go`, `kubectl/secret.go`) | a workspace | make or load a CA, sign, store | Kubernetes Secrets | the CA Secret is replaced meanwhile; foreign Secrets | the certificate verifies; what was stored can sign; nothing is replaced |
| Several groups in one directory (`eks/deploy_state.go`) | one recovery file for all of them | roll outs in turn, resumption | as the roll out | the file, not the flag, says which group is worked on | a group left half way is the one in the file; repeating the commands brings all to their launch configurations |
| `k8s wait-for-ingress`, and the wait for nodes (`kubectl/ingress.go`, `kubectl/node.go`) | a client with a token, a retry counter | poll, sleep, give up | the API server | tokens expire during the wait; errors are swallowed | no wait is cut off by its own token sooner than the code has to |
| kubectl calls and `k8s kubectl` (`kubectl/options.go`, `command.go`, `cmd/common.go`) | options, one temporary kubeconfig per call | parse flags, write a kubeconfig, run, remove it | kubectl, the kubeconfig of the user | concurrent calls, a shared file that others change, kills | every call reaches the cluster that was named; no token is left on disk |
| Tokens and AWS clients (`eksawshelper`) | | presign, look up | STS, EKS | lifetime of a token | part of the two above |
| Command line (`cmd/*.go`) | | parse, dispatch | all of the above | precedence of flags | part of the kubectl calls |
| Not modelled | | `eks oidc-thumbprint`, Kubernetes helpers, errors and logs | | | see section 9 |

`PROJECT.json` lists the same components with their files, and under `hazards` every place found where this code can go
wrong in a way a unit test would hardly reach, with the properties that would notice.

## 2. Plan

Modules in the order they were written, the most important behaviour first; all of them exist.

1. `Workers`, `Deploy` with `MCDeploy`: the roll out and its world. Everything else in kubergrunt is smaller.
2. `WorkerReplacement`, the abstract promise of a roll out, and `DeployRefinement`, which shows that `Deploy` keeps it.
3. `LoadBalancers` and `Drain`: the two kinds of goroutine fan-out at the granularity of goroutines and channels. In
   `Deploy` a wait or a kubectl run is one step, which may hang where `LoadBalancers` shows that it does.
4. `SecurityGroupCleanup`, `SyncComponents`, `EksBuildSearch`.
5. `Rollouts`: several groups rolled out from one directory, with a stage as one step.
6. The small commands, `ClusterVerify`, `DefaultRetries`, `CorednsSchedule`, `KubeConfig`, `KubectlOptions` with `KubectlCalls`,
   `ApiWaits`, `TlsGen`, and `Commands`, which composes them.
7. A `...Proofs` module for each of `Deploy`, `Rollouts`, `LoadBalancers`, `Drain`, `SecurityGroupCleanup`, `SyncComponents`,
   `EksBuildSearch` and `Commands`.

What is left, in this order:

* Proofs: how many Ready workers are left in a roll out whose workers fail (`NeverSmaller` is about those the group wants);
  `ResumesUnlessStranded` without its fairness, that a stopped roll out that is `Recoverable` never meets a refused call.
* Models: the goroutines of `LoadBalancers` in stage `WaitNodes` of `Deploy`, which now has their outcomes only; `Rollouts` as an abstraction of two
  instances of `Deploy`, proved by a refinement; two concurrent invocations of `eks deploy`.

## 3. Modules and the code

**Workers** is what AWS and Kubernetes do. An instance is a model value and also the name of its node. `Launch`,
`BecomeReady`, `Schedule`, `ScaleIn` and `InstanceFails` happen at any time. `UpdateMaxSize`, `SetDesiredCapacity`,
`DetachFromGroup`, `TerminateInEC2`, `KubectlCordon` and `KubectlDrain` are the effects of the calls the code makes.
`Reported(ids)` is `DescribeInstances`, for which an empty list is no filter.

**Deploy** has one action per step of `RollOutDeployment` between two calls. `stage` is the stage it is in, `at` the step of
the stage, `mem` the `DeployState`, with the `...Done` flags as the set `done`; `todo`, `failed` and `polls` are the locals of
the loop that runs; `file` is the recovery file. `persist` is two steps, since `ioutil.WriteFile` truncates before it writes:
a kill in between leaves `Corrupt`. A failing call either had no effect (`CallFails`), had it all the same (`ReplyLost`), or
hit one node (`NodeCallFails`). `Crash` may come at any step. `AddError` is the code's `AddError`: its receiver is a value, so
what it appends is lost. `LoadBalancersHang` is finding 3 as the roll out sees it: the wait for the load balancers has met an error and
never returns, and only a kill ends the process. `Start` is another invocation in the same directory; one runs at a time.

**WorkerReplacement** has no stages, files, batches or retries: a worker is serving, cordoned, evicted, detached, gone, and
no old worker takes the next step before all old ones took the one before (`deploy.go:18-27`).
**DeployRefinement** reads the life of a worker off the cluster and the roll out off the memory or, before the first stage has
run, off the file.

**Rollouts** is about which group an invocation works on. A group has the launch configuration its regular workers run
(`serving`), the one of the workers it was scaled up by (`extra`), and a max size that may be `raised`. A stage is one step, its
`persist` two. The state in the file names a group (`ASGs[0]`), and every stage but the first works on that one.

**LoadBalancers** follows the main goroutine from the list of Services through each load balancer, and for each target group a
goroutine that polls, may send an underlying error, sends its result and calls `wg.Done()`. A send blocks while the channel is
full. Services are pairs of annotations; the classification of `service.go:131-173` is `ELBType`, `ELBTargetType`, `Supported`.

**Drain** has the same for nodes, in two phases, with Pods that are evicted and rescheduled. It implements `WorkerReplacement` as
far as it goes: `LifeOf` reads off a node whether it is serving, cordoned or evicted, and nobody is detached. So the barrier that
`Deploy` takes for granted in its kubectl steps is shown for the goroutines behind them.

**SecurityGroupCleanup** has the loops over interfaces with their retries, the early returns and the second round for tagged
groups. `attached` remembers which attachment ids of the listing are still those of the interface.

**SyncComponents** has any number of invocations, each with the options it was started with: components to skip, and whether
to wait. An image tag stands for the version it was derived from. An image is read in one step and patched, without a
precondition, in another. The ConfigMap and the role carry a count of foreign edits;
`Unchanged` is the resource version check of the API server. The regular expression for `upstream` is modelled by what it
matches.

**EksBuildSearch** is the loop of `findLatestEKSBuild` over any set of builds.

**ClusterVerify**, **DefaultRetries**, **CorednsSchedule**, **KubeConfig** and **TlsGen** have one action per call that reads or
changes shared state. In `KubeConfig` the save of `clientcmd.ModifyConfig` happens part by part in any order, and
`CreateInitialConfig` in one step. In `TlsGen` a certificate is its key and its signer, a key is named after the run that made
it, and Secrets, workspaces and pairs are partial functions (`Put`, `Without`).

**KubectlOptions** turns the flags of a command into `KubectlOptions` (`parseKubectlOptions`) and those into one of three ways
to authenticate (`AuthScheme`); a cluster stands for its endpoint, CA and ARN. **KubectlCalls** runs several kubectl calls of
one command side by side: the temporary kubeconfig of each, its deferred removal on every way out, a kill, and the cluster its
request goes to, which for a call by context depends on what the shared kubeconfig says at that moment. **ApiWaits** has the
two loops that poll the API with a client of their own, the age of the token that client holds, and the errors they swallow.

**Commands** instantiates these eight with `EksBuildSearch`. A process runs one of them; `configure` and the kubectl calls share the
kubeconfig and run side by side, the others share nothing. What does not run is parked in one initial state.

`map` in `PROJECT.json` gives the lines of each definition. Definitions named `X_Something` are mutants of `X`: the bug they
stand for makes the property they belong to fail.

## 4. Runs

| Run | Bounds | What it shows |
|---|---|---|
| `Deploy_faults` | 2 old workers, max size 3, one worker outside the group, 2 retries, detach one at a time; kills, API errors, lost replies, disk errors | checkpoints, zero downtime, only old workers cordoned, the size restored on success and the max size raised in time; the refinement; every invocation returns, unless it hangs as in finding 3; a rerun completes, once a hung process is killed, unless stranded |
| `Deploy_restarts` | 1 old worker, 5 instances, default retries; kills, API errors, failing workers; the recovery file ignored, removed or unreadable, `terraform apply` in between | in a cluster that is disturbed in every modelled way, and where capacity is lost: the roll out detaches or terminates no worker that runs workload Pods |
| `Deploy_old_survive` | 1 old worker | **violated**: success although the old worker runs (finding 1) |
| `Rollouts` | 2 groups, one of them with room for twice its workers, 2 launch configurations; kills, API and disk errors | a group left larger or with a raised max size is the one in the file; repeating the commands brings both groups to their launch configurations unless stranded |
| `Rollouts_other_group` | the same | **violated**: success without the group that was named (finding 2) |
| `LoadBalancers_wait` | 2 Services with every pair of annotations, 2 target groups each, 1 retry, API errors | served on success, no straggling goroutine, never stuck but after the error of finding 3, that is, with the main goroutine waiting for one that has a second error to send |
| `LoadBalancers_deadlock` | 1 Service, 1 target group | **violated**: the wait hangs (finding 3) |
| `Drain_groups` | 3 nodes in 2 groups or none, 2 Pods, API and kubectl errors | drained on success, only requested workers touched, no second eviction, the refinement, the command returns |
| `SecurityGroups_cleanup` | the named group and a tagged one, 2 interfaces with any owners, 2 retries, all faults | complete on success, interfaces first, others untouched, reruns get rid of the named group |
| `Sync_overlap` | 2 overlapping invocations, one of which may skip components; 4 versions, one unsupported, one without table entries; 1 edit per object, API errors, upgrades | synced on success, CoreDNS compatible, no lost edit, reruns converge |
| `Sync_rerun` | 1 invocation repeated, nothing fails | **violated**: success before the Pods are replaced (finding 4) |
| `Commands_all` | verify with 6 retries; retries for 0-25 instances and 7 sleep durations; 2 overlapping schedule-coredns; repeated configure for 2 contexts and 2 clusters, and 2 kubectl calls with every form of flags beside it; waits of 6 polls with tokens that last 3; all 512 sets of nine builds with gaps of three; 2 overlapping tls gen with 2 Secrets | each of the nine keeps its promises; for the two retry counts (verify, default retries) these are lower bounds (section 8) |

Why the bounds are enough. Two old workers and batches of one are what it takes for a half finished loop; doubling needs two
more instances, and a fifth lets a lost one be replaced or a second roll out begin. Two goroutines show every order in
which they meet; two interfaces show one done and one not, and one shared between groups. Two invocations are enough for a
fetch, a foreign save and a save; two groups, for a file of the other one. A retry loop is exercised by the values none left,
one left and, where the count itself is in a property, several; the lifetime of a token lies within the six polls of a wait,
so that a token expires before, at and after its end. `DesiredBound` of `Deploy` stops new roll outs above a capacity of two, so
that repeated doubling by roll outs that start over ends; `MaxEdits`, `Newest`, `MaxCapacity` bound counters of the environment.
`WaveSize` is the code's 10, and the poll count of a wave is one; the arithmetic with real numbers is `DefaultRetries`. Symmetry
is used in runs without liveness only. Runs say `CHECK_DEADLOCK FALSE` where a command has ended and nothing is left to happen.
For the properties of section 6 the bounds do not matter: they are proved for all of them.

## 5. Fairness

* `Deploy`: weak fairness of `Process` (every wait sleeps for a bounded time, `asg.go:189`, `node.go:32`). The wait for the load
  balancers is not bounded: a process that hangs in it has no step, which fairness does not change, and `InvocationEnds` names it as
  the one exception. `ResumesUnlessStranded` is about operators who kill such a process (`HangsAreKilled`) before they run the command
  again. Both properties fail without the exception. Further weak fairness of launches and
  readiness (the group is able to launch what it wants), and of `Start` (the operator runs the command again after a failure,
  README.md:267). No fairness of faults, of scheduling or of scale in.
* `Rollouts`: weak fairness of the process, and strong fairness of `Start(g)` for each group: the operator deploys each of them again
  and again, and none is able to start while another runs. A stage is one step, so here too a hung process is taken to be killed.
* `LoadBalancers`, `Drain`: weak fairness of each goroutine and of the main one (the Go scheduler; the SDK waiter, the retry
  loops and `kubectl drain --timeout`, unless it is 0, are bounded).
* `SecurityGroupCleanup`: the command goes on, is run again, and AWS completes a detachment or deletion it accepted.
* `SyncComponents`: the command goes on and is run again, with some of its options; Pods of an existing image are replaced.

Properties of the kind "a rerun completes" say `FaultsStop => ...`: from some time on nothing interferes, and in `SyncComponents`
the command is from then on run without skipping anything. They would be false otherwise, and nothing is claimed while faults
go on.

## 6. What is proved

Each proof is for every value of the constants that the named assumptions of the module allow, and for every mix of faults,
unless a hypothesis is given here.

`DeployProofs` (`WorkersAssumption`, `DeployAssumption`), in the order of the argument:

* `TypeCorrect`. `TypeOK` is not inductive alone: that `todo` is a set of instances and that a stage may be persisted depends on
  which step belongs to which stage. `TypeInv` adds `StepFits`.
* `CheckpointsAlwaysHold` and `WorkloadsAreSafe`, from `CheckpointInv`: `TypeInv`; `Sound(mem)` and `Sound(file.state)`, the flags of a
  state are true of the cluster (both, since a kill replaces the memory by the file; the old workers were launched once, so that
  none is launched again, and are cordoned, so that no Pod comes back to them); `Progress`, a stage is entered only with the flags of
  all stages before it; `Loops`, in the middle of a loop the old workers it is done with already are what the stage makes them,
  unless an error was collected. `OnlyWorldChanges` lists every change any step makes to the world, `NoReturn` shows that none undoes
  what `Sound` says, and `Succeed` turns `Loops` with an empty `todo` into `Sound` with one more flag.
* `RoomToGrow`, if nobody runs `terraform apply` in the middle: `MaxInv`, what a state recorded as raised fits the max size.
* `OthersStaySchedulable`, if no roll out recorded an empty group (`[]Staffed`): `FileInv`, between two stages the file is what the
  process has; `OldInv`, the new workers of a state are launched, not old and not cordoned, and whatever is cordoned in the group is
  old. `Staffed` is needed: an empty list of ids is no filter (section 8).
* `NoDowntime`, if no worker fails and nobody else changes the size of the group (`Undisturbed`), also with a recovery file that is
  ignored, removed or unreadable: `CountInv` does the sums. The desired capacity is the recorded capacity and the old workers still
  attached; as many new workers as old ones were launched, are members and, once `WaitNodes` is set, Ready; no capacity is recorded
  that is below the original one; and `Waits` says what the loops that wait have seen when they end, which no step of the
  cluster takes back. `StaysStaffed` follows: undisturbed, a group that has workers is never found empty.
* `ReplacesBarrierByBarrier`, the refinement, for `[]Staffed`, without files that are ignored or unreadable: `Resumes`, the memory of a
  process goes on from the file; then the initial states map to initial states and each step to a step or a stutter (`StepMaps`). That
  nobody is lost where `MayFail` is false needs `CountInv`: the group never holds more than it wants.
* `RestoresTheGroup`, for `Undisturbed` and a recovery file that is kept and read (`FileLeftAlone`): `RestInv`, wherever there is no
  file the group has its original size, so that no other size is ever recorded.
* `UndisturbedCordonsOld` and `UndisturbedReplacement`: with `StaysStaffed`, the hypothesis `[]Staffed` of the two theorems above is
  discharged for a group that has workers and is undisturbed. What is left are conditions on the constants only.
* `NeverSmaller`, also while workers fail: the group never wants fewer workers than before. With failing workers the sums of `CountInv`
  do not hold; `KeepInv` has a lower bound in their place, the desired capacity covers the recorded one and the old workers that can
  still be detached. `terraform apply` in the middle is excluded, and has to be (section 8).
* `OldAreTerminated`, if no call fails: `GoneInv`, what the loop over the batches is done with is gone, and so is what the flag speaks
  of. The violated run `Deploy_old_survive` has failing calls and nothing else, so that finding 1 has this one cause.
* `InvocationsAdvance`: every step of a running invocation, faults included, ends it or goes down in a well-founded order: stage,
  step of the stage, what is left of the loop, polls left; and from the hang of finding 3 a step leads nowhere but to the end of the
  process. So no invocation repeats a step for ever. That is not termination: that a step is taken at all is fairness, stays with TLC
  (`InvocationEnds`), and is false of a process that hangs.

`EksBuildSearchProofs` (`FindsLatestBuild`): `SearchInv`, types, the last hit is the largest build asked for so far (`Seen`), and the
counter of misses is the distance to it once there is one (`LoopInv`).

`RolloutsProofs` (`TypeCorrect`, `OneGroupAtATime`): `RolloutsInv`. Only the group in the file is unfinished (`OneGroup`), the file names a
group before any is changed (`NamedFirst`), workers that were detached were recorded as scaled up (`DetachedOnce`), and the file goes
away only with the size restored (`RestoredFirst`). `FaultlessRollsOut`, if nothing fails: `FaultlessInv`, an invocation starts without
a file, so that the state it works with names its own group (`FreshStart`), it skips no stage (`InStep`), and the workers it launches have
the configuration the group had at the start or a later one (`NewWorkers`). Finding 2 therefore takes an earlier failure.

`LoadBalancersProofs` (for channels of size one as in the code): `WaitInv`. The `WaitGroup` is the number of goroutines that run
(`Counted`), a channel is empty between two load balancers (`Drained`), a result in a channel or in the list is true (`Reports`), and
load balancers behind the loop are served (`Progress`). `SuccessMeansServed` and `GoroutinesCollected` follow. `OnlyFailuresBlock`: the
wait stands still before its end only after the error of finding 3; `WaitAdvances`: no step of it is ever repeated. Together they are
what its termination needs besides fairness.

`DrainProofs` (`SuccessMeansDrained`, `CordonedFirst`; `OthersUntouched` for groups that have instances): `DrainInv`. The list read is the
requested groups (`Selection`), a goroutine without an error has done its work (`Goroutines`), and what it did stays so beside the
scheduler (`Effects`). `DrainsBarrierByBarrier` is the refinement of `WorkerReplacement`, from the same invariant. `BarrierInv` adds that
the `WaitGroup` counts the goroutines that run (`Counted`) and that every goroutine the main one has still to hear of has an answer in its
channel or is on its way to one (`Delivers`): hence `TypeCorrect`, with a counter that is never negative, `NoCircularWait`, the command is
never stuck, and `DrainAdvances`, as above; the scheduler cannot delay the end, since it puts no Pod on a cordoned node.

`SecurityGroupCleanupProofs` (`SuccessMeansClean`, `WaitsForInterfaces`, `NothingElseTouched`): `CleanupInv`. What was listed and not handled is
still to do (`Listed`, `Remaining`), what was waited for is gone (`Waited`), and a run that goes on has met no error (`Running`).
`CleanupAdvances`: each step uses up a group, an interface or a retry.

`SyncComponentsProofs` (`SuccessMeansSynced`, `ConfiguredBeforeImage`, `EditsKept`; at least one process, and `upstream` lines the regular
expression matches): `SyncInv`. What a run has passed, and nobody changed since, is synced (`Agreed`); the ConfigMap and the role were made
ready before any newer image (`Configured`); and an object that has the version of a fetch has its content (`KnownForm`).
`ControlPlaneFirst`, from `Behind`: no component gets ahead of the control plane, for any overlap and any upgrades. `NothingDowngraded`
needs `InTurn`, invocations that do not overlap or a control plane that is not upgraded: an invocation that is still working with the
version from before an upgrade takes back what one started after it has deployed.
`OnlyOthersPodsAreLeft`: among invocations with `--wait` that come one after the other, and none of which has failed so far, success does
mean that all Pods were replaced (`Awaited`). Finding 4 therefore takes an earlier run that failed, did not wait, or overlaps.

`CommandsProofs`: the promises of the small commands, in the composition `Commands`; lemma `Composition` takes a step of it apart into a step
of one command and stutters of the others. `VerifyInv`, `RetriesInv`, `ScheduleInv`, `ConfigureInv`, `CallsInv`, `WaitsInv`, `TlsInv` and `SearchInv` are
the inductive invariants. `PatienceAsAsked` and `DocumentedTimeWaited` say that a wait is not shorter than documented; `RetriesInv` has the
elapsed time as polls times sleep, and the integer division cuts off less than half of the code's time once there is a poll at all.
`ContextsOfOthersKept`, `SuccessMeansConfigured` and `CallsGoWhereMeant` need that invocations of `eks configure` do
not overlap (`NoOverlap`, see section 8), `IngressOutlastsTokens` that tokens live at all. `TlsInv`: every Secret
that was stored, and every one a run has loaded as its CA, names a pair that it has and the algorithm of its key (`CanSign`, hence
`StoredPairsSign`), and is stored with the certificate of its signer (`Chained`, hence `SignedPairsVerify`), which is the one of the CA as it was
loaded, whatever has become of its Secret since.

Every safety invariant and every action property of a passing run is stated by one of these theorems. Only model-checked are the
liveness properties, since they need fairness, which is about `ENABLED`: `InvocationEnds`, `ResumesUnlessStranded` and their likes in
the other modules. Of the arithmetic, the proofs use sums and the integer division of the default retries; nothing is proved by
induction over data, and no module has a RECURSIVE operator.

## 7. Findings

1. `errors.go:63`, run `Deploy_old_survive`. `AddError` appends to a copy of its receiver, so the errors of
   `TerminateInstances` are lost, the stage is marked done and the roll out reports success with old instances running, detached
   and unmanaged, although step 6 is to "remove the old EKS workers" (README.md:249, `deploy.go:27`).
2. `deploy_state.go:130`, run `Rollouts_other_group`. The state in the recovery file is used whatever `--asg-name` says: only
   `gatherASGInfo` looks at the name, and it is skipped. The command for one group completes the roll out of another and reports
   success, although it is to roll out "the provided ASG" (`deploy.go:18-19`).
3. `elb.go:96`, run `LoadBalancers_deadlock`. On an error that is not to be retried the goroutine sends two errors into a channel
   of size one that is read only after `wg.Wait()`. It blocks, and so does the roll out.
4. `sync.go:247`, run `Sync_rerun`. With `--wait`, a run that finds the image current does not wait, also when the Pods of an earlier
   run that timed out are still to be replaced, although README.md:282-283 says the command waits "until all the Pods have been
   replaced".

## 8. Divergences the models contain, without a run

Each of these is in the models as the code has it. No property says that the code is right in these places: they leave the case out,
or claim no more than what both the code and the text promise.

* `instances.go:16`: no ids means no filter. A roll out that records an empty group cordons and drains every instance of the
  region, and so does `eks drain` when all named groups are empty. `Drain` has the constant `EmptyGroups`; with `TRUE`,
  `OnlyRequested` fails. In `Deploy` it takes a group whose workers all failed: `OnlyOldCordoned` and the refinement are therefore
  checked without failing workers and proved for `[]Staffed`, while `CheckpointsHold` and `NoWorkloadRemoved` are proved without it.
* `deploy_state.go:186`: nothing checks the max size again after it was raised. A `terraform apply` after the scale up sets it back, AWS
  lowers the desired capacity with it, and each detached worker then lowers it further, below the original capacity. `NeverSmaller`
  and `MaxSizeRaised` leave this case out.
* `deploy_state.go:155`: after the wait the group is read again, and the two numbers are not compared again.
* `deploy_state.go:97`: a kill between truncation and write leaves a file that no invocation can parse. `Recoverable` excludes it.
* `deploy_state.go:66`: a file that cannot be read for any reason is taken for absent, although `:54-55` says "if one doesn't exist";
  a roll out then starts over.
* `deploy_state.go:334`: `restoreCapacity` persists without setting its flag (README.md:265-266, "updated after each stage").
  Restoring twice is harmless.
* `asg.go:265`: when a later batch fails, the earlier batches are detached but the stage is not done; the next invocation asks AWS to
  detach the same instances, which is refused. README.md:267 promises resumption; `Recoverable` excludes this.
* `cleanup.go:63`, `:89`: a group that is already deleted ends the command with success, before the groups that come after it
  (README.md:298). `CleanedToTheEnd` is about runs that did not end there; a rerun may leave tagged groups behind for good.
* `sync.go:40-41`: "there is an entry for each supported version", but 1.25 has none in the tables; its images get an empty tag.
* `sync.go:625`: `upstream` with an argument is not removed. `SyncComponents` has it (`"argument"`); the runs do not start with it.
* `sync.go:653`: the search goes on after a 404, although `:638-639` says it stops there.
* `cluster.go:36`: one query and then `max-retries` more, while README.md:97 says the number of tries and `:105` "up to 10 times".
  `PatientOnlyWhenWaiting` is the lower bound, no fewer tries than that; the upper bound of the text does not hold.
* `deploy.go:126`: 600 seconds for each wave; `deploy.go:116` and `cmd/eks.go:236` say five minutes. `WaitsDocumentedTime` is about
  the five: no wait is shorter than that. That it lasts five minutes, as the text says, does not hold. The integer division panics for
  a sleep below one second.
* `coredns.go:92`: the patch sets the whole `annotations` member; annotations of others are gone.
* `kubectl_configure.go:22`: two overlapping invocations each save what they loaded. A context added by one of them may be lost, so
  `Commands_all` has one invocation of `configure`, repeated and killed.
* `deploy.go:107`: when the recovery file of a finished roll out cannot be deleted, the error is logged only; the next command for the
  same group finds all stages done and succeeds without a roll out. In `Deploy` and `Rollouts` (`DeleteFile` with `"disk"`).
* `options.go:38` says that EKS based access has precedence over direct access; `parseKubectlOptions` (`cmd/common.go:294-313`) asks
  for `--kubectl-server-endpoint` first. `NamedBy` follows the code.
* `node.go:28`: the wait for nodes makes one client, whose token lives 15 minutes; the default wait is 10 minutes for each ten
  workers. `WaitsOutlastTokens` names this case.
* `ingress.go:62`: every error of a poll counts as "not there yet", a refused token included.
* `command.go:16`: each kubectl call reads the current context of the kubeconfig again; without `--kubectl-context-name` the calls of one
  command may go to different clusters. `MeantCluster` leaves such commands out.
* `gencmd.go:140`, `:150`: the error of loading the CA key is overwritten and the nil key is used, which panics; so does a Secret
  whose certificate is not PEM. `OwnSecretsSign` says that only Secrets of another origin get there.
* `gencmd.go:167-169`: any Secret whose annotations name a pair may sign, also a leaf.
* `cmd/tls.go:47`: `--secret-filename-base` is declared and not registered.

## 9. Not modelled

* `eks oidc-thumbprint`: two HTTP requests and a hash. `eks token`, sessions and ARNs: stateless, but for the lifetime of a token,
  which is in `ApiWaits`. Their failures are the failures of calls in the models.
* Helpers for Kubernetes resources: one API call each; those for roles are used by no command.
* Parsing of options other than those that choose a cluster, prompts, log and error text, subjects and validity of certificates, key
  sizes, PEM and base64: data that no property tells apart.
* `eks drain --drain-timeout 0`, with which kubectl may wait for ever (`cmd/eks.go:47`): `KubectlEnds` assumes a bound.
* Two concurrent invocations of `eks deploy`; several regions; pagination of AWS answers, which the code follows to its end.
* The workspace a killed `tls gen` leaves behind.
