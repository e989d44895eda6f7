---------------------------- MODULE SyncComponents ----------------------------
(***************************************************************************)
(* `kubergrunt eks sync-core-components` (src/eks/sync.go): brings the     *)
(* images of kube-proxy and CoreDNS and the manifest of the VPC CNI plugin *)
(* to what the Kubernetes version of the cluster asks for.  Invocations    *)
(* may overlap, fail anywhere and be run again, while the control plane is *)
(* upgraded and operators edit the CoreDNS configuration.                  *)
(***************************************************************************)
EXTENDS Integers, FiniteSets

CONSTANTS
    Process,      \* invocations of the command
    Newest,       \* Kubernetes versions are 1 .. Newest
    Supported,    \* those in supportedVersions
    Untabled,     \* supported ones without an entry in the lookup tables
    Upstream,     \* forms of "upstream" the CoreDNS configuration may start with
    Granted,      \* permissions on EndpointSlices the role may start with
    Options,      \* of each, pairs of the components to skip and of --wait
    MaxEdits,     \* edits by operators of each object (bound)
    Fault         \* what may go wrong, a subset of FaultKind

(* Calls fail, control planes are upgraded, objects are edited. *)
FaultKind == {"api", "upgrade", "edit"}

Version == 1 .. Newest
Component == {"kube-proxy", "coredns", "aws-vpc-cni"}
Workload == {"kube-proxy", "coredns"}
Verb == {"list", "watch"}

(* Images deployed before the first run, images of no build, and a VPC CNI *)
(* manifest that kubectl applied in part.                                  *)
Initial == 0
NoTag == -1
Partial == -2

ASSUME SyncAssumption ==
    /\ Newest \in Nat \ {0}
    /\ Supported \subseteq Version
    /\ Untabled \subseteq Supported
    /\ Upstream \subseteq {"none", "line", "argument"}
    /\ Granted \subseteq SUBSET Verb
    /\ Options \in [Process -> SUBSET [skip : SUBSET Component, wait : BOOLEAN]]
    /\ MaxEdits \in Nat
    /\ Fault \subseteq FaultKind

VARIABLES
    k8sVersion,   \* Kubernetes version of the control plane
    image,        \* what is deployed of each component
    rolledOut,    \* workloads whose Pods all run the deployed image
    configMap,    \* the coredns ConfigMap
    clusterRole,  \* the system:coredns ClusterRole
    at,           \* the step of each invocation
    opts,         \* its options
    version,      \* the version it read, and derived its targets from
    read,         \* the ConfigMap or ClusterRole it fetched last
    result        \* what it returned

clusterVars == <<k8sVersion, image, rolledOut, configMap, clusterRole>>
vars == <<clusterVars, at, opts, version, read, result>>

Step == {"idle", "lookup", "proxy", "proxyPatch", "proxyWait", "getConfigMap", "updateConfigMap",
         "getClusterRole", "updateClusterRole", "coredns", "corednsPatch", "corednsWait", "vpcCNI"}

Nothing == [edits |-> 0]
ConfigMap == [upstream : {"none", "line", "argument"}, edits : 0 .. MaxEdits]
ClusterRole == [verbs : SUBSET Verb, edits : 0 .. MaxEdits]

TypeOK ==
    /\ k8sVersion \in Version
    /\ image \in [Component -> Version \cup {Initial, NoTag, Partial}]
    /\ rolledOut \subseteq Workload
    /\ configMap \in ConfigMap
    /\ clusterRole \in ClusterRole
    /\ at \in [Process -> Step]
    /\ \A p \in Process : opts[p] \in Options[p]
    /\ version \in [Process -> Supported \cup {Initial}]
    /\ read \in [Process -> ConfigMap \cup ClusterRole \cup {Nothing}]
    /\ result \in [Process -> {"none", "ok", "error"}]

Init ==
    /\ k8sVersion \in Version
    /\ image = [c \in Component |-> Initial]
    /\ rolledOut = Workload
    /\ configMap \in {m \in ConfigMap : m.upstream \in Upstream /\ m.edits = 0}
    /\ clusterRole \in {r \in ClusterRole : r.verbs \in Granted /\ r.edits = 0}
    /\ at = [p \in Process |-> "idle"]
    /\ opts \in {o \in [Process -> UNION {Options[p] : p \in Process}] : \A p \in Process : o[p] \in Options[p]}
    /\ version = [p \in Process |-> Initial]
    /\ read = [p \in Process |-> Nothing]
    /\ result = [p \in Process |-> "none"]

-----------------------------------------------------------------------------
(* The build looked up for a version: findLatestEKSBuild returns a tag     *)
(* base without "eksbuild", such as "", as it is.                          *)
Target(v) == IF v \in Untabled THEN NoTag ELSE v

Goto(p, step) == at' = [at EXCEPT ![p] = step] /\ UNCHANGED <<version, read, result>>

(* What the process knew is gone with it. *)
Return(p, r) ==
    /\ at' = [at EXCEPT ![p] = "idle"]
    /\ result' = [result EXCEPT ![p] = r]
    /\ read' = [read EXCEPT ![p] = Nothing]
    /\ version' = IF r = "ok" THEN version ELSE [version EXCEPT ![p] = Initial]

(* An object is kept to be changed and sent back. *)
Fetch(p, object, step) ==
    /\ read' = [read EXCEPT ![p] = object]
    /\ at' = [at EXCEPT ![p] = step]
    /\ UNCHANGED <<version, result>>

(* It was saved: the copy is not used any more. *)
Saved(p, step) ==
    /\ read' = [read EXCEPT ![p] = Nothing]
    /\ at' = [at EXCEPT ![p] = step]
    /\ UNCHANGED <<version, result>>

Start(p, o) ==
    /\ at[p] = "idle"
    /\ opts' = [opts EXCEPT ![p] = o]
    /\ at' = [at EXCEPT ![p] = "lookup"]
    /\ version' = [version EXCEPT ![p] = Initial]
    /\ result' = [result EXCEPT ![p] = "none"]
    /\ UNCHANGED <<clusterVars, read>>

IsSupported == k8sVersion \in Supported

(* GetClusterByArn, the check of the version and the lookup of the builds. *)
LookupVersions(p) ==
    /\ at[p] = "lookup"
    /\ \/ /\ IsSupported
          /\ version' = [version EXCEPT ![p] = k8sVersion]
          /\ at' = [at EXCEPT ![p] = "proxy"]
          /\ UNCHANGED <<read, result>>
       \/ /\ ~IsSupported
          /\ Return(p, "error")
    /\ UNCHANGED <<clusterVars, opts>>

(* Mutant: a workload that was synced once is taken to be current. *)
UpToDate_Once(c, p) == image[c] \notin {Initial, NoTag}

(* getCurrentDeployedKubeProxyImage and getCurrentDeployedCoreDNSImage. *)
UpToDate(c, p) == image[c] = Target(version[p])

(* Mutant: a workload that is current ends the whole command. *)
ReadImage_EndsWhenCurrent(p, c, patch, next) ==
    /\ IF UpToDate(c, p) THEN Return(p, "ok") ELSE Goto(p, patch)
    /\ UNCHANGED <<clusterVars, opts>>

(* The deployed image is read, and the workload left alone or patched. *)
ReadImage(p, c, patch, next) ==
    /\ Goto(p, IF UpToDate(c, p) THEN next ELSE patch)
    /\ UNCHANGED <<clusterVars, opts>>

(* The JSON patch of the first container's image, whatever it is by now.   *)
(* There is nothing to roll out for an image that is deployed already.     *)
PatchImage(c, p) ==
    /\ image' = [image EXCEPT ![c] = Target(version[p])]
    /\ rolledOut' = IF image'[c] = image[c] THEN rolledOut ELSE rolledOut \ {c}
    /\ UNCHANGED <<k8sVersion, configMap, clusterRole>>

(* The workload is patched, and awaited if that was asked for. *)
UpdateImage(p, c, wait, next) ==
    /\ PatchImage(c, p)
    /\ Goto(p, IF opts[p].wait THEN wait ELSE next)
    /\ UNCHANGED opts

(* kubectl rollout status ends well, or by --timeout. *)
RolloutStatus(p, c, next) ==
    /\ \/ c \in rolledOut /\ Goto(p, next)
       \/ c \notin rolledOut /\ Return(p, "error")
    /\ UNCHANGED <<clusterVars, opts>>

UpgradeKubeProxy(p) ==
    /\ at[p] = "proxy"
    /\ "kube-proxy" \notin opts[p].skip
    /\ ReadImage(p, "kube-proxy", "proxyPatch", "getConfigMap")

PatchKubeProxy(p) ==
    /\ at[p] = "proxyPatch"
    /\ UpdateImage(p, "kube-proxy", "proxyWait", "getConfigMap")

WaitForKubeProxy(p) ==
    /\ at[p] = "proxyWait"
    /\ RolloutStatus(p, "kube-proxy", "getConfigMap")

SkipKubeProxy(p) ==
    /\ at[p] = "proxy"
    /\ "kube-proxy" \in opts[p].skip
    /\ Goto(p, "getConfigMap")
    /\ UNCHANGED <<clusterVars, opts>>

-----------------------------------------------------------------------------
SkipCoreDNS(p) ==
    /\ at[p] = "getConfigMap"
    /\ "coredns" \in opts[p].skip
    /\ Goto(p, "vpcCNI")
    /\ UNCHANGED <<clusterVars, opts>>

(* semverStringCompare cannot parse the empty version; every version in    *)
(* the table is past 1.8.3, and the ConfigMap is looked at next.           *)
GetCorednsConfigMap(p) ==
    /\ at[p] = "getConfigMap"
    /\ "coredns" \notin opts[p].skip
    /\ \/ /\ version[p] \in Untabled
          /\ Return(p, "error")
       \/ /\ version[p] \notin Untabled
          /\ IF configMap.upstream = "none" THEN Goto(p, "getClusterRole")
             ELSE Fetch(p, configMap, "updateConfigMap")
    /\ UNCHANGED <<clusterVars, opts>>

(* The expression matches "upstream" before the end of a line only. *)
RemoveUpstream(u) == IF u = "line" THEN "none" ELSE u

(* Mutant: the object is saved whatever became of it. *)
Unchanged_Unchecked(p, object) == TRUE

(* The API server compares the resource version of what was fetched; the   *)
(* contents stand for it, they never come back.                            *)
Unchanged(p, object) == read[p] = object

(* Update sends the whole object back. *)
UpdateConfigMap(p) ==
    /\ at[p] = "updateConfigMap"
    /\ \/ /\ Unchanged(p, configMap)
          /\ configMap' = [read[p] EXCEPT !.upstream = RemoveUpstream(@)]
          /\ Saved(p, "getClusterRole")
       \/ /\ ~Unchanged(p, configMap)
          /\ Return(p, "error")
          /\ UNCHANGED configMap
    /\ UNCHANGED <<k8sVersion, image, rolledOut, clusterRole, opts>>

(* Mutant: one of the permissions is enough. *)
HasEndpointSlicesPermissions_Either(r) == r.verbs # {}

HasEndpointSlicesPermissions(r) == r.verbs = Verb

GetCorednsClusterRole(p) ==
    /\ at[p] = "getClusterRole"
    /\ IF HasEndpointSlicesPermissions(clusterRole) THEN Goto(p, "coredns")
       ELSE Fetch(p, clusterRole, "updateClusterRole")
    /\ UNCHANGED <<clusterVars, opts>>

UpdateClusterRole(p) ==
    /\ at[p] = "updateClusterRole"
    /\ \/ /\ Unchanged(p, clusterRole)
          /\ clusterRole' = [read[p] EXCEPT !.verbs = Verb]
          /\ Saved(p, "coredns")
       \/ /\ ~Unchanged(p, clusterRole)
          /\ Return(p, "error")
          /\ UNCHANGED clusterRole
    /\ UNCHANGED <<k8sVersion, image, rolledOut, configMap, opts>>

UpgradeCoreDNS(p) ==
    /\ at[p] = "coredns"
    /\ ReadImage(p, "coredns", "corednsPatch", "vpcCNI")

PatchCoreDNS(p) ==
    /\ at[p] = "corednsPatch"
    /\ UpdateImage(p, "coredns", "corednsWait", "vpcCNI")

WaitForCoreDNS(p) ==
    /\ at[p] = "corednsWait"
    /\ RolloutStatus(p, "coredns", "vpcCNI")

-----------------------------------------------------------------------------
(* kubectl apply of the manifest, as a whole, in part, or not at all.  A   *)
(* version without a manifest is an error of kubectl.                      *)
UpdateVPCCNI(p) ==
    /\ at[p] = "vpcCNI"
    /\ \/ /\ "aws-vpc-cni" \in opts[p].skip
          /\ Return(p, "ok")
          /\ UNCHANGED image
       \/ /\ "aws-vpc-cni" \notin opts[p].skip
          /\ version[p] \notin Untabled
          /\ image' = [image EXCEPT !["aws-vpc-cni"] = version[p]]
          /\ Return(p, "ok")
       \/ /\ "aws-vpc-cni" \notin opts[p].skip
          /\ version[p] \in Untabled
          /\ Return(p, "error")
          /\ UNCHANGED image
    /\ UNCHANGED <<k8sVersion, rolledOut, configMap, clusterRole, opts>>

ApplyFails(p) ==
    /\ "api" \in Fault
    /\ at[p] = "vpcCNI"
    /\ "aws-vpc-cni" \notin opts[p].skip
    /\ version[p] \notin Untabled
    /\ image' = [image EXCEPT !["aws-vpc-cni"] = Partial]
    /\ Return(p, "error")
    /\ UNCHANGED <<k8sVersion, rolledOut, configMap, clusterRole, opts>>

(* Any other call fails without an effect, or the process dies. *)
CallFails(p) ==
    /\ "api" \in Fault
    /\ at[p] # "idle"
    /\ Return(p, "error")
    /\ UNCHANGED <<clusterVars, opts>>

-----------------------------------------------------------------------------
(* The kubelets replace the Pods, if there is such an image. *)
RolloutCompletes(c) ==
    /\ c \notin rolledOut
    /\ image[c] # NoTag
    /\ rolledOut' = rolledOut \cup {c}
    /\ UNCHANGED <<k8sVersion, image, configMap, clusterRole, at, opts, version, read, result>>

UpgradeControlPlane ==
    /\ "upgrade" \in Fault
    /\ k8sVersion < Newest
    /\ k8sVersion' = k8sVersion + 1
    /\ UNCHANGED <<image, rolledOut, configMap, clusterRole, at, opts, version, read, result>>

(* An operator changes something else in one of the objects. *)
EditConfigMap ==
    /\ "edit" \in Fault
    /\ configMap.edits < MaxEdits
    /\ configMap' = [configMap EXCEPT !.edits = @ + 1]
    /\ UNCHANGED <<k8sVersion, image, rolledOut, clusterRole, at, opts, version, read, result>>

EditClusterRole ==
    /\ "edit" \in Fault
    /\ clusterRole.edits < MaxEdits
    /\ clusterRole' = [clusterRole EXCEPT !.edits = @ + 1]
    /\ UNCHANGED <<k8sVersion, image, rolledOut, configMap, at, opts, version, read, result>>

Command(p) ==
    \/ LookupVersions(p)
    \/ UpgradeKubeProxy(p) \/ PatchKubeProxy(p) \/ WaitForKubeProxy(p) \/ SkipKubeProxy(p)
    \/ SkipCoreDNS(p) \/ GetCorednsConfigMap(p) \/ UpdateConfigMap(p)
    \/ GetCorednsClusterRole(p) \/ UpdateClusterRole(p)
    \/ UpgradeCoreDNS(p) \/ PatchCoreDNS(p) \/ WaitForCoreDNS(p)
    \/ UpdateVPCCNI(p)

Next ==
    \/ \E p \in Process :
          \/ \E o \in Options[p] : Start(p, o)
          \/ Command(p) \/ ApplyFails(p) \/ CallFails(p)
    \/ \E c \in Workload : RolloutCompletes(c)
    \/ UpgradeControlPlane \/ EditConfigMap \/ EditClusterRole

Spec == Init /\ [][Next]_vars

-----------------------------------------------------------------------------
(* Component c is as version v asks for. *)
Synced(c, v) ==
    /\ image[c] = Target(v)
    /\ c = "coredns" => configMap.upstream # "line" /\ clusterRole.verbs = Verb

(***************************************************************************)
(* When the last run of every invocation succeeded for the same version,   *)
(* the components none of them skipped are those of that version, however  *)
(* they overlapped and whatever failed before (sync.go:130-142).           *)
(***************************************************************************)
SyncedOnSuccess ==
    \A v \in Supported :
        (\A p \in Process : result[p] = "ok" /\ version[p] = v) =>
            \A c \in Component : (\A p \in Process : c \notin opts[p].skip) => Synced(c, v)

(***************************************************************************)
(* A CoreDNS image is never deployed before the configuration has lost the *)
(* keyword the image does not know and the role has the permissions it     *)
(* needs (sync.go:324-351).                                                *)
(***************************************************************************)
CoreDNSCompatible ==
    image["coredns"] # Initial =>
        /\ configMap.upstream = "none"
        /\ clusterRole.verbs = Verb

(* Saving an object that was fetched earlier never undoes an edit that     *)
(* came in between (sync.go:436, sync.go:634).                             *)
NoLostEdits ==
    [][/\ configMap'.edits >= configMap.edits
       /\ clusterRole'.edits >= clusterRole.edits]_vars

(***************************************************************************)
(* Fairness: a run goes on, the Pods of an image that exists are replaced, *)
(* and the command is run again, without skipping anything.                *)
(***************************************************************************)
FairSpec ==
    /\ Spec
    /\ \A p \in Process :
          /\ WF_vars(Command(p))
          /\ WF_vars(\E o \in Options[p] : Start(p, o))
    /\ \A c \in Workload : WF_vars(RolloutCompletes(c))

(* From some time on calls do not fail, nobody edits or upgrades, and the  *)
(* command is run again for all the components.                            *)
FaultsStop ==
    <>[][ \/ \E p \in Process : \/ \E o \in Options[p] : o.skip = {} /\ Start(p, o)
                               \/ Command(p)
          \/ \E c \in Workload : RolloutCompletes(c)]_vars

(***************************************************************************)
(* Whatever earlier runs left behind, running the command again brings     *)
(* every component to the version of the cluster, for good, if the tables  *)
(* have an entry for it (sync.go:139-142).                                 *)
(***************************************************************************)
Converges ==
    FaultsStop => <>[](k8sVersion \in Supported \ Untabled => \A c \in Component : Synced(c, k8sVersion))

(***************************************************************************)
(* A command with --wait succeeds only once all the Pods of what it syncs  *)
(* have been replaced (sync.go:230-231).                                   *)
(***************************************************************************)
WaitedOnSuccess ==
    \A p \in Process :
        (result[p] = "ok" /\ opts[p].wait) => Workload \ opts[p].skip \subseteq rolledOut
=============================================================================
