-------------------------- MODULE SyncComponentsProofs --------------------------
(***************************************************************************)
(* `kubergrunt eks sync-core-components` for any number of overlapping     *)
(* invocations, versions, edits and all faults of module SyncComponents.   *)
(***************************************************************************)
EXTENDS SyncComponents, TLAPS

TypeInv ==
    /\ k8sVersion \in Version
    /\ DOMAIN image = Component
    /\ rolledOut \subseteq Workload
    /\ configMap \in ConfigMap
    /\ clusterRole \in ClusterRole
    /\ at \in [Process -> Step]
    /\ DOMAIN opts = Process
    /\ DOMAIN version = Process
    /\ DOMAIN read = Process
    /\ result \in [Process -> {"none", "ok", "error"}]

Finished(p) == at[p] = "idle" /\ result[p] = "ok"

(* The run of p under way, or the one that succeeded, has dealt with c. *)
Past(p, c) ==
    /\ c \notin opts[p].skip
    /\ \/ Finished(p)
       \/ c = "kube-proxy" /\ at[p] \notin {"idle", "lookup", "proxy", "proxyPatch"}
       \/ c = "coredns" /\ at[p] \in {"corednsWait", "vpcCNI"}

(* What all the invocations agree on is deployed: the last one to pass a   *)
(* component set it or found it so, and no other touched it since.         *)
Agreed ==
    \A c \in Component, v \in Supported :
        (\A p \in Process : Past(p, c) /\ version[p] = v) => image[c] = Target(v)

(* The run has dealt with both objects, and turns to the image. *)
Configures(p) == at[p] \in {"coredns", "corednsPatch"}

(* The ConfigMap and the ClusterRole are only ever improved, and in order. *)
Configured ==
    /\ \A p \in Process :
          /\ at[p] \in {"getClusterRole", "updateClusterRole"} => configMap.upstream # "line"
          /\ Configures(p) => configMap.upstream # "line" /\ clusterRole.verbs = Verb
          /\ Past(p, "coredns") => configMap.upstream # "line" /\ clusterRole.verbs = Verb
    /\ image["coredns"] # Initial => configMap.upstream # "line" /\ clusterRole.verbs = Verb

(* A form of "upstream" that the code does not know is not added. *)
KnownForm == Upstream \subseteq {"none", "line"} => configMap.upstream \in {"none", "line"}

SyncInv == TypeInv /\ Agreed /\ Configured /\ KnownForm

-----------------------------------------------------------------------------
LEMMA InitSyncInv == Process # {} /\ Init => SyncInv
<1> SUFFICES ASSUME Process # {}, Init PROVE SyncInv
  OBVIOUS
<1>1. TypeInv
  BY DEF Init, TypeInv, Step, Workload
<1>2. \A p \in Process, c \in Component : ~Past(p, c)
  BY DEF Init, Past, Finished
<1>3. Agreed /\ Configured /\ KnownForm
  BY <1>2 DEF Init, Agreed, Configured, Configures, KnownForm, Component
<1> QED BY <1>1, <1>3 DEF SyncInv

(* What is sent back is what was fetched, but for the field that changes. *)
LEMMA Updates ==
  ASSUME TypeInv, NEW p \in Process
  PROVE  /\ UpdateConfigMap(p) =>
               /\ configMap' \in ConfigMap /\ configMap'.edits = configMap.edits
               /\ \/ configMap' = configMap /\ Return(p, "error")
                  \/ configMap'.upstream = RemoveUpstream(configMap.upstream) /\ Saved(p, "getClusterRole")
         /\ UpdateClusterRole(p) =>
               /\ clusterRole' \in ClusterRole /\ clusterRole'.edits = clusterRole.edits
               /\ \/ clusterRole' = clusterRole /\ Return(p, "error")
                  \/ clusterRole'.verbs = Verb /\ Saved(p, "coredns")
<1> USE DEF TypeInv
<1>1. ASSUME UpdateConfigMap(p), Unchanged(p, configMap),
             configMap' = [read[p] EXCEPT !.upstream = RemoveUpstream(@)]
      PROVE  /\ configMap' \in ConfigMap /\ configMap'.edits = configMap.edits
             /\ configMap'.upstream = RemoveUpstream(configMap.upstream)
  BY <1>1 DEF Unchanged, ConfigMap, RemoveUpstream
<1>2. ASSUME UpdateClusterRole(p), Unchanged(p, clusterRole),
             clusterRole' = [read[p] EXCEPT !.verbs = Verb]
      PROVE  /\ clusterRole' \in ClusterRole /\ clusterRole'.edits = clusterRole.edits
             /\ clusterRole'.verbs = Verb
  BY <1>2 DEF Unchanged, ClusterRole
<1>3. ASSUME UpdateConfigMap(p)
      PROVE  /\ configMap' \in ConfigMap /\ configMap'.edits = configMap.edits
             /\ \/ configMap' = configMap /\ Return(p, "error")
                \/ configMap'.upstream = RemoveUpstream(configMap.upstream) /\ Saved(p, "getClusterRole")
  BY <1>3, <1>1 DEF UpdateConfigMap
<1>4. ASSUME UpdateClusterRole(p)
      PROVE  /\ clusterRole' \in ClusterRole /\ clusterRole'.edits = clusterRole.edits
             /\ \/ clusterRole' = clusterRole /\ Return(p, "error")
                \/ clusterRole'.verbs = Verb /\ Saved(p, "coredns")
  BY <1>4, <1>2 DEF UpdateClusterRole
<1> QED BY <1>3, <1>4

LEMMA Edits ==
  ASSUME TypeInv
  PROVE  /\ EditConfigMap => /\ configMap' \in ConfigMap /\ configMap'.edits > configMap.edits
                             /\ configMap'.upstream = configMap.upstream
         /\ EditClusterRole => /\ clusterRole' \in ClusterRole /\ clusterRole'.edits > clusterRole.edits
                               /\ clusterRole'.verbs = clusterRole.verbs
  BY SyncAssumption DEF TypeInv, EditConfigMap, EditClusterRole, ConfigMap, ClusterRole

LEMMA NextTypeInv == TypeInv /\ [Next]_vars => TypeInv'
<1> SUFFICES ASSUME TypeInv, [Next]_vars PROVE TypeInv'
  OBVIOUS
<1> USE DEF TypeInv
<1>1. ASSUME NEW p \in Process, NEW o \in Options[p], Start(p, o) PROVE TypeInv'
  BY <1>1 DEF Start, clusterVars, Step
<1>2. ASSUME NEW p \in Process, LookupVersions(p) \/ CallFails(p) PROVE TypeInv'
  BY <1>2 DEF LookupVersions, CallFails, Return, clusterVars, Step
<1>3. ASSUME NEW p \in Process,
             UpgradeKubeProxy(p) \/ UpgradeCoreDNS(p) \/ PatchKubeProxy(p) \/ PatchCoreDNS(p)
      PROVE TypeInv'
  BY <1>3 DEF UpgradeKubeProxy, UpgradeCoreDNS, ReadImage, PatchKubeProxy, PatchCoreDNS, UpdateImage,
              PatchImage, Goto, clusterVars, Step
<1>4. ASSUME NEW p \in Process,
             WaitForKubeProxy(p) \/ WaitForCoreDNS(p) \/ SkipKubeProxy(p) \/ SkipCoreDNS(p)
      PROVE TypeInv'
  BY <1>4 DEF WaitForKubeProxy, WaitForCoreDNS, SkipKubeProxy, SkipCoreDNS, RolloutStatus,
              Goto, Return, clusterVars, Step
<1>5. ASSUME NEW p \in Process, GetCorednsConfigMap(p) \/ GetCorednsClusterRole(p) PROVE TypeInv'
  BY <1>5 DEF GetCorednsConfigMap, GetCorednsClusterRole, Fetch, Goto, Return, clusterVars, Step
<1>6. ASSUME NEW p \in Process, UpdateConfigMap(p) PROVE TypeInv'
  <2>1. configMap' \in ConfigMap /\ (Return(p, "error") \/ Saved(p, "getClusterRole"))
    BY <1>6, Updates
  <2> QED BY <1>6, <2>1 DEF UpdateConfigMap, Saved, Return, Step
<1>7. ASSUME NEW p \in Process, UpdateClusterRole(p) PROVE TypeInv'
  <2>1. clusterRole' \in ClusterRole /\ (Return(p, "error") \/ Saved(p, "coredns"))
    BY <1>7, Updates
  <2> QED BY <1>7, <2>1 DEF UpdateClusterRole, Saved, Return, Step
<1>8. ASSUME NEW p \in Process, UpdateVPCCNI(p) \/ ApplyFails(p) PROVE TypeInv'
  BY <1>8 DEF UpdateVPCCNI, ApplyFails, Return, Step
<1>9. ASSUME NEW c \in Workload, RolloutCompletes(c) PROVE TypeInv'
  BY <1>9 DEF RolloutCompletes
<1>10. CASE UpgradeControlPlane
  <2>1. k8sVersion' \in Version
    BY <1>10, SyncAssumption DEF UpgradeControlPlane, Version
  <2> QED BY <1>10, <2>1 DEF UpgradeControlPlane
<1>11. CASE EditConfigMap
  BY <1>11, Edits DEF EditConfigMap
<1>12. CASE EditClusterRole
  BY <1>12, Edits DEF EditClusterRole
<1>13. CASE UNCHANGED vars
  BY <1>13 DEF vars, clusterVars
<1> QED BY <1>1, <1>2, <1>3, <1>4, <1>5, <1>6, <1>7, <1>8, <1>9, <1>10, <1>11, <1>12, <1>13
        DEF Next, Command

(* A step of p passes a component only when it is as p wants it. *)
Passes(p) ==
    /\ \A q \in Process \ {p} : /\ at'[q] = at[q] /\ version'[q] = version[q]
                                /\ result'[q] = result[q] /\ opts'[q] = opts[q]
    /\ \A c \in Component :
          Past(p, c)' => \/ Past(p, c) /\ version'[p] = version[p] /\ image'[c] = image[c]
                         \/ image'[c] = Target(version'[p])

LEMMA PassesAgreed ==
  ASSUME Agreed, NEW p \in Process, Passes(p) PROVE Agreed'
<1> SUFFICES ASSUME NEW c \in Component, NEW v \in Supported,
                    \A q \in Process : Past(q, c)' /\ version'[q] = v
             PROVE  image'[c] = Target(v)
  BY DEF Agreed, Target
<1>1. CASE image'[c] = Target(version'[p])
  BY <1>1
<1>2. CASE Past(p, c) /\ version'[p] = version[p] /\ image'[c] = image[c]
  <2>1. \A q \in Process : Past(q, c) /\ version[q] = v
    BY <1>2 DEF Passes, Past, Finished
  <2> QED BY <1>2, <2>1 DEF Agreed
<1> QED BY <1>1, <1>2 DEF Passes

LEMMA ProcessPasses ==
  ASSUME TypeInv, NEW p \in Process,
         (\E o \in Options[p] : Start(p, o)) \/ Command(p) \/ ApplyFails(p) \/ CallFails(p)
  PROVE  Passes(p)
<1> USE DEF TypeInv, Passes, Past, Finished, Step
<1>1. ASSUME NEW o \in Options[p], Start(p, o) PROVE Passes(p)
  BY <1>1 DEF Start, clusterVars
<1>2. ASSUME Return(p, "error"), opts' = opts PROVE Passes(p)
  BY <1>2 DEF Return
<1>3. CASE LookupVersions(p)
  BY <1>3, <1>2 DEF LookupVersions
<1>4. CASE UpgradeKubeProxy(p) \/ UpgradeCoreDNS(p)
  <2>1. /\ version' = version /\ image' = image /\ opts' = opts /\ result' = result
        /\ \A q \in Process \ {p} : at'[q] = at[q]
    BY <1>4 DEF UpgradeKubeProxy, UpgradeCoreDNS, ReadImage, Goto, clusterVars
  <2>2. \A c \in Component : Past(p, c)' => Past(p, c) \/ image[c] = Target(version[p])
    BY <1>4 DEF UpgradeKubeProxy, UpgradeCoreDNS, ReadImage, UpToDate, Goto
  <2> QED BY <2>1, <2>2
<1>5. CASE PatchKubeProxy(p) \/ PatchCoreDNS(p)
  <2>1. /\ version' = version /\ opts' = opts /\ result' = result
        /\ \A q \in Process \ {p} : at'[q] = at[q]
    BY <1>5 DEF PatchKubeProxy, PatchCoreDNS, UpdateImage, Goto
  <2>2. CASE PatchKubeProxy(p)
    <3>1. image'["kube-proxy"] = Target(version'[p])
      BY <2>1, <2>2 DEF PatchKubeProxy, UpdateImage, PatchImage, Component
    <3>2. \A c \in Component : Past(p, c)' => c = "kube-proxy"
      BY <2>2 DEF PatchKubeProxy, UpdateImage, Goto
    <3> QED BY <2>1, <3>1, <3>2
  <2>3. CASE PatchCoreDNS(p)
    <3>1. image'["coredns"] = Target(version'[p]) /\ image'["kube-proxy"] = image["kube-proxy"]
      BY <2>1, <2>3 DEF PatchCoreDNS, UpdateImage, PatchImage, Component
    <3>2. \A c \in Component : Past(p, c)' => c = "coredns" \/ (c = "kube-proxy" /\ Past(p, c))
      BY <2>3 DEF PatchCoreDNS, UpdateImage, Goto
    <3> QED BY <2>1, <3>1, <3>2
  <2> QED BY <1>5, <2>2, <2>3
<1>6. CASE WaitForKubeProxy(p) \/ WaitForCoreDNS(p)
  <2>1. CASE Return(p, "error")
    BY <1>6, <2>1, <1>2 DEF WaitForKubeProxy, WaitForCoreDNS, RolloutStatus
  <2>2. CASE ~Return(p, "error")
    BY <1>6, <2>2 DEF WaitForKubeProxy, WaitForCoreDNS, RolloutStatus, Goto, clusterVars
  <2> QED BY <2>1, <2>2
<1>7. CASE SkipKubeProxy(p) \/ SkipCoreDNS(p)
  BY <1>7 DEF SkipKubeProxy, SkipCoreDNS, Goto, clusterVars
<1>8. CASE GetCorednsConfigMap(p)
  <2>1. CASE Return(p, "error")
    BY <1>8, <2>1, <1>2 DEF GetCorednsConfigMap
  <2>2. CASE ~Return(p, "error")
    BY <1>8, <2>2 DEF GetCorednsConfigMap, Goto, Fetch, clusterVars
  <2> QED BY <2>1, <2>2
<1>9. CASE GetCorednsClusterRole(p)
  BY <1>9 DEF GetCorednsClusterRole, Goto, Fetch, clusterVars
<1>10. CASE UpdateConfigMap(p)
  <2>1. CASE Return(p, "error")
    BY <1>10, <2>1, <1>2 DEF UpdateConfigMap
  <2>2. CASE Saved(p, "getClusterRole")
    BY <1>10, <2>2 DEF UpdateConfigMap, Saved
  <2> QED BY <1>10, <2>1, <2>2, Updates
<1>11. CASE UpdateClusterRole(p)
  <2>1. CASE Return(p, "error")
    BY <1>11, <2>1, <1>2 DEF UpdateClusterRole
  <2>2. CASE Saved(p, "coredns")
    BY <1>11, <2>2 DEF UpdateClusterRole, Saved
  <2> QED BY <1>11, <2>1, <2>2, Updates
<1>12. CASE UpdateVPCCNI(p)
  <2>1. CASE Return(p, "error")
    BY <1>12, <2>1, <1>2 DEF UpdateVPCCNI
  <2>2. CASE Return(p, "ok")
    <3>1. /\ at[p] = "vpcCNI" /\ version' = version /\ opts' = opts
          /\ image'["kube-proxy"] = image["kube-proxy"] /\ image'["coredns"] = image["coredns"]
      BY <1>12, <2>2 DEF UpdateVPCCNI, Return, Component
    <3>2. \/ "aws-vpc-cni" \in opts[p].skip
          \/ version[p] \notin Untabled /\ image'["aws-vpc-cni"] = version[p]
      BY <1>12, <2>2 DEF UpdateVPCCNI, Return, Component
    <3> QED BY <2>2, <3>1, <3>2 DEF Return, Component, Target
  <2> QED BY <1>12, <2>1, <2>2 DEF UpdateVPCCNI
<1>13. CASE ApplyFails(p) \/ CallFails(p)
  BY <1>13, <1>2 DEF ApplyFails, CallFails
<1> QED BY <1>1, <1>3, <1>4, <1>5, <1>6, <1>7, <1>8, <1>9, <1>10, <1>11, <1>12, <1>13 DEF Command

LEMMA NextAgreed == SyncInv /\ [Next]_vars => Agreed'
<1> SUFFICES ASSUME SyncInv, [Next]_vars PROVE Agreed'
  OBVIOUS
<1>1. ASSUME NEW p \in Process,
             (\E o \in Options[p] : Start(p, o)) \/ Command(p) \/ ApplyFails(p) \/ CallFails(p)
      PROVE Agreed'
  BY <1>1, ProcessPasses, PassesAgreed DEF SyncInv
<1>2. ASSUME UNCHANGED <<image, at, opts, version, result>> PROVE Agreed'
  BY <1>2 DEF SyncInv, Agreed, Past, Finished, Target
<1> QED BY <1>1, <1>2 DEF Next, RolloutCompletes, UpgradeControlPlane, EditConfigMap, EditClusterRole,
                          vars, clusterVars

(* Nobody makes the configuration worse. *)
LEMMA Improves ==
  ASSUME TypeInv, [Next]_vars
  PROVE  /\ configMap'.upstream \in {configMap.upstream, RemoveUpstream(configMap.upstream)}
         /\ clusterRole'.verbs \in {clusterRole.verbs, Verb}
<1> DEFINE Better == /\ configMap'.upstream \in {configMap.upstream, RemoveUpstream(configMap.upstream)}
                     /\ clusterRole'.verbs \in {clusterRole.verbs, Verb}
<1>1. ASSUME NEW p \in Process, UpdateConfigMap(p) PROVE Better
  BY <1>1, Updates DEF UpdateConfigMap
<1>2. ASSUME NEW p \in Process, UpdateClusterRole(p) PROVE Better
  BY <1>2, Updates DEF UpdateClusterRole
<1>3. CASE EditConfigMap \/ EditClusterRole
  BY <1>3, Edits DEF EditConfigMap, EditClusterRole
<1>4. CASE UNCHANGED <<configMap, clusterRole>>
  BY <1>4
<1> QED BY <1>1, <1>2, <1>3, <1>4
        DEF Next, Command, Start, LookupVersions, CallFails, UpgradeKubeProxy, UpgradeCoreDNS,
            ReadImage, PatchKubeProxy, PatchCoreDNS, UpdateImage, PatchImage, WaitForKubeProxy, WaitForCoreDNS, RolloutStatus, SkipKubeProxy,
            SkipCoreDNS, GetCorednsConfigMap, GetCorednsClusterRole, UpdateVPCCNI, ApplyFails,
            RolloutCompletes, UpgradeControlPlane, vars, clusterVars

(* The steps of one run, in this order. *)
LEMMA StepConfigured ==
  ASSUME SyncInv, NEW p \in Process, Command(p)
  PROVE  /\ at'[p] \in {"getClusterRole", "updateClusterRole"} => configMap'.upstream # "line"
         /\ Configures(p)' => configMap'.upstream # "line" /\ clusterRole'.verbs = Verb
         /\ Past(p, "coredns")' => Past(p, "coredns") \/ Configures(p)
<1>t. TypeInv /\ Configured
  BY DEF SyncInv
<1> USE <1>t DEF TypeInv, Configured, Configures, Past, Finished
<1>1. CASE LookupVersions(p)
  BY <1>1 DEF LookupVersions, Return
<1>2. CASE UpgradeKubeProxy(p) \/ UpgradeCoreDNS(p)
  BY <1>2 DEF UpgradeKubeProxy, UpgradeCoreDNS, ReadImage, Goto, clusterVars
<1>10. CASE PatchKubeProxy(p) \/ PatchCoreDNS(p)
  BY <1>10 DEF PatchKubeProxy, PatchCoreDNS, UpdateImage, Goto
<1>3. CASE WaitForKubeProxy(p) \/ WaitForCoreDNS(p)
  BY <1>3 DEF WaitForKubeProxy, WaitForCoreDNS, RolloutStatus, Goto, Return
<1>4. CASE SkipKubeProxy(p) \/ SkipCoreDNS(p)
  BY <1>4 DEF SkipKubeProxy, SkipCoreDNS, Goto
<1>5. CASE GetCorednsConfigMap(p)
  BY <1>5 DEF GetCorednsConfigMap, Goto, Fetch, Return, clusterVars
<1>6. CASE GetCorednsClusterRole(p)
  BY <1>6 DEF GetCorednsClusterRole, HasEndpointSlicesPermissions, Goto, Fetch, clusterVars
<1>7. CASE UpdateConfigMap(p)
  <2>1. \/ Return(p, "error")
        \/ configMap'.upstream # "line" /\ Saved(p, "getClusterRole")
    BY <1>7, Updates DEF RemoveUpstream
  <2> QED BY <1>7, <2>1 DEF UpdateConfigMap, Return, Saved
<1>8. CASE UpdateClusterRole(p)
  <2>1. \/ Return(p, "error")
        \/ clusterRole'.verbs = Verb /\ Saved(p, "coredns")
    BY <1>8, Updates
  <2>2. configMap' = configMap /\ at[p] = "updateClusterRole" /\ opts' = opts
    BY <1>8 DEF UpdateClusterRole
  <2> QED BY <2>1, <2>2 DEF Return, Saved
<1>9. CASE UpdateVPCCNI(p)
  BY <1>9 DEF UpdateVPCCNI, Return
<1> QED BY <1>1, <1>2, <1>3, <1>4, <1>5, <1>6, <1>7, <1>8, <1>9, <1>10 DEF Command

LEMMA NextConfigured == SyncInv /\ [Next]_vars => Configured'
<1> SUFFICES ASSUME SyncInv, [Next]_vars PROVE Configured'
  OBVIOUS
<1>t. TypeInv /\ Configured
  BY DEF SyncInv
<1>i. /\ configMap.upstream # "line" => configMap'.upstream # "line"
      /\ clusterRole.verbs = Verb => clusterRole'.verbs = Verb
  BY Improves, <1>t DEF RemoveUpstream
<1>s. ASSUME UNCHANGED <<image, at, opts, result>> PROVE Configured'
  BY <1>s, <1>i, <1>t DEF Configured, Configures, Past, Finished
(* A run that starts or fails has no claim. *)
<1>r. ASSUME NEW p \in Process, image'["coredns"] = image["coredns"],
             at'[p] = "lookup" \/ (at'[p] = "idle" /\ result'[p] = "error"),
             \A q \in Process \ {p} : at'[q] = at[q] /\ result'[q] = result[q] /\ opts'[q] = opts[q]
      PROVE Configured'
  BY <1>r, <1>i, <1>t DEF Configured, Configures, Past, Finished
<1>1. ASSUME NEW p \in Process, NEW o \in Options[p], Start(p, o) PROVE Configured'
  BY <1>1, <1>t, <1>r DEF Start, clusterVars, TypeInv
<1>2. ASSUME NEW p \in Process, CallFails(p) \/ ApplyFails(p) PROVE Configured'
  <2>1. image'["coredns"] = image["coredns"] /\ Return(p, "error") /\ opts' = opts
    BY <1>2, <1>t DEF CallFails, ApplyFails, clusterVars, TypeInv, Component
  <2> QED BY <2>1, <1>t, <1>r DEF Return, TypeInv
<1>3. ASSUME NEW p \in Process, Command(p) PROVE Configured'
  <2>1. \A q \in Process \ {p} : at'[q] = at[q] /\ result'[q] = result[q] /\ opts'[q] = opts[q]
    BY <1>3, <1>t, ProcessPasses DEF Passes
  <2>2. image'["coredns"] = image["coredns"] \/ Configures(p)
    BY <1>3, <1>t DEF Command, LookupVersions, UpgradeKubeProxy, UpgradeCoreDNS, ReadImage, PatchKubeProxy,
                      PatchCoreDNS, UpdateImage, PatchImage, Configures,
                      WaitForKubeProxy, WaitForCoreDNS, RolloutStatus, SkipKubeProxy, SkipCoreDNS,
                      GetCorednsConfigMap, GetCorednsClusterRole, UpdateConfigMap, UpdateClusterRole,
                      UpdateVPCCNI, clusterVars, TypeInv, Component
  <2>3. Configures(p) => configMap'.upstream # "line" /\ clusterRole'.verbs = Verb
    BY <1>i, <1>t DEF Configured
  <2>4. /\ at'[p] \in {"getClusterRole", "updateClusterRole"} => configMap'.upstream # "line"
        /\ Configures(p)' => configMap'.upstream # "line" /\ clusterRole'.verbs = Verb
        /\ Past(p, "coredns")' => configMap'.upstream # "line" /\ clusterRole'.verbs = Verb
    BY <1>3, <1>i, <1>t, <2>3, StepConfigured DEF Configured
  <2> QED BY <1>i, <1>t, <2>1, <2>2, <2>3, <2>4 DEF Configured, Configures, Past, Finished
<1> QED BY <1>1, <1>2, <1>3, <1>s DEF Next, RolloutCompletes, UpgradeControlPlane, EditConfigMap,
                                   EditClusterRole, vars, clusterVars

LEMMA SyncInvariant == Process # {} => (Spec => []SyncInv)
<1> SUFFICES ASSUME Process # {} PROVE Spec => []SyncInv
  OBVIOUS
<1>1. SyncInv /\ [Next]_vars => SyncInv'
  <2> SUFFICES ASSUME SyncInv, [Next]_vars PROVE KnownForm'
    BY NextTypeInv, NextAgreed, NextConfigured DEF SyncInv
  <2> QED BY Improves DEF SyncInv, KnownForm, RemoveUpstream
<1> QED BY <1>1, InitSyncInv, PTL DEF Spec

(***************************************************************************)
(* When the last runs of all the invocations succeeded for one version,    *)
(* what none of them skipped is deployed as that version asks for, however *)
(* they overlapped, failed or were repeated (sync.go:130-142).             *)
(***************************************************************************)
THEOREM SuccessMeansSynced == Process # {} => (Spec => []SyncedOnSuccess)
<1> SUFFICES ASSUME Process # {} PROVE Spec => []SyncedOnSuccess
  OBVIOUS
<1>1. ASSUME SyncInv, \A p \in Process : at[p] = "idle" \/ result[p] # "ok" PROVE SyncedOnSuccess
  <2> SUFFICES ASSUME NEW v \in Supported, \A p \in Process : result[p] = "ok" /\ version[p] = v,
                      NEW c \in Component, \A p \in Process : c \notin opts[p].skip
               PROVE  Synced(c, v)
    BY DEF SyncedOnSuccess
  <2>1. \A p \in Process : Past(p, c)
    BY <1>1 DEF Past, Finished
  <2>2. image[c] = Target(v)
    BY <1>1, <2>1 DEF SyncInv, Agreed
  <2> QED BY <1>1, <2>1, <2>2 DEF SyncInv, Configured, Synced
(* A result is there from the end of one run to the start of the next. *)
<1> DEFINE Idle == \A p \in Process : at[p] = "idle" \/ result[p] # "ok"
<1>2. Init => Idle
  BY DEF Init
<1>3. SyncInv /\ Idle /\ [Next]_vars => Idle'
  <2> SUFFICES ASSUME SyncInv, Idle, [Next]_vars PROVE Idle'
    OBVIOUS
  <2>t. TypeInv
    BY DEF SyncInv
  <2>1. ASSUME NEW p \in Process, NEW o \in Options[p], Start(p, o) PROVE Idle'
    BY <2>1, <2>t DEF Start, TypeInv
  <2>2. ASSUME NEW p \in Process, Command(p) \/ ApplyFails(p) \/ CallFails(p) PROVE Idle'
    <3>1. at[p] # "idle" /\ ((at'[p] = "idle" /\ at' = [at EXCEPT ![p] = "idle"]) \/ result' = result)
      BY <2>2, <2>t DEF Command, LookupVersions, UpgradeKubeProxy, UpgradeCoreDNS, ReadImage,
             PatchKubeProxy, PatchCoreDNS, UpdateImage,
             WaitForKubeProxy, WaitForCoreDNS, RolloutStatus, SkipKubeProxy, SkipCoreDNS,
             GetCorednsConfigMap, GetCorednsClusterRole, UpdateConfigMap, UpdateClusterRole, UpdateVPCCNI,
             ApplyFails, CallFails, Return, Goto, Fetch, Saved, TypeInv
    <3>2. \A q \in Process \ {p} : at'[q] = at[q] /\ result'[q] = result[q]
      BY <2>2, <2>t, ProcessPasses DEF Passes
    <3> QED BY <3>1, <3>2
  <2>3. CASE UNCHANGED <<at, result>>
    BY <2>3
  <2> QED BY <2>1, <2>2, <2>3 DEF Next, RolloutCompletes, UpgradeControlPlane, EditConfigMap,
                                   EditClusterRole, vars, clusterVars
<1> HIDE DEF Idle
<1>4. SyncInv /\ Idle => SyncedOnSuccess
  BY <1>1 DEF Idle
<1> QED BY <1>2, <1>3, <1>4, SyncInvariant, PTL DEF Spec

(***************************************************************************)
(* No CoreDNS image reaches a configuration or a role it cannot work with, *)
(* if "upstream" has one of the forms the code looks for                   *)
(* (sync.go:324-351).                                                      *)
(***************************************************************************)
THEOREM ConfiguredBeforeImage ==
  Process # {} /\ Upstream \subseteq {"none", "line"} => (Spec => []CoreDNSCompatible)
<1> SUFFICES ASSUME Process # {}, Upstream \subseteq {"none", "line"} PROVE Spec => []CoreDNSCompatible
  OBVIOUS
<1>1. SyncInv => CoreDNSCompatible
  BY DEF SyncInv, Configured, KnownForm, CoreDNSCompatible
<1> QED BY <1>1, SyncInvariant, PTL

(***************************************************************************)
(* No save of a fetched object undoes an edit (sync.go:436, sync.go:634).  *)
(***************************************************************************)
THEOREM EditsKept == Spec => NoLostEdits
<1> DEFINE Keeps == configMap'.edits >= configMap.edits /\ clusterRole'.edits >= clusterRole.edits
<1>1. TypeInv /\ [Next]_vars => [Keeps]_vars
  <2> SUFFICES ASSUME TypeInv, Next PROVE Keeps
    OBVIOUS
  <2>t. configMap.edits \in Int /\ clusterRole.edits \in Int
    BY SyncAssumption DEF TypeInv, ConfigMap, ClusterRole
  <2>1. ASSUME NEW p \in Process, UpdateConfigMap(p) PROVE Keeps
    BY <2>1, <2>t, Updates DEF UpdateConfigMap
  <2>2. ASSUME NEW p \in Process, UpdateClusterRole(p) PROVE Keeps
    BY <2>2, <2>t, Updates DEF UpdateClusterRole
  <2>3. CASE EditConfigMap \/ EditClusterRole
    <3>1. configMap'.edits \in Int /\ clusterRole'.edits \in Int
      BY <2>3, <2>t, Edits, SyncAssumption DEF EditConfigMap, EditClusterRole, ConfigMap, ClusterRole
    <3> QED BY <2>3, <2>t, <3>1, Edits DEF EditConfigMap, EditClusterRole
  <2>4. CASE UNCHANGED <<configMap, clusterRole>>
    BY <2>4, <2>t
  <2> QED BY <2>1, <2>2, <2>3, <2>4
          DEF Next, Command, Start, LookupVersions, CallFails, UpgradeKubeProxy, UpgradeCoreDNS,
              ReadImage, PatchKubeProxy, PatchCoreDNS, UpdateImage, PatchImage, WaitForKubeProxy, WaitForCoreDNS, RolloutStatus, SkipKubeProxy,
              SkipCoreDNS, GetCorednsConfigMap, GetCorednsClusterRole, UpdateVPCCNI, ApplyFails,
              RolloutCompletes, UpgradeControlPlane, clusterVars
<1>2. Init => TypeInv
  BY DEF Init, TypeInv, Step, Workload
<1> QED BY <1>1, <1>2, NextTypeInv, PTL DEF Spec, NoLostEdits

-----------------------------------------------------------------------------
(* What was read of the control plane, and what is deployed, is never of a *)
(* later version than the control plane is.                                *)
Behind ==
    /\ k8sVersion \in Nat
    /\ \A p \in Process : version[p] \in 0 .. k8sVersion
    /\ \A c \in Component : image[c] \in Int /\ image[c] <= k8sVersion

(* Invocations that do not overlap, or a control plane that stays as it is. *)
InTurn == (\A p, q \in Process : p = q) \/ "upgrade" \notin Fault

AtWork(p) == at[p] \notin {"idle", "lookup"}

(* Nothing is deployed that an invocation at work takes for outdated       *)
(* although it is newer.                                                   *)
Current ==
    \A p \in Process :
        AtWork(p) => /\ "upgrade" \notin Fault => version[p] = k8sVersion
                     /\ \A c \in Component : image[c] <= version[p]

(* What a step of one invocation does to the versions.                     *)
Deploys(p) ==
    /\ k8sVersion' = k8sVersion
    /\ \A q \in Process \ {p} : at'[q] = at[q] /\ version'[q] = version[q]
    /\ \/ version'[p] = version[p] /\ (AtWork(p)' => AtWork(p))
       \/ version'[p] = Initial /\ ~AtWork(p)'
       \/ version'[p] = k8sVersion /\ UNCHANGED image
    /\ \A c \in Component :
          image'[c] = image[c] \/ (AtWork(p) /\ image'[c] \in {version[p], NoTag, Partial})

LEMMA ProcessDeploys ==
  ASSUME TypeInv, NEW p \in Process,
         (\E o \in Options[p] : Start(p, o)) \/ Command(p) \/ ApplyFails(p) \/ CallFails(p)
  PROVE  Deploys(p)
<1> USE DEF TypeInv, Deploys, AtWork
<1>1. ASSUME NEW o \in Options[p], Start(p, o) PROVE Deploys(p)
  BY <1>1 DEF Start, clusterVars
<1>2. CASE LookupVersions(p) \/ CallFails(p)
  BY <1>2 DEF LookupVersions, CallFails, Return, clusterVars
<1>3. CASE PatchKubeProxy(p) \/ PatchCoreDNS(p)
  <2>1. /\ at[p] \in {"proxyPatch", "corednsPatch"} /\ version' = version /\ k8sVersion' = k8sVersion
        /\ \A q \in Process \ {p} : at'[q] = at[q]
    BY <1>3 DEF PatchKubeProxy, PatchCoreDNS, UpdateImage, PatchImage, Goto
  <2>2. \A c \in Component : image'[c] = image[c] \/ image'[c] = Target(version[p])
    BY <1>3 DEF PatchKubeProxy, PatchCoreDNS, UpdateImage, PatchImage
  <2> QED BY <2>1, <2>2 DEF Target
<1>8. CASE UpgradeKubeProxy(p) \/ UpgradeCoreDNS(p)
  BY <1>8 DEF UpgradeKubeProxy, UpgradeCoreDNS, ReadImage, Goto, clusterVars
<1>4. CASE WaitForKubeProxy(p) \/ WaitForCoreDNS(p) \/ SkipKubeProxy(p) \/ SkipCoreDNS(p)
  BY <1>4 DEF WaitForKubeProxy, WaitForCoreDNS, SkipKubeProxy, SkipCoreDNS, RolloutStatus,
              Goto, Return, clusterVars
<1>5. CASE GetCorednsConfigMap(p) \/ GetCorednsClusterRole(p)
  BY <1>5 DEF GetCorednsConfigMap, GetCorednsClusterRole, Fetch, Goto, Return, clusterVars
<1>6. CASE UpdateConfigMap(p) \/ UpdateClusterRole(p)
  BY <1>6 DEF UpdateConfigMap, UpdateClusterRole, Saved, Return
<1>7. CASE UpdateVPCCNI(p) \/ ApplyFails(p)
  <2>1. /\ at[p] = "vpcCNI" /\ k8sVersion' = k8sVersion /\ (Return(p, "ok") \/ Return(p, "error"))
        /\ \A c \in Component : image'[c] \in {image[c], version[p], Partial}
    BY <1>7 DEF UpdateVPCCNI, ApplyFails
  <2> QED BY <2>1 DEF Return
<1> QED BY <1>1, <1>2, <1>3, <1>4, <1>5, <1>6, <1>7, <1>8 DEF Command

LEMMA WorldDeploysNothing ==
  ASSUME \/ \E c \in Workload : RolloutCompletes(c)
         \/ UpgradeControlPlane \/ EditConfigMap \/ EditClusterRole \/ UNCHANGED vars
  PROVE  /\ UNCHANGED <<image, at, version>>
         /\ k8sVersion' = k8sVersion \/ ("upgrade" \in Fault /\ k8sVersion' = k8sVersion + 1)
  BY DEF RolloutCompletes, UpgradeControlPlane, EditConfigMap, EditClusterRole, vars, clusterVars

LEMMA NextBehind == TypeInv /\ Behind /\ [Next]_vars => Behind'
<1> SUFFICES ASSUME TypeInv, Behind, [Next]_vars PROVE Behind'
  OBVIOUS
<1> USE DEF Behind, Initial, NoTag, Partial
<1>1. ASSUME NEW p \in Process, Deploys(p) PROVE Behind'
  BY <1>1 DEF Deploys
<1>2. CASE \/ \E c \in Workload : RolloutCompletes(c)
           \/ UpgradeControlPlane \/ EditConfigMap \/ EditClusterRole \/ UNCHANGED vars
  <2>1. UNCHANGED <<image, version>> /\ k8sVersion' \in {k8sVersion, k8sVersion + 1}
    BY <1>2, WorldDeploysNothing
  <2> QED BY <2>1
<1> QED BY <1>1, <1>2, ProcessDeploys DEF Next

LEMMA NextCurrent == InTurn /\ TypeInv /\ Behind /\ Current /\ [Next]_vars => Current'
<1> SUFFICES ASSUME InTurn, TypeInv, Behind, Current, [Next]_vars PROVE Current'
  OBVIOUS
<1>b. Behind'
  BY NextBehind
<1> USE DEF Behind, Initial, NoTag, Partial
<1>1. ASSUME NEW p \in Process, Deploys(p), NEW q \in Process, AtWork(q)'
      PROVE  /\ "upgrade" \notin Fault => version'[q] = k8sVersion'
             /\ \A c \in Component : image'[c] <= version'[q]
  <2>1. CASE q # p
    <3>1. "upgrade" \notin Fault /\ AtWork(q) /\ version'[q] = version[q]
      BY <1>1, <2>1 DEF InTurn, Deploys, AtWork
    <3> QED BY <1>1, <1>b, <3>1 DEF Current, Deploys
  <2>2. CASE q = p
    <3>1. \/ version'[p] = version[p] /\ AtWork(p)
          \/ version'[p] = k8sVersion /\ k8sVersion' = k8sVersion
      BY <1>1, <2>2 DEF Deploys
    <3> QED BY <1>1, <1>b, <2>2, <3>1 DEF Current, Deploys
  <2> QED BY <2>1, <2>2
<1>2. CASE \/ \E c \in Workload : RolloutCompletes(c)
           \/ UpgradeControlPlane \/ EditConfigMap \/ EditClusterRole \/ UNCHANGED vars
  BY <1>2, WorldDeploysNothing DEF Current, AtWork
<1> QED BY <1>1, <1>2, ProcessDeploys DEF Next, Current

LEMMA InitVersions == Init => TypeInv /\ Behind /\ Current
<1> SUFFICES ASSUME Init PROVE TypeInv /\ Behind /\ Current
  OBVIOUS
<1>1. TypeInv
  BY DEF Init, TypeInv, Step, Workload
<1>2. Behind /\ Current
  BY SyncAssumption DEF Init, Behind, Current, AtWork, Version, Initial
<1> QED BY <1>1, <1>2

(***************************************************************************)
(* No component is ever deployed for a later version than that of the      *)
(* control plane, which is read once and may be upgraded before it is used *)
(* (sync.go:152-183).                                                      *)
(***************************************************************************)
NeverAhead == \A c \in Component : image[c] <= k8sVersion

THEOREM ControlPlaneFirst == Spec => []NeverAhead
<1>1. Behind => NeverAhead
  BY DEF Behind, NeverAhead
<1> QED BY <1>1, InitVersions, NextTypeInv, NextBehind, PTL DEF Spec

(***************************************************************************)
(* Invocations that do not overlap, or between upgrades of the control     *)
(* plane, never replace a component by that of an earlier version, however *)
(* many of them fail; only a version without a build, or a manifest        *)
(* applied in part, takes a component back (sync.go:232-387).              *)
(***************************************************************************)
NeverBack == [][\A c \in Component : image'[c] >= image[c] \/ image'[c] \in {NoTag, Partial}]_vars

THEOREM NothingDowngraded == InTurn => (Spec => NeverBack)
<1> SUFFICES ASSUME InTurn PROVE Spec => NeverBack
  OBVIOUS
<1> DEFINE Keeps == \A c \in Component : image'[c] >= image[c] \/ image'[c] \in {NoTag, Partial}
<1>1. TypeInv /\ Behind /\ Current /\ [Next]_vars => [Keeps]_vars
  <2> SUFFICES ASSUME TypeInv, Behind, Current, Next PROVE Keeps
    OBVIOUS
  <2>1. ASSUME NEW p \in Process, Deploys(p) PROVE Keeps
    BY <2>1 DEF Deploys, Behind, Current
  <2>2. CASE image' = image
    BY <2>2 DEF Behind
  <2> QED BY <2>1, <2>2, ProcessDeploys, WorldDeploysNothing DEF Next
<1>2. TypeInv /\ Behind /\ Current /\ [Next]_vars => (TypeInv /\ Behind /\ Current)'
  BY NextTypeInv, NextBehind, NextCurrent
<1> QED BY <1>1, <1>2, InitVersions, PTL DEF Spec, NeverBack

-----------------------------------------------------------------------------
(* Invocations one after the other, all of them with --wait.               *)
OneByOne == \A p, q \in Process : p = q
AllWait == \A p \in Process : \A o \in Options[p] : o.wait

(* No invocation fails: no call, and no wait by its timeout.               *)
NoneFails == [][\A p \in Process : result'[p] # "error"]_vars

(* Pods that are still to be replaced are being waited for.                *)
Awaited ==
    \A p \in Process :
        /\ opts[p].wait
        /\ result[p] = "ok" => at[p] = "idle"
        /\ at[p] # "proxyWait" => "kube-proxy" \in rolledOut
        /\ at[p] # "corednsWait" => "coredns" \in rolledOut

LEMMA NextAwaited ==
  ASSUME OneByOne, AllWait, TypeInv, Awaited, Next, \A p \in Process : result'[p] # "error"
  PROVE  Awaited'
<1> USE DEF TypeInv, Awaited
<1>1. ASSUME NEW p \in Process
      PROVE  ~Return(p, "error")
  BY <1>1 DEF Return
<1>2. ASSUME NEW p \in Process, NEW o \in Options[p], Start(p, o) PROVE Awaited'
  BY <1>2 DEF Start, AllWait, clusterVars, OneByOne
<1>3. ASSUME NEW p \in Process, LookupVersions(p) PROVE Awaited'
  BY <1>1, <1>3 DEF LookupVersions, clusterVars, OneByOne
<1>4. ASSUME NEW p \in Process, UpgradeKubeProxy(p) \/ UpgradeCoreDNS(p) PROVE Awaited'
  BY <1>4 DEF UpgradeKubeProxy, UpgradeCoreDNS, ReadImage, Goto, clusterVars, OneByOne
<1>5. ASSUME NEW p \in Process, PatchKubeProxy(p) \/ PatchCoreDNS(p) PROVE Awaited'
  BY <1>5 DEF PatchKubeProxy, PatchCoreDNS, UpdateImage, PatchImage, Goto, OneByOne
<1>6. ASSUME NEW p \in Process, WaitForKubeProxy(p) \/ WaitForCoreDNS(p) PROVE Awaited'
  BY <1>1, <1>6 DEF WaitForKubeProxy, WaitForCoreDNS, RolloutStatus, Goto, clusterVars, OneByOne
<1>7. ASSUME NEW p \in Process, SkipKubeProxy(p) \/ SkipCoreDNS(p) PROVE Awaited'
  BY <1>7 DEF SkipKubeProxy, SkipCoreDNS, Goto, clusterVars, OneByOne
<1>8. ASSUME NEW p \in Process, GetCorednsConfigMap(p) \/ GetCorednsClusterRole(p) PROVE Awaited'
  BY <1>1, <1>8 DEF GetCorednsConfigMap, GetCorednsClusterRole, Fetch, Goto, clusterVars, OneByOne
<1>9. ASSUME NEW p \in Process, UpdateConfigMap(p) \/ UpdateClusterRole(p) PROVE Awaited'
  BY <1>1, <1>9 DEF UpdateConfigMap, UpdateClusterRole, Saved, OneByOne
<1>10. ASSUME NEW p \in Process, UpdateVPCCNI(p) PROVE Awaited'
  BY <1>1, <1>10 DEF UpdateVPCCNI, Return, OneByOne
<1>11. ASSUME NEW p \in Process PROVE ~ApplyFails(p) /\ ~CallFails(p)
  BY <1>1 DEF ApplyFails, CallFails
<1>12. ASSUME NEW c \in Workload, RolloutCompletes(c) PROVE Awaited'
  BY <1>12 DEF RolloutCompletes
<1>13. CASE UpgradeControlPlane \/ EditConfigMap \/ EditClusterRole
  BY <1>13 DEF UpgradeControlPlane, EditConfigMap, EditClusterRole
<1> QED BY <1>2, <1>3, <1>4, <1>5, <1>6, <1>7, <1>8, <1>9, <1>10, <1>11, <1>12, <1>13 DEF Next, Command

(***************************************************************************)
(* With --wait, success means that all the Pods were replaced              *)
(* (README.md:282), as long as every earlier invocation waited and         *)
(* succeeded, and none overlap: only what another invocation patched is    *)
(* found up to date and not waited for (sync.go:247).                      *)
(***************************************************************************)
THEOREM OnlyOthersPodsAreLeft ==
    OneByOne /\ AllWait => (Spec /\ NoneFails => []WaitedOnSuccess)
<1> SUFFICES ASSUME OneByOne, AllWait PROVE Spec /\ NoneFails => []WaitedOnSuccess
  OBVIOUS
<1> DEFINE Succeeds == \A p \in Process : result'[p] # "error"
<1>1. Init => TypeInv /\ Awaited
  BY InitVersions DEF Init, Awaited, AllWait, Workload
<1>2. TypeInv /\ Awaited /\ [Next]_vars /\ [Succeeds]_vars => Awaited'
  <2>1. CASE UNCHANGED vars
    BY <2>1 DEF Awaited, vars, clusterVars
  <2> QED BY <2>1, NextAwaited
<1>3. Awaited => WaitedOnSuccess
  BY DEF Awaited, WaitedOnSuccess, Workload
<1> QED BY <1>1, <1>2, <1>3, NextTypeInv, PTL DEF Spec, NoneFails
=============================================================================
