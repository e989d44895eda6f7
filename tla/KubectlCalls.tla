----------------------------- MODULE KubectlCalls -----------------------------
(***************************************************************************)
(* The calls of kubectl one command makes, side by side, as the fan-outs   *)
(* of src/kubectl/node.go do: RunKubectl (src/kubectl/command.go) with the *)
(* options of its flags.  Every call finds its way to a cluster on its     *)
(* own, by the kubeconfig file others change or by a temporary one.        *)
(***************************************************************************)
EXTENDS KubectlOptions

CONSTANTS
    Call,    \* calls of the command
    Given    \* flags it may be given, a subset of Flags

VARIABLES
    exists, file,   \* the kubeconfig file: module KubeConfig
    flags,          \* the flags of the command
    options,        \* the KubectlOptions it made of them
    callAt,         \* the step of each call
    temp,           \* its temporary kubeconfig: absent, empty or filled
    kept,           \* calls whose os.Remove failed
    reached         \* the cluster its request went to

configVars == <<exists, file>>
vars == <<configVars, flags, options, callAt, temp, kept, reached>>

Step == {"parse", "start", "fill", "exec", "remove", "done", "killed"}

TypeOK ==
    /\ flags \in Given
    /\ options \in Options
    /\ callAt \in [Call -> Step]
    /\ temp \in [Call -> {"absent", "empty", "filled"}]
    /\ kept \subseteq Call
    /\ reached \in [Call -> Cluster \cup {None}]

Init ==
    /\ flags \in Given
    /\ options = NoOptions
    /\ callAt = [p \in Call |-> "parse"]
    /\ temp = [p \in Call |-> "absent"]
    /\ kept = {}
    /\ reached = [p \in Call |-> None]

-----------------------------------------------------------------------------
Goto(p, step) == callAt' = [callAt EXCEPT ![p] = step]

(* The command ends before any call when the flags are incomplete. *)
ParseOptions ==
    /\ \A p \in Call : callAt[p] = "parse"
    /\ \/ /\ options' \in parseKubectlOptions(flags)
          /\ callAt' = [p \in Call |-> "start"]
       \/ /\ parseKubectlOptions(flags) = {}
          /\ callAt' = [p \in Call |-> "done"]
          /\ UNCHANGED options
    /\ UNCHANGED <<configVars, flags, temp, kept, reached>>

UsesTempFile == AuthScheme(options) # "ConfigBased"

RunKubectl(p) ==
    /\ callAt[p] = "start"
    /\ ~UsesTempFile
    /\ Goto(p, "exec")
    /\ UNCHANGED <<configVars, flags, options, temp, kept, reached>>

(* ioutil.TempFile, which may fail. *)
CreateTempFile(p) ==
    /\ callAt[p] = "start"
    /\ UsesTempFile
    /\ \/ Goto(p, "fill") /\ temp' = [temp EXCEPT ![p] = "empty"]
       \/ Goto(p, "done") /\ UNCHANGED temp
    /\ UNCHANGED <<configVars, flags, options, kept, reached>>

TempConfigFromAuthInfo(p) ==
    /\ callAt[p] = "fill"
    /\ temp' = [temp EXCEPT ![p] = "filled"]
    /\ Goto(p, "exec")
    /\ UNCHANGED <<configVars, flags, options, kept, reached>>

(* Mutant: the file is removed only once kubectl has run. *)
OnError_WithoutDefer == "done"

(* The deferred removal is done on all ways out. *)
OnError == "remove"

(* The EKS cluster or its token, or a write of the file, fails. *)
FillFails(p) ==
    /\ callAt[p] = "fill"
    /\ Goto(p, OnError)
    /\ UNCHANGED <<configVars, flags, options, temp, kept, reached>>

(* Mutant: --context is not passed on. *)
ContextArg_Dropped == file.current

(* The context kubectl uses: --context, or the current one of the file. *)
ContextArg == IF options.context # None THEN options.context ELSE file.current

(* The clusters a context leads to: none unless its entries are all there. *)
ClusterOf(c) ==
    {k \in file.clusters \cap file.users : exists /\ c # None /\ file.contexts[c] = k}

(* The cluster the configuration that kubectl is given leads to. *)
Destination ==
    CASE AuthScheme(options) = "EKSClusterBased" -> {options.arn}
      [] AuthScheme(options) = "DirectAuth" -> {options.server}
      [] OTHER -> ClusterOf(ContextArg)

(* kubectl reads its configuration when it runs, and may fail. *)
ExecKubectl(p) ==
    /\ callAt[p] = "exec"
    /\ \/ \E k \in Destination : reached' = [reached EXCEPT ![p] = k]
       \/ UNCHANGED reached
    /\ Goto(p, IF UsesTempFile THEN "remove" ELSE "done")
    /\ UNCHANGED <<configVars, flags, options, temp, kept>>

(* defer os.Remove, whose error nobody looks at. *)
RemoveTempFile(p) ==
    /\ callAt[p] = "remove"
    /\ \/ temp' = [temp EXCEPT ![p] = "absent"] /\ UNCHANGED kept
       \/ kept' = kept \cup {p} /\ UNCHANGED temp
    /\ Goto(p, "done")
    /\ UNCHANGED <<configVars, flags, options, reached>>

(* The command is killed, with the calls that have not returned. *)
Kill ==
    /\ \E p \in Call : callAt[p] \notin {"done", "killed"}
    /\ callAt' = [p \in Call |-> IF callAt[p] = "done" THEN "done" ELSE "killed"]
    /\ UNCHANGED <<configVars, flags, options, temp, kept, reached>>

Next ==
    \/ ParseOptions
    \/ \E p \in Call :
          \/ RunKubectl(p) \/ CreateTempFile(p) \/ TempConfigFromAuthInfo(p) \/ FillFails(p)
          \/ ExecKubectl(p) \/ RemoveTempFile(p)
    \/ Kill

-----------------------------------------------------------------------------
(* The cluster the flags name: the server has to do with --kubectl-server- *)
(* endpoint first, then --kubectl-eks-cluster-arn, then the context, which *)
(* means what the file says of it.                                         *)
NamedBy(f) ==
    CASE f.server # None -> f.server
      [] f.server = None /\ f.arn # None -> f.arn
      [] OTHER -> file.contexts[f.context]

(***************************************************************************)
(* All calls of a command go to the cluster its flags name (command.go:9), *)
(* whatever `eks configure` does to the file meanwhile, and none goes out  *)
(* without the credentials that direct access needs (options.go:33).  Only *)
(* commands that rely on the current context are left out: each of their   *)
(* calls takes the one the file has then.                                  *)
(***************************************************************************)
MeantCluster ==
    \A p \in Call : reached[p] # None =>
        /\ flags.server # None => flags.ca /\ flags.token
        /\ (flags.server # None \/ flags.arn # None \/ flags.context # None) =>
               reached[p] = NamedBy(flags)

(***************************************************************************)
(* A call that has returned, by whatever way, has left no file with the    *)
(* token behind, unless it could not be removed (command.go:25-26).        *)
(***************************************************************************)
TempFilesRemoved ==
    \A p \in Call : callAt[p] = "done" => temp[p] = "absent" \/ p \in kept
=============================================================================
