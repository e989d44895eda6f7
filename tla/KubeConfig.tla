------------------------------ MODULE KubeConfig ------------------------------
(***************************************************************************)
(* `kubergrunt eks configure` (src/eks/kubectl_configure.go and            *)
(* src/kubectl/config.go): adds a context for an EKS cluster to the        *)
(* kubeconfig file, which it creates if there is none.  The file is        *)
(* checked, loaded and saved at different times, by one or several         *)
(* invocations, each of which may die in between.                          *)
(***************************************************************************)
EXTENDS Integers, FiniteSets

CONSTANTS
    Process,   \* invocations of the command
    Context,   \* names of contexts
    Cluster    \* EKS clusters, by ARN; the names of their entries

None == "none"

VARIABLES
    exists,    \* whether there is a kubeconfig file
    file,      \* the configuration in it
    at,        \* the step of each invocation
    target,    \* the context and the cluster it was asked for
    config,    \* the configuration it has in memory
    unsaved,   \* the parts of that configuration that are not saved yet
    result

vars == <<exists, file, at, target, config, unsaved, result>>

(* Each context names a cluster and, under the same name, its user.        *)
Config == [contexts : [Context -> Cluster \cup {None}],
           clusters : SUBSET Cluster, users : SUBSET Cluster,
           current : Context \cup {None}]

Parts == {"contexts", "clusters", "users", "current"}

Blank == [contexts |-> [c \in Context |-> None], clusters |-> {}, users |-> {}, current |-> None]

(* The context refers to entries that are there. *)
Complete(c, cfg) == cfg.contexts[c] # None => cfg.contexts[c] \in cfg.clusters \cap cfg.users

TypeOK ==
    /\ exists \in BOOLEAN
    /\ file \in Config
    /\ at \in [Process -> {"idle", "check", "create", "load", "save"}]
    /\ target \in [Process -> [context : Context, cluster : Cluster]]
    /\ config \in [Process -> Config]
    /\ unsaved \in [Process -> SUBSET Parts]
    /\ result \in [Process -> {"none", "ok", "error"}]

(* No file, or one with any contexts that are complete. *)
Init ==
    /\ \/ exists = FALSE /\ file = Blank
       \/ exists = TRUE /\ file \in {cfg \in Config : cfg.current = None /\ \A c \in Context : Complete(c, cfg)}
    /\ at = [p \in Process |-> "idle"]
    /\ target \in [Process -> [context : Context, cluster : Cluster]]
    /\ config = [p \in Process |-> Blank]
    /\ unsaved = [p \in Process |-> {}]
    /\ result = [p \in Process |-> "none"]

-----------------------------------------------------------------------------
Goto(p, step) == at' = [at EXCEPT ![p] = step] /\ UNCHANGED <<config, unsaved, result>>

Return(p, r) ==
    /\ at' = [at EXCEPT ![p] = "idle"]
    /\ config' = [config EXCEPT ![p] = Blank]
    /\ unsaved' = [unsaved EXCEPT ![p] = {}]
    /\ result' = [result EXCEPT ![p] = r]

Start(p, c, k) ==
    /\ at[p] = "idle"
    /\ at' = [at EXCEPT ![p] = "check"]
    /\ target' = [target EXCEPT ![p] = [context |-> c, cluster |-> k]]
    /\ result' = [result EXCEPT ![p] = "none"]
    /\ UNCHANGED <<exists, file, config, unsaved>>

FileMissing == ~exists

CheckFile(p) ==
    /\ at[p] = "check"
    /\ Goto(p, IF FileMissing THEN "create" ELSE "load")
    /\ UNCHANGED <<exists, file, target>>

(* CreateInitialConfig truncates what has come to be there meanwhile.      *)
CreateInitialConfig(p) ==
    /\ at[p] = "create"
    /\ exists' = TRUE
    /\ file' = Blank
    /\ Goto(p, "load")
    /\ UNCHANGED target

(* Mutant: a context of that name is replaced. *)
ContextExists_Never(c) == FALSE
ContextExists(c) == file.contexts[c] # None

(* Mutant: the user is left out. *)
WithContext_NoUser(cfg, c, k) ==
    [cfg EXCEPT !.contexts[c] = k, !.clusters = @ \cup {k}, !.current = c]
WithContext(cfg, c, k) ==
    [cfg EXCEPT !.contexts[c] = k, !.clusters = @ \cup {k}, !.users = @ \cup {k}, !.current = c]

(* The file is loaded, and the context added to what is in memory. *)
AddEksConfigContext(p) ==
    LET c == target[p].context
    IN  /\ at[p] = "load"
        /\ \/ /\ ~ContextExists(c)
              /\ config' = [config EXCEPT ![p] = WithContext(file, c, target[p].cluster)]
              /\ unsaved' = [unsaved EXCEPT ![p] = Parts]
              /\ at' = [at EXCEPT ![p] = "save"]
              /\ UNCHANGED result
           \/ /\ ContextExists(c)
              /\ Return(p, "error")
        /\ UNCHANGED <<exists, file, target>>

(* clientcmd.ModifyConfig makes the file what is in memory, part by part,  *)
(* in an order that is the library's: entries it finds in the file only    *)
(* are deleted.                                                            *)
SavePart(p, part) ==
    /\ at[p] = "save"
    /\ part \in unsaved[p]
    /\ file' = [file EXCEPT ![part] = config[p][part]]
    /\ unsaved' = [unsaved EXCEPT ![p] = @ \ {part}]
    /\ UNCHANGED <<exists, at, target, config, result>>

ConfigSaved(p) ==
    /\ at[p] = "save"
    /\ unsaved[p] = {}
    /\ Return(p, "ok")
    /\ UNCHANGED <<exists, file, target>>

(* A file operation fails, or the process is killed. *)
Fails(p) ==
    /\ at[p] # "idle"
    /\ Return(p, "error")
    /\ UNCHANGED <<exists, file, target>>

ConfigureKubectlForEks(p) ==
    \/ CheckFile(p)
    \/ CreateInitialConfig(p)
    \/ AddEksConfigContext(p)
    \/ \E part \in Parts : SavePart(p, part)
    \/ ConfigSaved(p)

Next ==
    \E p \in Process :
        \/ \E c \in Context, k \in Cluster : Start(p, c, k)
        \/ ConfigureKubectlForEks(p)
        \/ Fails(p)

Spec == Init /\ [][Next]_vars

-----------------------------------------------------------------------------
(***************************************************************************)
(* Adding a context neither removes nor redirects one that is there, with  *)
(* whatever interruptions and reruns (kubectl_configure.go:12-13,          *)
(* config.go:49-51), when the commands do not overlap.                     *)
(***************************************************************************)
OthersKept ==
    [][\A c \in Context : file.contexts[c] # None => file'.contexts[c] = file.contexts[c]]_vars

(***************************************************************************)
(* An invocation that succeeds leaves the context that was asked for, with *)
(* its cluster and its user, as the current one: whatever contexts and     *)
(* half-saved ones were in the file it started from                        *)
(* (kubectl_configure.go:12-13), when the commands do not overlap.         *)
(***************************************************************************)
ConfiguredOnSuccess ==
    \A p \in Process : result[p] = "ok" =>
        LET c == target[p].context
        IN  file.contexts[c] = target[p].cluster /\ Complete(c, file) /\ file.current = c
=============================================================================
