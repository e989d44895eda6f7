------------------------------- MODULE ApiWaits -------------------------------
(***************************************************************************)
(* The two loops that poll the Kubernetes API with a client of their own:  *)
(* `kubergrunt k8s wait-for-ingress` (src/kubectl/ingress.go), and the     *)
(* wait of `eks deploy` for new nodes (src/kubectl/node.go).  A client     *)
(* made from the options (src/kubectl/config.go) holds one bearer token    *)
(* and keeps it, while tokens of EKS clusters expire.                      *)
(***************************************************************************)
EXTENDS Integers

CONSTANTS
    MaxRetries,   \* --max-retries
    Lifetime      \* of a token, in polls: 15 minutes / --sleep-between-retries

VARIABLES
    loop,      \* the wait: "ingress" or "nodes"
    scheme,    \* the AuthScheme of its options
    there,     \* whether the endpoint, or the nodes, are there
    age,       \* of the token of the client, in polls
    polls,     \* loop counter
    refused,   \* the server refused the token of some poll
    waitAt,    \* the step of the wait
    outcome

vars == <<loop, scheme, there, age, polls, refused, waitAt, outcome>>

TypeOK ==
    /\ loop \in {"ingress", "nodes"}
    /\ scheme \in {"ConfigBased", "DirectAuth", "EKSClusterBased"}
    /\ there \in BOOLEAN
    /\ age \in Nat
    /\ polls \in 0 .. MaxRetries
    /\ refused \in BOOLEAN
    /\ waitAt \in {"client", "poll", "report", "done"}
    /\ outcome \in {"none", "ok", "error", "timeout"}

(* --kubectl-token may have been made some time ago. *)
Init ==
    /\ loop \in {"ingress", "nodes"}
    /\ scheme \in {"ConfigBased", "DirectAuth", "EKSClusterBased"}
    /\ there = FALSE
    /\ age \in IF scheme = "DirectAuth" THEN 0 .. Lifetime ELSE {0}
    /\ polls = 0
    /\ refused = FALSE
    /\ waitAt = "client"
    /\ outcome = "none"

-----------------------------------------------------------------------------
End(r) == waitAt' = "done" /\ outcome' = r /\ UNCHANGED <<loop, scheme, there>>

(* The credentials of a context are the exec plugin `kubergrunt eks token` *)
(* which the client library runs again when needed.                        *)
Expired == scheme # "ConfigBased" /\ age >= Lifetime

(* GetKubernetesClientFromOptions: for EKS clusters with a new token. *)
GetClient ==
    /\ waitAt = "client"
    /\ loop = "nodes" \/ polls < MaxRetries
    /\ waitAt' = IF polls < MaxRetries THEN "poll" ELSE "report"
    /\ age' = IF scheme = "EKSClusterBased" THEN 0 ELSE age
    /\ UNCHANGED <<loop, scheme, there, polls, refused, outcome>>

(* Mutant: the client of the first poll is used for all. *)
NextPoll_SameClient ==
    CASE polls + 1 < MaxRetries -> "poll"
      [] loop = "ingress" /\ polls + 1 >= MaxRetries -> "client"
      [] OTHER -> "report"

(* GetIngress makes a client for each poll; WaitForNodesReady has one. *)
NextPoll ==
    CASE loop = "ingress" -> "client"
      [] loop = "nodes" /\ polls + 1 < MaxRetries -> "poll"
      [] OTHER -> "report"

SleepAndRetry ==
    /\ polls' = polls + 1
    /\ age' = age + 1
    /\ waitAt' = NextPoll
    /\ UNCHANGED <<loop, scheme, there, outcome>>

Found ==
    /\ waitAt = "poll"
    /\ ~Expired
    /\ there
    /\ End("ok")
    /\ UNCHANGED <<age, polls, refused>>

NotYet ==
    /\ waitAt = "poll"
    /\ ~Expired
    /\ ~there
    /\ SleepAndRetry
    /\ UNCHANGED refused

(* An error of a poll is a missing endpoint for the ingress loop, ... *)
PollFails ==
    /\ loop = "ingress"
    /\ waitAt \in {"client", "poll"}
    /\ polls < MaxRetries
    /\ refused' = (refused \/ (waitAt = "poll" /\ Expired))
    /\ SleepAndRetry

(* ... and ends the wait for nodes. *)
CallFails ==
    /\ loop = "nodes"
    /\ waitAt # "done"
    /\ refused' = (refused \/ (waitAt \in {"poll", "report"} /\ Expired))
    /\ End("error")
    /\ UNCHANGED <<age, polls>>

GiveUp ==
    /\ loop = "ingress"
    /\ waitAt = "client"
    /\ polls = MaxRetries
    /\ End("timeout")
    /\ UNCHANGED <<age, polls, refused>>

(* reportAllNotReadyNodes lists them once more. *)
ReportNotReady ==
    /\ waitAt = "report"
    /\ ~Expired
    /\ End("timeout")
    /\ UNCHANGED <<age, polls, refused>>

(* The endpoint is provisioned, the nodes become Ready. *)
Provisioned ==
    /\ ~there
    /\ waitAt # "done"
    /\ there' = TRUE
    /\ UNCHANGED <<loop, scheme, age, polls, refused, waitAt, outcome>>

Next ==
    \/ GetClient \/ Found \/ NotYet \/ PollFails \/ CallFails \/ GiveUp \/ ReportNotReady
    \/ Provisioned

-----------------------------------------------------------------------------
(***************************************************************************)
(* A wait is cut off by an expired token only where the token was given on *)
(* the command line, or is that of the one client of the wait for nodes    *)
(* and the wait has lasted as long as the token (node.go:28): waiting for  *)
(* an Ingress, which hides errors, makes a client for each poll            *)
(* (ingress.go:61).                                                        *)
(***************************************************************************)
WaitsOutlastTokens ==
    refused => \/ scheme = "DirectAuth"
               \/ loop = "nodes" /\ polls >= Lifetime
=============================================================================
