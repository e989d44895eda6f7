---------------------------- MODULE ClusterVerify -----------------------------
(***************************************************************************)
(* `kubergrunt eks verify` (src/eks/cluster.go): is the EKS cluster        *)
(* active, and does its API server answer?  With --wait each of the two    *)
(* conditions is asked for again until it holds or the retries are used    *)
(* up, while the cluster is being created, or updated.                     *)
(***************************************************************************)
EXTENDS Integers

CONSTANTS
    MaxRetries,   \* --max-retries, or 300 s / --sleep-between-retries
    Fault         \* what may go wrong, a subset of {"api", "update"}

VARIABLES
    status,    \* of the EKS cluster
    serving,   \* whether its API server answers requests
    wait,      \* --wait
    at,        \* the step of the command
    i,         \* the loop counter
    queries,   \* queries of the condition at hand
    result

clusterVars == <<status, serving>>
vars == <<clusterVars, wait, at, i, queries, result>>

Step == {"cluster", "waitCluster", "server", "waitServer", "done"}

TypeOK ==
    /\ status \in {"none", "CREATING", "ACTIVE", "UPDATING"}
    /\ serving \in BOOLEAN
    /\ wait \in BOOLEAN
    /\ at \in Step
    /\ i \in 0 .. MaxRetries
    /\ queries \in 0 .. MaxRetries + 1
    /\ result \in {"none", "ready", "notReady", "timeout"}

Init ==
    /\ status \in {"none", "CREATING", "ACTIVE"}
    /\ serving \in IF status = "ACTIVE" THEN BOOLEAN ELSE {FALSE}
    /\ wait \in BOOLEAN
    /\ at = "cluster"
    /\ i = 0
    /\ queries = 0
    /\ result = "none"

-----------------------------------------------------------------------------
Return(r) ==
    /\ at' = "done"
    /\ result' = r
    /\ UNCHANGED i

clusterIsActive == status = "ACTIVE"

(* Mutant: an endpoint is enough, whatever it answers. *)
Holds_EndpointExists == clusterIsActive

(* The condition of the step the command is at; its two queries fail in    *)
(* the same way, and a query that fails says nothing.                      *)
Holds == IF at \in {"cluster", "waitCluster"} THEN clusterIsActive ELSE serving

(* On to the second condition, or to the end. *)
Verified ==
    IF at \in {"cluster", "waitCluster"}
    THEN at' = "server" /\ queries' = 0 /\ UNCHANGED <<i, result>>
    ELSE Return("ready") /\ queries' = queries + 1

(* Mutant: one counter for the retries of both conditions. *)
BeginWait_SharedCounter ==
    /\ at' = IF at = "cluster" THEN "waitCluster" ELSE "waitServer"
    /\ UNCHANGED <<i, result>>

BeginWait ==
    /\ at' = IF at = "cluster" THEN "waitCluster" ELSE "waitServer"
    /\ i' = 0
    /\ UNCHANGED result

(* The first query of a condition: without --wait it decides. *)
Check(holds) ==
    /\ at \in {"cluster", "server"}
    /\ \/ holds /\ Verified
       \/ /\ ~holds
          /\ queries' = queries + 1
          /\ IF wait THEN BeginWait ELSE Return("notReady")
    /\ UNCHANGED <<clusterVars, wait>>

Miss ==
    /\ i' = i + 1
    /\ queries' = queries + 1
    /\ UNCHANGED <<at, result>>

(* waitForClusterActive, waitForKubernetesApiServer. *)
Retry(holds) ==
    /\ at \in {"waitCluster", "waitServer"}
    /\ \/ i < MaxRetries /\ holds /\ Verified
       \/ i < MaxRetries /\ ~holds /\ Miss
       \/ i >= MaxRetries /\ Return("timeout") /\ UNCHANGED queries
    /\ UNCHANGED <<clusterVars, wait>>

Query == Check(Holds) \/ Retry(Holds)

(* GetClusterByArn fails, or the endpoint answers something else. *)
QueryFails == "api" \in Fault /\ (Check(FALSE) \/ Retry(FALSE))

-----------------------------------------------------------------------------
(* The cluster is created, and is updated now and then. *)
ClusterChanges ==
    /\ \/ status = "none" /\ status' = "CREATING"
       \/ status \in {"CREATING", "UPDATING"} /\ status' = "ACTIVE"
       \/ status = "ACTIVE" /\ "update" \in Fault /\ status' = "UPDATING"
    /\ UNCHANGED <<serving, wait, at, i, queries, result>>

ServerStarts ==
    /\ status = "ACTIVE"
    /\ ~serving
    /\ serving' = TRUE
    /\ UNCHANGED <<status, wait, at, i, queries, result>>

Next == Query \/ QueryFails \/ ClusterChanges \/ ServerStarts

Spec == Init /\ [][Next]_vars

-----------------------------------------------------------------------------
(***************************************************************************)
(* "Ready" is said of a cluster that has become active and whose API       *)
(* server answers (README.md:90-93), whichever queries failed on the way.  *)
(***************************************************************************)
VerifiedOnSuccess ==
    result = "ready" => status \in {"ACTIVE", "UPDATING"} /\ serving

(***************************************************************************)
(* With --wait the command does not give up on a condition before it has   *)
(* asked for it the number of times --max-retries says (README.md:97-98),  *)
(* whatever the condition before it used up and however many queries       *)
(* failed, since the cluster may not exist yet (cluster.go:81); without it *)
(* one query decides.  A lower bound: "up to 10 times" (README.md:105) is  *)
(* not what the code does, which asks once and then MaxRetries times.      *)
(***************************************************************************)
PatientOnlyWhenWaiting ==
    /\ result = "timeout" => wait /\ queries >= MaxRetries
    /\ result = "notReady" => ~wait /\ queries = 1
=============================================================================
