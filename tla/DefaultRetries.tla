---------------------------- MODULE DefaultRetries ----------------------------
(***************************************************************************)
(* How long `kubergrunt eks deploy` waits for the Auto Scaling Group when  *)
(* --max-retries is not given: getDefaultMaxRetries (src/eks/deploy.go)    *)
(* and a wait loop that uses it, in milliseconds.                          *)
(***************************************************************************)
EXTENDS Integers

CONSTANTS
    MaxCapacity,   \* bound on the original capacity of the group
    Sleep          \* values of --sleep-between-retries, in milliseconds

WaveSize == 10
WaveSeconds == 600

VARIABLES
    capacity,
    sleep,
    retries,   \* polls the loop has left
    waited,    \* milliseconds slept
    result

vars == <<capacity, sleep, retries, waited, result>>

(* ceil(capacity / 10), and Trunc(sleepBetweenRetries.Seconds()). *)
Waves(n) == (n + WaveSize - 1) \div WaveSize
Seconds(ms) == ms \div 1000

(* Mutant: the division before the rounding up is one of integers. *)
getDefaultMaxRetries_WholeWaves(n, ms) == ((n \div WaveSize) * WaveSeconds) \div Seconds(ms)
getDefaultMaxRetries(n, ms) == (Waves(n) * WaveSeconds) \div Seconds(ms)

TypeOK ==
    /\ capacity \in 0 .. MaxCapacity
    /\ sleep \in Sleep
    /\ retries \in Nat
    /\ waited \in Nat
    /\ result \in {"none", "waiting", "timeout", "panic"}

Init ==
    /\ capacity \in 0 .. MaxCapacity
    /\ sleep \in Sleep
    /\ retries = 0
    /\ waited = 0
    /\ result = "none"

(* The division panics for a duration of less than a second. *)
EnsureMaxRetries ==
    /\ result = "none"
    /\ \/ /\ Seconds(sleep) # 0
          /\ retries' = getDefaultMaxRetries(capacity, sleep)
          /\ result' = "waiting"
       \/ /\ Seconds(sleep) = 0
          /\ result' = "panic"
          /\ UNCHANGED retries
    /\ UNCHANGED <<capacity, sleep, waited>>

(* The instances are never ready: every poll sleeps. *)
Poll ==
    /\ result = "waiting"
    /\ \/ /\ retries > 0
          /\ retries' = retries - 1
          /\ waited' = waited + sleep
          /\ UNCHANGED result
       \/ /\ retries = 0
          /\ result' = "timeout"
          /\ UNCHANGED <<retries, waited>>
    /\ UNCHANGED <<capacity, sleep>>

Next == EnsureMaxRetries \/ Poll

Spec == Init /\ [][Next]_vars

-----------------------------------------------------------------------------
DocumentedWaveSeconds == 300
DocumentedTime == Waves(capacity) * DocumentedWaveSeconds * 1000

(***************************************************************************)
(* A wait that times out has lasted at least the "5 minutes per wave" of   *)
(* the comment (deploy.go:116-118) and the help text (cmd/eks.go:236), for *)
(* a group of any size and whatever the division cuts off, unless a single *)
(* sleep is longer than that.  A lower bound: "a total wait time of" five  *)
(* minutes is not what the code does, its waves have WaveSeconds.          *)
(***************************************************************************)
WaitsDocumentedTime ==
    result = "timeout" => waited >= DocumentedTime \/ sleep > DocumentedTime

=============================================================================
