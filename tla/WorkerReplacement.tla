-------------------------- MODULE WorkerReplacement --------------------------
(***************************************************************************)
(* What a roll out promises, without stages, files, batches or retries:    *)
(* the old workers of a group leave it one barrier at a time.  No worker   *)
(* is cordoned before the new ones were verified, none is evicted before   *)
(* all old ones are cordoned, none detached before all are evicted, none   *)
(* terminated before all are detached, and success is reported only then   *)
(* (the six steps listed at src/eks/deploy.go:18-27).                      *)
(***************************************************************************)
CONSTANTS
    Worker,     \* every worker there will ever be
    MayFail     \* whether workers of the group may be lost

VARIABLES
    life,       \* where each worker is in its life
    old,        \* the workers the current roll out replaces
    verified,   \* whether it has verified their replacements
    success     \* whether it is about to report success

vars == <<life, old, verified, success>>

InGroup == {"serving", "cordoned", "evicted"}
Life == {"absent", "detached", "gone"} \cup InGroup

TypeOK ==
    /\ life \in [Worker -> Life]
    /\ old \subseteq Worker
    /\ verified \in BOOLEAN
    /\ success \in BOOLEAN

Init ==
    /\ life \in [Worker -> {"absent", "serving"}]
    /\ old = {}
    /\ verified = FALSE
    /\ success = FALSE

Move(W, from, to) ==
    /\ \A w \in W : life[w] = from
    /\ life' = [w \in Worker |-> IF w \in W THEN to ELSE life[w]]
    /\ UNCHANGED <<old, verified, success>>

(* Every old worker is past the given points of its life. *)
Past(points) == \A w \in old : life[w] \notin points

Join(w) == Move({w}, "absent", "serving")

Lose(w) ==
    /\ MayFail
    /\ life[w] \in InGroup
    /\ Move({w}, life[w], "gone")

Record(W) ==
    /\ \A w \in W : life[w] \in InGroup
    /\ old' = W
    /\ verified' = FALSE
    /\ UNCHANGED <<life, success>>

Verify ==
    /\ verified' = TRUE
    /\ UNCHANGED <<life, old, success>>

(* A worker without Pods has nothing to evict once it is cordoned. *)
Cordon(w) ==
    /\ w \in old
    /\ verified
    /\ Move({w}, "serving", "cordoned") \/ Move({w}, "serving", "evicted")

Evict(w) == w \in old /\ Past({"serving"}) /\ Move({w}, "cordoned", "evicted")

Detach(W) ==
    /\ W \subseteq old
    /\ Past({"serving", "cordoned"})
    /\ Move(W, "evicted", "detached")

Terminate(W) == W \subseteq old /\ Past(InGroup) /\ Move(W, "detached", "gone")

Succeed ==
    /\ Past(InGroup)
    /\ success' = TRUE
    /\ UNCHANGED <<life, old, verified>>

(* The roll out ends, is interrupted, or is forgotten altogether. *)
Stop ==
    /\ success' = FALSE
    /\ \/ UNCHANGED old /\ verified' \in {verified, FALSE}
       \/ old' = {} /\ verified' = FALSE
    /\ UNCHANGED life

Next ==
    \/ \E w \in Worker : Join(w) \/ Lose(w) \/ Cordon(w) \/ Evict(w)
    \/ \E W \in SUBSET Worker : Record(W) \/ Detach(W) \/ Terminate(W)
    \/ Verify \/ Succeed \/ Stop

Spec == Init /\ [][Next]_vars
=============================================================================
