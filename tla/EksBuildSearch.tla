---------------------------- MODULE EksBuildSearch ----------------------------
(***************************************************************************)
(* findLatestEKSBuild (src/eks/sync.go): which eksbuild of a component is  *)
(* the latest in the image repository, found by asking for one build       *)
(* number after the other.  Build numbers may have gaps.                   *)
(***************************************************************************)
EXTENDS Integers

CONSTANTS
    MaxEKSBuild,            \* largest build number tried (100 in the code)
    MaxConsecutiveMisses    \* misses that end the search (5 in the code)

ASSUME EksBuildSearchAssumption ==
    /\ MaxEKSBuild \in Nat
    /\ MaxConsecutiveMisses \in Nat \ {0}

VARIABLES
    tags,               \* builds in the repository
    i,                  \* builds asked for so far
    existingTag,        \* the last one found, 0 for none
    consecutiveMisses,  \* misses since
    result              \* searching, or what the search returned

searchVars == <<tags, i, existingTag, consecutiveMisses, result>>

Build == 1 .. MaxEKSBuild

SearchTypeOK ==
    /\ tags \subseteq Build
    /\ i \in 0 .. MaxEKSBuild
    /\ existingTag \in tags \cup {0}
    /\ consecutiveMisses \in 0 .. MaxEKSBuild
    /\ result \in {"searching", "found", "none", "error"}

SearchInit ==
    /\ tags \in SUBSET Build
    /\ i = 0
    /\ existingTag = 0
    /\ consecutiveMisses = 0
    /\ result = "searching"

Searching == result = "searching" /\ i < MaxEKSBuild

(* Mutant: the counter of misses is not reset. *)
TagFound_NotReset ==
    /\ Searching
    /\ i + 1 \in tags
    /\ existingTag' = i + 1
    /\ i' = i + 1
    /\ UNCHANGED <<tags, consecutiveMisses, result>>

TagFound ==
    /\ Searching
    /\ i + 1 \in tags
    /\ existingTag' = i + 1
    /\ consecutiveMisses' = 0
    /\ i' = i + 1
    /\ UNCHANGED <<tags, result>>

(* The gap is long enough to be the end, once there is a build. *)
Enough == consecutiveMisses + 1 >= MaxConsecutiveMisses /\ existingTag # 0

TagMissed ==
    /\ Searching
    /\ i + 1 \notin tags
    /\ consecutiveMisses' = consecutiveMisses + 1
    /\ \/ Enough /\ result' = "found" /\ UNCHANGED i
       \/ ~Enough /\ i' = i + 1 /\ UNCHANGED result
    /\ UNCHANGED <<tags, existingTag>>

Exhausted ==
    /\ result = "searching"
    /\ i = MaxEKSBuild
    /\ result' = IF existingTag # 0 THEN "found" ELSE "none"
    /\ UNCHANGED <<tags, i, existingTag, consecutiveMisses>>

(* TagExistsInRepo answers neither 200 nor 404. *)
QueryFails ==
    /\ Searching
    /\ result' = "error"
    /\ UNCHANGED <<tags, i, existingTag, consecutiveMisses>>

SearchNext == TagFound \/ TagMissed \/ Exhausted \/ QueryFails

SearchSpec == SearchInit /\ [][SearchNext]_searchVars

-----------------------------------------------------------------------------
(* Builds that follow t before the search would take t for the last.      *)
Following(t) == {u \in tags : t < u /\ u <= t + MaxConsecutiveMisses}

(* The build returned is in the repository, no build follows it closely,   *)
(* and the search did not stop too early for it: every build before it is  *)
(* closely followed by another.                                            *)
FirstLongGap ==
    result = "found" =>
        /\ existingTag \in tags
        /\ Following(existingTag) = {}
        /\ \A t \in tags : t < existingTag => Following(t) # {}

NoneOnlyIfEmpty == result = "none" => tags = {}

(***************************************************************************)
(* The build returned is the one in front of the first long gap, and "no   *)
(* tags found" is said of an empty repository only, however far off the    *)
(* first build is (sync.go:641-684).                                       *)
(***************************************************************************)
LatestBuildFound == FirstLongGap /\ NoneOnlyIfEmpty
=============================================================================
