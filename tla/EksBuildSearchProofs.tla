------------------------- MODULE EksBuildSearchProofs -------------------------
(***************************************************************************)
(* For every repository and every bound, the build findLatestEKSBuild      *)
(* returns is the one in front of the first gap that is long enough.       *)
(***************************************************************************)
EXTENDS EksBuildSearch, TLAPS

(* What the loop has seen: the last build found lies as many builds back  *)
(* as there were misses, and no earlier gap was long enough.               *)
Seen ==
    /\ existingTag <= i
    /\ \A t \in tags : t <= i => t <= existingTag
    /\ \A t \in tags : t < existingTag => Following(t) # {}

LoopInv ==
    /\ result = "searching" => consecutiveMisses = i - existingTag
    /\ result = "searching" /\ existingTag # 0 => consecutiveMisses < MaxConsecutiveMisses

SearchInv == SearchTypeOK /\ Seen /\ LoopInv /\ FirstLongGap /\ NoneOnlyIfEmpty

LEMMA InitSearchInv == SearchInit => SearchInv
<1> SUFFICES ASSUME SearchInit PROVE SearchInv
  OBVIOUS
<1>1. /\ tags \subseteq 1 .. MaxEKSBuild /\ i = 0 /\ existingTag = 0
      /\ consecutiveMisses = 0 /\ result = "searching"
  BY DEF SearchInit, Build
<1>2. SearchTypeOK
  BY <1>1, EksBuildSearchAssumption DEF SearchTypeOK, Build
<1>3. Seen
  <2> SUFFICES ASSUME NEW t \in tags PROVE t > 0
    BY <1>1, EksBuildSearchAssumption DEF Seen
  <2> QED BY <1>1, EksBuildSearchAssumption
<1> QED BY <1>1, <1>2, <1>3 DEF SearchInv, LoopInv, FirstLongGap, NoneOnlyIfEmpty

LEMMA NextSearchInv == SearchInv /\ [SearchNext]_searchVars => SearchInv'
<1> SUFFICES ASSUME SearchInv, [SearchNext]_searchVars PROVE SearchInv'
  OBVIOUS
<1> USE EksBuildSearchAssumption
<1>a. /\ tags \subseteq 1 .. MaxEKSBuild /\ i \in 0 .. MaxEKSBuild
      /\ existingTag \in 0 .. MaxEKSBuild /\ consecutiveMisses \in Nat
      /\ existingTag \in tags \cup {0}
  BY DEF SearchInv, SearchTypeOK, Build
<1>1. CASE TagFound
  <2>1. /\ result = "searching" /\ i < MaxEKSBuild /\ i + 1 \in tags
        /\ existingTag' = i + 1 /\ consecutiveMisses' = 0 /\ i' = i + 1
        /\ tags' = tags /\ result' = "searching"
    BY <1>1 DEF TagFound, Searching
  <2>2. SearchTypeOK'
    BY <1>a, <2>1 DEF SearchInv, SearchTypeOK, Build
  <2>3. \A t \in tags : t < i + 1 => Following(t)' # {}
    <3> SUFFICES ASSUME NEW t \in tags, t < i + 1 PROVE Following(t)' # {}
      OBVIOUS
    <3>1. t \in Nat /\ t # 0 /\ t <= existingTag
      BY <1>a DEF SearchInv, Seen
    <3>2. CASE t < existingTag
      BY <2>1, <3>2 DEF SearchInv, Seen, Following
    <3>3. CASE t = existingTag
      <4>1. i + 1 <= t + MaxConsecutiveMisses
        BY <1>a, <2>1, <3>1, <3>3 DEF SearchInv, LoopInv
      <4> QED BY <2>1, <4>1 DEF Following
    <3> QED BY <1>a, <3>1, <3>2, <3>3
  <2>4. Seen'
    BY <1>a, <2>1, <2>3 DEF Seen
  <2>5. LoopInv' /\ FirstLongGap' /\ NoneOnlyIfEmpty'
    BY <1>a, <2>1 DEF LoopInv, FirstLongGap, NoneOnlyIfEmpty
  <2> QED BY <2>2, <2>4, <2>5 DEF SearchInv
<1>2. CASE TagMissed
  <2>1. /\ result = "searching" /\ i < MaxEKSBuild /\ i + 1 \notin tags
        /\ consecutiveMisses' = consecutiveMisses + 1
        /\ tags' = tags /\ existingTag' = existingTag
    BY <1>2 DEF TagMissed, Searching
  <2>2. consecutiveMisses = i - existingTag
    BY <2>1 DEF SearchInv, LoopInv
  <2>3. CASE Enough /\ result' = "found" /\ i' = i
    <3>1. existingTag \in tags /\ consecutiveMisses + 1 = MaxConsecutiveMisses
      BY <1>a, <2>1, <2>3 DEF SearchInv, LoopInv, Enough
    <3>2. Following(existingTag) = {}
      <4> SUFFICES ASSUME NEW u \in tags, existingTag < u, u <= existingTag + MaxConsecutiveMisses
                   PROVE FALSE
        BY DEF Following
      <4>1. u <= i + 1
        BY <1>a, <2>2, <3>1
      <4>2. ~(u <= i)
        BY <1>a DEF SearchInv, Seen
      <4> QED BY <1>a, <2>1, <4>1, <4>2
    <3>3. FirstLongGap'
      BY <2>1, <3>1, <3>2 DEF SearchInv, Seen, FirstLongGap, Following
    <3>4. SearchTypeOK'
      BY <1>a, <2>1, <2>2, <2>3 DEF SearchInv, SearchTypeOK
    <3>5. Seen' /\ LoopInv' /\ NoneOnlyIfEmpty'
      BY <2>1, <2>3 DEF SearchInv, Seen, LoopInv, NoneOnlyIfEmpty, Following
    <3> QED BY <3>3, <3>4, <3>5 DEF SearchInv
  <2>4. CASE ~Enough /\ i' = i + 1 /\ result' = result
    <3>1. SearchTypeOK'
      BY <1>a, <2>1, <2>2, <2>4 DEF SearchInv, SearchTypeOK
    <3>2. Seen'
      BY <1>a, <2>1, <2>4 DEF SearchInv, Seen, Following
    <3>3. LoopInv'
      BY <1>a, <2>1, <2>2, <2>4 DEF LoopInv, Enough
    <3>4. FirstLongGap' /\ NoneOnlyIfEmpty'
      BY <2>1, <2>4 DEF FirstLongGap, NoneOnlyIfEmpty
    <3> QED BY <3>1, <3>2, <3>3, <3>4 DEF SearchInv
  <2> QED BY <1>2, <2>3, <2>4 DEF TagMissed
<1>3. CASE Exhausted
  <2>1. /\ i = MaxEKSBuild /\ tags' = tags /\ i' = i /\ existingTag' = existingTag
        /\ consecutiveMisses' = consecutiveMisses
        /\ result' = IF existingTag # 0 THEN "found" ELSE "none"
    BY <1>3 DEF Exhausted
  <2>2. \A t \in tags : t <= existingTag
    BY <1>a, <2>1 DEF SearchInv, Seen
  <2>3. Following(existingTag) = {}
    <3> SUFFICES ASSUME NEW u \in tags, existingTag < u PROVE FALSE
      BY DEF Following
    <3> QED BY <1>a, <2>2
  <2>4. FirstLongGap'
    BY <1>a, <2>1, <2>3 DEF SearchInv, Seen, FirstLongGap, Following
  <2>5. NoneOnlyIfEmpty'
    BY <1>a, <2>1, <2>2 DEF NoneOnlyIfEmpty
  <2>6. SearchTypeOK' /\ Seen' /\ LoopInv'
    BY <2>1 DEF SearchInv, SearchTypeOK, Seen, LoopInv, Following
  <2> QED BY <2>4, <2>5, <2>6 DEF SearchInv
<1>4. CASE QueryFails
  BY <1>4 DEF QueryFails, SearchInv, SearchTypeOK, Seen, LoopInv, FirstLongGap, NoneOnlyIfEmpty, Following
<1>5. CASE UNCHANGED searchVars
  BY <1>5 DEF searchVars, SearchInv, SearchTypeOK, Seen, LoopInv, FirstLongGap, NoneOnlyIfEmpty, Following
<1> QED BY <1>1, <1>2, <1>3, <1>4, <1>5 DEF SearchNext

LEMMA SearchInvariant == SearchSpec => []SearchInv
  BY InitSearchInv, NextSearchInv, PTL DEF SearchSpec

(***************************************************************************)
(* findLatestEKSBuild returns the build in front of the first long gap,    *)
(* and says that there are no tags only if there are none.                 *)
(***************************************************************************)
THEOREM FindsLatestBuild == SearchSpec => []LatestBuildFound
<1>1. SearchInv => LatestBuildFound
  BY DEF SearchInv, LatestBuildFound
<1> QED BY <1>1, SearchInvariant, PTL
=============================================================================
