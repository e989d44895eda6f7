---------------------- MODULE SecurityGroupCleanupProofs ----------------------
(***************************************************************************)
(* The safety properties of SecurityGroupCleanup for any groups and any    *)
(* interfaces, any number of retries and all faults of the module.         *)
(***************************************************************************)
EXTENDS SecurityGroupCleanup, TLAPS

(* What was found is in the group at hand: owners do not change.           *)
Listed ==
    /\ \A n \in found : eni[n] # "none"
    /\ at \in {"detach", "waitDetached", "delete", "waitDeleted", "deleteGroup"} =>
           \A n \in found : current \in owner[n]

(* The interfaces that the last loop is done with are gone, for good.      *)
Waited ==
    /\ at = "waitDeleted" => \A n \in found \ todo : eni[n] = "gone"
    /\ at = "deleteGroup" => \A n \in found : eni[n] = "gone"

(* The groups that exist are those still to be deleted, the one at hand    *)
(* included.                                                               *)
Remaining ==
    CASE at = "idle" -> current = Primary /\ (result = "cleaned" => sgs = {})
      [] at = "lookup" -> current = Primary /\ Primary \notin sgs
      [] at = "next" -> sgs \subseteq rest
      [] OTHER -> current = Primary \/ sgs \subseteq rest \cup {current}

Running == at # "idle" => result = "none"

CleanupInv == TypeOK /\ Listed /\ Waited /\ Remaining /\ Running

-----------------------------------------------------------------------------
USE DEF Group

LEMMA InitCleanupInv == Init => CleanupInv
<1> SUFFICES ASSUME Init PROVE CleanupInv
  OBVIOUS
<1>1. eni \in [Interface -> Life] /\ owner \in [Interface -> SUBSET (Group \cup {Foreign})]
  BY DEF Init, Life
<1>2. TypeOK
  BY <1>1, SecurityGroupCleanupAssumption DEF Init, TypeOK, Step
<1>3. Listed /\ Waited /\ Remaining /\ Running
  BY DEF Init, Listed, Waited, Remaining, Running
<1> QED BY <1>2, <1>3 DEF CleanupInv

(* An invocation that returns with anything but success.                   *)
LEMMA ReturnKeeps ==
  ASSUME CleanupInv, NEW r \in {"already", "error"}, Return(r),
         sgs' \subseteq sgs, owner' = owner, eni' = eni
  PROVE  CleanupInv'
  BY SecurityGroupCleanupAssumption
     DEF Return, CleanupInv, TypeOK, Step, Life, Listed, Waited, Remaining, Running

(* A failed attempt leaves everything but the number of retries alone.     *)
LEMMA RetryKeeps ==
  ASSUME CleanupInv, Retry, at \in {"waitDetached", "delete", "waitDeleted"}, UNCHANGED awsVars
  PROVE  CleanupInv'
<1>1. CASE Return("error")
  BY <1>1, ReturnKeeps DEF awsVars
<1>2. CASE ~Return("error")
  BY <1>2, SecurityGroupCleanupAssumption
     DEF Retry, awsVars, CleanupInv, TypeOK, Listed, Waited, Remaining, Running
<1> QED BY <1>1, <1>2

(* The next interface, when the world changed it at most as AWS does.      *)
LEMMA NextInterfaceKeeps ==
  ASSUME CleanupInv, NEW n \in todo, NextInterface(n),
         at \in {"detach", "waitDetached", "delete", "waitDeleted"},
         at = "waitDeleted" => eni[n] = "gone",
         eni' \in [Interface -> Life],
         \A m \in Interface : eni[m] = "gone" => eni'[m] = "gone",
         \A m \in Interface : eni[m] # "none" => eni'[m] # "none",
         sgs' = sgs, owner' = owner
  PROVE  CleanupInv'
  BY SecurityGroupCleanupAssumption
     DEF NextInterface, CleanupInv, TypeOK, Listed, Waited, Remaining, Running

(* What AWS, the plugin and others do while the command stands still.      *)
LEMMA WorldKeeps ==
  ASSUME CleanupInv, eni' \in [Interface -> Life],
         \A m \in Interface : eni[m] = "gone" => eni'[m] = "gone",
         \A m \in Interface : eni[m] # "none" => eni'[m] # "none",
         sgs' \subseteq sgs, attached' \subseteq attached, owner' = owner,
         UNCHANGED <<at, current, found, todo, tries, rest, result>>
  PROVE  CleanupInv'
<1>1. TypeOK' /\ Running'
  BY DEF CleanupInv, TypeOK, Running
<1>2. Listed' /\ Waited'
  BY DEF CleanupInv, TypeOK, Listed, Waited
<1>3. Remaining'
  BY DEF CleanupInv, TypeOK, Remaining
<1> QED BY <1>1, <1>2, <1>3 DEF CleanupInv

LEMMA NextCleanupInv == CleanupInv /\ [Next]_vars => CleanupInv'
<1> SUFFICES ASSUME CleanupInv, [Next]_vars PROVE CleanupInv'
  OBVIOUS
<1> USE SecurityGroupCleanupAssumption
<1>g. TypeOK /\ Listed /\ Waited /\ Remaining /\ Running
  BY DEF CleanupInv
<1>1. CASE Start
  BY <1>1, <1>g DEF Start, awsVars, CleanupInv, TypeOK, Step, Listed, Waited, Remaining, Running
<1>2. CASE FindNetworkInterfaces
  <2>0. found' \subseteq Interface /\ attached' \subseteq found' /\ todo' \subseteq found' /\ at' = "detach"
    BY <1>2 DEF FindNetworkInterfaces
  <2>1. TypeOK' /\ Running'
    BY <1>2, <2>0, <1>g DEF FindNetworkInterfaces, awsVars, TypeOK, Step, Running
  <2>2. Listed'
    BY <1>2, <1>g DEF FindNetworkInterfaces, awsVars, TypeOK, Listed, InGroup, Exists
  <2>3. Waited' /\ Remaining'
    BY <1>2, <1>g DEF FindNetworkInterfaces, awsVars, Waited, Remaining
  <2> QED BY <2>1, <2>2, <2>3 DEF CleanupInv
<1>3. ASSUME NEW n \in Interface, DetachNetworkInterface(n) PROVE CleanupInv'
  BY <1>3, <1>g, NextInterfaceKeeps DEF DetachNetworkInterface, TypeOK, Life
<1>4. ASSUME NEW n \in Interface, WaitDetached(n) PROVE CleanupInv'
  <2>1. CASE NextInterface(n)
    BY <1>4, <2>1, <1>g, NextInterfaceKeeps DEF WaitDetached, awsVars, TypeOK
  <2>2. CASE Retry
    BY <1>4, <2>2, RetryKeeps DEF WaitDetached
  <2> QED BY <1>4, <2>1, <2>2 DEF WaitDetached
<1>5. ASSUME NEW n \in Interface, DeleteNetworkInterface(n) PROVE CleanupInv'
  <2>1. CASE NextInterface(n)
    <3>1. eni' \in [Interface -> Life]
      BY <1>5, <1>g DEF DeleteNetworkInterface, TypeOK, Life
    <3>2. \A m \in Interface : /\ eni[m] = "gone" => eni'[m] = "gone"
                               /\ eni[m] # "none" => eni'[m] # "none"
      BY <1>5, <1>g DEF DeleteNetworkInterface, TypeOK
    <3> QED BY <1>5, <2>1, <3>1, <3>2, NextInterfaceKeeps DEF DeleteNetworkInterface
  <2>2. CASE Retry /\ eni' = eni
    BY <1>5, <2>2, RetryKeeps DEF DeleteNetworkInterface, awsVars
  <2> QED BY <1>5, <2>1, <2>2 DEF DeleteNetworkInterface
<1>6. ASSUME NEW n \in Interface, WaitDeleted(n) PROVE CleanupInv'
  <2>1. CASE NextInterface(n) /\ Deleted(n)
    BY <1>6, <2>1, <1>g, NextInterfaceKeeps DEF WaitDeleted, Deleted, awsVars, TypeOK
  <2>2. CASE Retry
    BY <1>6, <2>2, RetryKeeps DEF WaitDeleted
  <2> QED BY <1>6, <2>1, <2>2 DEF WaitDeleted
<1>7. CASE AllDetachRequested \/ AllDetached \/ AllDeleteRequested \/ AllDeleted
  <2>1. TypeOK' /\ Running' /\ Remaining'
    BY <1>7, <1>g DEF AllDetachRequested, AllDetached, AllDeleteRequested, AllDeleted, Loop, awsVars,
                      TypeOK, Step, Running, Remaining
  <2>2. Listed' /\ Waited'
    BY <1>7, <1>g DEF AllDetachRequested, AllDetached, AllDeleteRequested, AllDeleted, Loop, awsVars,
                      Listed, Waited
  <2> QED BY <2>1, <2>2 DEF CleanupInv
<1>8. CASE DeleteSecurityGroup
  <2>1. CASE Return("error") \/ Return("already")
    BY <1>8, <2>1, ReturnKeeps DEF DeleteSecurityGroup
  <2>2. CASE ~Return("error") /\ ~Return("already")
    <3>1. /\ at = "deleteGroup" /\ sgs' = sgs \ {current}
          /\ at' = IF current = Primary THEN "lookup" ELSE "next"
          /\ UNCHANGED <<current, found, attached, todo, tries, rest, result, owner, eni>>
      BY <1>8, <2>2 DEF DeleteSecurityGroup, DeleteRefused
    <3>2. TypeOK' /\ Running' /\ Listed' /\ Waited'
      BY <3>1, <1>g DEF TypeOK, Step, Running, Listed, Waited
    <3>3. Remaining'
      BY <3>1, <1>g DEF Remaining
    <3> QED BY <3>2, <3>3 DEF CleanupInv
  <2> QED BY <2>1, <2>2
<1>9. CASE LookupSecurityGroups
  BY <1>9, <1>g DEF LookupSecurityGroups, awsVars, CleanupInv, TypeOK, Step, Running, Listed, Waited, Remaining
<1>10. CASE NextSecurityGroup
  <2>1. CASE Return("cleaned")
    BY <1>10, <2>1, <1>g DEF NextSecurityGroup, Return, awsVars, CleanupInv, TypeOK, Step, Running, Listed, Waited, Remaining
  <2>2. ASSUME NEW g \in rest, current' = g, rest' = rest \ {g}, at' = "find",
               UNCHANGED <<found, attached, todo, tries, result>>, UNCHANGED awsVars
        PROVE CleanupInv'
    BY <1>10, <2>2, <1>g DEF NextSecurityGroup, awsVars, CleanupInv, TypeOK, Step, Running, Listed, Waited, Remaining
  <2> QED BY <1>10, <2>1, <2>2 DEF NextSecurityGroup
<1>11. CASE CallFails
  BY <1>11, ReturnKeeps DEF CallFails, awsVars
<1>12. ASSUME NEW n \in Interface, DeleteRefusedBusy(n) PROVE CleanupInv'
  BY <1>12, RetryKeeps DEF DeleteRefusedBusy
<1>13. ASSUME NEW n \in Interface, Settles(n) \/ DeletedElsewhere(n) PROVE CleanupInv'
  <2>1. eni' \in [Interface -> Life]
    BY <1>13, <1>g DEF Settles, DeletedElsewhere, TypeOK, Life
  <2>2. \A m \in Interface : /\ eni[m] = "gone" => eni'[m] = "gone"
                             /\ eni[m] # "none" => eni'[m] # "none"
    BY <1>13, <1>g DEF Settles, DeletedElsewhere, TypeOK
  <2> QED BY <1>13, <2>1, <2>2, WorldKeeps DEF Settles, DeletedElsewhere
<1>14. ASSUME NEW n \in Interface, PluginAttaches(n) PROVE CleanupInv'
  <2>1. eni' \in [Interface -> Life]
    BY <1>14, <1>g DEF PluginAttaches, TypeOK, Life
  <2>2. \A m \in Interface : /\ eni[m] = "gone" => eni'[m] = "gone"
                             /\ eni[m] # "none" => eni'[m] # "none"
    BY <1>14, <1>g DEF PluginAttaches, TypeOK
  <2> QED BY <1>14, <2>1, <2>2, WorldKeeps DEF PluginAttaches
<1>15. ASSUME NEW g \in Group, GroupDeletedElsewhere(g) PROVE CleanupInv'
  BY <1>15, <1>g, WorldKeeps DEF GroupDeletedElsewhere, TypeOK
<1>16. CASE UNCHANGED vars
  BY <1>16, <1>g, WorldKeeps DEF vars, awsVars, TypeOK
<1> QED BY <1>1, <1>2, <1>3, <1>4, <1>5, <1>6, <1>7, <1>8, <1>9, <1>10, <1>11, <1>12, <1>13, <1>14, <1>15, <1>16
        DEF Next, Command

(***************************************************************************)
(* A run that goes to its end has deleted the group it was given and all   *)
(* those of the load balancer controller (cleanup.go:36-107).              *)
(***************************************************************************)
THEOREM SuccessMeansClean == Spec => []CleanedToTheEnd
<1>1. CleanupInv => CleanedToTheEnd
  BY DEF CleanupInv, Remaining, Running, CleanedToTheEnd
<1> QED BY <1>1, InitCleanupInv, NextCleanupInv, PTL DEF Spec

(***************************************************************************)
(* No group is deleted before every interface that was found in it is gone *)
(* (cleanup.go:140-172).                                                   *)
(***************************************************************************)
THEOREM WaitsForInterfaces == Spec => []InterfacesFirst
<1>1. CleanupInv => InterfacesFirst
  BY DEF CleanupInv, Waited, InterfacesFirst, Exists
<1> QED BY <1>1, InitCleanupInv, NextCleanupInv, PTL DEF Spec

(***************************************************************************)
(* No step of the command detaches or deletes an interface that is not in  *)
(* the group it is cleaning up, whatever the world does meanwhile          *)
(* (cleanup.go:140).                                                       *)
(***************************************************************************)
THEOREM NothingElseTouched == Spec => OthersUntouched
<1>1. ASSUME CleanupInv, Command, NEW n \in Interface, eni'[n] # eni[n]
      PROVE current \in owner[n]
  <2>1. \E m \in Interface : DetachNetworkInterface(m) \/ DeleteNetworkInterface(m)
    BY <1>1 DEF Command, FindNetworkInterfaces, WaitDetached, WaitDeleted, AllDetachRequested, AllDetached,
                AllDeleteRequested, AllDeleted, DeleteSecurityGroup, LookupSecurityGroups, NextSecurityGroup, awsVars
  <2>2. PICK m \in Interface : DetachNetworkInterface(m) \/ DeleteNetworkInterface(m)
    BY <2>1
  <2>3. m = n /\ m \in found /\ at \in {"detach", "delete"}
    BY <1>1, <2>2 DEF DetachNetworkInterface, DeleteNetworkInterface, CleanupInv, TypeOK
  <2> QED BY <1>1, <2>3 DEF CleanupInv, Listed
<1>2. CleanupInv /\ [Next]_vars
      => [Command => \A n \in Interface : eni'[n] # eni[n] => current \in owner[n]]_vars
  BY <1>1
<1> QED BY <1>2, InitCleanupInv, NextCleanupInv, PTL DEF Spec, OthersUntouched

-----------------------------------------------------------------------------
(* The group of the command line comes first.                              *)
FirstGroup == current = Primary /\ at # "next"

Place == [find |-> 0, detach |-> 1, waitDetached |-> 2, delete |-> 3, waitDeleted |-> 4,
          deleteGroup |-> 5, lookup |-> 6, next |-> 7]

SameGroup == FirstGroup' = FirstGroup /\ rest' = rest

Advances ==
    \/ at' = "idle"
    \/ FirstGroup /\ ~FirstGroup'
    \/ FirstGroup' = FirstGroup /\ rest' \subseteq rest /\ rest' # rest
    \/ SameGroup /\ Place[at'] > Place[at]
    \/ SameGroup /\ at' = at /\ todo' \subseteq todo /\ todo' # todo
    \/ SameGroup /\ UNCHANGED <<at, todo>> /\ tries' < tries

(***************************************************************************)
(* No step of an invocation is ever repeated: whatever AWS, the plugin and *)
(* others do to its interfaces, it uses up the groups, the interfaces it   *)
(* found and the retries of each, so that with finitely many groups it     *)
(* ends (cleanup.go:25-365).                                               *)
(***************************************************************************)
AlwaysAdvances ==
    [][Start \/ Advances \/ UNCHANGED <<at, current, found, todo, tries, rest, result>>]_vars

LEMMA RetryAdvances ==
  ASSUME TypeOK, Retry
  PROVE  Advances
<1>1. CASE tries = 0
  BY <1>1 DEF Retry, Return, Advances
<1>2. CASE tries > 0
  BY <1>2, SecurityGroupCleanupAssumption DEF Retry, Return, Advances, TypeOK, SameGroup, FirstGroup
<1> QED BY <1>1, <1>2 DEF Retry

LEMMA NextInterfaceAdvances ==
  ASSUME NEW n \in todo, NextInterface(n)
  PROVE  Advances
BY DEF NextInterface, Advances, SameGroup, FirstGroup

THEOREM CleanupAdvances == Spec => AlwaysAdvances
<1>1. ASSUME CleanupInv, NEW n \in Interface,
             \/ DetachNetworkInterface(n) \/ WaitDetached(n)
             \/ DeleteNetworkInterface(n) \/ DeleteRefusedBusy(n) \/ WaitDeleted(n)
      PROVE  Advances
  BY <1>1, RetryAdvances, NextInterfaceAdvances
     DEF DetachNetworkInterface, WaitDetached, DeleteNetworkInterface, DeleteRefusedBusy, WaitDeleted, CleanupInv
<1>2. ASSUME CleanupInv, Command PROVE Advances
  <2>1. CASE FindNetworkInterfaces
    BY <2>1 DEF FindNetworkInterfaces, Advances, SameGroup, FirstGroup, Place
  <2>2. CASE AllDetachRequested \/ AllDetached \/ AllDeleteRequested \/ AllDeleted
    BY <2>2 DEF AllDetachRequested, AllDetached, AllDeleteRequested, AllDeleted, Loop,
                Advances, SameGroup, FirstGroup, Place
  <2>3. CASE DeleteSecurityGroup
    BY <2>3 DEF DeleteSecurityGroup, DeleteRefused, Return, Advances, SameGroup, FirstGroup, Place
  <2>4. CASE LookupSecurityGroups
    BY <1>2, <2>4 DEF LookupSecurityGroups, Advances, SameGroup, FirstGroup, Place, CleanupInv, Remaining
  <2>5. CASE NextSecurityGroup
    <3>1. CASE Return("cleaned")
      BY <3>1 DEF Return, Advances
    <3>2. ASSUME NEW g \in rest, current' = g, rest' = rest \ {g}, at' = "find", at = "next"
          PROVE  Advances
      BY <1>2, <3>2, SecurityGroupCleanupAssumption DEF Advances, FirstGroup, CleanupInv, TypeOK
    <3> QED BY <2>5, <3>1, <3>2 DEF NextSecurityGroup
  <2> QED BY <1>1, <1>2, <2>1, <2>2, <2>3, <2>4, <2>5 DEF Command
<1>3. CallFails => Advances
  BY DEF CallFails, Return, Advances
<1>4. ASSUME \/ \E n \in Interface : Settles(n) \/ PluginAttaches(n) \/ DeletedElsewhere(n)
             \/ \E g \in Group : GroupDeletedElsewhere(g)
      PROVE  UNCHANGED <<at, current, found, todo, tries, rest, result>>
  BY <1>4 DEF Settles, PluginAttaches, DeletedElsewhere, GroupDeletedElsewhere
<1>5. CleanupInv /\ [Next]_vars =>
        [Start \/ Advances \/ UNCHANGED <<at, current, found, todo, tries, rest, result>>]_vars
  BY <1>1, <1>2, <1>3, <1>4 DEF Next
<1> QED BY <1>5, InitCleanupInv, NextCleanupInv, PTL DEF Spec, AlwaysAdvances
=============================================================================
