------------------------- MODULE SecurityGroupCleanup -------------------------
(***************************************************************************)
(* `kubergrunt eks cleanup-security-group` (src/eks/cleanup.go): detaches  *)
(* and deletes the network interfaces of the security group EKS left       *)
(* behind, then the group, then the same for the groups of the load        *)
(* balancer controller.  The command may fail anywhere and be run again,   *)
(* while AWS and the VPC CNI plugin change the interfaces beside it.       *)
(***************************************************************************)
EXTENDS Integers, FiniteSets

CONSTANTS
    Primary,    \* the security group named on the command line
    Tagged,     \* the groups tagged by the load balancer controller
    Foreign,    \* a group that has nothing to do with the cluster
    Interface,  \* network interfaces
    Retries,    \* retries of each loop (30 in the code)
    Fault       \* what may go wrong, a subset of FaultKind

(* Calls fail, interfaces are busy though available, the CNI plugin adds   *)
(* or attaches interfaces, and somebody else deletes what is cleaned up.   *)
FaultKind == {"api", "busy", "cni", "other"}

Group == {Primary} \cup Tagged

ASSUME SecurityGroupCleanupAssumption ==
    /\ Primary \notin Tagged
    /\ Foreign \notin Group
    /\ IsFiniteSet(Interface)
    /\ Retries \in Nat
    /\ Fault \subseteq FaultKind

VARIABLES
    sgs,        \* security groups that exist
    owner,      \* the groups of each interface
    eni,        \* where each interface is in its life
    at,         \* the step of the command, idle when it does not run
    current,    \* the security group whose interfaces are cleaned up
    found,      \* interfaces findNetworkInterfaces returned
    attached,   \* those whose attachment in that answer was not replaced since
    todo,       \* interfaces the current loop has still to handle
    tries,      \* retries left for the interface at hand
    rest,       \* groups of the load balancer controller still to delete
    result      \* what the last invocation returned

awsVars == <<sgs, owner, eni>>
vars == <<awsVars, at, current, found, attached, todo, tries, rest, result>>

Life == {"none", "attached", "detaching", "available", "deleting", "gone"}
Step == {"idle", "find", "detach", "waitDetached", "delete", "waitDeleted",
         "deleteGroup", "lookup", "next"}

TypeOK ==
    /\ sgs \subseteq Group
    /\ owner \in [Interface -> SUBSET (Group \cup {Foreign})]
    /\ eni \in [Interface -> Life]
    /\ at \in Step
    /\ current \in Group
    /\ found \subseteq Interface
    /\ attached \subseteq found
    /\ todo \subseteq found
    /\ tries \in 0 .. Retries
    /\ rest \subseteq Tagged
    /\ result \in {"none", "cleaned", "already", "error"}

Init ==
    /\ sgs = Group
    /\ owner \in [Interface -> SUBSET (Group \cup {Foreign}) \ {{}}]
    /\ eni \in [Interface -> {"none", "attached", "available"}]
    /\ at = "idle"
    /\ current = Primary
    /\ found = {}
    /\ attached = {}
    /\ todo = {}
    /\ tries = Retries
    /\ rest = {}
    /\ result = "none"

Exists(n) == eni[n] \notin {"none", "gone"}

-----------------------------------------------------------------------------
(* The command returns; "already" is the nil of an already deleted group. *)
Return(r) ==
    /\ at' = "idle"
    /\ result' = r
    /\ current' = Primary
    /\ found' = {} /\ attached' = {} /\ todo' = {} /\ rest' = {}
    /\ tries' = Retries

Loop(step) ==
    /\ at' = step
    /\ todo' = found
    /\ tries' = Retries
    /\ UNCHANGED <<current, found, attached, rest, result>>

(* The interface at hand is done with: on to the next of the loop. *)
NextInterface(n) ==
    /\ todo' = todo \ {n}
    /\ tries' = Retries
    /\ UNCHANGED <<at, current, found, attached, rest, result>>

(* retry.DoWithRetry: try again, or give up with an error. *)
Retry ==
    \/ /\ tries > 0
       /\ tries' = tries - 1
       /\ UNCHANGED <<at, current, found, attached, todo, rest, result>>
    \/ /\ tries = 0
       /\ Return("error")

Start ==
    /\ at = "idle"
    /\ at' = "find"
    /\ result' = "none"
    /\ UNCHANGED <<awsVars, current, found, attached, todo, tries, rest>>

(* Mutants: the interfaces are not filtered by group; only those in use. *)
InGroup_Any(n) == TRUE
InGroup_Attached(n) == current \in owner[n] /\ eni[n] = "attached"

InGroup(n) == current \in owner[n]

FindNetworkInterfaces ==
    /\ at = "find"
    /\ found' = {n \in Interface : Exists(n) /\ InGroup(n)}
    /\ attached' = {n \in found' : eni[n] \in {"attached", "detaching"}}
    /\ todo' = found'
    /\ at' = "detach"
    /\ UNCHANGED <<awsVars, current, tries, rest, result>>

(* detachNetworkInterfaces: an attachment that is gone is not an error. *)
DetachNetworkInterface(n) ==
    /\ at = "detach"
    /\ n \in todo
    /\ eni' = IF n \in attached /\ eni[n] = "attached"
              THEN [eni EXCEPT ![n] = "detaching"] ELSE eni
    /\ NextInterface(n)
    /\ UNCHANGED <<sgs, owner>>

AllDetachRequested ==
    /\ at = "detach"
    /\ todo = {}
    /\ Loop("waitDetached")
    /\ UNCHANGED awsVars

WaitDetached(n) ==
    /\ at = "waitDetached"
    /\ n \in todo
    /\ \/ eni[n] \in {"available", "deleting", "gone"} /\ NextInterface(n)
       \/ eni[n] \in {"attached", "detaching"} /\ Retry
    /\ UNCHANGED awsVars

AllDetached ==
    /\ at = "waitDetached"
    /\ todo = {}
    /\ Loop("delete")
    /\ UNCHANGED awsVars

(* DeleteNetworkInterface is accepted, refused for one in use, or finds    *)
(* none.                                                                   *)
DeleteNetworkInterface(n) ==
    /\ at = "delete"
    /\ n \in todo
    /\ \/ /\ eni[n] \in {"available", "deleting"}
          /\ eni' = [eni EXCEPT ![n] = "deleting"]
          /\ NextInterface(n)
       \/ /\ eni[n] = "gone"
          /\ NextInterface(n)
          /\ UNCHANGED eni
       \/ /\ eni[n] \in {"attached", "detaching"}
          /\ Retry
          /\ UNCHANGED eni
    /\ UNCHANGED <<sgs, owner>>

(* It is refused although the interface is available: "currently in use".  *)
DeleteRefusedBusy(n) ==
    /\ "busy" \in Fault
    /\ at = "delete"
    /\ n \in todo
    /\ eni[n] \in {"available", "deleting"}
    /\ Retry
    /\ UNCHANGED awsVars

AllDeleteRequested ==
    /\ at = "delete"
    /\ todo = {}
    /\ Loop("waitDeleted")
    /\ UNCHANGED awsVars

(* Mutant: an interface that is still described counts as deleted. *)
Deleted_WhenDescribed(n) == eni[n] \in {"deleting", "gone"}
Deleted(n) == eni[n] = "gone"

WaitDeleted(n) ==
    /\ at = "waitDeleted"
    /\ n \in todo
    /\ \/ Deleted(n) /\ NextInterface(n)
       \/ ~Deleted(n) /\ Retry
    /\ UNCHANGED awsVars

AllDeleted ==
    /\ at = "waitDeleted"
    /\ todo = {}
    /\ Loop("deleteGroup")
    /\ UNCHANGED awsVars

(* AWS refuses to delete a group that an interface still has. *)
InUse(g) == \E n \in Interface : Exists(n) /\ g \in owner[n]

(* Mutant: a group in use is left to the next run, without an error. *)
DeleteRefused_Ignored == at' = "next" /\ UNCHANGED <<current, found, attached, todo, tries, rest, result>>
DeleteRefused == Return("error")

DeleteSecurityGroup ==
    /\ at = "deleteGroup"
    /\ \/ /\ current \in sgs
          /\ ~InUse(current)
          /\ sgs' = sgs \ {current}
          /\ at' = IF current = Primary THEN "lookup" ELSE "next"
          /\ UNCHANGED <<current, found, attached, todo, tries, rest, result>>
       \/ /\ current \in sgs
          /\ InUse(current)
          /\ DeleteRefused
          /\ UNCHANGED sgs
       \/ /\ current \notin sgs
          /\ Return("already")
          /\ UNCHANGED sgs
    /\ UNCHANGED <<owner, eni>>

(* lookupSecurityGroup: the groups that are there now. *)
LookupSecurityGroups ==
    /\ at = "lookup"
    /\ rest' = sgs \cap Tagged
    /\ at' = "next"
    /\ UNCHANGED <<awsVars, current, found, attached, todo, tries, result>>

NextSecurityGroup ==
    /\ at = "next"
    /\ \/ \E g \in rest :
             /\ current' = g
             /\ rest' = rest \ {g}
             /\ at' = "find"
             /\ UNCHANGED <<found, attached, todo, tries, result>>
       \/ rest = {} /\ Return("cleaned")
    /\ UNCHANGED awsVars

(* Any other error of AWS ends the command. *)
CallFails ==
    /\ "api" \in Fault
    /\ \/ at \in {"find", "lookup", "deleteGroup"}
       \/ at \in {"detach", "waitDetached", "delete", "waitDeleted"} /\ todo # {}
    /\ Return("error")
    /\ UNCHANGED awsVars

-----------------------------------------------------------------------------
(* AWS finishes detaching an interface, or deleting it. *)
Settles(n) ==
    /\ \/ eni[n] = "detaching" /\ eni' = [eni EXCEPT ![n] = "available"]
       \/ eni[n] = "deleting" /\ eni' = [eni EXCEPT ![n] = "gone"]
    /\ UNCHANGED <<sgs, owner, at, current, found, attached, todo, tries, rest, result>>

(* The CNI plugin of a worker creates an interface, or attaches one. *)
PluginAttaches(n) ==
    /\ "cni" \in Fault
    /\ \/ eni[n] = "none" /\ owner[n] \subseteq (sgs \cup {Foreign})
       \/ eni[n] = "available"
    /\ eni' = [eni EXCEPT ![n] = "attached"]
    /\ attached' = attached \ {n}
    /\ UNCHANGED <<sgs, owner, at, current, found, todo, tries, rest, result>>

(* Somebody else, such as terraform destroy, deletes an interface. *)
DeletedElsewhere(n) ==
    /\ "other" \in Fault
    /\ eni[n] = "available"
    /\ eni' = [eni EXCEPT ![n] = "gone"]
    /\ UNCHANGED <<sgs, owner, at, current, found, attached, todo, tries, rest, result>>

(* ... or a group. *)
GroupDeletedElsewhere(g) ==
    /\ "other" \in Fault
    /\ g \in sgs
    /\ ~InUse(g)
    /\ sgs' = sgs \ {g}
    /\ UNCHANGED <<owner, eni, at, current, found, attached, todo, tries, rest, result>>

Command ==
    \/ FindNetworkInterfaces
    \/ \E n \in Interface :
          DetachNetworkInterface(n) \/ WaitDetached(n) \/ DeleteNetworkInterface(n) \/ WaitDeleted(n)
    \/ AllDetachRequested \/ AllDetached \/ AllDeleteRequested \/ AllDeleted
    \/ DeleteSecurityGroup
    \/ LookupSecurityGroups \/ NextSecurityGroup

Next ==
    \/ Start
    \/ Command
    \/ CallFails
    \/ \E n \in Interface :
          DeleteRefusedBusy(n) \/ Settles(n) \/ PluginAttaches(n) \/ DeletedElsewhere(n)
    \/ \E g \in Group : GroupDeletedElsewhere(g)

Spec == Init /\ [][Next]_vars

-----------------------------------------------------------------------------
(***************************************************************************)
(* A run that goes to its end has deleted every group and every interface  *)
(* in them, whatever happened to them meanwhile (README.md:292-300).       *)
(***************************************************************************)
CleanedToTheEnd == result = "cleaned" => sgs = {}

(***************************************************************************)
(* A group is deleted after all the interfaces that were found in it, and  *)
(* after every wait for them (cleanup.go:100).                             *)
(***************************************************************************)
InterfacesFirst == at = "deleteGroup" => \A n \in found : ~Exists(n)

(***************************************************************************)
(* The command detaches and deletes no interface of other groups only, and *)
(* none that is in a group it has not yet come to (cleanup.go:140).        *)
(***************************************************************************)
OthersUntouched ==
    [][Command => \A n \in Interface : eni'[n] # eni[n] => current \in owner[n]]_vars

(***************************************************************************)
(* Fairness: the command goes on, AWS detaches and deletes what it was     *)
(* asked to, and the command is run again until it succeeds.               *)
(***************************************************************************)
FairSpec ==
    /\ Spec
    /\ WF_vars(Command)
    /\ WF_vars(Start)
    /\ \A n \in Interface : WF_vars(Settles(n))

(* From some time on, nothing interferes with the command any more.        *)
FaultsStop ==
    <>[][Start \/ Command \/ \E n \in Interface : Settles(n)]_vars

(***************************************************************************)
(* Run again after a failure, the command gets rid of the group it was     *)
(* given: what an earlier run detached or deleted is no obstacle           *)
(* (cleanup.go:217-231).                                                   *)
(***************************************************************************)
RerunDeletesPrimary == FaultsStop => <>(Primary \notin sgs)
=============================================================================
