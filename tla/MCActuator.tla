------------------------------ MODULE MCActuator ------------------------------
(***************************************************************************)
(* Instances of Actuator for TLC: which machines there are, what they are  *)
(* called, where they want to be placed and which tags they ask for.       *)
(***************************************************************************)
EXTENDS ActuatorRefinement, ActuatorInvariant, TLC

(* Constant values common to all runs *)
MCTagKey == {"name", "cluster", "extra"}

tags(extra, name) == [k \in MCTagKey |-> CASE k = "extra" -> extra
                                           [] k = "name" -> name
                                           [] OTHER -> ""]

\* Without user tags, and with user tags that try to claim another name.
PlainTags == {tags("", "")}
SomeTags  == {tags("", ""), tags("x", "x")}

(* One cluster, one or two machines *)
OneName  == [m \in Machine |-> "m1"]
TwoNames == [m \in Machine |-> IF m = "a" THEN "m1" ELSE "m2"]
InOneCluster == [m \in Machine |-> "c1"]
NotPlaced == [m \in Machine |-> Nil]

(* Two clusters in one project, with a machine of the same name each *)
InTwoClusters == [m \in Machine |-> IF m = "a" THEN "c1" ELSE "c2"]

(* Anti-affinity: two clusters, one of them with two machines.  One machine   *)
(* also names a group that somebody has made for another purpose.             *)
SameKey == [m \in Machine |-> [key |-> "k", zone |-> "lpg1"]]
TwoAndOne == [m \in Machine |-> IF m = "d" THEN "c2" ELSE "c1"]
NoneGiven == [m \in Machine |-> {}]
OneGiven == [m \in Machine |-> IF m = "b" THEN {"g0"} ELSE {}]
NoGroups == [g \in GroupId |-> Nil]
OtherGroup == [g \in GroupId |->
                 IF g = "g0" THEN [key |-> "other", zone |-> "lpg1"] ELSE Nil]

\* A bound of the run: of the three machines only one is deleted.
OneDeletion ==
  \A m \in Machine \ {"a"} : obj[m].st \notin {"deleting", "gone"}

Symmetry == Permutations(ServerId)
===============================================================================
