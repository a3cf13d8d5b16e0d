--------------------------- MODULE MachineLifecycle ---------------------------
(***************************************************************************)
(* What a machine provider promises about each Machine, without tags,      *)
(* lookups, caches, retries or workers: a machine has at most one          *)
(* instance, gets it only while somebody may still want it, loses it only  *)
(* when it is no longer wanted or by an act from outside, and is released  *)
(* only when it has none.                                                  *)
(***************************************************************************)
CONSTANT Machine

VARIABLES
  request,    \* has the machine been asked for, and is it still wanted?
  instance    \* the one instance it may have

vars == <<request, instance>>

Request == {"none", "wanted", "unwanted", "released"}
Instance == {"absent", "running", "stopping"}

LifecycleTypeOK == /\ request \in [Machine -> Request]
                   /\ instance \in [Machine -> Instance]

Init == /\ request = [m \in Machine |-> "none"]
        /\ instance = [m \in Machine |-> "absent"]

Ask(m) == /\ request[m] = "none"
          /\ request' = [request EXCEPT ![m] = "wanted"]
          /\ UNCHANGED instance

\* A request that is withdrawn before it was taken up is released at once.
Withdraw(m) ==
  /\ \/ /\ request[m] = "none"
        /\ request' = [request EXCEPT ![m] = "released"]
     \/ /\ request[m] = "wanted"
        /\ request' = [request EXCEPT ![m] = "unwanted"]
  /\ UNCHANGED instance

\* The provider may not have heard yet that the machine is no longer wanted.
Provision(m) == /\ request[m] \in {"wanted", "unwanted"}
                /\ instance[m] = "absent"
                /\ instance' = [instance EXCEPT ![m] = "running"]
                /\ UNCHANGED request

StopInstance(m) == /\ request[m] = "unwanted" /\ instance[m] = "running"
                   /\ instance' = [instance EXCEPT ![m] = "stopping"]
                   /\ UNCHANGED request

\* A stopping instance ends, or somebody else removes a running one.
Disappear(m) == /\ instance[m] # "absent"
                /\ instance' = [instance EXCEPT ![m] = "absent"]
                /\ UNCHANGED request

Release(m) == /\ request[m] = "unwanted" /\ instance[m] = "absent"
              /\ request' = [request EXCEPT ![m] = "released"]
              /\ UNCHANGED instance

Next == \E m \in Machine : \/ Ask(m) \/ Withdraw(m) \/ Provision(m)
                           \/ StopInstance(m) \/ Disappear(m) \/ Release(m)

Spec == Init /\ [][Next]_vars
===============================================================================
