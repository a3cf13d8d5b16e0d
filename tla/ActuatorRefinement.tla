-------------------------- MODULE ActuatorRefinement --------------------------
(***************************************************************************)
(* The actuator implements MachineLifecycle.                               *)
(***************************************************************************)
EXTENDS Actuator

\* A machine is asked for once it has the finalizer.
RequestOf(m) == CASE obj[m].st \in {"none", "new"} -> "none"
                  [] obj[m].st = "live"     -> "wanted"
                  [] obj[m].st = "deleting" -> "unwanted"
                  [] obj[m].st = "gone"     -> "released"

\* Two servers for one machine have no counterpart in the abstract state.
InstanceOf(m) ==
  LET ss == Instances(m) IN
  CASE ss = {} -> "absent"
    [] \E s \in ss : ss = {s} /\ servers[s].st = "up" -> "running"
    [] \E s \in ss : ss = {s} /\ servers[s].st = "stopping" -> "stopping"
    [] OTHER -> "several"

Lifecycle == INSTANCE MachineLifecycle WITH
  request  <- [m \in Machine |-> RequestOf(m)],
  instance <- [m \in Machine |-> InstanceOf(m)]

\* Every behaviour of workers, cloud, caches and users is, for each machine, a
\* behaviour of the abstract lifecycle: one instance at a time, none before the
\* finalizer is set or after it is removed, and none stopped by the actuator
\* unless the deletion of its own machine was requested.
ImplementsLifecycle == Lifecycle!Spec
===============================================================================
