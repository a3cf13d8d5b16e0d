----------------------- MODULE MCMachineAPIControllers -----------------------
(***************************************************************************)
(* Instances of MachineAPIControllers for TLC: one or two managers.        *)
(***************************************************************************)
EXTENDS MachineAPIControllers

\* What an administrator may write, good and bad.
AnyData == Image \cup Malformed
===============================================================================
