-------------------------- MODULE MCRootVolumeWait --------------------------
(***************************************************************************)
(* Instances of RootVolumeWait for TLC: volumes that are there at once,    *)
(* just after a poll, at the last poll, just after it, and never.          *)
(***************************************************************************)
EXTENDS RootVolumeWait

Never == 100000

Delays == {0, 151, 2550, 2551, Never}
===============================================================================
