----------------------------- MODULE MCMachineSet -----------------------------
(***************************************************************************)
(* An instance of MachineSet for TLC: a flavor, one of nothing, and one    *)
(* that does not parse; sizes that are negative or not set; and texts that *)
(* lack the architecture, name another one, are not sorted, or repeat a    *)
(* key.                                                                    *)
(***************************************************************************)
EXTENDS MachineSet

MCFlavor == {<<"flex", 16, 4>>, <<"flex", 0, 0>>, <<"gpu", 8, 4, 1>>}

MCSize == {-5, 0}

MCKeyOrder == <<"a", "b", "kubernetes.io/arch">>

label(k, v) == [key |-> k, val |-> v]

MCUserText == { <<label("a", "x")>>,
                <<label("b", "x"), Junk, label("a", "x"), label("b", "y"),
                  label("kubernetes.io/arch", "arm64")>> }
===============================================================================
