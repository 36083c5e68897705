------------------------- MODULE MCInterfaceEvents -------------------------
(* Small instances of InterfaceEvents for TLC.                             *)
EXTENDS InterfaceEvents, TLC

(* Nothing tells one device from another.                                  *)
Symmetry == Permutations(Devices)
=============================================================================
