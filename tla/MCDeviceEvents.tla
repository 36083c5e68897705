--------------------------- MODULE MCDeviceEvents ---------------------------
(* Small instances of DeviceEvents for TLC.                                *)
EXTENDS DeviceEvents, TLC

(* Nothing tells one device from another.                                  *)
Symmetry == Permutations(Devices)
=============================================================================
