---------------------------- MODULE MCDeviceOpen ----------------------------
(* DeviceOpen for TLC: two devices with a serial number and one without.   *)
EXTENDS DeviceOpen, TLC

CONSTANTS d1, d2, d3

MCSerial(d) == CASE d = d1 -> 1 [] d = d2 -> 2 [] d = d3 -> NoSerial
HandleSymmetry == Permutations(Handles)
=============================================================================
