---------------------------- MODULE MCDeviceRules ----------------------------
(***************************************************************************)
(* Instances of DeviceRules for TLC: the time ranges of a short day.       *)
(***************************************************************************)
EXTENDS DeviceRules

Second(from, to) == Start + from .. Start + to

EarlyForce == Second(0, 1)
LateRemainder == Second(2, 6)
MidOffload == Second(2, 6)

=============================================================================
