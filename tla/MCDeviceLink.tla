----------------------------- MODULE MCDeviceLink -----------------------------
(* Two ports with chains of up to two devices, of which one has a name. *)
EXTENDS DeviceLink

CONSTANTS d1, d2, p1, p2
=============================================================================
