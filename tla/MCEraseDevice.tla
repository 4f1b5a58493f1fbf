--------------------------- MODULE MCEraseDevice ----------------------------
(* Instances of EraseDevice for TLC. *)
EXTENDS EraseDevice
=============================================================================
