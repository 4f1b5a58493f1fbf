--------------------------- MODULE MCDeviceNonces ---------------------------
(* Instances of DeviceNonces for TLC. *)
EXTENDS DeviceNonces, TLC

CONSTANTS s1, s2   \* two sessions, the second one with two signatures

SigsOf == (s1 :> 1) @@ (s2 :> 2)

\* Nothing orders stream ids.
StreamSymmetry == Permutations(Streams)

=============================================================================
