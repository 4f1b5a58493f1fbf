--------------------------- MODULE MCNorFlashLog ----------------------------
(* Instances of NorFlashLog for TLC. *)
EXTENDS NorFlashLog, TLC

CONSTANTS short, long, other

WordsOf == (short :> 1) @@ (long :> 3) @@ (other :> 3)
ShortOnly == short :> 1

=============================================================================
