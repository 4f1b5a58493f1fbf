---------------------------- MODULE MCSignSystem ----------------------------
(* Instances of SignSystem for TLC. *)
EXTENDS SignSystem, TLC

CONSTANTS one, two   \* tasks with one and with two signatures

Sigs == (one :> 1) @@ (two :> 2)
OneSig == one :> 1

=============================================================================
