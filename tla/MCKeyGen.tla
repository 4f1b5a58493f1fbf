------------------------------ MODULE MCKeyGen ------------------------------
(* Instances of KeyGen for TLC. *)
EXTENDS KeyGen

CONSTANTS d1, d2

\* A key of one device, and one of both.
Some == {{d1}, {d1, d2}}

=============================================================================
