--------------------------- MODULE MCRestoration ---------------------------
(* Instances of Restoration for TLC. *)
EXTENDS Restoration

CONSTANTS d1, d2, k1

TwoOfTwo == [k \in Keys |-> 2]
SinglePaper == {<<k1, 2>>}
OneHolds == [d \in Devices |-> IF d = d1 THEN {<<k1, 1>>} ELSE {}]

=============================================================================
