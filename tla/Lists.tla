------------------------------- MODULE Lists -------------------------------
(* Vec::retain, for the modules that reason about what is left. *)
EXTENDS Naturals, Sequences

\* What is not dropped stays, in its order.
Retain(s, drop) ==
  LET left[n \in 0 .. Len(s)] ==
        IF n = 0 THEN <<>>
        ELSE IF s[n] \in drop THEN left[n - 1] ELSE Append(left[n - 1], s[n])
  IN  left[Len(s)]

=============================================================================
