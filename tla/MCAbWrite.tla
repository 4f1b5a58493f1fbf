----------------------------- MODULE MCAbWrite ------------------------------
(* Instances of AbWrite for TLC. *)
EXTENDS AbWrite

\* The header, the share and a nonce slot with up to four cached signature
\* shares fit in one 256-byte buffer.
OneChunk == [v \in Values |-> 1]

=============================================================================
