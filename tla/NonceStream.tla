---------------------------- MODULE NonceStream -----------------------------
(***************************************************************************)
(* The coordinator's copy of a part of a device's nonce stream, and the    *)
(* operations of frostsnap_core/src/nonce_stream.rs on it.  A segment is   *)
(* the public nonces of one stream from an index on.  A nonce is opaque.   *)
(***************************************************************************)
EXTENDS Integers, Sequences

CONSTANTS
  StreamIndexMax   (* u32::MAX *)

ASSUME StreamIndexMaxAssumption == StreamIndexMax \in Nat

Segment(stream, index, nonces) ==
  [stream |-> stream, index |-> index, nonces |-> nonces]

IndexAfterLast(seg) == seg.index + Len(seg.nonces)

\* index_after_last is None.
Overflows(seg) == IndexAfterLast(seg) > StreamIndexMax

Covers(seg, i) == i >= seg.index /\ i < IndexAfterLast(seg)

GetNonce(seg, i) == seg.nonces[i - seg.index + 1]

\* The two segments overlap or touch.
Connect(curr, other) ==
  IF other.index > curr.index
    THEN IndexAfterLast(curr) >= other.index
    ELSE IndexAfterLast(other) >= curr.index

Smaller(i, j) == IF i < j THEN i ELSE j
Larger(i, j) == IF i > j THEN i ELSE j

\* Mutant: nonces both have are the ones of other.
JoinOtherWins(curr, other) ==
  LET start == Smaller(curr.index, other.index)
      end   == Larger(IndexAfterLast(curr), IndexAfterLast(other))
  IN  Segment(curr.stream, start,
        [k \in 1 .. end - start |->
           IF Covers(other, start + k - 1) THEN GetNonce(other, start + k - 1)
                                           ELSE GetNonce(curr, start + k - 1)])

\* The joined segment: nonces both have are the ones of curr.
Join(curr, other) ==
  LET start == Smaller(curr.index, other.index)
      end   == Larger(IndexAfterLast(curr), IndexAfterLast(other))
  IN  Segment(curr.stream, start,
        [k \in 1 .. end - start |->
           IF Covers(curr, start + k - 1) THEN GetNonce(curr, start + k - 1)
                                          ELSE GetNonce(other, start + k - 1)])

\* _extend: segments with a hole between them are not joined, the longer stays
\* (release builds; a debug build stops when it would keep its own).
Extend(curr, other) ==
  IF ~Connect(curr, other) \/ curr.nonces = <<>>
    THEN IF Len(curr.nonces) > Len(other.nonces) THEN curr ELSE other
    ELSE Join(curr, other)

\* Mutant: the index does not follow the deleted nonces.
DeleteUpToKeepsIndex(seg, upTo) ==
  LET n == Larger(upTo - seg.index, 0)
  IN  Segment(seg.stream, seg.index, SubSeq(seg.nonces, n + 1, Len(seg.nonces)))

\* delete_up_to: pop_front on an empty queue only advances the index.
DeleteUpTo(seg, upTo) ==
  LET n == Larger(upTo - seg.index, 0)
  IN  Segment(seg.stream, seg.index + n, SubSeq(seg.nonces, n + 1, Len(seg.nonces)))

\* Mutant: what remains includes what is taken.
SubSegmentKeepsRemaining(seg, n) ==
  [stream |-> seg.stream, index |-> seg.index, remaining |-> Len(seg.nonces),
   nonces |-> SubSeq(seg.nonces, 1, n)]

\* What a signing request takes: a prefix, with the number that remain.
SubSegment(seg, n) ==
  [stream |-> seg.stream, index |-> seg.index, remaining |-> Len(seg.nonces) - n,
   nonces |-> SubSeq(seg.nonces, 1, n)]

\* A segment that covers the indices of two others and no more, with the nonce of
\* the first where both have one.
IsUnionOf(new, curr, other) ==
  \A i \in 0 .. Larger(IndexAfterLast(new), Larger(IndexAfterLast(curr), IndexAfterLast(other))) :
    /\ Covers(new, i) <=> Covers(curr, i) \/ Covers(other, i)
    /\ Covers(curr, i) => GetNonce(new, i) = GetNonce(curr, i)
    /\ Covers(other, i) /\ ~Covers(curr, i) => GetNonce(new, i) = GetNonce(other, i)

\* A segment falls apart into its first n nonces and the rest: each nonce is in
\* exactly one of the two, at the index it had, and the first part says how many
\* the second has.
FallsApart(seg, first, rest, n) ==
  /\ \A i \in seg.index .. IndexAfterLast(seg) :
       /\ Covers(first, i) <=> i < seg.index + n
       /\ Covers(rest, i) <=> Covers(seg, i) /\ ~Covers(first, i)
       /\ Covers(first, i) => GetNonce(first, i) = GetNonce(seg, i)
       /\ Covers(rest, i) => GetNonce(rest, i) = GetNonce(seg, i)
  /\ first.index = seg.index /\ IndexAfterLast(rest) = IndexAfterLast(seg)
  /\ first.remaining = Len(rest.nonces)

=============================================================================
