--------------------------- MODULE MCCoordSigning ---------------------------
(* CoordSigning with devices that answer in any order and with any part of *)
(* their nonce streams, for TLC.                                           *)
EXTENDS CoordSigning, TLC

CONSTANTS
  d1, d2, one, two,
  MaxLen,        \* bound: nonces in one segment
  FirstIndices,  \* bound: first indices of segments
  MaxSessions,   \* bound: sessions at a time, the finished ones too
  MaxFinished    \* bound: finished sessions

Sigs == (one :> 1) @@ (two :> 2)

\* Stream ids are random: no two devices have one in common.
StreamsOf == (d1 :> {1, 2}) @@ (d2 :> {3})

\* The device's nonce with an index is always the same.
NonceAt(x, i) == <<x, i>>

Segments ==
  [d \in Devices |->
    {Segment(x, i, [k \in 1 .. n |-> NonceAt(x, i + k - 1)]) :
       x \in StreamsOf[d], i \in FirstIndices, n \in 1 .. MaxLen}]

Next ==
  /\ CoordNext(Segments)
  /\ Cardinality(DOMAIN active') + Cardinality(finished') <= MaxSessions
  /\ Cardinality(finished') <= MaxFinished

Spec == CoordInit /\ [][Next]_coordVars

----------------------------------------------------------------------------
(* Joining segments against a reference.  A device that lost a stream's slot *)
(* starts it again from other seed material, so two nonces can have an index. *)
(* Sessions do not matter here: it is enough to look while there is none.     *)

Cached ==
  IF ActiveSessions \cup finished # {} THEN {}
  ELSE UNION {{cache[d][x] : x \in DOMAIN cache[d]} : d \in Devices}
Others(x) ==
  {Segment(x, i, [k \in 1 .. n |-> <<"other", x, i + k - 1>>]) : i \in 0 .. MaxLen + 1, n \in 1 .. MaxLen}

\* _extend joins a cached segment and one that meets it to one without holes that
\* has the nonces of both, and for an index both have the one it had first.  Of
\* two with a hole between them it keeps one unchanged, never the shorter one.
ExtendIsUnion ==
  \A seg \in Cached : \A other \in Others(seg.stream) :
    \E new \in {Extend(seg, other)} :
      IF seg.nonces # <<>> /\ Connect(seg, other)
        THEN IsUnionOf(new, seg, other)
        ELSE /\ new \in {seg, other}
             /\ Len(new.nonces) >= Len(seg.nonces)
             /\ Len(new.nonces) >= Len(other.nonces)

=============================================================================
