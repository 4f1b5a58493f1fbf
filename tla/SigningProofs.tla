--------------------------- MODULE SigningProofs ---------------------------
(* Proofs about the coordinator's signing sessions and its nonce cache, for *)
(* any devices, streams, tasks and threshold, and whatever segments of      *)
(* nonces the devices send, in any order; then about the coordinator and a  *)
(* device at the two ends of a link that breaks, both of which restart.     *)
EXTENDS SignInvariant, SequenceTheorems, FiniteSetTheorems, WellFoundedInduction, TLAPS

----------------------------------------------------------------------------
(* Types *)

\* The segments of nonces N that may arrive.
SegmentsOf(N) == [stream : Streams, index : 0 .. StreamIndexMax, nonces : Seq(N)]

\* The segments of nonces N that may be in the cache: delete_up_to may move the
\* index past the last nonce.
CachedSegments(N) == [stream : Streams, index : Nat, nonces : Seq(N)]

\* The cache of a device: the segment under a stream's id is that stream's.
CacheOK(c, N) ==
  /\ c \in [Devices -> UNION {[S -> CachedSegments(N)] : S \in SUBSET Streams}]
  /\ \A d \in Devices : \A x \in DOMAIN c[d] : c[d][x].stream = x

\* A session is a task and the nonces of its devices.
SessionOK(s) ==
  /\ s.task \in Tasks
  /\ Parties(s) \subseteq Devices
  /\ \A d \in Parties(s) : s.nonces[d].stream \in Streams /\ s.nonces[d].index \in Nat

TypeOK(N) ==
  /\ CacheOK(cache, N)
  /\ \A s \in ActiveSessions :
       SessionOK(s) /\ active[s].sent \subseteq Parties(s) /\ active[s].got \subseteq Parties(s)
  /\ holders \subseteq Devices

----------------------------------------------------------------------------
(* The operations on segments *)

\* A non-empty set of naturals has a least element.
LEMMA LeastNatural ==
  ASSUME NEW S, S \subseteq Nat, S # {}
  PROVE  \E m \in S : \A k \in S : m <= k
<1>1. PICK m \in S : \A k \in S : ~ (<<k, m>> \in OpToRel(<, Nat))
  BY WFMin, NatLessThanWellFounded
<1>2. \A k \in S : ~ (k < m)
  BY <1>1 DEF OpToRel
<1> QED BY <1>2

\* The indices of two segments that meet: every index from the first to the last
\* is one of the first's or one of the second's.
LEMMA JoinedIndices ==
  ASSUME NEW i \in Nat, NEW m \in Nat, NEW j \in Nat, NEW n \in Nat
  PROVE  /\ Smaller(i, j) \in Nat
         /\ Larger(i + m, j + n) \in Nat
         /\ Larger(i + m, j + n) - Smaller(i, j) \in Nat
         /\ \A k \in Nat :
              /\ IF j > i THEN i + m >= j ELSE j + n >= i
              /\ Smaller(i, j) <= k /\ k < Larger(i + m, j + n)
              /\ ~(k >= i /\ k < i + m)
              => k >= j /\ k < j + n
BY DEF Smaller, Larger

\* _extend of two segments of a stream is a segment of that stream.
LEMMA ExtendType ==
  ASSUME NEW N, NEW a \in CachedSegments(N), NEW b \in CachedSegments(N), a.stream = b.stream
  PROVE  Extend(a, b) \in CachedSegments(N) /\ Extend(a, b).stream = a.stream
<1>1. CASE ~Connect(a, b) \/ a.nonces = <<>>
  BY <1>1 DEF Extend
<1>2. CASE Connect(a, b) /\ a.nonces # <<>>
  <2> DEFINE start == Smaller(a.index, b.index)
             end   == Larger(IndexAfterLast(a), IndexAfterLast(b))
             nonce(k) == IF Covers(a, start + k - 1) THEN GetNonce(a, start + k - 1)
                                                     ELSE GetNonce(b, start + k - 1)
             joined == [k \in 1 .. end - start |-> nonce(k)]
  <2>1. /\ a.index \in Nat /\ b.index \in Nat
        /\ a.nonces \in Seq(N) /\ b.nonces \in Seq(N)
        /\ Len(a.nonces) \in Nat /\ Len(b.nonces) \in Nat
    BY LenProperties DEF CachedSegments
  <2>2. start \in Nat /\ end \in Nat /\ end - start \in Nat
    BY <2>1, JoinedIndices DEF IndexAfterLast
  <2>3. ASSUME NEW k \in 1 .. end - start
        PROVE  nonce(k) \in N
    <3> DEFINE i == start + k - 1
    <3>1. i \in Nat
      BY <2>2
    <3>2. CASE Covers(a, i)
      <4>1. i - a.index + 1 \in 1 .. Len(a.nonces)
        BY <2>1, <3>1, <3>2 DEF Covers, IndexAfterLast
      <4>2. GetNonce(a, i) \in N
        BY <2>1, <4>1, ElementOfSeq DEF GetNonce
      <4> QED BY <3>2, <4>2
    <3>3. CASE ~Covers(a, i)
      <4>1. i >= b.index /\ i < b.index + Len(b.nonces)
        <5>1. start <= i /\ i < end
          BY <2>2
        <5>2. ~(i >= a.index /\ i < a.index + Len(a.nonces))
          BY <3>3 DEF Covers, IndexAfterLast
        <5> QED BY <1>2, <2>1, <3>1, <5>1, <5>2, JoinedIndices DEF Connect, IndexAfterLast
      <4>3. i - b.index + 1 \in 1 .. Len(b.nonces)
        BY <2>1, <3>1, <4>1
      <4>2. GetNonce(b, i) \in N
        BY <2>1, <4>3, ElementOfSeq DEF GetNonce
      <4> QED BY <3>3, <4>2
    <3> QED BY <3>2, <3>3
  <2>4. joined \in Seq(N)
    <3> HIDE DEF nonce, start, end
    <3>1. joined \in [1 .. end - start -> N]
      BY <2>3
    <3> QED BY <2>2, <3>1, IsASeq
  <2>5. Extend(a, b) = Segment(a.stream, start, joined)
    BY <1>2 DEF Extend, Join
  <2> HIDE DEF joined, start, end
  <2> QED BY <2>2, <2>4, <2>5 DEF Segment, CachedSegments
<1> QED BY <1>1, <1>2

\* _extend of a segment and one that meets it has the nonces of both and no others,
\* for an index both have the one that was there first: nonces the coordinator has
\* are never exchanged for others, and none is moved to another index.
THEOREM ExtendKeepsBoth ==
  ASSUME NEW N, NEW a \in CachedSegments(N), NEW b \in CachedSegments(N),
         Connect(a, b), a.nonces # <<>>
  PROVE  IsUnionOf(Extend(a, b), a, b)
<1> DEFINE start == Smaller(a.index, b.index)
           end   == Larger(IndexAfterLast(a), IndexAfterLast(b))
           nonce(k) == IF Covers(a, start + k - 1) THEN GetNonce(a, start + k - 1)
                                                   ELSE GetNonce(b, start + k - 1)
           joined == [k \in 1 .. end - start |-> nonce(k)]
           new == Extend(a, b)
<1>1. /\ a.index \in Nat /\ b.index \in Nat
      /\ Len(a.nonces) \in Nat /\ Len(b.nonces) \in Nat
  BY LenProperties DEF CachedSegments
<1>2. start \in Nat /\ end \in Nat /\ end - start \in Nat
  BY <1>1, JoinedIndices DEF IndexAfterLast
<1>3. /\ new.index = start
      /\ new.nonces = joined
  BY DEF Extend, Join, Segment
<1>4. Len(joined) = end - start
  <2> HIDE DEF nonce, start, end
  <2> QED BY <1>2
<1>5. IndexAfterLast(new) = end
  <2> HIDE DEF new, joined, start, end
  <2> QED BY <1>2, <1>3, <1>4 DEF IndexAfterLast
<1>6. SUFFICES ASSUME NEW i \in Nat
               PROVE  /\ Covers(new, i) <=> Covers(a, i) \/ Covers(b, i)
                      /\ Covers(a, i) => GetNonce(new, i) = GetNonce(a, i)
                      /\ Covers(b, i) /\ ~Covers(a, i) => GetNonce(new, i) = GetNonce(b, i)
  <2>1. Larger(IndexAfterLast(new), Larger(IndexAfterLast(a), IndexAfterLast(b))) \in Nat
    BY <1>2, <1>5 DEF Larger
  <2> QED BY <2>1 DEF IsUnionOf
<1>7. Covers(new, i) <=> start <= i /\ i < end
  <2> HIDE DEF new, start, end
  <2> QED BY <1>2, <1>3, <1>5 DEF Covers
<1>8. start <= i /\ i < end <=> Covers(a, i) \/ Covers(b, i)
  <2>1. (IF b.index > a.index THEN a.index + Len(a.nonces) >= b.index
                              ELSE b.index + Len(b.nonces) >= a.index)
    BY DEF Connect, IndexAfterLast
  <2>2. start <= i /\ i < end /\ ~Covers(a, i) => Covers(b, i)
    BY <1>1, <2>1, JoinedIndices DEF Covers, IndexAfterLast
  <2>3. Covers(a, i) \/ Covers(b, i) => start <= i /\ i < end
    BY <1>1 DEF Covers, IndexAfterLast, Smaller, Larger
  <2> QED BY <2>2, <2>3
<1>9. ASSUME start <= i, i < end
      PROVE  GetNonce(new, i) = IF Covers(a, i) THEN GetNonce(a, i) ELSE GetNonce(b, i)
  <2>1. i - start + 1 \in 1 .. end - start /\ start + (i - start + 1) - 1 = i
    BY <1>2, <1>9
  <2>2. GetNonce(new, i) = joined[i - start + 1]
    <3> HIDE DEF new, joined, start
    <3> QED BY <1>3 DEF GetNonce
  <2>3. joined[i - start + 1] = nonce(i - start + 1)
    <3> HIDE DEF nonce, start, end
    <3> QED BY <2>1
  <2> HIDE DEF joined, start, end, new
  <2> QED BY <2>1, <2>2, <2>3
<1> HIDE DEF new, start, end
<1> QED BY <1>7, <1>8, <1>9

\* delete_up_to leaves no index below the one it is given.
LEMMA DeleteUpToType ==
  ASSUME NEW N, NEW seg \in CachedSegments(N), NEW upTo \in Nat
  PROVE  /\ DeleteUpTo(seg, upTo) \in CachedSegments(N)
         /\ DeleteUpTo(seg, upTo).stream = seg.stream
         /\ DeleteUpTo(seg, upTo).index >= upTo
<1> DEFINE n == Larger(upTo - seg.index, 0)
<1>1. seg.index \in Nat /\ seg.nonces \in Seq(N) /\ Len(seg.nonces) \in Nat
  BY LenProperties DEF CachedSegments
<1>2. n \in Nat /\ seg.index + n \in Nat /\ seg.index + n >= upTo
  BY <1>1 DEF Larger
<1>3. SubSeq(seg.nonces, n + 1, Len(seg.nonces)) \in Seq(N)
  <2>1. \A i \in n + 1 .. Len(seg.nonces) : i \in 1 .. Len(seg.nonces)
    BY <1>1, <1>2
  <2>2. \A i \in n + 1 .. Len(seg.nonces) : seg.nonces[i] \in N
    BY <1>1, <2>1, ElementOfSeq
  <2> HIDE DEF n
  <2> QED BY <1>1, <1>2, <2>2, SubSeqProperties
<1>4. DeleteUpTo(seg, upTo) = Segment(seg.stream, seg.index + n, SubSeq(seg.nonces, n + 1, Len(seg.nonces)))
  BY DEF DeleteUpTo
<1> HIDE DEF n
<1> QED BY <1>2, <1>3, <1>4 DEF Segment, CachedSegments

\* What a signing request takes and what delete_up_to leaves are the two parts of a
\* segment, none of them moved and none lost.
LEMMA PrefixAndRest ==
  ASSUME NEW N, NEW seg \in CachedSegments(N), NEW n \in 0 .. Len(seg.nonces)
  PROVE  FallsApart(seg, SubSegment(seg, n), DeleteUpTo(seg, seg.index + n), n)
<1> DEFINE m == Len(seg.nonces)
           first == SubSegment(seg, n)
           rest == DeleteUpTo(seg, seg.index + n)
<1>1. seg.index \in Nat /\ seg.nonces \in Seq(N) /\ m \in Nat /\ n \in Nat /\ n <= m
  BY LenProperties DEF CachedSegments
<1>2. /\ first.index = seg.index /\ first.nonces = SubSeq(seg.nonces, 1, n)
      /\ first.remaining = m - n
  BY DEF SubSegment
<1>3. rest.index = seg.index + n /\ rest.nonces = SubSeq(seg.nonces, n + 1, m)
  <2> DEFINE dropped == Larger((seg.index + n) - seg.index, 0)
  <2>1. dropped = n
    BY <1>1 DEF Larger
  <2>2. rest = Segment(seg.stream, seg.index + dropped, SubSeq(seg.nonces, dropped + 1, m))
    BY DEF DeleteUpTo
  <2> HIDE DEF dropped, rest
  <2> QED BY <2>1, <2>2 DEF Segment
<1>4. /\ Len(SubSeq(seg.nonces, 1, n)) = n
      /\ \A k \in 1 .. n : SubSeq(seg.nonces, 1, n)[k] = seg.nonces[k]
  <2>1. \A k \in 1 .. n : seg.nonces[k] \in N
    BY <1>1, ElementOfSeq
  <2> QED BY <1>1, <2>1, SubSeqProperties
<1>5. /\ Len(SubSeq(seg.nonces, n + 1, m)) = m - n
      /\ \A k \in 1 .. m - n : SubSeq(seg.nonces, n + 1, m)[k] = seg.nonces[n + k]
  <2>1. \A k \in n + 1 .. m : seg.nonces[k] \in N
    BY <1>1, ElementOfSeq
  <2>2. CASE n = m
    BY <1>1, <2>1, <2>2, SubSeqProperties
  <2>3. CASE n < m
    BY <1>1, <2>1, <2>3, SubSeqProperties
  <2> QED BY <1>1, <2>2, <2>3
<1> HIDE DEF m, first, rest
<1>6. IndexAfterLast(first) = seg.index + n
  BY <1>2, <1>4 DEF IndexAfterLast
<1>7. IndexAfterLast(rest) = seg.index + m /\ IndexAfterLast(seg) = seg.index + m
  BY <1>1, <1>3, <1>5 DEF IndexAfterLast, m
<1>8. ASSUME NEW i \in seg.index .. IndexAfterLast(seg)
      PROVE  /\ Covers(first, i) <=> i < seg.index + n
             /\ Covers(rest, i) <=> Covers(seg, i) /\ ~Covers(first, i)
             /\ Covers(first, i) => GetNonce(first, i) = GetNonce(seg, i)
             /\ Covers(rest, i) => GetNonce(rest, i) = GetNonce(seg, i)
  <2>1. i \in Nat /\ seg.index <= i
    BY <1>1, <1>7
  <2>2. Covers(first, i) <=> i < seg.index + n
    BY <1>1, <1>2, <1>6, <2>1 DEF Covers
  <2>3. Covers(rest, i) <=> seg.index + n <= i /\ i < seg.index + m
    BY <1>1, <1>3, <1>7, <2>1 DEF Covers
  <2>4. Covers(seg, i) <=> i < seg.index + m
    BY <1>1, <1>7, <2>1 DEF Covers
  <2>5. ASSUME i < seg.index + n
        PROVE  GetNonce(first, i) = GetNonce(seg, i)
    <3>1. i - seg.index + 1 \in 1 .. n
      BY <1>1, <2>1, <2>5
    <3> QED BY <1>2, <1>4, <3>1 DEF GetNonce
  <2>6. ASSUME seg.index + n <= i, i < seg.index + m
        PROVE  GetNonce(rest, i) = GetNonce(seg, i)
    <3> DEFINE k == i - (seg.index + n) + 1
    <3>1. k \in 1 .. m - n /\ n + k = i - seg.index + 1
      BY <1>1, <2>1, <2>6
    <3>2. GetNonce(rest, i) = SubSeq(seg.nonces, n + 1, m)[k]
      BY <1>3 DEF GetNonce
    <3> HIDE DEF k
    <3> QED BY <1>5, <3>1, <3>2 DEF GetNonce
  <2> QED BY <1>1, <2>1, <2>2, <2>3, <2>4, <2>5, <2>6
<1>9. first.remaining = Len(rest.nonces)
  BY <1>2, <1>3, <1>5
<1> QED BY <1>2, <1>7, <1>8, <1>9 DEF FallsApart, first, rest

----------------------------------------------------------------------------
(* The cache *)

\* extend_segment keeps the cache well formed.
LEMMA ExtendSegmentOK ==
  ASSUME NEW N, NEW c, CacheOK(c, N), NEW d \in Devices, NEW seg \in SegmentsOf(N)
  PROVE  CacheOK(ExtendSegment(c, d, seg), N)
<1> DEFINE curr == IF seg.stream \in DOMAIN c[d] THEN c[d][seg.stream]
                                                ELSE Segment(seg.stream, 0, <<>>)
           new == IF Overflows(seg) THEN curr ELSE Extend(curr, seg)
           S == DOMAIN c[d] \cup {seg.stream}
           cd == [x \in S |-> IF x = seg.stream THEN new ELSE c[d][x]]
<1>1. seg \in CachedSegments(N) /\ seg.stream \in Streams
  BY StreamIndexMaxAssumption DEF SegmentsOf, CachedSegments
<1>2. DOMAIN c[d] \subseteq Streams /\ \A x \in DOMAIN c[d] : c[d][x] \in CachedSegments(N)
  BY DEF CacheOK
<1>3. curr \in CachedSegments(N) /\ curr.stream = seg.stream
  BY <1>1, <1>2, EmptySeq DEF CacheOK, Segment, CachedSegments
<1>4. new \in CachedSegments(N) /\ new.stream = seg.stream
  <2> HIDE DEF curr
  <2> QED BY <1>1, <1>3, ExtendType
<1>5. S \in SUBSET Streams
  BY <1>1, <1>2
<1>6. /\ cd \in [S -> CachedSegments(N)]
      /\ \A x \in S : cd[x].stream = x
  <2> HIDE DEF new
  <2> QED BY <1>2, <1>4 DEF CacheOK
<1>7. ExtendSegment(c, d, seg) = [c EXCEPT ![d] = cd]
  BY DEF ExtendSegment
<1>8. cd \in UNION {[T -> CachedSegments(N)] : T \in SUBSET Streams}
  BY <1>5, <1>6
<1> HIDE DEF cd, S
<1>9. DOMAIN cd = S
  BY DEF cd
<1> QED BY <1>6, <1>7, <1>8, <1>9 DEF CacheOK

\* What a session uses of a device ends at a number.
LEMMA IndexAfterNat ==
  ASSUME NEW s, SessionOK(s), NEW d \in Parties(s)
  PROVE  IndexAfter(s, d) \in Nat
<1>1. TaskSigs[s.task] \in Nat
  BY CoordAssumption DEF SessionOK
<1> QED BY <1>1 DEF SessionOK, IndexAfter, NSigsOf

\* The nonces that closing sessions use up: the cache stays well formed and keeps
\* its streams.
LEMMA ConsumeOK ==
  ASSUME NEW N, TypeOK(N), NEW c, CacheOK(c, N), NEW S \in SUBSET ActiveSessions
  PROVE  /\ CacheOK(Consume(c, S), N)
         /\ \A d \in Devices : DOMAIN Consume(c, S)[d] = DOMAIN c[d]
<1> DEFINE users(d, x) == {s \in S : d \in active[s].sent /\ s.nonces[d].stream = x}
           seg(d, x) == IF users(d, x) = {} THEN c[d][x]
                        ELSE DeleteUpTo(c[d][x], IndexAfter(CHOOSE s \in users(d, x) : TRUE, d))
           cd(d) == [x \in DOMAIN c[d] |-> seg(d, x)]
<1>1. Consume(c, S) = [d \in Devices |-> cd(d)]
  BY DEF Consume
<1>2. ASSUME NEW d \in Devices, NEW x \in DOMAIN c[d]
      PROVE  seg(d, x) \in CachedSegments(N) /\ seg(d, x).stream = x
  <2>1. c[d][x] \in CachedSegments(N) /\ c[d][x].stream = x
    BY <1>2 DEF CacheOK
  <2>2. CASE users(d, x) = {}
    BY <2>1, <2>2
  <2>3. CASE users(d, x) # {}
    <3>1. PICK s : s = CHOOSE r \in users(d, x) : TRUE
      OBVIOUS
    <3>2. s \in S /\ d \in active[s].sent
      BY <2>3, <3>1
    <3>3. IndexAfter(s, d) \in Nat
      BY <3>2, IndexAfterNat DEF TypeOK
    <3>4. seg(d, x) = DeleteUpTo(c[d][x], IndexAfter(s, d))
      BY <2>3, <3>1
    <3> HIDE DEF seg
    <3> QED BY <2>1, <3>3, <3>4, DeleteUpToType
  <2> QED BY <2>2, <2>3
<1> HIDE DEF seg
<1>3. ASSUME NEW d \in Devices
      PROVE  /\ cd(d) \in UNION {[T -> CachedSegments(N)] : T \in SUBSET Streams}
             /\ DOMAIN cd(d) = DOMAIN c[d]
             /\ \A x \in DOMAIN c[d] : cd(d)[x].stream = x
  <2>1. DOMAIN c[d] \in SUBSET Streams
    BY DEF CacheOK
  <2>2. cd(d) \in [DOMAIN c[d] -> CachedSegments(N)]
    BY <1>2
  <2> QED BY <1>2, <2>1, <2>2
<1> HIDE DEF cd
<1> QED BY <1>1, <1>3 DEF CacheOK

\* No two active sessions use a stream of a device, so what a closed session was
\* asked to use of it is gone, and not what another one was.
LEMMA ConsumeDeletes ==
  ASSUME NEW N, TypeOK(N), ActiveNoncesDisjoint, NEW c, CacheOK(c, N),
         NEW S \in SUBSET ActiveSessions, NEW s \in S, NEW d \in active[s].sent,
         s.nonces[d].stream \in DOMAIN c[d]
  PROVE  Consume(c, S)[d][s.nonces[d].stream].index >= IndexAfter(s, d)
<1> DEFINE x == s.nonces[d].stream
           users == {r \in S : d \in active[r].sent /\ r.nonces[d].stream = x}
<1>1. d \in Devices /\ d \in Parties(s) /\ SessionOK(s)
  BY DEF TypeOK, SessionOK
<1>2. users = {s}
  <2>1. ASSUME NEW r \in users PROVE r = s
    <3>1. d \in Parties(r) \cap Parties(s)
      BY <1>1 DEF TypeOK
    <3> QED BY <3>1 DEF ActiveNoncesDisjoint
  <2> QED BY <2>1
<1>3. Consume(c, S)[d][x] = DeleteUpTo(c[d][x], IndexAfter(CHOOSE r \in users : TRUE, d))
  BY <1>1, <1>2 DEF Consume
<1>4. (CHOOSE r \in users : TRUE) = s
  BY <1>2
<1>5. c[d][x] \in CachedSegments(N)
  BY <1>1 DEF CacheOK
<1>6. IndexAfter(s, d) \in Nat
  BY <1>1, IndexAfterNat
<1> HIDE DEF x, users
<1> QED BY <1>3, <1>4, <1>5, <1>6, DeleteUpToType DEF x

\* new_signing_session takes a stream that no active session uses.
LEMMA ChosenNoncesUnused ==
  ASSUME NEW N, CacheOK(cache, N), NEW d \in Devices, NEW n, SuitableStreams(d, n) # {}
  PROVE  /\ ChosenNonces(d, n).stream \in Streams \ UsedStreams
         /\ ChosenNonces(d, n).index \in Nat
<1> DEFINE x == CHOOSE y \in SuitableStreams(d, n) : \A z \in SuitableStreams(d, n) : y <= z
<1>1. SuitableStreams(d, n) \subseteq DOMAIN cache[d] \ UsedStreams
  BY DEF SuitableStreams
<1>2. DOMAIN cache[d] \subseteq Streams /\ SuitableStreams(d, n) \subseteq Nat
  <2>1. DOMAIN cache[d] \subseteq Streams
    BY DEF CacheOK
  <2> QED BY <1>1, <2>1, CoordAssumption
<1>3. x \in SuitableStreams(d, n)
  <2>1. \E y \in SuitableStreams(d, n) : \A z \in SuitableStreams(d, n) : y <= z
    BY <1>2, LeastNatural
  <2> QED BY <2>1
<1>4. cache[d][x].stream = x /\ cache[d][x].index \in Nat
  <2> HIDE DEF x
  <2> QED BY <1>1, <1>3 DEF CacheOK, CachedSegments
<1>5. ChosenNonces(d, n) = SubSegment(cache[d][x], n)
  BY DEF ChosenNonces
<1> HIDE DEF x
<1> QED BY <1>1, <1>2, <1>3, <1>4, <1>5 DEF SubSegment

----------------------------------------------------------------------------
(* The coordinator *)

\* The inductive invariant.
CoordInvariant(N) ==
  /\ TypeOK(N)
  /\ ActiveNoncesDisjoint
  /\ AskedDevicesHoldShares

\* Sessions close: what is left of them is as before.
LEMMA CloseKeepsInvariant ==
  ASSUME NEW N, CoordInvariant(N), NEW c, CacheOK(c, N), NEW S \in SUBSET ActiveSessions,
         DOMAIN active' = ActiveSessions \ S,
         \A s \in ActiveSessions \ S : active'[s] = active[s],
         cache' = Consume(c, S),
         \A s \in ActiveSessions \ S : active[s].sent \subseteq holders',
         holders' \subseteq Devices
  PROVE  CoordInvariant(N)'
<1>1. /\ DOMAIN active' = ActiveSessions \ S
      /\ \A s \in ActiveSessions \ S : active'[s] = active[s]
  OBVIOUS
<1>2. CacheOK(Consume(c, S), N)
  BY ConsumeOK DEF CoordInvariant
<1>3. CacheOK(cache', N)
  BY <1>2
<1>4. TypeOK(N)'
  BY <1>1, <1>3 DEF CoordInvariant, TypeOK, CacheOK, ActiveSessions
<1>5. ActiveNoncesDisjoint'
  BY <1>1 DEF CoordInvariant, ActiveNoncesDisjoint, ActiveSessions
<1>6. AskedDevicesHoldShares'
  BY <1>1 DEF CoordInvariant, AskedDevicesHoldShares, ActiveSessions
<1> QED BY <1>4, <1>5, <1>6 DEF CoordInvariant

\* start_sign keeps the nonces of active sessions apart.
LEMMA StartSignKeepsInvariant ==
  ASSUME NEW N, CoordInvariant(N), NEW t \in Tasks, NEW selected \in SUBSET Devices,
         StartSign(t, selected)
  PROVE  CoordInvariant(N)'
<1> DEFINE s == NewSession(t, selected)
<1>1. CacheOK(cache, N) /\ selected \subseteq Devices
  BY DEF CoordInvariant, TypeOK
<1>2. Parties(s) = selected /\ s.task = t
  BY DEF NewSession, Parties
<1>3. \A d \in selected : s.nonces[d] = ChosenNonces(d, TaskSigs[t])
  BY DEF NewSession
<1>4. \A d \in selected : /\ s.nonces[d].stream \in Streams \ UsedStreams
                           /\ s.nonces[d].index \in Nat
  BY <1>1, <1>3, ChosenNoncesUnused DEF StartSign
<1> HIDE DEF s
<1>5. /\ DOMAIN active' = ActiveSessions \cup {s}
      /\ active'[s] = [sent |-> {}, got |-> {}]
      /\ \A r \in ActiveSessions : r # s => active'[r] = active[r]
      /\ cache' = cache /\ holders' = holders
  BY DEF StartSign, s
<1>6. SessionOK(s)
  BY <1>1, <1>2, <1>4 DEF SessionOK
<1>7. TypeOK(N)'
  <2>1. CacheOK(cache, N)'
    BY <1>1, <1>5 DEF CacheOK
  <2>2. ASSUME NEW r \in DOMAIN active'
        PROVE  SessionOK(r) /\ active'[r].sent \subseteq Parties(r) /\ active'[r].got \subseteq Parties(r)
    BY <1>5, <1>6, <2>2 DEF CoordInvariant, TypeOK
  <2> QED BY <1>5, <2>1, <2>2 DEF CoordInvariant, TypeOK, ActiveSessions
<1>8. ActiveNoncesDisjoint'
  <2>1. \A r \in ActiveSessions : \A d \in Parties(r) : r.nonces[d].stream \in UsedStreams
    BY DEF UsedStreams
  <2>2. ASSUME NEW r \in ActiveSessions, NEW d \in Parties(s) \cap Parties(r)
        PROVE  s.nonces[d].stream # r.nonces[d].stream
    BY <1>2, <1>4, <2>1
  <2> QED BY <1>5, <2>2 DEF CoordInvariant, ActiveNoncesDisjoint, ActiveSessions
<1>9. AskedDevicesHoldShares'
  BY <1>5 DEF CoordInvariant, AskedDevicesHoldShares, ActiveSessions
<1> QED BY <1>7, <1>8, <1>9 DEF CoordInvariant

\* A step that starts and closes no session: nonces arrive, a device is asked or
\* its shares arrive, or a device is no longer a holder.
LEMMA SameSessionsKeepInvariant ==
  ASSUME NEW N, CoordInvariant(N), CacheOK(cache', N), DOMAIN active' = ActiveSessions,
         \A s \in ActiveSessions :
           active'[s].sent \subseteq Parties(s) \cap holders' /\ active'[s].got \subseteq Parties(s),
         holders' \subseteq Devices
  PROVE  CoordInvariant(N)'
<1>1. TypeOK(N)'
  BY DEF CoordInvariant, TypeOK, CacheOK, ActiveSessions
<1>2. ActiveNoncesDisjoint'
  BY DEF CoordInvariant, ActiveNoncesDisjoint, ActiveSessions
<1>3. AskedDevicesHoldShares'
  BY DEF CoordInvariant, AskedDevicesHoldShares, ActiveSessions
<1> QED BY <1>1, <1>2, <1>3 DEF CoordInvariant

\* What the invariant says of a session.
LEMMA SessionFacts ==
  ASSUME NEW N, CoordInvariant(N)
  PROVE  /\ CacheOK(cache, N)
         /\ holders \subseteq Devices
         /\ \A s \in ActiveSessions : /\ active[s].sent \subseteq Parties(s) \cap holders
                                       /\ active[s].got \subseteq Parties(s)
                                       /\ Parties(s) \subseteq Devices
BY DEF CoordInvariant, TypeOK, AskedDevicesHoldShares, SessionOK

\* Nothing but the crash or the finished sessions change.
LEMMA UnchangedKeepsInvariant ==
  ASSUME NEW N, CoordInvariant(N), UNCHANGED <<cache, active, holders>>
  PROVE  CoordInvariant(N)'
BY DEF CoordInvariant, TypeOK, CacheOK, ActiveSessions, ActiveNoncesDisjoint, AskedDevicesHoldShares

\* There is no session in an empty map.
LEMMA NoSessions == DOMAIN <<>> = {}
OBVIOUS

\* The cache with the nonces that came with shares.
LEMMA ReplenishedOK ==
  ASSUME NEW N, CoordInvariant(N), NEW d \in Devices, NEW replenish,
         replenish = <<>> \/ \E seg \in SegmentsOf(N) : replenish = <<seg>>
  PROVE  CacheOK(Replenished(d, replenish), N)
<1>1. CASE replenish = <<>>
  BY <1>1, SessionFacts DEF Replenished
<1>2. CASE replenish # <<>>
  <2>1. PICK seg \in SegmentsOf(N) : replenish = <<seg>>
    BY <1>2
  <2>2. Replenished(d, replenish) = ExtendSegment(cache, d, seg)
    BY <1>2, <2>1 DEF Replenished
  <2> QED BY <2>2, SessionFacts, ExtendSegmentOK
<1> QED BY <1>1, <1>2

\* Shares that arrive, with or without nonces.
LEMMA RecvSharesKeepsInvariant ==
  ASSUME NEW N, CoordInvariant(N), NEW d \in Devices, NEW s, NEW used, NEW replenish,
         replenish = <<>> \/ \E seg \in SegmentsOf(N) : replenish = <<seg>>,
         RecvShares(d, s, used, replenish)
  PROVE  CoordInvariant(N)'
<1>1. CacheOK(Replenished(d, replenish), N)
  BY ReplenishedOK
<1>2. CASE ~AcceptShares(d, s, used)
  BY <1>2, UnchangedKeepsInvariant DEF RecvShares, coordVars
<1>3. CASE AcceptShares(d, s, used) /\ active[s].got \cup {d} # Parties(s)
  <2>1. /\ s \in ActiveSessions /\ d \in Parties(s)
        /\ active' = [active EXCEPT ![s].got = @ \cup {d}]
        /\ cache' = Replenished(d, replenish)
        /\ holders' = holders
    BY <1>3 DEF RecvShares, AcceptShares
  <2>2. /\ DOMAIN active' = ActiveSessions
        /\ \A r \in ActiveSessions : r # s => active'[r] = active[r]
        /\ active'[s] = [active[s] EXCEPT !.got = active[s].got \cup {d}]
    BY <2>1 DEF ActiveSessions
  <2>3. \A r \in ActiveSessions :
          active'[r].sent \subseteq Parties(r) \cap holders' /\ active'[r].got \subseteq Parties(r)
    BY <2>1, <2>2, SessionFacts
  <2> QED BY <1>1, <2>1, <2>2, <2>3, SameSessionsKeepInvariant, SessionFacts
<1>4. CASE /\ AcceptShares(d, s, used) /\ active[s].got \cup {d} = Parties(s)
           /\ ~CanConsume(Replenished(d, replenish), {s})
  BY <1>4, UnchangedKeepsInvariant DEF RecvShares, Crash
<1>5. CASE /\ AcceptShares(d, s, used) /\ active[s].got \cup {d} = Parties(s)
           /\ CanConsume(Replenished(d, replenish), {s})
  <2>1. /\ s \in ActiveSessions
        /\ active' = Without({s})
        /\ cache' = Consume(Replenished(d, replenish), {s})
        /\ holders' = holders
    BY <1>5 DEF RecvShares, AcceptShares, CompletedCache
  <2>2. /\ DOMAIN active' = ActiveSessions \ {s}
        /\ \A r \in ActiveSessions \ {s} : active'[r] = active[r]
    BY <2>1 DEF Without
  <2> QED BY <1>1, <2>1, <2>2, CloseKeepsInvariant, SessionFacts
<1> QED BY <1>2, <1>3, <1>4, <1>5

\* Every step of the coordinator keeps the invariant.
LEMMA CoordStepKeepsInvariant ==
  ASSUME NEW N, NEW segs \in [Devices -> SUBSET SegmentsOf(N)],
         CoordInvariant(N), [CoordNext(segs)]_coordVars
  PROVE  CoordInvariant(N)'
<1>1. ASSUME NEW t \in Tasks, NEW selected \in SUBSET Devices, StartSign(t, selected)
      PROVE  CoordInvariant(N)'
  BY <1>1, StartSignKeepsInvariant
<1>2. ASSUME NEW s \in ActiveSessions, NEW d \in Devices, RequestDeviceSign(s, d)
      PROVE  CoordInvariant(N)'
  <2>1. CASE d \in holders
    <3>1. /\ d \in Parties(s) /\ cache' = cache /\ holders' = holders
          /\ active' = [active EXCEPT ![s].sent = @ \cup {d}]
      BY <1>2, <2>1 DEF RequestDeviceSign
    <3>2. /\ DOMAIN active' = ActiveSessions
          /\ \A r \in ActiveSessions : r # s => active'[r] = active[r]
          /\ active'[s] = [active[s] EXCEPT !.sent = active[s].sent \cup {d}]
      BY <3>1 DEF ActiveSessions
    <3>3. \A r \in ActiveSessions :
            active'[r].sent \subseteq Parties(r) \cap holders' /\ active'[r].got \subseteq Parties(r)
      BY <2>1, <3>1, <3>2, SessionFacts
    <3> QED BY <3>1, <3>2, <3>3, SameSessionsKeepInvariant, SessionFacts
  <2>2. CASE d \notin holders
    BY <1>2, <2>2, UnchangedKeepsInvariant DEF RequestDeviceSign, Crash
  <2> QED BY <2>1, <2>2
<1>3. ASSUME NEW d \in Devices, NEW seg \in segs[d], RecvNonces(d, seg)
      PROVE  CoordInvariant(N)'
  <2>1. cache' = ExtendSegment(cache, d, seg) /\ active' = active /\ holders' = holders
    BY <1>3 DEF RecvNonces
  <2>2. seg \in SegmentsOf(N)
    OBVIOUS
  <2>3. CacheOK(cache', N)
    BY <2>1, <2>2, ExtendSegmentOK, SessionFacts
  <2>4. DOMAIN active' = ActiveSessions
    BY <2>1 DEF ActiveSessions
  <2> QED BY <2>1, <2>3, <2>4, SameSessionsKeepInvariant, SessionFacts
<1>4. CASE GoodShares(segs)
  <2>a. PICK s \in ActiveSessions : \E d \in active[s].sent :
          \E replenish \in {<<>>} \cup {<<seg>> : seg \in segs[d]} :
            RecvShares(d, s, s.nonces[d].nonces, replenish)
    BY <1>4 DEF GoodShares
  <2>b. PICK d \in active[s].sent : \E replenish \in {<<>>} \cup {<<seg>> : seg \in segs[d]} :
            RecvShares(d, s, s.nonces[d].nonces, replenish)
    BY <2>a
  <2>1. PICK replenish \in {<<>>} \cup {<<seg>> : seg \in segs[d]} :
            RecvShares(d, s, s.nonces[d].nonces, replenish)
    BY <2>b
  <2>2. d \in Devices
    BY SessionFacts
  <2>3. replenish = <<>> \/ \E seg \in SegmentsOf(N) : replenish = <<seg>>
    BY <2>2
  <2> QED BY <2>1, <2>2, <2>3, RecvSharesKeepsInvariant
<1>5. CASE BadShares
  <2>a. PICK s \in ActiveSessions \cup finished : \E d \in Parties(s) : RecvShares(d, s, <<>>, <<>>)
    BY <1>5 DEF BadShares
  <2>1. PICK d \in Parties(s) : RecvShares(d, s, <<>>, <<>>)
    BY <2>a
  <2>2. CASE AcceptShares(d, s, <<>>)
    <3>1. d \in Devices
      BY <2>2, SessionFacts DEF AcceptShares
    <3> QED BY <2>1, <3>1, RecvSharesKeepsInvariant
  <2>3. CASE ~AcceptShares(d, s, <<>>)
    BY <2>1, <2>3, UnchangedKeepsInvariant DEF RecvShares, coordVars
  <2> QED BY <2>2, <2>3
<1>6. ASSUME NEW s \in ActiveSessions, CancelSignSession(s)
      PROVE  CoordInvariant(N)'
  <2>1. CASE CanConsume(cache, {s})
    <3>1. active' = Without({s}) /\ cache' = Consume(cache, {s}) /\ holders' = holders
      BY <1>6, <2>1 DEF CancelSignSession
    <3>2. /\ DOMAIN active' = ActiveSessions \ {s}
          /\ \A r \in ActiveSessions \ {s} : active'[r] = active[r]
      BY <3>1 DEF Without
    <3> QED BY <3>1, <3>2, CloseKeepsInvariant, SessionFacts
  <2>2. CASE ~CanConsume(cache, {s})
    BY <1>6, <2>2, UnchangedKeepsInvariant DEF CancelSignSession, Crash
  <2> QED BY <2>1, <2>2
<1>7. CASE CancelAllSignSessions \/ DeleteKey
  <2>1. CASE CanConsume(cache, ActiveSessions)
    <3>1. /\ active' = <<>> /\ cache' = Consume(cache, ActiveSessions)
          /\ holders' = holders \/ holders' = {}
      BY <1>7, <2>1 DEF CancelAllSignSessions, DeleteKey
    <3>2. DOMAIN active' = ActiveSessions \ ActiveSessions
      BY <3>1, NoSessions
    <3> QED BY <3>1, <3>2, CloseKeepsInvariant, SessionFacts
  <2>2. CASE ~CanConsume(cache, ActiveSessions)
    BY <1>7, <2>2, UnchangedKeepsInvariant DEF CancelAllSignSessions, DeleteKey, Crash
  <2> QED BY <2>1, <2>2
<1>8. ASSUME NEW s \in finished, ForgetFinishedSignSession(s)
      PROVE  CoordInvariant(N)'
  BY <1>8, UnchangedKeepsInvariant DEF ForgetFinishedSignSession
<1>9. ASSUME NEW d \in Devices, DeleteShare(d)
      PROVE  CoordInvariant(N)'
  <2>1. /\ cache' = cache /\ active' = active /\ holders' = holders \ {d}
        /\ \A s \in ActiveSessions : d \notin active[s].sent
    BY <1>9 DEF DeleteShare
  <2>2. DOMAIN active' = ActiveSessions
    BY <2>1 DEF ActiveSessions
  <2> QED BY <2>1, <2>2, SameSessionsKeepInvariant, SessionFacts
<1>10. CASE UNCHANGED coordVars
  BY <1>10, UnchangedKeepsInvariant DEF coordVars
<1> QED BY <1>1, <1>2, <1>3, <1>4, <1>5, <1>6, <1>7, <1>8, <1>9, <1>10 DEF CoordNext

\* Nothing was received or begun.
LEMMA CoordInitInvariant ==
  ASSUME NEW N, CoordInit
  PROVE  CoordInvariant(N)
<1>1. ActiveSessions = {}
  BY NoSessions DEF CoordInit, ActiveSessions
<1>2. CacheOK(cache, N)
  <2>1. <<>> \in [{} -> CachedSegments(N)]
    OBVIOUS
  <2>2. <<>> \in UNION {[S -> CachedSegments(N)] : S \in SUBSET Streams}
    BY <2>1
  <2> QED BY <2>2, NoSessions DEF CoordInit, CacheOK
<1> QED BY <1>1, <1>2 DEF CoordInit, CoordInvariant, TypeOK, ActiveNoncesDisjoint, AskedDevicesHoldShares

----------------------------------------------------------------------------
(* The theorems *)

\* The sessions, the cache and the holders are well formed, for whatever segments
\* and shares the devices send.
LEMMA CoordAlwaysInvariant ==
  ASSUME NEW CONSTANT N, NEW CONSTANT segs \in [Devices -> SUBSET SegmentsOf(N)]
  PROVE  CoordSpec(segs) => []CoordInvariant(N)
<1>1. CoordInit => CoordInvariant(N)
  BY CoordInitInvariant
<1>2. CoordInvariant(N) /\ [CoordNext(segs)]_coordVars => CoordInvariant(N)'
  BY CoordStepKeepsInvariant
<1> QED BY <1>1, <1>2, PTL DEF CoordSpec

\* Two active sessions never use the same nonces of a device, for any number of
\* devices, streams and sessions and whatever nonces arrive
\* (all_used_nonce_streams in new_signing_session).
THEOREM SessionsUseDistinctNonces ==
  ASSUME NEW CONSTANT N, NEW CONSTANT segs \in [Devices -> SUBSET SegmentsOf(N)]
  PROVE  CoordSpec(segs) => []ActiveNoncesDisjoint
<1>1. CoordInvariant(N) => ActiveNoncesDisjoint
  BY DEF CoordInvariant
<1> QED BY <1>1, CoordAlwaysInvariant, PTL

\* A device that was asked to sign for an active session holds its share of the key
\* until the session is closed (delete_share, delete_key).
THEOREM AskedDevicesKeepShares ==
  ASSUME NEW CONSTANT N, NEW CONSTANT segs \in [Devices -> SUBSET SegmentsOf(N)]
  PROVE  CoordSpec(segs) => []AskedDevicesHoldShares
<1>1. CoordInvariant(N) => AskedDevicesHoldShares
  BY DEF CoordInvariant
<1> QED BY <1>1, CoordAlwaysInvariant, PTL

\* The nonces of a request are the first of the stream's segment and the close of the
\* session drops just those, for segments of any length, whatever nonces arrived and
\* in whatever order the sessions before it were closed (SubSegment, delete_up_to).
THEOREM RequestsTakePrefixes ==
  ASSUME NEW CONSTANT N, NEW CONSTANT segs \in [Devices -> SUBSET SegmentsOf(N)]
  PROVE  CoordSpec(segs) => []TakenIsPrefix
<1>1. CoordInvariant(N) => TakenIsPrefix
  <2>1. SUFFICES ASSUME CoordInvariant(N), NEW d \in Devices, NEW x \in DOMAIN cache[d],
                        NEW n \in 0 .. Len(cache[d][x].nonces)
                 PROVE  FallsApart(cache[d][x], SubSegment(cache[d][x], n),
                                   DeleteUpTo(cache[d][x], cache[d][x].index + n), n)
    BY DEF TakenIsPrefix
  <2>2. cache[d][x] \in CachedSegments(N)
    BY <2>1 DEF CoordInvariant, TypeOK, CacheOK
  <2> QED BY <2>2, PrefixAndRest
<1> QED BY <1>1, CoordAlwaysInvariant, PTL

\* The nonces of closed sessions in the cache that is left: none of those a device
\* was asked to use.
LEMMA ClosedNoncesAreGone ==
  ASSUME NEW N, CoordInvariant(N), NEW c, CacheOK(c, N), NEW S \in SUBSET ActiveSessions,
         cache' = Consume(c, S),
         NEW s \in S, NEW d \in active[s].sent, NEW i \in s.nonces[d].index .. IndexAfter(s, d) - 1,
         s.nonces[d].stream \in DOMAIN cache'[d]
  PROVE  ~Covers(cache'[d][s.nonces[d].stream], i)
<1> DEFINE x == s.nonces[d].stream
<1>1. d \in Devices /\ d \in Parties(s) /\ SessionOK(s)
  BY DEF CoordInvariant, TypeOK, SessionOK
<1>2. x \in DOMAIN c[d]
  BY <1>1, ConsumeOK DEF CoordInvariant
<1>3. cache'[d][x].index >= IndexAfter(s, d)
  BY <1>2, ConsumeDeletes DEF CoordInvariant
<1>4. CacheOK(cache', N)
  BY ConsumeOK DEF CoordInvariant
<1>5. cache'[d][x].index \in Nat
  BY <1>1, <1>4 DEF CacheOK, CachedSegments
<1>6. s.nonces[d].index \in Nat /\ IndexAfter(s, d) \in Nat
  BY <1>1, IndexAfterNat DEF SessionOK
<1>7. i < cache'[d][x].index
  <2> HIDE DEF x
  <2> QED BY <1>3, <1>5, <1>6
<1> QED BY <1>5, <1>6, <1>7 DEF Covers

\* The cache after the step is what some sessions, the closed ones among them,
\* leave of a well formed cache.
ClosedSessionsConsume(N) ==
  \E c : \E S \in SUBSET ActiveSessions :
    /\ CacheOK(c, N)
    /\ DOMAIN active \ DOMAIN active' \subseteq S
    /\ cache' = Consume(c, S)

\* What a step of the coordinator that closes sessions does to the cache.
LEMMA ClosingConsumes ==
  ASSUME NEW N, NEW segs \in [Devices -> SUBSET SegmentsOf(N)],
         CoordInvariant(N), CoordNext(segs), DOMAIN active \ DOMAIN active' # {}
  PROVE  ClosedSessionsConsume(N)
<1>1. ASSUME NEW d \in Devices, NEW s, NEW used, NEW replenish,
             replenish = <<>> \/ \E seg \in SegmentsOf(N) : replenish = <<seg>>,
             RecvShares(d, s, used, replenish)
      PROVE  ClosedSessionsConsume(N)
  <2>1. CASE ~AcceptShares(d, s, used)
    BY <1>1, <2>1 DEF RecvShares, coordVars
  <2>2. CASE AcceptShares(d, s, used) /\ active[s].got \cup {d} # Parties(s)
    <3>1. active' = [active EXCEPT ![s].got = @ \cup {d}]
      BY <1>1, <2>2 DEF RecvShares
    <3>2. DOMAIN active' = DOMAIN active
      BY <3>1
    <3> QED BY <3>2
  <2>3. CASE /\ AcceptShares(d, s, used) /\ active[s].got \cup {d} = Parties(s)
             /\ ~CanConsume(Replenished(d, replenish), {s})
    BY <1>1, <2>3 DEF RecvShares, Crash
  <2>4. CASE /\ AcceptShares(d, s, used) /\ active[s].got \cup {d} = Parties(s)
             /\ CanConsume(Replenished(d, replenish), {s})
    <3>1. /\ s \in ActiveSessions /\ active' = Without({s})
          /\ cache' = Consume(Replenished(d, replenish), {s})
      BY <1>1, <2>4 DEF RecvShares, AcceptShares, CompletedCache
    <3>2. DOMAIN active \ DOMAIN active' \subseteq {s}
      BY <3>1 DEF Without, ActiveSessions
    <3>3. CacheOK(Replenished(d, replenish), N)
      BY <1>1, ReplenishedOK
    <3> QED BY <3>1, <3>2, <3>3 DEF ClosedSessionsConsume
  <2> QED BY <2>1, <2>2, <2>3, <2>4
<1>2. ASSUME NEW t \in Tasks, NEW selected \in SUBSET Devices, StartSign(t, selected)
      PROVE  ClosedSessionsConsume(N)
  <2>1. DOMAIN active' = ActiveSessions \cup {NewSession(t, selected)}
    BY <1>2 DEF StartSign
  <2> QED BY <2>1 DEF ActiveSessions
<1>3. ASSUME NEW s \in ActiveSessions, NEW d \in Devices, RequestDeviceSign(s, d)
      PROVE  ClosedSessionsConsume(N)
  <2>1. active' = active \/ active' = [active EXCEPT ![s].sent = @ \cup {d}]
    BY <1>3 DEF RequestDeviceSign, Crash
  <2>2. DOMAIN active' = DOMAIN active
    BY <2>1
  <2> QED BY <2>2
<1>4. ASSUME NEW s \in ActiveSessions, CancelSignSession(s)
      PROVE  ClosedSessionsConsume(N)
  <2>1. active' = active \/ (active' = Without({s}) /\ cache' = Consume(cache, {s}))
    BY <1>4 DEF CancelSignSession, Crash
  <2>2. active' = Without({s}) /\ cache' = Consume(cache, {s})
    BY <2>1
  <2>3. DOMAIN active \ DOMAIN active' \subseteq {s}
    BY <2>2 DEF Without, ActiveSessions
  <2> QED BY <2>2, <2>3, SessionFacts DEF ClosedSessionsConsume
<1>5. CASE CancelAllSignSessions \/ DeleteKey
  <2>1. active' = active \/ cache' = Consume(cache, ActiveSessions)
    BY <1>5 DEF CancelAllSignSessions, DeleteKey, Crash
  <2>2. cache' = Consume(cache, ActiveSessions)
    BY <2>1
  <2>3. DOMAIN active \ DOMAIN active' \subseteq ActiveSessions
    BY DEF ActiveSessions
  <2> QED BY <2>2, <2>3, SessionFacts DEF ClosedSessionsConsume
<1>6. ASSUME active' = active PROVE FALSE
  BY <1>6
<1>7. CASE GoodShares(segs)
  <2>1. PICK s \in ActiveSessions : \E d \in active[s].sent :
          \E replenish \in {<<>>} \cup {<<seg>> : seg \in segs[d]} :
            RecvShares(d, s, s.nonces[d].nonces, replenish)
    BY <1>7 DEF GoodShares
  <2>2. PICK d \in active[s].sent : \E replenish \in {<<>>} \cup {<<seg>> : seg \in segs[d]} :
            RecvShares(d, s, s.nonces[d].nonces, replenish)
    BY <2>1
  <2>3. d \in Devices
    BY SessionFacts
  <2>4. \A replenish \in {<<>>} \cup {<<seg>> : seg \in segs[d]} :
          replenish = <<>> \/ \E seg \in SegmentsOf(N) : replenish = <<seg>>
    BY <2>3
  <2> QED BY <1>1, <2>2, <2>3, <2>4
<1>8. CASE BadShares
  <2>a. PICK s \in ActiveSessions \cup finished : \E d \in Parties(s) : RecvShares(d, s, <<>>, <<>>)
    BY <1>8 DEF BadShares
  <2>1. PICK d \in Parties(s) : RecvShares(d, s, <<>>, <<>>)
    BY <2>a
  <2>2. AcceptShares(d, s, <<>>)
    BY <1>6, <2>1 DEF RecvShares, coordVars
  <2>3. d \in Devices
    BY <2>2, SessionFacts DEF AcceptShares
  <2> QED BY <1>1, <2>1, <2>3
<1> QED
  BY <1>2, <1>3, <1>4, <1>5, <1>6, <1>7, <1>8
  DEF CoordNext, RecvNonces, ForgetFinishedSignSession, DeleteShare

\* A closed session leaves none of the nonces a device was asked to use in the cache,
\* however it was closed and whatever nonces came with its last shares
\* (CloseSignSession, NonceCache::consume): they are not given out again.
THEOREM ClosedSessionsLeaveNoNonces ==
  ASSUME NEW CONSTANT N, NEW CONSTANT segs \in [Devices -> SUBSET SegmentsOf(N)]
  PROVE  CoordSpec(segs) => ClosedNoncesGone
<1> DEFINE Gone == \A s \in DOMAIN active \ DOMAIN active' : \A d \in active[s].sent :
                     \A i \in s.nonces[d].index .. IndexAfter(s, d) - 1 :
                       s.nonces[d].stream \in DOMAIN cache'[d] =>
                         ~Covers(cache'[d][s.nonces[d].stream], i)
<1>1. CoordInvariant(N) /\ [CoordNext(segs)]_coordVars => [Gone]_coordVars
  <2> SUFFICES ASSUME CoordInvariant(N), CoordNext(segs), DOMAIN active \ DOMAIN active' # {}
               PROVE  Gone
    OBVIOUS
  <2>1. PICK c : \E S \in SUBSET ActiveSessions :
          CacheOK(c, N) /\ DOMAIN active \ DOMAIN active' \subseteq S /\ cache' = Consume(c, S)
    BY ClosingConsumes DEF ClosedSessionsConsume
  <2>2. PICK S \in SUBSET ActiveSessions :
          CacheOK(c, N) /\ DOMAIN active \ DOMAIN active' \subseteq S /\ cache' = Consume(c, S)
    BY <2>1
  <2> QED BY <2>2, ClosedNoncesAreGone
<1> QED BY <1>1, CoordAlwaysInvariant, PTL DEF CoordSpec, ClosedNoncesGone

----------------------------------------------------------------------------
(* The slots *)

\* A stream has one slot.
LEMMA SlotUnique ==
  ASSUME NEW sl, SlotsOK(sl), NEW x \in Streams, NEW i \in D!SlotIds, sl[i].stream = x
  PROVE  /\ Held(sl, x) /\ SlotOf(sl, x) = sl[i]
         /\ \A j \in D!SlotIds : sl[j].stream = x => j = i
<1>1. x # None
  BY SystemAssumption
<1>2. D!SlotIds \subseteq Nat
  BY SystemAssumption DEF D!SlotIds
<1>3. \A j \in D!SlotIds : sl[j].stream = x => j = i
  BY <1>1, <1>2 DEF SlotsOK
<1>4. (CHOOSE j \in D!SlotIds : sl[j].stream = x) = i
  BY <1>3
<1> QED BY <1>3, <1>4 DEF Held, SlotOf

\* The slot of a stream that is held.
LEMMA HeldSlot ==
  ASSUME NEW sl, SlotsOK(sl), NEW x \in Streams, Held(sl, x)
  PROVE  /\ SlotOf(sl, x).stream = x
         /\ ValueOK(SlotOf(sl, x))
         /\ SlotOf(sl, x).index \in Nat /\ SlotOf(sl, x).seed \in Nat
<1>1. PICK i \in D!SlotIds : sl[i].stream = x
  BY DEF Held
<1>2. SlotOf(sl, x) = sl[i]
  BY <1>1, SlotUnique
<1>3. ValueOK(sl[i])
  BY DEF SlotsOK
<1> QED BY <1>1, <1>2, <1>3 DEF ValueOK

\* get finds the slot of a stream.
LEMMA GetFinds ==
  ASSUME SlotsOK(slots), NEW x \in Streams
  PROVE  /\ Held(slots, x) <=> D!Holding(x) # {}
         /\ Held(slots, x) => /\ D!First(D!Holding(x)) \in D!SlotIds
                              /\ slots[D!First(D!Holding(x))].stream = x
                              /\ slots[D!First(D!Holding(x))] = SlotOf(slots, x)
                              /\ D!Holding(x) = {D!First(D!Holding(x))}
<1>1. Held(slots, x) <=> D!Holding(x) # {}
  BY DEF Held, D!Holding
<1>2. ASSUME Held(slots, x)
      PROVE  /\ D!First(D!Holding(x)) \in D!SlotIds
             /\ slots[D!First(D!Holding(x))].stream = x
             /\ slots[D!First(D!Holding(x))] = SlotOf(slots, x)
             /\ D!Holding(x) = {D!First(D!Holding(x))}
  <2>1. PICK i \in D!SlotIds : slots[i].stream = x
    BY <1>2 DEF Held
  <2>2. SlotOf(slots, x) = slots[i] /\ \A j \in D!SlotIds : slots[j].stream = x => j = i
    BY <2>1, SlotUnique
  <2>3. D!Holding(x) = {i}
    BY <2>1, <2>2 DEF D!Holding
  <2>4. i \in Nat
    BY SystemAssumption DEF D!SlotIds
  <2>5. D!First({i}) = i
    BY <2>4 DEF D!First
  <2> QED BY <2>1, <2>2, <2>3, <2>5
<1> QED BY <1>1, <1>2

\* Every stream but x is as it was.
SameElse(sl, new, x) ==
  \A y \in Streams \ {x} :
    /\ Held(new, y) <=> Held(sl, y)
    /\ Held(sl, y) => SlotOf(new, y) = SlotOf(sl, y)

\* A stream whose slot is left alone is as it was.
LEMMA SlotKept ==
  ASSUME NEW sl, SlotsOK(sl), NEW new, SlotsOK(new), NEW y \in Streams,
         \A j \in D!SlotIds : sl[j].stream = y => new[j] = sl[j],
         \A j \in D!SlotIds : new[j].stream = y => sl[j].stream = y
  PROVE  /\ Held(new, y) <=> Held(sl, y)
         /\ Held(sl, y) => SlotOf(new, y) = SlotOf(sl, y)
<1>1. Held(new, y) <=> Held(sl, y)
  BY DEF Held
<1>2. ASSUME NEW j \in D!SlotIds, sl[j].stream = y
      PROVE  SlotOf(new, y) = SlotOf(sl, y)
  <2>1. SlotOf(sl, y) = sl[j]
    BY <1>2, SlotUnique
  <2>2. new[j] = sl[j]
    BY <1>2
  <2>3. new[j].stream = y
    BY <1>2, <2>2
  <2>4. SlotOf(new, y) = new[j]
    BY <2>3, SlotUnique
  <2> QED BY <2>1, <2>2, <2>4
<1> QED BY <1>1, <1>2 DEF Held

\* The slot of a stream is rewritten.
LEMMA WriteSlot ==
  ASSUME NEW sl, SlotsOK(sl), NEW x \in Streams, NEW i \in D!SlotIds, NEW v, ValueOK(v),
         v.stream = x, sl[i].stream = x,
         NEW new, new = [sl EXCEPT ![i] = v]
  PROVE  /\ SlotsOK(new) /\ Held(new, x) /\ SlotOf(new, x) = v
         /\ SameElse(sl, new, x)
<1>1. \A j \in D!SlotIds : new[j] = IF j = i THEN v ELSE sl[j]
  BY DEF SlotsOK
<1>2. new = [j \in D!SlotIds |-> new[j]]
  BY DEF SlotsOK
<1>3. \A j \in D!SlotIds : new[j].stream = sl[j].stream
  BY <1>1
<1>4. SlotsOK(new)
  BY <1>1, <1>2, <1>3 DEF SlotsOK
<1>5. Held(new, x) /\ SlotOf(new, x) = v
  <2>1. new[i] = v /\ new[i].stream = x
    BY <1>1
  <2>2. Held(new, x) /\ SlotOf(new, x) = new[i]
    BY ONLY <1>4, <2>1, x \in Streams, i \in D!SlotIds, SlotUnique
  <2> QED BY <2>1, <2>2
<1>6. ASSUME NEW y \in Streams \ {x}
      PROVE  /\ Held(new, y) <=> Held(sl, y)
             /\ Held(sl, y) => SlotOf(new, y) = SlotOf(sl, y)
  <2>1. /\ \A j \in D!SlotIds : sl[j].stream = y => new[j] = sl[j]
        /\ \A j \in D!SlotIds : new[j].stream = y => sl[j].stream = y
    BY <1>1, <1>3
  <2>2. y \in Streams /\ SlotsOK(sl)
    OBVIOUS
  <2> QED BY ONLY <1>4, <2>1, <2>2, SlotKept
<1> QED BY <1>4, <1>5, <1>6 DEF SameElse

\* The slot that get_or_create takes for a stream no slot has is empty, and those
\* before it are not.
LEMMA RoomLeft ==
  ASSUME IsFiniteSet(Streams), EnoughSlots, SlotsOK(slots), Drawn, NEW x \in usedIds, ~Held(slots, x)
  PROVE  /\ D!GetOrCreate(x) \in D!SlotIds
         /\ slots[D!GetOrCreate(x)].stream = None
         /\ \A j \in D!SlotIds : j < D!GetOrCreate(x) => slots[j].stream # None
<1>1. D!SlotIds \subseteq Nat /\ NSlots \in Nat /\ x \in Streams
  BY SystemAssumption DEF D!SlotIds, Drawn
<1>2. D!Holding(x) = {}
  BY <1>1, GetFinds
<1>3. D!Holding(None) # {}
  <2> SUFFICES ASSUME \A i \in D!SlotIds : slots[i].stream # None PROVE FALSE
    BY DEF D!Holding
  <2> DEFINE f == [i \in D!SlotIds |-> slots[i].stream]
             T == usedIds \ {x}
  <2>1. \A i \in D!SlotIds : slots[i].stream \in T
    BY DEF Drawn, Held
  <2>2. f \in [D!SlotIds -> T]
    BY <2>1
  <2>0. IsFiniteSet(usedIds)
    BY FS_Subset DEF Drawn
  <2>3. IsFiniteSet(T) /\ Cardinality(T) = Cardinality(usedIds) - 1
    BY <2>0, FS_RemoveElement
  <2>4. IsFiniteSet(D!SlotIds) /\ Cardinality(D!SlotIds) = NSlots
    BY <1>1, FS_Interval, SystemAssumption DEF D!SlotIds
  <2>5. Cardinality(usedIds) \in Nat
    BY <2>0, FS_CardinalityType
  <2>6. Cardinality(T) < Cardinality(D!SlotIds)
    BY <1>1, <2>3, <2>4, <2>5 DEF EnoughSlots
  <2>7. PICK i, j \in D!SlotIds : i # j /\ f[i] = f[j]
    <3> HIDE DEF f, T
    <3> QED BY <2>2, <2>3, <2>4, <2>6, FS_PigeonHole
  <2>8. slots[i].stream = slots[j].stream /\ i \in Nat /\ j \in Nat
    BY <1>1, <2>7
  <2> QED BY <2>7, <2>8 DEF SlotsOK
<1>4. D!Holding(None) \subseteq Nat
  BY <1>1 DEF D!Holding
<1>5. D!GetOrCreate(x) = D!First(D!Holding(None))
  BY <1>2, <1>3 DEF D!GetOrCreate
<1>6. \E i \in D!Holding(None) : \A j \in D!Holding(None) : i <= j
  BY <1>3, <1>4, LeastNatural
<1>7. /\ D!First(D!Holding(None)) \in D!Holding(None)
      /\ \A j \in D!Holding(None) : D!First(D!Holding(None)) <= j
  BY <1>6 DEF D!First
<1>8. ASSUME NEW j \in D!SlotIds, j < D!GetOrCreate(x) PROVE slots[j].stream # None
  <2>1. j \in Nat /\ D!GetOrCreate(x) \in Nat
    BY <1>1, <1>4, <1>5, <1>7
  <2>2. j \notin D!Holding(None)
    BY <1>5, <1>7, <1>8, <2>1
  <2> QED BY <2>2 DEF D!Holding
<1> QED BY <1>5, <1>7, <1>8 DEF D!Holding

\* What a stream that gets an empty slot changes.
LEMMA SlotFilled ==
  ASSUME NEW sl, SlotsOK(sl), NEW new, SlotsOK(new), NEW x \in Streams,
         NEW i \in D!SlotIds, sl[i].stream = None, new[i].stream = x,
         \A j \in D!SlotIds \ {i} : new[j] = sl[j]
  PROVE  Held(new, x) /\ SlotOf(new, x) = new[i] /\ SameElse(sl, new, x)
<1>1. Held(new, x) /\ SlotOf(new, x) = new[i]
  BY SlotUnique
<1>2. ASSUME NEW y \in Streams \ {x}
      PROVE  /\ Held(new, y) <=> Held(sl, y)
             /\ Held(sl, y) => SlotOf(new, y) = SlotOf(sl, y)
  <2>1. \A j \in D!SlotIds : sl[j].stream = y => j # i
    BY SystemAssumption
  <2>2. \A j \in D!SlotIds : new[j].stream = y => j # i
    OBVIOUS
  <2> QED BY <2>1, <2>2, SlotKept
<1> QED BY <1>1, <1>2 DEF SameElse

\* A stream gets an empty slot.
LEMMA CreateSlot ==
  ASSUME IsFiniteSet(Streams), EnoughSlots, SlotsOK(slots), Drawn, NEW x \in usedIds, ~Held(slots, x),
         NEW used, NEW seed \in Nat, NEW new,
         new = [slots EXCEPT ![D!GetOrCreate(x)] = D!Initialized(x, used, seed)]
  PROVE  /\ SlotsOK(new) /\ Held(new, x) /\ SlotOf(new, x) = D!Initialized(x, used, seed)
         /\ SameElse(slots, new, x)
<1> DEFINE i == D!GetOrCreate(x)
           v == D!Initialized(x, used, seed)
<1>1. /\ i \in D!SlotIds /\ slots[i].stream = None
      /\ \A j \in D!SlotIds : j < i => slots[j].stream # None
  BY RoomLeft
<1>0. x \in Streams
  BY DEF Drawn
<1>2. ValueOK(v) /\ v.stream = x /\ x # None
  BY <1>0, SystemAssumption DEF D!Initialized, ValueOK
<1> HIDE DEF i, v
<1>3. \A j \in D!SlotIds : new[j] = IF j = i THEN v ELSE slots[j]
  BY DEF SlotsOK, i, v
<1>4. new = [j \in D!SlotIds |-> new[j]]
  BY DEF SlotsOK
<1>5. \A j \in D!SlotIds : slots[j].stream # x
  BY DEF Held
<1>6. D!SlotIds \subseteq Nat
  BY SystemAssumption DEF D!SlotIds
<1>7. ASSUME NEW j \in D!SlotIds, NEW k \in D!SlotIds, j < k, new[k].stream # None
      PROVE  new[j].stream # None /\ new[j].stream # new[k].stream
  <2>1. slots[k].stream # None => k < i
    <3>1. k # i => ~(i < k) \/ slots[k].stream = None
      BY <1>1 DEF SlotsOK
    <3> QED BY <1>1, <1>6, <3>1
  <2>2. k <= i
    BY <1>1, <1>3, <1>6, <1>7, <2>1
  <2>3. j < i /\ j # i /\ j \in Nat /\ k \in Nat /\ i \in Nat
    BY <1>1, <1>6, <1>7, <2>2
  <2>4. new[j] = slots[j] /\ slots[j].stream # None
    BY <1>1, <1>3, <2>3
  <2>5. CASE k = i
    BY <1>2, <1>3, <1>5, <2>4, <2>5
  <2>6. CASE k # i
    BY <1>3, <1>7, <2>4, <2>6 DEF SlotsOK
  <2> QED BY <2>5, <2>6
<1>8. SlotsOK(new)
  BY <1>2, <1>3, <1>4, <1>7 DEF SlotsOK
<1>9. new[i] = v /\ \A j \in D!SlotIds \ {i} : new[j] = slots[j]
  BY <1>1, <1>3
<1>10. new[i].stream = x /\ i \in D!SlotIds /\ slots[i].stream = None
  BY <1>1, <1>2, <1>9
<1>11. Held(new, x) /\ SlotOf(new, x) = new[i] /\ SameElse(slots, new, x)
  BY ONLY <1>0, <1>8, <1>9, <1>10, SlotsOK(slots), SlotFilled
<1> QED BY <1>8, <1>9, <1>11 DEF v

----------------------------------------------------------------------------
(* What both sides have *)

\* What a session is made of.
LEMMA SessionNumbers ==
  ASSUME NEW s \in SessionIds
  PROVE  /\ On(s) \in Streams /\ From(s) \in Nat /\ Ends(s) \in Nat /\ From(s) < Ends(s)
         /\ NSigsOf(s) \in Nat \ {0} /\ Ends(s) = From(s) + NSigsOf(s)
         /\ s.task \in Tasks /\ Parties(s) = {dev} /\ s # None
         /\ s.nonces[dev].nonces \in Seq(Nonces)
<1>1. /\ s.task \in Tasks /\ Parties(s) = {dev}
      /\ On(s) \in Streams /\ From(s) \in Nat /\ s.nonces[dev].nonces \in Seq(Nonces)
  BY DEF SessionIds, Parties, On, From, Nonces
<1>2. NSigsOf(s) \in Nat \ {0}
  BY <1>1, CoordAssumption DEF NSigsOf
<1>3. Ends(s) = From(s) + NSigsOf(s)
  BY DEF Ends, IndexAfter, From
<1>4. s # None
  BY SystemAssumption
<1> QED BY <1>1, <1>2, <1>3, <1>4

\* The device is in no stream past the end of a session it can sign, and at its end
\* when it signed it.
LEMMA SignableBound ==
  ASSUME NEW sl, SlotsOK(sl), NEW s, SessionHeld(sl, s)
  PROVE  /\ s \in SessionIds /\ On(s) \in Streams /\ SlotOf(sl, On(s)).index \in Nat
         /\ Done(sl, s) => SlotOf(sl, On(s)).index = Ends(s)
         /\ Signable(sl, s) => SlotOf(sl, On(s)).index <= Ends(s)
<1>1. s \in SessionIds /\ Held(sl, On(s))
  BY DEF SessionHeld, MadeOf
<1>2. /\ On(s) \in Streams /\ From(s) \in Nat /\ Ends(s) \in Nat /\ From(s) < Ends(s)
      /\ s # None
  BY <1>1, SessionNumbers
<1>3. ValueOK(SlotOf(sl, On(s))) /\ SlotOf(sl, On(s)).index \in Nat
  BY <1>1, <1>2, HeldSlot
<1>4. Done(sl, s) => SlotOf(sl, On(s)).index = Ends(s)
  BY <1>2, <1>3 DEF Done, ValueOK
<1> QED BY <1>1, <1>2, <1>3, <1>4 DEF Signable, Done

\* Fewer requests and shares under way.
LEMMA AgreeOnFewer ==
  ASSUME NEW sl, NEW cd, NEW ac, NEW R, NEW M, Agree(sl, cd, ac, R, M),
         NEW Q, Q \subseteq R, NEW L, L \subseteq M
  PROVE  Agree(sl, cd, ac, Q, L)
BY DEF Agree

\* request_device_sign: an active session is asked for.
LEMMA AgreeOnAsked ==
  ASSUME NEW sl, NEW cd, NEW ac, NEW R, NEW M, Agree(sl, cd, ac, R, M),
         NEW p \in DOMAIN ac, NEW new, DOMAIN new = DOMAIN ac,
         \A s \in DOMAIN ac : s # p => new[s] = ac[s],
         new[p] = [sent |-> {dev}, got |-> {}]
  PROVE  Agree(sl, cd, new, R \cup {p}, M)
<1>1. SessionsOK(sl, cd, new)
  BY DEF Agree, SessionsOK
<1>2. Asked(new, p) /\ \A s \in DOMAIN ac : Asked(ac, s) => Asked(new, s)
  BY DEF Asked
<1>3. \A x : Unasked(new, x) => Unasked(ac, x) /\ x # On(p)
  BY <1>2 DEF Unasked
<1>4. NotBehind(sl, cd, new)
  BY <1>3 DEF Agree, NotBehind
<1>5. ASSUME NEW q \in R PROVE RequestOK(sl, cd, new, q)
  BY <1>2, <1>3 DEF Agree, RequestOK
<1>6. RequestOK(sl, cd, new, p)
  <2>1. SessionHeld(sl, p) /\ Signable(sl, p)
    BY DEF Agree, SessionsOK
  <2>2. \A s \in DOMAIN new : After(p, s)
    BY DEF Agree, SessionsOK, After
  <2> QED BY <1>2, <1>3, <2>1, <2>2 DEF RequestOK
<1>7. ASSUME NEW m \in M PROVE ShareOK(sl, new, m)
  <2>1. ShareOK(sl, ac, m)
    BY DEF Agree
  <2> QED BY <1>2, <2>1 DEF ShareOK
<1> QED BY <1>1, <1>4, <1>5, <1>6, <1>7 DEF Agree

\* start_sign: a session takes the first nonces of a stream no session uses.
LEMMA AgreeOnStarted ==
  ASSUME NEW sl, NEW cd, NEW ac, NEW R, NEW M, Agree(sl, cd, ac, R, M),
         NEW s, SessionHeld(sl, s), On(s) \in DOMAIN cd, From(s) = cd[On(s)].index,
         \A r \in DOMAIN ac : On(r) # On(s),
         NEW new, DOMAIN new = DOMAIN ac \cup {s}, \A r \in DOMAIN ac : new[r] = ac[r],
         new[s] = [sent |-> {}, got |-> {}]
  PROVE  Agree(sl, cd, new, R, M)
<1>1. SlotsOK(sl) /\ s \in SessionIds /\ s \notin DOMAIN ac
  BY DEF Agree, SessionHeld, MadeOf
<1>2. /\ From(s) \in Nat /\ Ends(s) \in Nat /\ From(s) < Ends(s)
      /\ SlotOf(sl, On(s)).index \in Nat
  BY <1>1, SessionNumbers, SignableBound
<1>3. Unasked(ac, On(s))
  BY DEF Unasked
<1>4. SlotOf(sl, On(s)).index <= From(s)
  BY <1>3 DEF Agree, NotBehind
<1>5. ~Asked(new, s) /\ \A r \in DOMAIN ac : Asked(new, r) <=> Asked(ac, r)
  BY DEF Asked
<1>6. \A x : Unasked(new, x) => Unasked(ac, x)
  BY <1>5 DEF Unasked
<1>7. SessionsOK(sl, cd, new)
  <2>1. Signable(sl, s)
    BY <1>4 DEF Signable
  <2>2. \A r \in DOMAIN ac : /\ SessionHeld(sl, r) /\ Signable(sl, r)
                             /\ new[r] \in [sent : SUBSET {dev}, got : {{}}]
                             /\ On(r) \in DOMAIN cd /\ cd[On(r)].index <= Ends(r)
    BY DEF Agree, SessionsOK
  <2>3. cd[On(s)].index <= Ends(s)
    BY <1>2
  <2>4. \A q, r \in DOMAIN new : On(q) = On(r) => q = r
    BY DEF Agree, SessionsOK
  <2> QED BY <2>1, <2>2, <2>3, <2>4 DEF SessionsOK
<1>8. NotBehind(sl, cd, new)
  BY <1>6 DEF Agree, NotBehind
<1>9. ASSUME NEW p \in R PROVE RequestOK(sl, cd, new, p)
  <2>1. RequestOK(sl, cd, ac, p)
    BY DEF Agree
  <2>2. On(p) = On(s) => From(s) >= Ends(p)
    BY <1>3, <2>1 DEF RequestOK
  <2>3. p # s
    BY <1>2, <2>2
  <2>4. \A r \in DOMAIN new : After(p, r)
    BY <2>1, <2>2 DEF RequestOK, After
  <2>5. p \in DOMAIN new => Asked(new, p)
    BY <1>5, <2>1, <2>3 DEF RequestOK
  <2> QED BY <1>6, <2>1, <2>4, <2>5 DEF RequestOK
<1>10. ASSUME NEW m \in M PROVE ShareOK(sl, new, m)
  <2>1. ShareOK(sl, ac, m)
    BY DEF Agree
  <2>2. m.session # s
    BY <1>2, <1>4, <2>1 DEF ShareOK
  <2> QED BY <1>5, <2>1, <2>2 DEF ShareOK
<1> QED BY <1>7, <1>8, <1>9, <1>10 DEF Agree

\* extend_segment: a stream gets a segment that begins where the one it had or the
\* one that arrived did.
LEMMA AgreeOnExtended ==
  ASSUME NEW sl, NEW cd, NEW ac, NEW R, NEW M, Agree(sl, cd, ac, R, M),
         NEW x \in Streams, NEW i,
         NEW new, DOMAIN new = DOMAIN cd \cup {x}, \A y \in DOMAIN cd \ {x} : new[y] = cd[y],
         SegmentHeld(sl, new[x]), new[x].stream = x,
         new[x].index = i \/ (x \in DOMAIN cd /\ new[x].index = cd[x].index),
         \A s \in DOMAIN ac : On(s) = x => i <= Ends(s),
         Unasked(ac, x) => /\ i >= SlotOf(sl, x).index
                           /\ \A p \in R : On(p) = x => i >= Ends(p)
  PROVE  Agree(sl, new, ac, R, M)
<1>1. CacheHeld(sl, new)
  BY DEF Agree, CacheHeld
<1>2. SessionsOK(sl, new, ac)
  <2>1. ASSUME NEW s \in DOMAIN ac PROVE On(s) \in DOMAIN new /\ new[On(s)].index <= Ends(s)
    BY DEF Agree, SessionsOK
  <2> QED BY <2>1 DEF Agree, SessionsOK
<1>3. NotBehind(sl, new, ac)
  BY DEF Agree, NotBehind
<1>4. ASSUME NEW p \in R PROVE RequestOK(sl, new, ac, p)
  <2>1. RequestOK(sl, cd, ac, p)
    BY DEF Agree
  <2>2. On(p) \in DOMAIN new /\ Unasked(ac, On(p)) => new[On(p)].index >= Ends(p)
    BY <2>1 DEF RequestOK
  <2> QED BY <2>1, <2>2 DEF RequestOK
<1> QED BY <1>1, <1>2, <1>3, <1>4 DEF Agree

\* CloseSignSession: what the device was asked to use is deleted, and nothing else.
LEMMA AgreeOnClosed ==
  ASSUME NEW sl, NEW cd, NEW ac, NEW R, NEW M, Agree(sl, cd, ac, R, M),
         NEW s \in DOMAIN ac,
         NEW left, DOMAIN left = DOMAIN ac \ {s}, \A r \in DOMAIN ac \ {s} : left[r] = ac[r],
         NEW new, DOMAIN new = DOMAIN cd, \A y \in DOMAIN cd \ {On(s)} : new[y] = cd[y],
         SegmentHeld(sl, new[On(s)]), new[On(s)].stream = On(s),
         ~Asked(ac, s) => new[On(s)] = cd[On(s)],
         Asked(ac, s) => new[On(s)].index >= Ends(s)
  PROVE  Agree(sl, new, left, R, M)
<1> DEFINE x == On(s)
<1>0. SlotsOK(sl)
  BY DEF Agree
<1>1. SessionHeld(sl, s) /\ Signable(sl, s) /\ \A r \in DOMAIN ac : On(r) = x => r = s
  BY DEF Agree, SessionsOK
<1>2. /\ s \in SessionIds /\ SlotOf(sl, x).index \in Nat /\ SlotOf(sl, x).index <= Ends(s)
      /\ From(s) \in Nat /\ Ends(s) \in Nat /\ From(s) < Ends(s) /\ x \in Streams
  BY <1>0, <1>1, SignableBound, SessionNumbers
<1>3. new[x].index \in Nat
  BY DEF SegmentHeld, Segments
<1>4. Unasked(ac, x) <=> ~Asked(ac, s)
  BY <1>1 DEF Unasked
<1>5. \A r \in DOMAIN left : Asked(left, r) <=> Asked(ac, r)
  BY DEF Asked
<1>6. \A y : y # x => (Unasked(left, y) <=> Unasked(ac, y))
  BY <1>5 DEF Unasked
<1>7. CacheHeld(sl, new)
  BY DEF Agree, CacheHeld
<1>8. SessionsOK(sl, new, left)
  BY <1>1 DEF Agree, SessionsOK
<1>9. x \in DOMAIN cd
  BY DEF Agree, SessionsOK
<1>10. new[x].index >= SlotOf(sl, x).index
  <2>1. CASE Asked(ac, s)
    BY <1>2, <1>3, <2>1
  <2>2. CASE ~Asked(ac, s)
    BY <1>4, <1>9, <2>2 DEF Agree, NotBehind
  <2> QED BY <2>1, <2>2
<1>11. NotBehind(sl, new, left)
  BY <1>6, <1>10 DEF Agree, NotBehind
<1>12. ASSUME NEW p \in R PROVE RequestOK(sl, new, left, p)
  <2>1. RequestOK(sl, cd, ac, p)
    BY DEF Agree
  <2>2. p \in SessionIds /\ Ends(p) \in Nat
    BY <1>0, <2>1, SignableBound, SessionNumbers DEF RequestOK
  <2>3. On(p) = x => new[x].index >= Ends(p)
    <3>1. CASE Asked(ac, s) /\ On(p) = x
      <4>1. p # s => From(s) >= Ends(p)
        BY <2>1, <3>1 DEF RequestOK, After
      <4>2. Ends(s) >= Ends(p)
        BY <1>2, <2>2, <4>1
      <4> QED BY <1>2, <1>3, <2>2, <3>1, <4>2
    <3>2. CASE ~Asked(ac, s) /\ On(p) = x
      BY <1>4, <1>9, <2>1, <3>2 DEF RequestOK
    <3> QED BY <3>1, <3>2
  <2>4. On(p) \in DOMAIN new /\ Unasked(left, On(p)) => new[On(p)].index >= Ends(p)
    BY <1>6, <2>1, <2>3 DEF RequestOK
  <2> QED BY <1>5, <2>1, <2>4 DEF RequestOK
<1>13. ASSUME NEW m \in M PROVE ShareOK(sl, left, m)
  <2>1. ShareOK(sl, ac, m)
    BY DEF Agree
  <2> QED BY <1>5, <2>1 DEF ShareOK
<1> QED BY <1>0, <1>7, <1>8, <1>11, <1>12, <1>13 DEF Agree

\* The seed of a stream does not change.
SeedsKept(sl, new) ==
  \A y \in Streams : Held(sl, y) =>
    Held(new, y) /\ SlotOf(new, y).seed = SlotOf(sl, y).seed

\* What was made of it stays so.
LEMMA HeldKept ==
  ASSUME NEW sl, NEW new, SeedsKept(sl, new)
  PROVE  /\ \A s : SessionHeld(sl, s) => SessionHeld(new, s)
         /\ \A seg : SegmentHeld(sl, seg) => SegmentHeld(new, seg)
<1>1. ASSUME NEW s, SessionHeld(sl, s) PROVE SessionHeld(new, s)
  <2>1. On(s) \in Streams
    BY <1>1, SessionNumbers DEF SessionHeld, MadeOf
  <2> QED BY <1>1, <2>1 DEF SessionHeld, SeedsKept
<1>2. ASSUME NEW seg, SegmentHeld(sl, seg) PROVE SegmentHeld(new, seg)
  <2>1. seg.stream \in Streams
    BY <1>2 DEF SegmentHeld, Segments
  <2> QED BY <1>2, <2>1 DEF SegmentHeld, SeedsKept
<1> QED BY <1>1, <1>2

\* A stream nobody knows of gets a slot.
LEMMA AgreeOnCreated ==
  ASSUME NEW sl, NEW cd, NEW ac, NEW R, NEW M, Agree(sl, cd, ac, R, M),
         NEW x \in Streams, ~Held(sl, x), NEW new, SlotsOK(new), SameElse(sl, new, x)
  PROVE  /\ Agree(new, cd, ac, R, M)
         /\ \A y \in Streams : Held(sl, y) => SlotOf(new, y) = SlotOf(sl, y)
<1>1. \A y \in Streams : Held(sl, y) => Held(new, y) /\ SlotOf(new, y) = SlotOf(sl, y)
  BY DEF SameElse
<1>2. SeedsKept(sl, new)
  BY <1>1 DEF SeedsKept
<1>3. /\ \A s : SessionHeld(sl, s) => SessionHeld(new, s)
      /\ \A seg : SegmentHeld(sl, seg) => SegmentHeld(new, seg)
  BY <1>2, HeldKept
<1>4. \A s : SessionHeld(sl, s) => /\ SlotOf(new, On(s)) = SlotOf(sl, On(s))
                                   /\ Signable(sl, s) => Signable(new, s)
  <2>1. \A s : SessionHeld(sl, s) => On(s) \in Streams /\ Held(sl, On(s))
    BY SessionNumbers DEF SessionHeld, MadeOf
  <2> QED BY <1>1, <2>1 DEF Signable
<1>5. CacheHeld(new, cd)
  BY <1>3 DEF Agree, CacheHeld
<1>6. SessionsOK(new, cd, ac)
  BY <1>3, <1>4 DEF Agree, SessionsOK
<1>7. NotBehind(new, cd, ac)
  <2>1. \A y \in DOMAIN cd : y \in Streams /\ Held(sl, y)
    BY DEF Agree, CacheHeld, SegmentHeld, Segments
  <2> QED BY <1>1, <2>1 DEF Agree, NotBehind
<1>8. ASSUME NEW p \in R PROVE RequestOK(new, cd, ac, p)
  BY <1>3, <1>4 DEF Agree, RequestOK
<1>9. ASSUME NEW m \in M PROVE ShareOK(new, ac, m)
  <2>1. ShareOK(sl, ac, m)
    BY DEF Agree
  <2>2. On(m.session) \in Streams /\ Held(sl, On(m.session))
    BY <2>1, SessionNumbers DEF ShareOK
  <2>3. Held(new, On(m.session)) /\ SlotOf(new, On(m.session)) = SlotOf(sl, On(m.session))
    BY <1>1, <2>2
  <2> QED BY <1>3, <2>1, <2>3 DEF ShareOK
<1> QED BY <1>1, <1>5, <1>6, <1>7, <1>8, <1>9 DEF Agree

\* The device signs a session it was asked for and has not signed.
LEMMA AgreeOnSigned ==
  ASSUME NEW sl, NEW cd, NEW ac, NEW R, NEW M, Agree(sl, cd, ac, R, M),
         NEW p \in R, \A q \in R : After(p, q),
         SlotOf(sl, On(p)).index <= From(p),
         NEW new, SlotsOK(new), SameElse(sl, new, On(p)), Held(new, On(p)),
         SlotOf(new, On(p)).seed = SlotOf(sl, On(p)).seed,
         SlotOf(new, On(p)).index = Ends(p), SlotOf(new, On(p)).session = p
  PROVE  /\ Agree(new, cd, ac, R, M)
         /\ \A q \in R : Done(sl, q) => Done(new, q)
<1> DEFINE x == On(p)
<1>0. SlotsOK(sl) /\ RequestOK(sl, cd, ac, p)
  BY DEF Agree
<1>1. /\ p \in SessionIds /\ x \in Streams /\ Held(sl, x)
      /\ From(p) \in Nat /\ Ends(p) \in Nat /\ From(p) < Ends(p)
      /\ SlotOf(sl, x).index \in Nat
  BY <1>0, SignableBound, SessionNumbers DEF RequestOK, SessionHeld
<1>2. /\ \A y \in Streams : Held(sl, y) => Held(new, y)
      /\ \A y \in Streams : Held(sl, y) /\ y # x => SlotOf(new, y) = SlotOf(sl, y)
  BY DEF SameElse
<1>3. SeedsKept(sl, new)
  BY <1>2 DEF SeedsKept
<1>4. /\ \A s : SessionHeld(sl, s) => SessionHeld(new, s)
      /\ \A seg : SegmentHeld(sl, seg) => SegmentHeld(new, seg)
  BY <1>3, HeldKept
<1>5. \A s : SessionHeld(sl, s) /\ On(s) # x => SlotOf(new, On(s)) = SlotOf(sl, On(s))
  <2>1. \A s : SessionHeld(sl, s) => On(s) \in Streams /\ Held(sl, On(s))
    BY SessionNumbers DEF SessionHeld, MadeOf
  <2> QED BY <1>2, <2>1
<1>6. \A s : SessionHeld(sl, s) /\ Signable(sl, s) /\ After(p, s) => Signable(new, s)
  BY <1>1, <1>5 DEF Signable, After
<1>7. CacheHeld(new, cd)
  BY <1>4 DEF Agree, CacheHeld
<1>8. SessionsOK(new, cd, ac)
  <2>1. \A s \in DOMAIN ac : After(p, s)
    BY <1>0 DEF RequestOK
  <2> QED BY <1>4, <1>6, <2>1 DEF Agree, SessionsOK
<1>9. NotBehind(new, cd, ac)
  <2>1. \A y \in DOMAIN cd : y \in Streams /\ Held(sl, y)
    BY DEF Agree, CacheHeld, SegmentHeld, Segments
  <2>2. x \in DOMAIN cd /\ Unasked(ac, x) => cd[x].index >= SlotOf(new, x).index
    BY <1>0 DEF RequestOK
  <2>3. ASSUME NEW y \in DOMAIN cd, Unasked(ac, y)
        PROVE  cd[y].index >= SlotOf(new, y).index
    <3>1. CASE y = x
      BY <2>2, <2>3, <3>1
    <3>2. CASE y # x
      BY <1>2, <2>1, <2>3, <3>2 DEF Agree, NotBehind
    <3> QED BY <3>1, <3>2
  <2> QED BY <2>3 DEF NotBehind
<1>10. ASSUME NEW q \in R PROVE RequestOK(new, cd, ac, q)
  BY <1>4, <1>6 DEF Agree, RequestOK
<1>11. ASSUME NEW m \in M PROVE ShareOK(new, ac, m)
  <2> DEFINE s == m.session
  <2>1. ShareOK(sl, ac, m)
    BY DEF Agree
  <2>2. /\ s \in SessionIds /\ On(s) \in Streams /\ Held(sl, On(s))
        /\ From(s) \in Nat /\ Ends(s) \in Nat /\ From(s) < Ends(s)
    BY <2>1, SessionNumbers DEF ShareOK
  <2>3. SlotOf(new, On(s)).index >= Ends(s)
    BY <1>1, <1>2, <2>1, <2>2 DEF ShareOK
  <2>4. ASSUME s \in DOMAIN ac PROVE SlotOf(new, On(s)).session = s
    <3>1. CASE On(s) # x
      BY <1>2, <2>1, <2>2, <2>4, <3>1 DEF ShareOK
    <3>2. CASE On(s) = x
      <4>1. s = p
        <5> SUFFICES ASSUME s # p PROVE FALSE
          OBVIOUS
        <5>1. From(s) >= Ends(p)
          BY <1>0, <2>4, <3>2 DEF RequestOK, After
        <5>2. SlotOf(sl, x).index >= Ends(s)
          BY <2>1, <3>2 DEF ShareOK
        <5> QED BY <1>1, <2>2, <5>1, <5>2
      <4> QED BY <4>1
    <3> QED BY <3>1, <3>2
  <2>5. Held(new, On(s))
    BY <1>2, <2>2
  <2> QED BY <1>4, <2>1, <2>3, <2>4, <2>5 DEF ShareOK
<1>12. ASSUME NEW q \in R, Done(sl, q) PROVE Done(new, q)
  <2>1. SessionHeld(sl, q)
    BY DEF Agree, RequestOK
  <2>2. /\ From(q) \in Nat /\ Ends(q) \in Nat /\ From(q) < Ends(q)
        /\ SlotOf(sl, On(q)).index = Ends(q)
    BY <1>0, <1>12, <2>1, SignableBound, SessionNumbers
  <2>3. CASE On(q) # x
    BY <1>5, <1>12, <2>1, <2>3 DEF Done
  <2>4. CASE On(q) = x
    <3>1. q = p
      BY <1>1, <2>2, <2>4 DEF After
    <3> QED BY <3>1 DEF Done
  <2> QED BY <2>3, <2>4
<1> QED BY <1>7, <1>8, <1>9, <1>10, <1>11, <1>12 DEF Agree

\* One more message with shares is under way.
LEMMA AgreeOnShares ==
  ASSUME NEW sl, NEW cd, NEW ac, NEW R, NEW M, Agree(sl, cd, ac, R, M),
         NEW m, ShareOK(sl, ac, m)
  PROVE  Agree(sl, cd, ac, R, M \cup {m})
BY DEF Agree

----------------------------------------------------------------------------
(* The operations on the nonces of a seed *)

\* The segments of the streams' nonces.
LEMMA SegmentsCached == Segments = CachedSegments(Nonces)
BY DEF Segments, CachedSegments

\* _extend of nonces of a seed gives nonces of that seed, from the index of one of
\* the two on.
LEMMA ExtendRun ==
  ASSUME NEW a \in Segments, NEW b \in Segments, a.stream = b.stream, NEW seed,
         Run(a.nonces, seed, a.index), Run(b.nonces, seed, b.index)
  PROVE  /\ Extend(a, b) \in Segments /\ Extend(a, b).stream = a.stream
         /\ Run(Extend(a, b).nonces, seed, Extend(a, b).index)
         /\ Extend(a, b).index \in {a.index, b.index}
         /\ a.nonces = <<>> => Extend(a, b) = b
<1>1. Extend(a, b) \in Segments /\ Extend(a, b).stream = a.stream
  BY ExtendType, SegmentsCached
<1>2. /\ a.index \in Nat /\ b.index \in Nat
      /\ a.nonces \in Seq(Nonces) /\ b.nonces \in Seq(Nonces)
      /\ Len(a.nonces) \in Nat /\ Len(b.nonces) \in Nat
  BY LenProperties DEF Segments
<1>3. a.nonces = <<>> => Extend(a, b) = b
  BY <1>2, EmptySeq DEF Extend
<1>4. CASE ~Connect(a, b) \/ a.nonces = <<>>
  <2>1. Extend(a, b) = a \/ Extend(a, b) = b
    BY <1>4 DEF Extend
  <2> QED BY <1>1, <1>3, <2>1
<1>5. CASE Connect(a, b) /\ a.nonces # <<>>
  <2> DEFINE start == Smaller(a.index, b.index)
             end   == Larger(IndexAfterLast(a), IndexAfterLast(b))
             nonce(k) == IF Covers(a, start + k - 1) THEN GetNonce(a, start + k - 1)
                                                     ELSE GetNonce(b, start + k - 1)
             joined == [k \in 1 .. end - start |-> nonce(k)]
  <2>1. start \in Nat /\ end \in Nat /\ end - start \in Nat /\ start \in {a.index, b.index}
    BY <1>2, JoinedIndices DEF IndexAfterLast, Smaller
  <2>2. Extend(a, b) = Segment(a.stream, start, joined)
    BY <1>5 DEF Extend, Join
  <2>3. Extend(a, b).index = start /\ Extend(a, b).nonces = joined
    <3> HIDE DEF start, joined
    <3> QED BY <2>2 DEF Segment
  <2>4. ASSUME NEW k \in 1 .. end - start
        PROVE  nonce(k) = <<seed, start + k - 1>>
    <3> DEFINE i == start + k - 1
    <3>1. i \in Nat /\ start <= i /\ i < end
      BY <2>1
    <3>2. CASE Covers(a, i)
      <4>1. i - a.index + 1 \in 1 .. Len(a.nonces)
        BY <1>2, <3>1, <3>2 DEF Covers, IndexAfterLast
      <4>2. GetNonce(a, i) = <<seed, a.index + (i - a.index + 1) - 1>>
        <5> HIDE DEF i
        <5> QED BY <4>1 DEF GetNonce, Run
      <4>3. a.index + (i - a.index + 1) - 1 = i
        BY <1>2, <3>1
      <4> QED BY <3>2, <4>2, <4>3
    <3>3. CASE ~Covers(a, i)
      <4>1. i >= b.index /\ i < b.index + Len(b.nonces)
        <5>1. ~(i >= a.index /\ i < a.index + Len(a.nonces))
          BY <3>3 DEF Covers, IndexAfterLast
        <5> QED BY <1>2, <1>5, <3>1, <5>1, JoinedIndices DEF Connect, IndexAfterLast
      <4>2. i - b.index + 1 \in 1 .. Len(b.nonces)
        BY <1>2, <3>1, <4>1
      <4>3. GetNonce(b, i) = <<seed, b.index + (i - b.index + 1) - 1>>
        <5> HIDE DEF i
        <5> QED BY <4>2 DEF GetNonce, Run
      <4>4. b.index + (i - b.index + 1) - 1 = i
        BY <1>2, <3>1
      <4> QED BY <3>3, <4>3, <4>4
    <3> QED BY <3>2, <3>3
  <2>5. Len(joined) = end - start /\ \A k \in 1 .. end - start : joined[k] = nonce(k)
    <3> HIDE DEF nonce, start, end
    <3> QED BY <2>1
  <2>6. Run(joined, seed, start)
    <3> HIDE DEF nonce, joined, start, end
    <3> QED BY <2>4, <2>5 DEF Run
  <2> HIDE DEF joined, start
  <2> QED BY <1>1, <1>3, <2>1, <2>3, <2>6
<1> QED BY <1>4, <1>5

\* delete_up_to leaves nonces of the seed.
LEMMA DeleteRun ==
  ASSUME NEW a \in Segments, NEW upTo \in Nat, NEW seed, Run(a.nonces, seed, a.index)
  PROVE  /\ DeleteUpTo(a, upTo) \in Segments
         /\ DeleteUpTo(a, upTo).stream = a.stream
         /\ DeleteUpTo(a, upTo).index >= upTo
         /\ Run(DeleteUpTo(a, upTo).nonces, seed, DeleteUpTo(a, upTo).index)
<1> DEFINE n == Larger(upTo - a.index, 0)
           rest == SubSeq(a.nonces, n + 1, Len(a.nonces))
<1>1. a.index \in Nat /\ a.nonces \in Seq(Nonces) /\ Len(a.nonces) \in Nat
  BY LenProperties DEF Segments
<1>2. n \in Nat
  BY <1>1 DEF Larger
<1>3. DeleteUpTo(a, upTo).index = a.index + n /\ DeleteUpTo(a, upTo).nonces = rest
  BY DEF DeleteUpTo, Segment
<1>4. \A k \in 1 .. Len(rest) : k + n \in 1 .. Len(a.nonces) /\ rest[k] = a.nonces[k + n]
  <2> HIDE DEF n
  <2>1. /\ Len(rest) = IF n + 1 <= Len(a.nonces) THEN Len(a.nonces) - n ELSE 0
        /\ \A k \in 1 .. Len(a.nonces) - n : rest[k] = a.nonces[k + n]
    BY <1>1, <1>2
  <2> HIDE DEF rest
  <2> QED BY <1>1, <1>2, <2>1
<1>5. Run(rest, seed, a.index + n)
  <2> HIDE DEF n, rest
  <2>1. ASSUME NEW k \in 1 .. Len(rest) PROVE rest[k] = <<seed, (a.index + n) + k - 1>>
    <3>1. rest[k] = <<seed, a.index + (k + n) - 1>> /\ k \in Int
      BY <1>4 DEF Run
    <3>2. a.index + (k + n) - 1 = (a.index + n) + k - 1
      BY <1>1, <1>2, <3>1
    <3> QED BY <3>1, <3>2
  <2> QED BY <2>1 DEF Run
<1> HIDE DEF n, rest
<1> QED BY <1>3, <1>5, DeleteUpToType, SegmentsCached

\* What a request takes of a segment.
LEMMA PrefixRun ==
  ASSUME NEW ns \in Seq(Nonces), NEW n \in Nat, n <= Len(ns), NEW seed, NEW i, Run(ns, seed, i)
  PROVE  /\ SubSeq(ns, 1, n) \in Seq(Nonces) /\ Len(SubSeq(ns, 1, n)) = n
         /\ Run(SubSeq(ns, 1, n), seed, i)
<1>1. Len(ns) \in Nat
  BY LenProperties
<1>2. \A k \in 1 .. n : k \in 1 .. Len(ns) /\ ns[k] \in Nonces
  BY <1>1, ElementOfSeq
<1>3. /\ SubSeq(ns, 1, n) \in Seq(Nonces) /\ Len(SubSeq(ns, 1, n)) = n
      /\ \A k \in 1 .. n : SubSeq(ns, 1, n)[k] = ns[k]
  BY <1>1, <1>2, SubSeqProperties
<1> QED BY <1>2, <1>3 DEF Run

\* The nonces of a finished job.
LEMMA JobRun ==
  ASSUME NEW j \in Jobs
  PROVE  /\ JobSegment(j) \in Segments
         /\ JobSegment(j).stream = j.stream /\ JobSegment(j).index = j.index
         /\ Run(JobSegment(j).nonces, j.seed, j.index)
         /\ IndexAfterLast(JobSegment(j)) = j.index + j.length
<1> DEFINE ns == [k \in 1 .. j.length |-> <<j.seed, j.index + k - 1>>]
<1>1. j.stream \in Streams /\ j.seed \in Nat /\ j.index \in Nat /\ j.length \in Nat
  BY DEF Jobs
<1>2. \A k \in 1 .. j.length : <<j.seed, j.index + k - 1>> \in Nonces
  BY <1>1 DEF Nonces
<1>3. ns \in Seq(Nonces) /\ Len(ns) = j.length
  <2>1. ns \in [1 .. j.length -> Nonces]
    BY <1>2
  <2>2. Len(ns) = j.length
    BY <1>1
  <2> HIDE DEF ns
  <2>3. ns \in Seq(Nonces)
    BY <1>1, <2>1, IsASeq
  <2> QED BY <2>2, <2>3
<1>4. Run(ns, j.seed, j.index)
  BY <1>1, <1>3 DEF Run
<1>5. JobSegment(j) = [stream |-> j.stream, index |-> j.index, nonces |-> ns]
  BY DEF JobSegment, Segment
<1> HIDE DEF ns
<1> QED BY <1>1, <1>3, <1>4, <1>5 DEF Segments, IndexAfterLast

\* The shares a slot cached were made with the nonces of its session.
LEMMA CachedShares ==
  ASSUME NEW v, ValueOK(v), v.session # None
  PROVE  SharesNonces(v) = v.session.nonces[dev].nonces
<1> DEFINE s == v.session
           n == NSigsOf(s)
           ns == s.nonces[dev].nonces
           sh(k) == D!Share(s, k, v.seed, From(s) + k - 1)
<1>1. /\ s \in SessionIds /\ Len(ns) = n /\ Run(ns, v.seed, From(s))
      /\ v.shares = {sh(k) : k \in 1 .. n}
  BY DEF ValueOK, MadeOf
<1>2. n \in Nat /\ ns \in Seq(Nonces) /\ From(s) \in Nat
  BY <1>1, SessionNumbers
<1>3. \A k \in 1 .. n : sh(k).item = k /\ sh(k).seed = v.seed /\ sh(k).index = From(s) + k - 1
  BY DEF D!Share
<1> HIDE DEF sh
<1>4. Cardinality(v.shares) = n
  <2> DEFINE f == [k \in 1 .. n |-> sh(k)]
  <2>1. f \in Bijection(1 .. n, v.shares)
    <3>1. f \in [1 .. n -> v.shares]
      BY <1>1
    <3>2. \A j, k \in 1 .. n : f[j] = f[k] => j = k
      BY <1>3
    <3>3. \A e \in v.shares : \E k \in 1 .. n : f[k] = e
      BY <1>1
    <3> HIDE DEF f
    <3> QED BY <3>1, <3>2, <3>3 DEF Bijection, Injection, Surjection, IsInjective
  <2>2. ExistsBijection(1 .. n, v.shares)
    BY <2>1 DEF ExistsBijection
  <2>3. IsFiniteSet(1 .. n) /\ Cardinality(1 .. n) = n
    BY <1>2, FS_Interval
  <2> QED BY <2>2, <2>3, FS_Bijection
<1>5. ASSUME NEW k \in 1 .. n
      PROVE  (CHOOSE x \in v.shares : x.item = k) = sh(k)
  <2>1. \A x \in v.shares : x.item = k => x = sh(k)
    BY <1>1, <1>3
  <2>2. sh(k) \in v.shares /\ sh(k).item = k
    BY <1>1, <1>3
  <2> QED BY <2>1, <2>2
<1> DEFINE made(k) == LET e == CHOOSE x \in v.shares : x.item = k IN <<e.seed, e.index>>
<1>6. ASSUME NEW k \in 1 .. n PROVE made(k) = ns[k]
  <2>1. made(k) = <<v.seed, From(s) + k - 1>>
    BY <1>3, <1>5
  <2> QED BY <1>1, <2>1 DEF Run
<1>7. SharesNonces(v) = [k \in 1 .. n |-> made(k)]
  BY <1>4 DEF SharesNonces
<1>8. ns = [k \in 1 .. n |-> ns[k]]
  BY <1>1, <1>2
<1> HIDE DEF made, ns
<1> QED BY <1>6, <1>7, <1>8 DEF ns

----------------------------------------------------------------------------
(* Messages under way *)

\* A message is sent.
LEMMA PushAt ==
  ASSUME NEW T, NEW q \in Seq(T), NEW m \in T
  PROVE  /\ Append(q, m) \in Seq(T) /\ Append(q, m) # <<>>
         /\ Len(q) \in Nat /\ Len(Append(q, m)) = Len(q) + 1
         /\ \A n \in 1 .. Len(q) : Append(q, m)[n] = q[n]
         /\ Append(q, m)[Len(q) + 1] = m
         /\ \A t : m.type = t => At(Append(q, m), t) = At(q, t) \cup {Len(q) + 1}
         /\ \A t : m.type # t => At(Append(q, m), t) = At(q, t)
<1>1. /\ Append(q, m) \in Seq(T) /\ Append(q, m) # <<>>
      /\ Len(q) \in Nat /\ Len(Append(q, m)) = Len(q) + 1
      /\ \A n \in 1 .. Len(q) : Append(q, m)[n] = q[n]
      /\ Append(q, m)[Len(q) + 1] = m
  BY AppendProperties, LenProperties
<1>2. 1 .. Len(q) + 1 = (1 .. Len(q)) \cup {Len(q) + 1}
  BY <1>1
<1>3. ASSUME NEW t PROVE /\ m.type = t => At(Append(q, m), t) = At(q, t) \cup {Len(q) + 1}
                         /\ m.type # t => At(Append(q, m), t) = At(q, t)
  BY <1>1, <1>2 DEF At
<1> QED BY <1>1, <1>3

\* A message is received.
LEMMA PopAt ==
  ASSUME NEW T, NEW q \in Seq(T), q # <<>>
  PROVE  /\ Tail(q) \in Seq(T) /\ Head(q) \in T /\ Head(q) = q[1]
         /\ Len(q) \in Nat \ {0} /\ Len(Tail(q)) = Len(q) - 1
         /\ \A n \in 1 .. Len(q) - 1 : Tail(q)[n] = q[n + 1]
         /\ \A t : At(Tail(q), t) = {n \in 1 .. Len(q) - 1 : n + 1 \in At(q, t)}
         /\ \A t : 1 \in At(q, t) <=> Head(q).type = t
<1>1. /\ Tail(q) \in Seq(T) /\ Head(q) \in T /\ Head(q) = q[1]
      /\ Len(q) \in Nat \ {0} /\ Len(Tail(q)) = Len(q) - 1
      /\ \A n \in 1 .. Len(q) - 1 : Tail(q)[n] = q[n + 1]
  BY HeadTailProperties, LenProperties, EmptySeq
<1>2. ASSUME NEW t PROVE At(Tail(q), t) = {n \in 1 .. Len(q) - 1 : n + 1 \in At(q, t)}
  BY <1>1 DEF At
<1>3. ASSUME NEW t PROVE 1 \in At(q, t) <=> Head(q).type = t
  BY <1>1 DEF At
<1> QED BY <1>1, <1>2, <1>3

\* Nothing is under way.
LEMMA NothingAt == \A t : At(<<>>, t) = {}
BY DEF At

\* The messages to the device.
LEMMA DeviceMsgKinds ==
  /\ CancelMsg \in DeviceMsgs /\ CancelMsg.type = "cancel"
  /\ \A st \in States : OpenMsg(st) \in DeviceMsgs /\ OpenMsg(st).type = "open"
  /\ \A s \in SessionIds :
       /\ SignMsg(s) \in DeviceMsgs /\ SignMsg(s).type = "sign" /\ SignMsg(s).session = s
       /\ SignMsg(s).state \in States
       /\ SignMsg(s).state.stream = On(s) /\ SignMsg(s).state.index = From(s)
  /\ \A m \in DeviceMsgs : /\ m.type \in {"open", "cancel", "sign"}
                           /\ m.type = "open" => m.state \in States
                           /\ m.type = "sign" => m.session \in SessionIds
<1>1. CancelMsg \in DeviceMsgs /\ CancelMsg.type = "cancel"
  BY DEF CancelMsg, DeviceMsgs
<1>2. \A st \in States : OpenMsg(st) \in DeviceMsgs /\ OpenMsg(st).type = "open"
  BY DEF OpenMsg, DeviceMsgs
<1>3. ASSUME NEW s \in SessionIds
      PROVE  /\ SignMsg(s) \in DeviceMsgs /\ SignMsg(s).type = "sign" /\ SignMsg(s).session = s
             /\ SignMsg(s).state \in States
             /\ SignMsg(s).state.stream = On(s) /\ SignMsg(s).state.index = From(s)
  <2>1. /\ s.nonces[dev].stream \in Streams /\ s.nonces[dev].index \in Nat
        /\ s.nonces[dev].remaining \in Nat
    BY DEF SessionIds
  <2> QED BY <2>1 DEF SignMsg, DeviceMsgs, States, On, From
<1>4. \A m \in DeviceMsgs : /\ m.type \in {"open", "cancel", "sign"}
                            /\ m.type = "open" => m.state \in States
                            /\ m.type = "sign" => m.session \in SessionIds
  BY DEF DeviceMsgs
<1> QED BY <1>1, <1>2, <1>3, <1>4

\* The sessions that are asked for.
LEMMA RequestedSessions ==
  ASSUME NEW td \in Seq(DeviceMsgs), NEW pr, Ordered(pr, td)
  PROVE  /\ \A n \in At(td, "sign") : td[n].session \in SessionIds
         /\ Requested(pr, td) \subseteq SessionIds
<1>1. \A n \in At(td, "sign") : td[n] \in DeviceMsgs /\ td[n].type = "sign"
  BY ElementOfSeq DEF At
<1>2. \A n \in At(td, "sign") : td[n].session \in SessionIds
  BY <1>1, DeviceMsgKinds
<1>3. pr # None => pr.session \in SessionIds
  BY DEF Ordered
<1> QED BY <1>2, <1>3 DEF Requested

\* A request is sent after those it may follow.
LEMMA PushSign ==
  ASSUME NEW td \in Seq(DeviceMsgs), NEW pr, Ordered(pr, td), NEW p \in SessionIds,
         \A q \in Requested(pr, td) : After(q, p)
  PROVE  LET new == Append(td, SignMsg(p))
         IN  /\ Ordered(pr, new) /\ Requested(pr, new) \subseteq Requested(pr, td) \cup {p}
             /\ \A sl : Superseded(sl, pr, td, p) => Superseded(sl, pr, new, p)
<1> DEFINE new == Append(td, SignMsg(p))
           l == Len(td) + 1
<1>1. SignMsg(p) \in DeviceMsgs /\ SignMsg(p).type = "sign" /\ SignMsg(p).session = p
  BY DeviceMsgKinds
<1>2. /\ Len(td) \in Nat /\ Len(new) = l
      /\ \A n \in 1 .. Len(td) : new[n] = td[n]
      /\ new[l] = SignMsg(p)
      /\ At(new, "sign") = At(td, "sign") \cup {l}
  BY <1>1, PushAt
<1> HIDE DEF new
<1>3. At(td, "sign") \subseteq 1 .. Len(td)
  BY DEF At
<1>4. \A n \in At(td, "sign") : new[n] = td[n] /\ n \in 1 .. l /\ n < l /\ td[n].session \in Requested(pr, td)
  BY <1>2, <1>3 DEF Requested
<1>5. new[l] = SignMsg(p) /\ new[l].session = p
  BY <1>1, <1>2
<1>6. Requested(pr, new) \subseteq Requested(pr, td) \cup {p}
  BY <1>2, <1>4, <1>5 DEF Requested
<1>7. Ordered(pr, new)
  <2>1. \A n \in At(new, "sign") : new[n] = SignMsg(new[n].session)
    BY <1>2, <1>4, <1>5 DEF Ordered
  <2>2. ASSUME NEW a \in At(new, "sign"), NEW b \in At(new, "sign"), a < b
        PROVE  After(new[a].session, new[b].session)
    <3>1. a \in At(td, "sign")
      BY <1>2, <1>4, <2>2
    <3>2. CASE b \in At(td, "sign")
      BY <1>4, <2>2, <3>1, <3>2 DEF Ordered
    <3>3. CASE b = l
      BY <1>4, <1>5, <3>1, <3>3
    <3> QED BY <1>2, <3>2, <3>3
  <2>3. pr # None => \A b \in At(new, "sign") : After(pr.session, new[b].session)
    <3>1. pr # None => pr.session \in Requested(pr, td)
      BY DEF Requested
    <3> QED BY <1>2, <1>4, <1>5, <3>1 DEF Ordered
  <2> QED BY <2>1, <2>2, <2>3 DEF Ordered
<1>8. ASSUME NEW sl, Superseded(sl, pr, td, p) PROVE Superseded(sl, pr, new, p)
  <2>1. \A a : CancelAfter(td, a) => CancelAfter(new, a)
    BY <1>2 DEF CancelAfter
  <2> QED BY <1>2, <1>4, <1>5, <1>8, <2>1 DEF Superseded
<1> QED BY <1>6, <1>7, <1>8 DEF new

\* Another message is sent; a Cancel supersedes every request.
LEMMA PushOther ==
  ASSUME NEW td \in Seq(DeviceMsgs), NEW pr, Ordered(pr, td),
         NEW m \in DeviceMsgs, m.type # "sign"
  PROVE  LET new == Append(td, m)
         IN  /\ Ordered(pr, new) /\ Requested(pr, new) = Requested(pr, td)
             /\ \A sl, dp : Superseded(sl, pr, td, dp) => Superseded(sl, pr, new, dp)
             /\ \A sl, dp : m.type = "cancel" => Superseded(sl, pr, new, dp)
<1> DEFINE new == Append(td, m)
<1>2. /\ Len(td) \in Nat /\ Len(new) = Len(td) + 1
      /\ \A n \in 1 .. Len(td) : new[n] = td[n]
      /\ new[Len(td) + 1] = m
      /\ At(new, "sign") = At(td, "sign")
  BY PushAt
<1> HIDE DEF new
<1>3. At(td, "sign") \subseteq 1 .. Len(td)
  BY DEF At
<1>4. \A n \in At(td, "sign") : new[n] = td[n] /\ n < Len(new)
  BY <1>2, <1>3
<1>5. Requested(pr, new) = Requested(pr, td)
  BY <1>2, <1>4 DEF Requested
<1>6. Ordered(pr, new)
  BY <1>2, <1>4 DEF Ordered
<1>7. ASSUME NEW sl, NEW dp, Superseded(sl, pr, td, dp) PROVE Superseded(sl, pr, new, dp)
  <2>1. \A a : CancelAfter(td, a) => CancelAfter(new, a)
    BY <1>2 DEF CancelAfter
  <2> QED BY <1>2, <1>4, <1>7, <2>1 DEF Superseded
<1>8. ASSUME NEW sl, NEW dp, m.type = "cancel" PROVE Superseded(sl, pr, new, dp)
  <2>1. Len(new) \in 1 .. Len(new) /\ new[Len(new)].type = "cancel" /\ 0 < Len(new)
    BY <1>2, <1>8
  <2>2. CancelAfter(new, 0) /\ \A a \in At(td, "sign") : CancelAfter(new, a)
    BY <1>4, <2>1 DEF CancelAfter
  <2> QED BY <1>2, <2>2 DEF Superseded
<1> QED BY <1>5, <1>6, <1>7, <1>8 DEF new

\* A request is received and shown in place of another.
LEMMA PopSign ==
  ASSUME NEW td \in Seq(DeviceMsgs), td # <<>>, NEW pr, Ordered(pr, td), Head(td).type = "sign"
  PROVE  /\ Ordered(Head(td), Tail(td)) /\ Requested(Head(td), Tail(td)) \subseteq Requested(pr, td)
         /\ Head(td) = SignMsg(Head(td).session) /\ Head(td).session \in Requested(pr, td)
         /\ \A sl, dp : Superseded(sl, pr, td, dp) => Superseded(sl, Head(td), Tail(td), dp)
<1> DEFINE new == Tail(td)
<1>1. /\ Head(td) = td[1] /\ Len(td) \in Nat \ {0} /\ Len(new) = Len(td) - 1
      /\ \A n \in 1 .. Len(td) - 1 : new[n] = td[n + 1]
      /\ At(new, "sign") = {n \in 1 .. Len(td) - 1 : n + 1 \in At(td, "sign")}
      /\ 1 \in At(td, "sign")
  BY PopAt
<1> HIDE DEF new
<1>2. /\ At(td, "sign") \subseteq 1 .. Len(td)
      /\ \A n \in At(td, "sign") : td[n].session \in SessionIds
  BY RequestedSessions DEF At
<1>3. \A n \in At(new, "sign") : new[n] = td[n + 1] /\ n + 1 \in At(td, "sign") /\ 1 < n + 1 /\ n \in Nat
  BY <1>1
<1>4. Head(td) = SignMsg(Head(td).session) /\ Head(td).session \in Requested(pr, td)
  BY <1>1 DEF Ordered, Requested
<1>5. Requested(Head(td), new) \subseteq Requested(pr, td)
  <2>1. \A n \in At(new, "sign") : new[n].session \in Requested(pr, td)
    BY <1>3 DEF Requested
  <2> QED BY <1>4, <2>1 DEF Requested
<1>6. Ordered(Head(td), new)
  <2>1. \A n \in At(new, "sign") : new[n] = SignMsg(new[n].session)
    BY <1>3 DEF Ordered
  <2>2. ASSUME NEW a \in At(new, "sign"), NEW b \in At(new, "sign"), a < b
        PROVE  After(new[a].session, new[b].session)
    <3>1. a + 1 < b + 1
      BY <1>3, <2>2
    <3> QED BY <1>3, <3>1 DEF Ordered
  <2>3. \A b \in At(new, "sign") : After(td[1].session, new[b].session)
    BY <1>1, <1>3 DEF Ordered
  <2>4. Head(td).session \in SessionIds
    BY <1>1, <1>2
  <2> QED BY <1>1, <1>4, <2>1, <2>2, <2>3, <2>4 DEF Ordered
<1>7. ASSUME NEW sl, NEW dp, Superseded(sl, pr, td, dp) PROVE Superseded(sl, Head(td), new, dp)
  <2>1. \A a \in Nat : CancelAfter(td, a + 1) => CancelAfter(new, a)
    <3> SUFFICES ASSUME NEW a \in Nat, NEW b \in 1 .. Len(td), b > a + 1, td[b].type = "cancel"
                 PROVE  CancelAfter(new, a)
      BY DEF CancelAfter
    <3>1. b - 1 \in 1 .. Len(new) /\ b - 1 > a /\ new[b - 1] = td[b]
      BY <1>1
    <3> QED BY <3>1 DEF CancelAfter
  <2>2. ASSUME NEW a \in At(new, "sign")
        PROVE  new[a].session = dp \/ Done(sl, new[a].session) \/ CancelAfter(new, a)
    BY <1>3, <1>7, <2>1 DEF Superseded
  <2>3. Head(td).session = dp \/ Done(sl, Head(td).session) \/ CancelAfter(new, 0)
    <3>1. CancelAfter(td, 0 + 1) => CancelAfter(new, 0)
      BY <2>1
    <3> QED BY <1>1, <1>7, <3>1 DEF Superseded
  <2> QED BY <2>2, <2>3 DEF Superseded
<1> QED BY <1>4, <1>5, <1>6, <1>7 DEF new

\* Another message is received, and the screen is cleared.
LEMMA PopOther ==
  ASSUME NEW td \in Seq(DeviceMsgs), td # <<>>, NEW pr, Ordered(pr, td)
  PROVE  /\ Ordered(None, Tail(td)) /\ Requested(None, Tail(td)) \subseteq Requested(pr, td)
         /\ \A sl, dp : Superseded(sl, pr, td, dp) => Superseded(sl, None, Tail(td), dp)
<1> DEFINE new == Tail(td)
<1>1. /\ Len(td) \in Nat \ {0} /\ Len(new) = Len(td) - 1
      /\ \A n \in 1 .. Len(td) - 1 : new[n] = td[n + 1]
      /\ At(new, "sign") = {n \in 1 .. Len(td) - 1 : n + 1 \in At(td, "sign")}
  BY PopAt
<1> HIDE DEF new
<1>2. \A n \in At(new, "sign") : new[n] = td[n + 1] /\ n + 1 \in At(td, "sign") /\ n \in Nat
  BY <1>1
<1>3. Requested(None, new) \subseteq Requested(pr, td)
  BY <1>2 DEF Requested
<1>4. Ordered(None, new)
  <2>1. \A n \in At(new, "sign") : new[n] = SignMsg(new[n].session)
    BY <1>2 DEF Ordered
  <2>2. ASSUME NEW a \in At(new, "sign"), NEW b \in At(new, "sign"), a < b
        PROVE  After(new[a].session, new[b].session)
    <3>1. a + 1 < b + 1
      BY <1>2, <2>2
    <3> QED BY <1>2, <3>1 DEF Ordered
  <2> QED BY <2>1, <2>2 DEF Ordered
<1>5. ASSUME NEW sl, NEW dp, Superseded(sl, pr, td, dp) PROVE Superseded(sl, None, new, dp)
  <2>1. \A a \in Nat : CancelAfter(td, a + 1) => CancelAfter(new, a)
    <3> SUFFICES ASSUME NEW a \in Nat, NEW b \in 1 .. Len(td), b > a + 1, td[b].type = "cancel"
                 PROVE  CancelAfter(new, a)
      BY DEF CancelAfter
    <3>1. b - 1 \in 1 .. Len(new) /\ b - 1 > a /\ new[b - 1] = td[b]
      BY <1>1
    <3> QED BY <3>1 DEF CancelAfter
  <2>2. ASSUME NEW a \in At(new, "sign")
        PROVE  new[a].session = dp \/ Done(sl, new[a].session) \/ CancelAfter(new, a)
    BY <1>2, <1>5, <2>1 DEF Superseded
  <2> QED BY <2>2 DEF Superseded
<1> QED BY <1>3, <1>4, <1>5 DEF new

\* What does not concern the messages to the device.
LEMMA SupersededKept ==
  ASSUME NEW td \in Seq(DeviceMsgs), NEW pr, Ordered(pr, td),
         NEW sl, NEW dp, Superseded(sl, pr, td, dp)
  PROVE  /\ \A new : (\A q \in Requested(pr, td) : Done(sl, q) => Done(new, q))
                        => Superseded(new, pr, td, dp)
         /\ Superseded(sl, None, td, dp) /\ Ordered(None, td)
         /\ Requested(None, td) \subseteq Requested(pr, td)
         /\ Done(sl, dp) \/ dp = None => \A other : Superseded(sl, pr, td, other)
<1>1. \A n \in At(td, "sign") : td[n].session \in Requested(pr, td) /\ td[n].session \in SessionIds
  BY RequestedSessions DEF Requested
<1>2. pr # None => pr.session \in Requested(pr, td) /\ pr.session \in SessionIds
  BY DEF Requested, Ordered
<1>3. None \notin SessionIds
  BY SystemAssumption
<1>4. ASSUME NEW new, \A q \in Requested(pr, td) : Done(sl, q) => Done(new, q)
      PROVE  Superseded(new, pr, td, dp)
  BY <1>1, <1>2, <1>4 DEF Superseded
<1>5. Superseded(sl, None, td, dp) /\ Ordered(None, td)
  BY DEF Superseded, Ordered
<1>6. Requested(None, td) \subseteq Requested(pr, td)
  BY DEF Requested
<1>7. ASSUME Done(sl, dp) \/ dp = None, NEW other PROVE Superseded(sl, pr, td, other)
  BY <1>1, <1>2, <1>3, <1>7 DEF Superseded
<1> QED BY <1>4, <1>5, <1>6, <1>7

\* Nothing is asked for when the link is down.
LEMMA NothingRequested ==
  /\ Ordered(None, <<>>) /\ Requested(None, <<>>) = {} /\ ShareMsgs(<<>>) = {}
  /\ \A sl, dp : Superseded(sl, None, <<>>, dp)
BY NothingAt DEF Ordered, Requested, ShareMsgs, Superseded

----------------------------------------------------------------------------
(* The coordinator's protocols *)

\* The segments that devices may send.
AllSegments == [d \in Devices |-> SegmentsOf(Nonces)]

\* The inductive invariant: both sides, and the coordinator by itself.
SignInv == SystemInv /\ CoordInvariant(Nonces)

\* A step keeps the invariant and is a step of the coordinator, or none.
Keeps == SystemInv' /\ [CoordNext(AllSegments)]_coordVars

\* A finite set of numbers can be put in order.
LEMMA AscendingExists ==
  ASSUME NEW S \in SUBSET Nat, IsFiniteSet(S)
  PROVE  Ascending(S) \in [1 .. Cardinality(S) -> S] /\ Cardinality(S) \in Nat
<1> DEFINE Up(f, n) == \A i, j \in 1 .. n : i < j => f[i] < f[j]
           Has(T, n) == \E f \in [1 .. n -> T] : Up(f, n)
           Bad == {n \in Nat : \E T \in SUBSET Nat : IsFiniteSet(T) /\ Cardinality(T) = n /\ ~Has(T, n)}
<1>1. Bad = {}
  <2> SUFFICES ASSUME Bad # {} PROVE FALSE
    OBVIOUS
  <2>1. PICK n \in Bad : \A k \in Bad : n <= k
    BY LeastNatural
  <2>2. PICK T \in SUBSET Nat : IsFiniteSet(T) /\ Cardinality(T) = n /\ ~Has(T, n)
    BY <2>1
  <2>3. n \in Nat
    BY <2>1
  <2>4. T # {}
    <3> SUFFICES ASSUME T = {} PROVE Has(T, n)
      BY <2>2
    <3>1. n = 0
      BY <2>2, FS_EmptySet
    <3>2. <<>> \in [1 .. 0 -> T] /\ Up(<<>>, 0)
      OBVIOUS
    <3> QED BY <3>1, <3>2
  <2>5. PICK e \in T : \A x \in T : e <= x
    BY <2>2, <2>4, LeastNatural
  <2> DEFINE U == T \ {e}
  <2>6. IsFiniteSet(U) /\ Cardinality(U) = n - 1 /\ n # 0 /\ U \in SUBSET Nat
    BY <2>2, <2>4, <2>5, FS_RemoveElement, FS_EmptySet
  <2>7. Has(U, n - 1)
    <3>1. n - 1 \in Nat /\ n - 1 \notin Bad
      BY <2>1, <2>3, <2>6
    <3> HIDE DEF Has, U
    <3> QED BY <2>6, <3>1
  <2>8. PICK g \in [1 .. n - 1 -> U] : Up(g, n - 1)
    BY <2>7
  <2> DEFINE f == [i \in 1 .. n |-> IF i = 1 THEN e ELSE g[i - 1]]
  <2>9. \A i \in 1 .. n : i # 1 =>
          i - 1 \in 1 .. n - 1 /\ g[i - 1] \in T /\ g[i - 1] # e /\ g[i - 1] \in Nat
    <3>1. \A i \in 1 .. n : i # 1 => i - 1 \in 1 .. n - 1
      BY <2>3
    <3>2. \A k \in 1 .. n - 1 : g[k] \in T /\ g[k] # e /\ g[k] \in Nat
      BY <2>8
    <3> QED BY <3>1, <3>2
  <2>10. f \in [1 .. n -> T]
    BY <2>5, <2>9
  <2>11. ASSUME NEW i \in 1 .. n, NEW j \in 1 .. n, i < j PROVE f[i] < f[j]
    <3>1. j # 1 /\ f[j] = g[j - 1] /\ e \in Nat /\ i \in Nat /\ j \in Nat
      BY <2>3, <2>5, <2>11
    <3>2. CASE i = 1
      <4>1. e <= g[j - 1] /\ g[j - 1] # e /\ g[j - 1] \in Nat
        BY <2>5, <2>9, <3>1
      <4> QED BY <3>1, <3>2, <4>1
    <3>3. CASE i # 1
      <4>1. i - 1 < j - 1 /\ i - 1 \in 1 .. n - 1 /\ j - 1 \in 1 .. n - 1
        BY <2>9, <2>11, <3>1, <3>3
      <4> QED BY <2>8, <3>1, <3>3, <4>1
    <3> QED BY <3>2, <3>3
  <2> HIDE DEF f
  <2>12. Has(T, n)
    BY <2>10, <2>11
  <2> QED BY <2>2, <2>12
<1>2. Cardinality(S) \in Nat
  BY FS_CardinalityType
<1>3. Has(S, Cardinality(S))
  <2> HIDE DEF Has
  <2> QED BY <1>1, <1>2
<1>4. \E f \in [1 .. Cardinality(S) -> S] :
        \A i, j \in 1 .. Cardinality(S) : i < j => f[i] < f[j]
  BY <1>3
<1> HIDE DEF Bad, Has, Up
<1> QED BY <1>2, <1>4 DEF Ascending

\* What the invariant says of the cache of the device.
LEMMA CacheFacts ==
  ASSUME SignInv
  PROVE  /\ CacheOK(cache, Nonces) /\ dev \in Devices
         /\ DOMAIN cache[dev] \subseteq Streams
         /\ \A x \in DOMAIN cache[dev] : cache[dev][x] \in Segments
BY SegmentsCached, SystemAssumption DEF SignInv, CoordInvariant, TypeOK, CacheOK

\* The states of the streams that are asked for.
LEMMA OpeningRequestsType ==
  ASSUME IsFiniteSet(Streams), SignInv, NEW fresh \in SUBSET Streams
  PROVE  OpeningRequests(fresh) \in Seq(States)
<1>1. DOMAIN cache[dev] \subseteq Streams /\ \A x \in DOMAIN cache[dev] : cache[dev][x] \in Segments
  BY CacheFacts
<1>2. Streams \subseteq Nat
  BY CoordAssumption
<1>3. ASSUME NEW S \in SUBSET Streams PROVE Ascending(S) \in Seq(Streams)
  <2>1. IsFiniteSet(S) /\ S \in SUBSET Nat
    BY <1>2, <1>3, FS_Subset
  <2>2. Ascending(S) \in [1 .. Cardinality(S) -> S] /\ Cardinality(S) \in Nat
    BY <2>1, AscendingExists
  <2>3. Ascending(S) \in [1 .. Cardinality(S) -> Streams]
    BY <1>3, <2>2
  <2> QED BY <2>2, <2>3, IsASeq
<1> DEFINE ids == Ascending(fresh) \o Ascending(DOMAIN cache[dev])
<1>4. ids \in Seq(Streams)
  BY <1>1, <1>3, ConcatProperties
<1>5. ASSUME NEW x \in Streams PROVE StreamState(x) \in States
  <2>1. x \in DOMAIN cache[dev] => cache[dev][x].index \in Nat /\ Len(cache[dev][x].nonces) \in Nat
    BY <1>1, LenProperties DEF Segments
  <2> QED BY <2>1 DEF StreamState, States
<1>6. OpeningRequests(fresh) = [n \in 1 .. Len(ids) |-> StreamState(ids[n])]
  BY DEF OpeningRequests
<1> HIDE DEF ids
<1>7. Len(ids) \in Nat /\ \A n \in 1 .. Len(ids) : ids[n] \in Streams
  BY <1>4, LenProperties, ElementOfSeq
<1>8. [n \in 1 .. Len(ids) |-> StreamState(ids[n])] \in [1 .. Len(ids) -> States]
  BY <1>5, <1>7
<1> QED BY <1>6, <1>7, <1>8, IsASeq

\* replenish_nonces.
LEMMA StartReplenishKeeps ==
  ASSUME IsFiniteSet(Streams), ~CancelReplenish, SignInv, StartReplenish
  PROVE  Keeps
<1>1. PICK fresh \in SUBSET (Streams \ usedIds) : pending' = OpeningRequests(fresh)
  BY DEF StartReplenish
<1>2. pending' \in Seq(States)
  BY <1>1, OpeningRequestsType
<1>3. /\ UNCHANGED <<coordVars, deviceVars, prompt, panicked, linkVars, dispatch, needRequest,
                     cancelVars>>
      /\ connected /\ ~replenishing /\ dispatch = None /\ cancelling = 0 /\ replenishing' = TRUE /\ awaiting' = FALSE
  BY DEF StartReplenish
<1>4. UNCHANGED <<cache, active, finished, holders, crashed, slots, opening, tasks, batch, nextSeed,
                  prompt, panicked, toDevice, toCoord, connected, dispatch, needRequest, cancelling>>
  BY <1>3 DEF coordVars, deviceVars, linkVars, cancelVars
<1>5. NoToken(toDevice, opening, tasks, batch, toCoord)
  BY <1>3 DEF SignInv, SystemInv, TokenInv
<1>6. TokenInv'
  BY <1>3, <1>4, <1>5 DEF TokenInv
<1>7. LinkInv'
  BY <1>2, <1>3, <1>4 DEF SignInv, SystemInv, LinkInv, ActiveSessions
<1> QED BY <1>3, <1>4, <1>6, <1>7 DEF Keeps, SignInv, SystemInv

\* NonceReplenishProtocol::poll: the request for nonces is the only one.
LEMMA SendOpeningKeeps ==
  ASSUME SignInv, SendOpening
  PROVE  Keeps
<1> DEFINE m == OpenMsg(Head(pending))
<1>1. /\ replenishing /\ ~awaiting /\ pending # <<>>
      /\ toDevice' = Append(toDevice, m) /\ pending' = Tail(pending) /\ awaiting' = TRUE
      /\ UNCHANGED <<coordVars, deviceVars, prompt, panicked, toCoord, connected, dispatch,
                     needRequest, replenishing, cancelVars>>
  BY DEF SendOpening, Send
<1>2. UNCHANGED <<cache, active, finished, holders, crashed, slots, opening, tasks, batch, nextSeed,
                  cancelling>>
  BY <1>1 DEF coordVars, deviceVars, cancelVars
<1>3. toDevice \in Seq(DeviceMsgs) /\ pending \in Seq(States) /\ Ordered(prompt, toDevice)
  BY DEF SignInv, SystemInv, LinkInv
<1>4. Head(pending) \in States /\ Tail(pending) \in Seq(States)
  BY <1>1, <1>3, HeadTailProperties
<1>5. m \in DeviceMsgs /\ m.type = "open"
  BY <1>4, DeviceMsgKinds
<1> HIDE DEF m
<1>6. /\ Append(toDevice, m) \in Seq(DeviceMsgs) /\ Len(toDevice) \in Nat
      /\ Len(Append(toDevice, m)) = Len(toDevice) + 1
      /\ At(Append(toDevice, m), "open") = At(toDevice, "open") \cup {Len(toDevice) + 1}
  BY <1>3, <1>5, PushAt
<1>7. /\ Ordered(prompt, Append(toDevice, m))
      /\ Requested(prompt, Append(toDevice, m)) = Requested(prompt, toDevice)
      /\ \A sl, dp : Superseded(sl, prompt, toDevice, dp) =>
                       Superseded(sl, prompt, Append(toDevice, m), dp)
  BY <1>3, <1>5, PushOther
<1>8. NoToken(toDevice, opening, tasks, batch, toCoord)
  BY <1>1 DEF SignInv, SystemInv, TokenInv
<1>9. Sent(toDevice', opening', tasks', batch', toCoord')
  BY <1>1, <1>2, <1>6, <1>8 DEF NoToken, Sent
<1>10. TokenInv'
  BY <1>1, <1>2, <1>9 DEF SignInv, SystemInv, TokenInv, Token
<1>11. LinkInv'
  BY <1>1, <1>2, <1>4, <1>6 DEF SignInv, SystemInv, LinkInv, ActiveSessions
<1>12. Agree(slots, cache[dev], active, Requested(prompt, toDevice), ShareMsgs(toCoord))'
  BY <1>1, <1>2, <1>7 DEF SignInv, SystemInv
<1>13. (cancelling = 0 => Superseded(slots, prompt, toDevice, dispatch))' /\ Ordered(prompt, toDevice)'
  BY <1>1, <1>2, <1>7 DEF SignInv, SystemInv
<1> QED BY <1>1, <1>2, <1>10, <1>11, <1>12, <1>13 DEF Keeps, SignInv, SystemInv

\* What the invariant says of the active sessions.
LEMMA ActiveFacts ==
  ASSUME SignInv, NEW s \in ActiveSessions
  PROVE  /\ s \in SessionIds /\ Parties(s) = {dev} /\ On(s) \in Streams
         /\ SessionHeld(slots, s) /\ Signable(slots, s)
         /\ active[s] \in [sent : SUBSET {dev}, got : {{}}]
         /\ On(s) \in DOMAIN cache[dev] /\ cache[dev][On(s)].index <= Ends(s)
<1>1. /\ SessionHeld(slots, s) /\ Signable(slots, s)
      /\ active[s] \in [sent : SUBSET {dev}, got : {{}}]
      /\ On(s) \in DOMAIN cache[dev] /\ cache[dev][On(s)].index <= Ends(s)
  BY DEF SignInv, SystemInv, Agree, SessionsOK, ActiveSessions
<1>2. s \in SessionIds
  BY <1>1 DEF SessionHeld, MadeOf
<1> QED BY <1>1, <1>2, SessionNumbers

\* new_signing_session takes the first nonces of a stream no session uses.
LEMMA NewSessionHeld ==
  ASSUME SignInv, NEW t \in Tasks, SuitableStreams(dev, TaskSigs[t]) # {}
  PROVE  LET s == NewSession(t, {dev})
         IN  /\ SessionHeld(slots, s)
             /\ On(s) \in DOMAIN cache[dev] /\ From(s) = cache[dev][On(s)].index
             /\ \A r \in ActiveSessions : On(r) # On(s)
<1> DEFINE n == TaskSigs[t]
           S == SuitableStreams(dev, n)
           x == CHOOSE y \in S : \A z \in S : y <= z
           seg == cache[dev][x]
           s == NewSession(t, {dev})
<1>1. n \in Nat \ {0}
  BY CoordAssumption
<1>2. S \subseteq DOMAIN cache[dev] /\ S \subseteq Nat
  <2>1. S \subseteq DOMAIN cache[dev]
    BY DEF SuitableStreams
  <2> QED BY <2>1, CacheFacts, CoordAssumption
<1>3. x \in S
  <2>1. \E y \in S : \A z \in S : y <= z
    <3> HIDE DEF S
    <3> QED BY <1>2, LeastNatural DEF S
  <2> HIDE DEF S
  <2> QED BY <2>1
<1> HIDE DEF x
<1>4. x \in DOMAIN cache[dev] /\ x \notin UsedStreams /\ ~Overflows(seg) /\ Len(seg.nonces) >= n
  BY <1>3 DEF SuitableStreams
<1>5. seg \in Segments /\ seg.stream = x /\ SegmentHeld(slots, seg) /\ x \in Streams
  BY <1>4, CacheFacts DEF SignInv, SystemInv, Agree, CacheHeld
<1> HIDE DEF seg
<1>6. /\ seg.index \in Nat /\ seg.nonces \in Seq(Nonces) /\ Len(seg.nonces) \in Nat
      /\ Held(slots, x) /\ Run(seg.nonces, SlotOf(slots, x).seed, seg.index)
  BY <1>5, LenProperties DEF Segments, SegmentHeld
<1> DEFINE ns == SubSeq(seg.nonces, 1, n)
<1>7. /\ ns \in Seq(Nonces) /\ Len(ns) = n
      /\ Run(ns, SlotOf(slots, x).seed, seg.index)
  BY <1>1, <1>4, <1>6, PrefixRun
<1>8. s = [task |-> t, nonces |-> [d \in {dev} |-> ChosenNonces(d, n)]]
  BY DEF NewSession
<1>9. ChosenNonces(dev, n) = [stream |-> x, index |-> seg.index,
                              remaining |-> Len(seg.nonces) - n, nonces |-> ns]
  BY <1>5 DEF ChosenNonces, SubSegment, x, seg
<1> HIDE DEF ns
<1>10. /\ s.task = t /\ s.nonces[dev] = ChosenNonces(dev, n)
       /\ s.nonces = [d \in {dev} |-> ChosenNonces(dev, n)]
  BY <1>8
<1>11. Len(seg.nonces) - n \in Nat
  BY <1>1, <1>4, <1>6
<1>12. s \in SessionIds
  <2>1. ChosenNonces(dev, n) \in
          [stream : Streams, index : Nat, remaining : Nat, nonces : Seq(Nat \X Nat)]
    BY <1>5, <1>6, <1>7, <1>9, <1>11 DEF Nonces
  <2>2. [d \in {dev} |-> ChosenNonces(dev, n)] \in
          [{dev} -> [stream : Streams, index : Nat, remaining : Nat, nonces : Seq(Nat \X Nat)]]
    BY <2>1
  <2> QED BY <1>8, <1>10, <2>2 DEF SessionIds
<1>13. On(s) = x /\ From(s) = seg.index /\ s.nonces[dev].nonces = ns /\ NSigsOf(s) = n
  BY <1>9, <1>10 DEF On, From, NSigsOf
<1>14. Ends(s) <= StreamIndexMax
  <2>1. Ends(s) = seg.index + n
    BY <1>12, <1>13, SessionNumbers
  <2>2. seg.index + Len(seg.nonces) <= StreamIndexMax
    BY <1>4, <1>6, StreamIndexMaxAssumption DEF Overflows, IndexAfterLast
  <2> QED BY <1>1, <1>4, <1>6, <2>1, <2>2, StreamIndexMaxAssumption
<1>15. SessionHeld(slots, s)
  BY <1>6, <1>7, <1>12, <1>13, <1>14 DEF SessionHeld, MadeOf
<1>16. ASSUME NEW r \in ActiveSessions PROVE On(r) # On(s)
  <2>1. dev \in Parties(r)
    BY ActiveFacts
  <2>2. On(r) \in UsedStreams
    BY <2>1 DEF UsedStreams, On
  <2> QED BY <1>4, <1>13, <2>2
<1> HIDE DEF s
<1> QED BY <1>4, <1>13, <1>15, <1>16 DEF seg, s

\* start_signing.
LEMMA StartSigningKeeps ==
  ASSUME SignInv, ~crashed, NEW t \in Tasks, StartSigning(t)
  PROVE  Keeps
<1> DEFINE s == NewSession(t, {dev})
<1>1. /\ dispatch = None /\ ~replenishing /\ StartSign(t, {dev})
      /\ dispatch' = s /\ needRequest' = connected
      /\ UNCHANGED <<deviceVars, prompt, panicked, linkVars, replenishing, pending, awaiting,
                     cancelVars>>
  BY DEF StartSigning
<1>2. UNCHANGED <<slots, opening, tasks, batch, nextSeed, toDevice, toCoord, connected, cancelling>>
  BY <1>1 DEF deviceVars, linkVars, cancelVars
<1>3. SuitableStreams(dev, TaskSigs[t]) # {}
  BY <1>1 DEF StartSign
<1>4. /\ SessionHeld(slots, s)
      /\ On(s) \in DOMAIN cache[dev] /\ From(s) = cache[dev][On(s)].index
      /\ \A r \in ActiveSessions : On(r) # On(s)
  BY <1>3, NewSessionHeld
<1>5. s \notin ActiveSessions /\ s \in SessionIds
  BY <1>4 DEF SessionHeld, MadeOf
<1> HIDE DEF s
<1>6. /\ DOMAIN active' = ActiveSessions \cup {s}
      /\ active'[s] = [sent |-> {}, got |-> {}]
      /\ \A r \in ActiveSessions : active'[r] = active[r]
      /\ UNCHANGED <<cache, finished, holders, crashed>>
  BY <1>1, <1>5 DEF StartSign, s
<1>7. Agree(slots, cache[dev], active', Requested(prompt, toDevice), ShareMsgs(toCoord))
  <2>2. Agree(slots, cache[dev], active, Requested(prompt, toDevice), ShareMsgs(toCoord))
    BY DEF SignInv, SystemInv
  <2>3. /\ DOMAIN active' = DOMAIN active \cup {s} /\ \A r \in DOMAIN active : active'[r] = active[r]
        /\ \A r \in DOMAIN active : On(r) # On(s)
    BY <1>4, <1>6 DEF ActiveSessions
  <2> QED BY <1>4, <1>6, <2>2, <2>3, AgreeOnStarted
<1>8. cancelling = 0 => Superseded(slots, prompt, toDevice, s)
  BY <1>1, SupersededKept DEF SignInv, SystemInv, LinkInv
<1>9. NoToken(toDevice, opening, tasks, batch, toCoord) /\ ~awaiting
  BY <1>1 DEF SignInv, SystemInv, TokenInv
<1>10. TokenInv'
  BY <1>1, <1>2, <1>9 DEF TokenInv
<1>11. LinkInv'
  BY <1>1, <1>2, <1>6 DEF SignInv, SystemInv, LinkInv, ActiveSessions
<1>12. CoordNext(AllSegments)
  <2>1. {dev} \in SUBSET Devices
    BY SystemAssumption
  <2> QED BY <1>1, <2>1 DEF CoordNext
<1> QED BY <1>1, <1>2, <1>6, <1>7, <1>8, <1>10, <1>11, <1>12 DEF Keeps, SignInv, SystemInv

\* try_restore_signing_session.
LEMMA RestoreSigningKeeps ==
  ASSUME SignInv, NEW s \in ActiveSessions, RestoreSigning(s)
  PROVE  Keeps
<1>1. /\ dispatch = None /\ ~replenishing /\ dispatch' = s /\ needRequest' = connected
      /\ UNCHANGED <<coordVars, deviceVars, prompt, panicked, linkVars, replenishing, pending, awaiting,
                     cancelVars>>
  BY DEF RestoreSigning
<1>2. UNCHANGED <<cache, active, finished, holders, crashed, slots, opening, tasks, batch, nextSeed,
                  toDevice, toCoord, connected, cancelling>>
  BY <1>1 DEF coordVars, deviceVars, linkVars, cancelVars
<1>3. cancelling = 0 => Superseded(slots, prompt, toDevice, s)
  BY <1>1, SupersededKept DEF SignInv, SystemInv, LinkInv
<1>4. NoToken(toDevice, opening, tasks, batch, toCoord) /\ ~awaiting
  BY <1>1 DEF SignInv, SystemInv, TokenInv
<1>5. TokenInv'
  BY <1>1, <1>2, <1>4 DEF TokenInv
<1>6. LinkInv'
  BY <1>1, <1>2 DEF SignInv, SystemInv, LinkInv, ActiveSessions
<1> QED BY <1>1, <1>2, <1>3, <1>5, <1>6 DEF Keeps, SignInv, SystemInv

\* No nonces are asked for while a session is being signed.
LEMMA NoTokenKept ==
  ASSUME SignInv, ~replenishing, NEW m \in DeviceMsgs, m.type # "open"
  PROVE  /\ NoToken(toDevice, opening, tasks, batch, toCoord) /\ ~awaiting
         /\ NoToken(Append(toDevice, m), opening, tasks, batch, toCoord)
<1>1. NoToken(toDevice, opening, tasks, batch, toCoord) /\ ~awaiting
  BY DEF SignInv, SystemInv, TokenInv
<1>2. At(Append(toDevice, m), "open") = At(toDevice, "open")
  BY PushAt DEF SignInv, SystemInv, LinkInv
<1> QED BY <1>1, <1>2 DEF NoToken

\* request_device_sign and send_sign_request.
LEMMA RequestSignKeeps ==
  ASSUME SignInv, ~crashed, RequestSign
  PROVE  Keeps
<1> DEFINE p == dispatch
           td == Append(toDevice, SignMsg(p))
<1>1. /\ p # None /\ needRequest /\ RequestDeviceSign(p, dev)
      /\ toDevice' = td /\ needRequest' = FALSE
      /\ UNCHANGED <<deviceVars, prompt, panicked, toCoord, connected, dispatch, replenishing,
                     pending, awaiting, cancelling>>
  BY DEF RequestSign, Send
<1>2. UNCHANGED <<slots, opening, tasks, batch, nextSeed>>
  BY <1>1 DEF deviceVars
<1>3. p \in ActiveSessions /\ dev \in holders /\ ~replenishing /\ connected
  BY <1>1 DEF SignInv, SystemInv, LinkInv, TokenInv
<1>4. active' = [active EXCEPT ![p].sent = @ \cup {dev}] /\ UNCHANGED <<cache, finished, holders, crashed>>
  BY <1>1, <1>3 DEF RequestDeviceSign
<1>5. p \in SessionIds /\ active[p] \in [sent : SUBSET {dev}, got : {{}}]
  BY <1>3, ActiveFacts
<1>6. /\ DOMAIN active' = DOMAIN active
      /\ \A r \in DOMAIN active : r # p => active'[r] = active[r]
      /\ active'[p] = [active[p] EXCEPT !.sent = active[p].sent \cup {dev}]
  BY <1>3, <1>4 DEF ActiveSessions
<1>7. active'[p] = [sent |-> {dev}, got |-> {}]
  BY <1>5, <1>6
<1>8. Agree(slots, cache[dev], active, Requested(prompt, toDevice), ShareMsgs(toCoord))
  BY DEF SignInv, SystemInv
<1>9. Agree(slots, cache[dev], active', Requested(prompt, toDevice) \cup {p}, ShareMsgs(toCoord))
  BY <1>3, <1>6, <1>7, <1>8, AgreeOnAsked DEF ActiveSessions
<1>10. toDevice \in Seq(DeviceMsgs) /\ Ordered(prompt, toDevice)
  BY DEF SignInv, SystemInv, LinkInv
<1>11. SignMsg(p) \in DeviceMsgs /\ SignMsg(p).type = "sign"
  BY <1>5, DeviceMsgKinds
<1>12. \A q \in Requested(prompt, toDevice) : After(q, p)
  BY <1>3, <1>8 DEF Agree, RequestOK, ActiveSessions
<1>13. /\ Ordered(prompt, td) /\ Requested(prompt, td) \subseteq Requested(prompt, toDevice) \cup {p}
       /\ Superseded(slots, prompt, toDevice, p) => Superseded(slots, prompt, td, p)
  BY <1>5, <1>10, <1>12, PushSign
<1>14. td \in Seq(DeviceMsgs)
  BY <1>10, <1>11, PushAt
<1>15. NoToken(td, opening, tasks, batch, toCoord) /\ ~awaiting
  BY <1>3, <1>11, NoTokenKept
<1> HIDE DEF td
<1>16. Agree(slots, cache[dev], active', Requested(prompt, td), ShareMsgs(toCoord))
  BY <1>9, <1>13, AgreeOnFewer
<1>17. TokenInv'
  BY <1>1, <1>2, <1>3, <1>15 DEF TokenInv
<1>18. LinkInv'
  BY <1>1, <1>2, <1>3, <1>6, <1>14 DEF SignInv, SystemInv, LinkInv, ActiveSessions
<1>19. (cancelling = 0 => Superseded(slots, prompt, toDevice, dispatch))' /\ Ordered(prompt, toDevice)'
  BY <1>1, <1>2, <1>13 DEF SignInv, SystemInv
<1>20. CoordNext(AllSegments)
  BY <1>1, <1>3, SystemAssumption DEF CoordNext
<1> QED BY <1>1, <1>2, <1>4, <1>16, <1>17, <1>18, <1>19, <1>20 DEF Keeps, SignInv, SystemInv

\* Every protocol of the UI stack is cancelled while a session is being signed; the
\* Cancel has still to be sent.
LEMMA AbortCancels ==
  ASSUME SignInv, dispatch # None, AbortProtocols,
         UNCHANGED <<slots, prompt, linkVars, opening, tasks, batch, nextSeed>>
  PROVE  TokenInv' /\ LinkInv' /\ cancelling' # 0
<1>1. /\ dispatch' = None /\ needRequest' = FALSE /\ replenishing' = FALSE
      /\ pending' = <<>> /\ awaiting' = FALSE /\ cancelling' = cancelling + 1
  BY DEF AbortProtocols
<1>2. ~replenishing /\ cancelling \in Nat
  BY DEF SignInv, SystemInv, TokenInv, LinkInv
<1>3. UNCHANGED <<toDevice, toCoord, connected>>
  BY DEF linkVars
<1>4. NoToken(toDevice, opening, tasks, batch, toCoord)
  BY <1>2 DEF SignInv, SystemInv, TokenInv
<1>5. TokenInv'
  BY <1>1, <1>3, <1>4 DEF TokenInv
<1>6. <<>> \in Seq(States) /\ cancelling' \in Nat /\ cancelling' # 0
  BY <1>1, <1>2, EmptySeq
<1>7. LinkInv'
  BY <1>1, <1>3, <1>6 DEF SignInv, SystemInv, LinkInv
<1> QED BY <1>5, <1>6, <1>7

\* cancel_protocol, under the locks.
LEMMA CancelProtocolKeeps ==
  ASSUME SignInv, ~CancelReplenish, CancelProtocol
  PROVE  Keeps
<1>1. /\ dispatch # None /\ AbortProtocols
      /\ UNCHANGED <<coordVars, deviceVars, prompt, panicked, linkVars>>
  BY DEF CancelProtocol
<1>2. UNCHANGED <<cache, active, finished, holders, crashed, slots, opening, tasks, batch, nextSeed,
                  toDevice, toCoord>>
  BY <1>1 DEF coordVars, deviceVars, linkVars
<1>3. TokenInv' /\ LinkInv' /\ cancelling' # 0
  BY <1>1, <1>2, AbortCancels
<1> QED BY <1>1, <1>2, <1>3 DEF Keeps, SignInv, SystemInv

\* The Cancel is sent: every request under way is followed by it.
LEMMA SendCancelAllKeeps ==
  ASSUME SignInv, SendCancelAll
  PROVE  Keeps
<1>1. /\ cancelling > 0 /\ cancelling' = cancelling - 1
      /\ IF connected THEN toDevice' = Append(toDevice, CancelMsg) ELSE toDevice' = toDevice
      /\ UNCHANGED <<coordVars, deviceVars, prompt, panicked, toCoord, connected, protocolVars>>
  BY DEF SendCancelAll, Send
<1>2. UNCHANGED <<cache, active, finished, holders, crashed, slots, opening, tasks, batch, nextSeed,
                  dispatch, needRequest, replenishing, pending, awaiting>>
  BY <1>1 DEF coordVars, deviceVars, protocolVars
<1>3. toDevice \in Seq(DeviceMsgs) /\ Ordered(prompt, toDevice) /\ cancelling \in Nat
  BY DEF SignInv, SystemInv, LinkInv
<1>4. ~replenishing /\ cancelling' \in Nat
  BY <1>1, <1>3 DEF SignInv, SystemInv, TokenInv
<1>5. CancelMsg \in DeviceMsgs /\ CancelMsg.type = "cancel"
  BY DeviceMsgKinds
<1>6. /\ NoToken(toDevice, opening, tasks, batch, toCoord) /\ ~awaiting
      /\ NoToken(Append(toDevice, CancelMsg), opening, tasks, batch, toCoord)
  BY <1>4, <1>5, NoTokenKept
<1>7. /\ TokenInv' /\ LinkInv'
      /\ Superseded(slots, prompt, toDevice', dispatch) /\ Ordered(prompt, toDevice')
      /\ Requested(prompt, toDevice') = Requested(prompt, toDevice)
  <2>1. CASE connected
    <3>1. toDevice' = Append(toDevice, CancelMsg)
      BY <1>1, <2>1
    <3>2. /\ Ordered(prompt, toDevice') /\ Requested(prompt, toDevice') = Requested(prompt, toDevice)
          /\ Superseded(slots, prompt, toDevice', dispatch)
      BY <1>3, <1>5, <3>1, PushOther
    <3>3. toDevice' \in Seq(DeviceMsgs)
      BY <1>3, <1>5, <3>1, PushAt
    <3>4. TokenInv'
      BY <1>1, <1>2, <1>4, <1>6, <3>1 DEF TokenInv
    <3>5. LinkInv'
      BY <1>1, <1>2, <1>4, <2>1, <3>3 DEF SignInv, SystemInv, LinkInv, ActiveSessions
    <3> QED BY <3>2, <3>4, <3>5
  <2>2. CASE ~connected
    <3>1. toDevice = <<>> /\ prompt = None /\ toDevice' = <<>>
      BY <1>1, <2>2 DEF SignInv, SystemInv, LinkInv
    <3>2. TokenInv'
      BY <1>1, <1>2, <1>4, <1>6, <3>1 DEF TokenInv
    <3>3. LinkInv'
      BY <1>1, <1>2, <1>4, <3>1 DEF SignInv, SystemInv, LinkInv, ActiveSessions
    <3> QED BY <3>1, <3>2, <3>3, NothingRequested
  <2> QED BY <2>1, <2>2
<1> QED BY <1>1, <1>2, <1>7 DEF Keeps, SignInv, SystemInv

\* A session closes: consume's assertion holds, and what is left agrees.
LEMMA CloseAgrees ==
  ASSUME NEW c, NEW R, NEW M, Agree(slots, c[dev], active, R, M), NEW s \in ActiveSessions
  PROVE  /\ CanConsume(c, {s})
         /\ Agree(slots, Consume(c, {s})[dev], Without({s}), R, M)
<1> DEFINE x == On(s)
           cd == c[dev]
           users(y) == {r \in {s} : dev \in active[r].sent /\ r.nonces[dev].stream = y}
           left(y) == IF users(y) = {} THEN cd[y]
                      ELSE DeleteUpTo(cd[y], IndexAfter(CHOOSE r \in users(y) : TRUE, dev))
           new == Consume(c, {s})[dev]
<1>1. /\ SlotsOK(slots) /\ SessionHeld(slots, s)
      /\ active[s] \in [sent : SUBSET {dev}, got : {{}}]
      /\ x \in DOMAIN cd /\ cd[x].index <= Ends(s)
      /\ SegmentHeld(slots, cd[x]) /\ cd[x].stream = x
  BY DEF Agree, SessionsOK, CacheHeld, ActiveSessions
<1>2. s \in SessionIds /\ Ends(s) \in Nat
  BY <1>1, SessionNumbers DEF SessionHeld, MadeOf
<1>3. CanConsume(c, {s})
  BY <1>1 DEF CanConsume, On, Ends
<1>4. new = [y \in DOMAIN cd |-> left(y)]
  BY SystemAssumption DEF Consume
<1>5. \A y \in DOMAIN cd : new[y] = left(y)
  <2> HIDE DEF left, new, cd
  <2> QED BY <1>4
<1>6. DOMAIN new = DOMAIN cd
  <2> HIDE DEF left, new, cd
  <2> QED BY <1>4
<1>7. \A y \in DOMAIN cd \ {x} : new[y] = cd[y]
  <2>1. \A y : y # x => users(y) = {}
    BY DEF On
  <2> HIDE DEF users, new, cd
  <2> QED BY <1>5, <2>1
<1>8. ~Asked(active, s) => new[x] = cd[x]
  <2>1. ~Asked(active, s) => users(x) = {}
    BY DEF Asked
  <2> HIDE DEF users, new, cd
  <2> QED BY <1>1, <1>5, <2>1
<1>9. Asked(active, s) => new[x] = DeleteUpTo(cd[x], Ends(s))
  <2>1. Asked(active, s) => users(x) = {s}
    BY DEF Asked, On
  <2>2. (CHOOSE r \in {s} : TRUE) = s
    OBVIOUS
  <2> HIDE DEF users, new, cd
  <2> QED BY <1>1, <1>5, <2>1, <2>2 DEF Ends
<1> HIDE DEF new, cd, x
<1>10. Asked(active, s) =>
        /\ SegmentHeld(slots, new[x]) /\ new[x].stream = x /\ new[x].index >= Ends(s)
  <2>1. /\ cd[x] \in Segments /\ Run(cd[x].nonces, SlotOf(slots, cd[x].stream).seed, cd[x].index)
        /\ Held(slots, cd[x].stream)
    BY <1>1 DEF SegmentHeld
  <2>2. LET e == DeleteUpTo(cd[x], Ends(s))
        IN  /\ e \in Segments /\ e.stream = cd[x].stream /\ e.index >= Ends(s)
            /\ Run(e.nonces, SlotOf(slots, cd[x].stream).seed, e.index)
    BY <1>2, <2>1, DeleteRun
  <2> QED BY <1>1, <1>9, <2>1, <2>2 DEF SegmentHeld
<1>11. SegmentHeld(slots, new[x]) /\ new[x].stream = x
  BY <1>1, <1>8, <1>10
<1>12. DOMAIN Without({s}) = DOMAIN active \ {s} /\ \A r \in DOMAIN active \ {s} : Without({s})[r] = active[r]
  BY DEF Without, ActiveSessions
<1>13. s \in DOMAIN active
  BY DEF ActiveSessions
<1>14. Agree(slots, cd, active, R, M)
  BY DEF cd
<1> HIDE DEF Without
<1>15. Agree(slots, new, Without({s}), R, M)
  BY <1>6, <1>7, <1>8, <1>10, <1>11, <1>12, <1>13, <1>14, AgreeOnClosed DEF x
<1> QED BY <1>3, <1>15 DEF new

\* cancel_sign_session.
LEMMA CancelSessionKeeps ==
  ASSUME SignInv, ~crashed, NEW s \in ActiveSessions, CancelSession(s)
  PROVE  Keeps
<1>1. /\ CancelSignSession(s)
      /\ IF dispatch = s THEN AbortProtocols
         ELSE UNCHANGED <<dispatch, needRequest, replenishing, pending, awaiting, cancelling>>
      /\ UNCHANGED <<deviceVars, prompt, panicked, linkVars>>
  BY DEF CancelSession
<1>2. UNCHANGED <<slots, opening, tasks, batch, nextSeed, toDevice, toCoord, connected>>
  BY <1>1 DEF deviceVars, linkVars
<1>3. /\ CanConsume(cache, {s})
      /\ Agree(slots, Consume(cache, {s})[dev], Without({s}),
               Requested(prompt, toDevice), ShareMsgs(toCoord))
  BY CloseAgrees DEF SignInv, SystemInv
<1>4. /\ active' = Without({s}) /\ cache' = Consume(cache, {s})
      /\ UNCHANGED <<finished, holders, crashed>>
  BY <1>1, <1>3 DEF CancelSignSession
<1>5. TokenInv' /\ LinkInv' /\ (cancelling = 0 => Superseded(slots, prompt, toDevice, dispatch))'
  <2>1. CASE dispatch = s
    <3>1. s # None
      BY ActiveFacts, SystemAssumption
    <3> QED BY <1>1, <1>2, <2>1, <3>1, AbortCancels
  <2>2. CASE dispatch # s
    <3>1. UNCHANGED <<dispatch, needRequest, replenishing, pending, awaiting, cancelling>>
      BY <1>1, <2>2
    <3>2. DOMAIN active' = ActiveSessions \ {s}
      BY <1>4 DEF Without
    <3>3. LinkInv'
      BY <1>1, <1>2, <2>2, <3>1, <3>2 DEF SignInv, SystemInv, LinkInv, ActiveSessions
    <3>4. TokenInv'
      BY <1>1, <1>2, <3>1 DEF SignInv, SystemInv, TokenInv
    <3> QED BY <1>1, <1>2, <3>1, <3>3, <3>4 DEF SignInv, SystemInv
  <2> QED BY <2>1, <2>2
<1>6. CoordNext(AllSegments)
  BY <1>1 DEF CoordNext
<1>7. Agree(slots, cache[dev], active, Requested(prompt, toDevice), ShareMsgs(toCoord))'
  BY <1>1, <1>2, <1>3, <1>4
<1> QED BY <1>1, <1>2, <1>4, <1>5, <1>6, <1>7 DEF Keeps, SignInv, SystemInv

----------------------------------------------------------------------------
(* The device *)

\* A device that takes a message other than a request for nonces has none in hand.
LEMMA TokenWaits ==
  ASSUME SignInv, toDevice # <<>>, Head(toDevice).type # "open", toDevice' = Tail(toDevice),
         UNCHANGED <<slots, opening, tasks, batch, toCoord, dispatch, replenishing, awaiting,
                     cancelling>>
  PROVE  TokenInv'
<1>1. toDevice \in Seq(DeviceMsgs)
  BY DEF SignInv, SystemInv, LinkInv
<1>2. /\ Len(toDevice) \in Nat \ {0} /\ Len(Tail(toDevice)) = Len(toDevice) - 1
      /\ At(Tail(toDevice), "open") =
           {n \in 1 .. Len(toDevice) - 1 : n + 1 \in At(toDevice, "open")}
      /\ 1 \notin At(toDevice, "open")
  BY <1>1, PopAt
<1>3. CASE NoToken(toDevice, opening, tasks, batch, toCoord)
  <2>1. At(toDevice', "open") = {}
    BY <1>2, <1>3 DEF NoToken
  <2>2. NoToken(toDevice', opening, tasks, batch, toCoord)
    BY <1>3, <2>1 DEF NoToken
  <2> QED BY <2>2 DEF SignInv, SystemInv, TokenInv
<1>4. CASE awaiting /\ Token(slots, prompt, toDevice, opening, tasks, batch, toCoord)
  <2>1. Sent(toDevice, opening, tasks, batch, toCoord)
    BY <1>4 DEF Token, Quiet
  <2>2. At(toDevice, "open") = {Len(toDevice)} /\ Len(toDevice) # 1
    BY <1>2, <2>1 DEF Sent
  <2>3. At(toDevice', "open") = {Len(toDevice) - 1} /\ Len(toDevice') > 0
    BY <1>2, <2>2
  <2>4. Sent(toDevice', opening, tasks, batch, toCoord)
    BY <1>2, <2>1, <2>3 DEF Sent
  <2> QED BY <1>4, <2>4 DEF SignInv, SystemInv, TokenInv, Token
<1> QED BY <1>3, <1>4 DEF SignInv, SystemInv, TokenInv

\* recv_coordinator_message(RequestSign): the device has the stream.
LEMMA ReceiveSignKeeps ==
  ASSUME SignInv, ReceiveSign
  PROVE  Keeps
<1> DEFINE m == Head(toDevice)
<1>1. /\ toDevice # <<>> /\ m.type = "sign" /\ toDevice' = Tail(toDevice)
      /\ UNCHANGED <<coordVars, deviceVars, toCoord, connected, protocolVars, cancelVars>>
  BY DEF ReceiveSign, Receives
<1>2. UNCHANGED <<cache, active, finished, holders, crashed, slots, opening, tasks, batch, nextSeed,
                  dispatch, needRequest, replenishing, pending, awaiting, cancelling>>
  BY <1>1 DEF coordVars, deviceVars, protocolVars, cancelVars
<1>3. toDevice \in Seq(DeviceMsgs) /\ Ordered(prompt, toDevice)
  BY DEF SignInv, SystemInv, LinkInv
<1>4. /\ Ordered(m, toDevice') /\ Requested(m, toDevice') \subseteq Requested(prompt, toDevice)
      /\ m = SignMsg(m.session) /\ m.session \in Requested(prompt, toDevice)
      /\ Superseded(slots, prompt, toDevice, dispatch) => Superseded(slots, m, toDevice', dispatch)
  BY <1>1, <1>3, PopSign
<1>5. SlotsOK(slots) /\ SessionHeld(slots, m.session)
  BY <1>4 DEF SignInv, SystemInv, Agree, RequestOK
<1>6. m.session \in SessionIds /\ m.state.stream = On(m.session) /\ On(m.session) \in Streams
  BY <1>4, <1>5, SignableBound, DeviceMsgKinds
<1>7. D!Holding(m.state.stream) # {}
  BY <1>5, <1>6, GetFinds DEF SessionHeld
<1>8. prompt' = m /\ panicked' = panicked
  BY <1>7 DEF ReceiveSign
<1>9. TokenInv'
  BY <1>1, <1>2, TokenWaits
<1>10. connected /\ toDevice' \in Seq(DeviceMsgs)
  BY <1>1, <1>3, PopAt DEF SignInv, SystemInv, LinkInv
<1>11. LinkInv'
  BY <1>1, <1>2, <1>10 DEF SignInv, SystemInv, LinkInv, ActiveSessions
<1>12. Agree(slots, cache[dev], active, Requested(m, toDevice'), ShareMsgs(toCoord))
  BY <1>4, AgreeOnFewer DEF SignInv, SystemInv
<1> HIDE DEF m
<1> QED BY <1>1, <1>2, <1>4, <1>8, <1>9, <1>11, <1>12 DEF Keeps, SignInv, SystemInv

\* A Cancel clears the screen.
LEMMA ReceiveCancelKeeps ==
  ASSUME SignInv, ReceiveCancel
  PROVE  Keeps
<1>1. /\ toDevice # <<>> /\ Head(toDevice).type = "cancel" /\ toDevice' = Tail(toDevice)
      /\ prompt' = None
      /\ UNCHANGED <<coordVars, deviceVars, panicked, toCoord, connected, protocolVars, cancelVars>>
  BY DEF ReceiveCancel, Receives
<1>2. UNCHANGED <<cache, active, finished, holders, crashed, slots, opening, tasks, batch, nextSeed,
                  dispatch, needRequest, replenishing, pending, awaiting, cancelling>>
  BY <1>1 DEF coordVars, deviceVars, protocolVars, cancelVars
<1>3. toDevice \in Seq(DeviceMsgs) /\ Ordered(prompt, toDevice)
  BY DEF SignInv, SystemInv, LinkInv
<1>4. /\ Ordered(None, toDevice') /\ Requested(None, toDevice') \subseteq Requested(prompt, toDevice)
      /\ Superseded(slots, prompt, toDevice, dispatch) => Superseded(slots, None, toDevice', dispatch)
  BY <1>1, <1>3, PopOther
<1>5. TokenInv'
  BY <1>1, <1>2, TokenWaits
<1>6. connected /\ toDevice' \in Seq(DeviceMsgs)
  BY <1>1, <1>3, PopAt DEF SignInv, SystemInv, LinkInv
<1>7. LinkInv'
  BY <1>1, <1>2, <1>6 DEF SignInv, SystemInv, LinkInv, ActiveSessions
<1>8. Agree(slots, cache[dev], active, Requested(None, toDevice'), ShareMsgs(toCoord))
  BY <1>4, AgreeOnFewer DEF SignInv, SystemInv
<1> QED BY <1>1, <1>2, <1>4, <1>5, <1>7, <1>8 DEF Keeps, SignInv, SystemInv

\* recv_coordinator_message(OpenNonceStreams): nothing else is on its way.
LEMMA ReceiveOpenKeeps ==
  ASSUME SignInv, ReceiveOpen
  PROVE  Keeps
<1> DEFINE st == Head(toDevice).state
<1>1. /\ D!Idle /\ toDevice # <<>> /\ Head(toDevice).type = "open" /\ toDevice' = Tail(toDevice)
      /\ UNCHANGED <<coordVars, prompt, panicked, toCoord, connected, protocolVars, cancelVars>>
      /\ D!OpenNonceStreams(<<st>>, <<>>) \/ D!OpenNonceStreams(<<>>, <<st>>)
  BY DEF ReceiveOpen, Receives
<1>2. /\ UNCHANGED <<cache, active, finished, holders, crashed, dispatch, needRequest, replenishing,
                     pending, awaiting, cancelling>>
      /\ UNCHANGED <<slots, tasks, batch, nextSeed>>
  BY <1>1 DEF coordVars, protocolVars, cancelVars, D!OpenNonceStreams
<1>3. toDevice \in Seq(DeviceMsgs) /\ Ordered(prompt, toDevice)
  BY DEF SignInv, SystemInv, LinkInv
<1>4. /\ Head(toDevice) = toDevice[1] /\ Head(toDevice) \in DeviceMsgs
      /\ Len(toDevice) \in Nat \ {0} /\ Len(Tail(toDevice)) = Len(toDevice) - 1
      /\ Tail(toDevice) \in Seq(DeviceMsgs) /\ 1 \in At(toDevice, "open")
  BY <1>1, <1>3, PopAt
<1>5. st \in States
  BY <1>1, <1>4, DeviceMsgKinds
<1>6. /\ awaiting /\ Sent(toDevice, opening, tasks, batch, toCoord)
      /\ replenishing /\ dispatch = None /\ cancelling = 0
      /\ Superseded(slots, prompt, toDevice, dispatch)
  <2>1. ~NoToken(toDevice, opening, tasks, batch, toCoord)
    BY <1>4 DEF NoToken
  <2> QED BY <1>1, <2>1 DEF SignInv, SystemInv, TokenInv, Token, Quiet
<1>7. Len(toDevice) = 1 /\ toDevice' = <<>> /\ At(toDevice, "sign") = {}
  <2>1. Len(toDevice) = 1
    BY <1>4, <1>6 DEF Sent
  <2>2. Tail(toDevice) = <<>>
    <3>1. Len(Tail(toDevice)) = 0
      BY <1>4, <2>1
    <3> QED BY <1>4, <3>1, EmptySeq
  <2>3. \A n \in 1 .. Len(toDevice) : n = 1
    BY <2>1
  <2> QED BY <1>1, <1>4, <2>1, <2>2, <2>3 DEF At
<1>8. opening' = <<st>>
  <2> HIDE DEF st
  <2>1. <<st>> \o <<>> = <<st>> /\ <<>> \o <<st>> = <<st>> /\ Len(<<st>>) = 1
    OBVIOUS
  <2>2. (IF 1 < NSlots THEN 1 ELSE NSlots) = 1
    BY SystemAssumption
  <2>3. SubSeq(<<st>>, 1, 1) = <<st>>
    BY <2>1, SubSeqFull, <<st>> \in Seq({st})
  <2> QED BY <1>1, <2>1, <2>2, <2>3 DEF D!OpenNonceStreams
<1>9. prompt # None => Done(slots, prompt.session)
  <2>1. ~CancelAfter(toDevice, 0)
    BY <1>1, <1>4, <1>7 DEF CancelAfter
  <2>2. prompt # None => prompt.session # None
    BY <1>3, SystemAssumption DEF Ordered
  <2> QED BY <1>3, <1>6, <2>1, <2>2 DEF Superseded
<1>10. Quiet(slots, prompt, toDevice')
  BY <1>7, <1>9 DEF Quiet
<1>11. Opening(opening', tasks, batch, toCoord) /\ opening' # <<>>
  <2>1. opening'[1] = st /\ opening' # <<>>
    BY <1>8
  <2> QED BY <1>5, <1>6, <1>8, <2>1 DEF Opening, Sent
<1>12. TokenInv'
  BY <1>1, <1>2, <1>6, <1>10, <1>11 DEF TokenInv, Token
<1>13. connected
  BY <1>1 DEF SignInv, SystemInv, LinkInv
<1>14. LinkInv'
  BY <1>1, <1>2, <1>4, <1>13 DEF SignInv, SystemInv, LinkInv, ActiveSessions
<1>15. /\ Requested(prompt, <<>>) \subseteq Requested(prompt, toDevice)
       /\ Ordered(prompt, <<>>) /\ Superseded(slots, prompt, <<>>, dispatch)
  BY <1>3, <1>9, NothingAt DEF Requested, Ordered, Superseded
<1>16. Agree(slots, cache[dev], active, Requested(prompt, <<>>), ShareMsgs(toCoord))
  BY <1>15, AgreeOnFewer DEF SignInv, SystemInv
<1> QED BY <1>1, <1>2, <1>7, <1>12, <1>14, <1>15, <1>16 DEF Keeps, SignInv, SystemInv

\* reconcile_coord_nonce_stream_state: no job, or one that goes on where the slot is.
LEMMA ReconcileJobs ==
  ASSUME NEW v, ValueOK(v), v.stream \in Streams, NEW st \in States,
         D!NonceTasksFit(D!Reconcile(v, st))
  PROVE  \/ D!Reconcile(v, st) = <<>>
         \/ \E j \in Jobs : /\ D!Reconcile(v, st) = <<j>>
                            /\ j.stream = v.stream /\ j.seed = v.seed /\ j.index = v.index
                            /\ j.index + j.length <= StreamIndexMax
<1> DEFINE n == IF v.index > st.index \/ st.remaining < BatchSize THEN BatchSize
                ELSE st.index - v.index
           j == D!Job(v, n)
<1>1. /\ v.index \in Nat /\ v.seed \in Nat /\ st.index \in Nat /\ st.remaining \in Nat
      /\ BatchSize \in Nat
  BY SystemAssumption DEF ValueOK, States
<1>2. n \in Nat
  BY <1>1
<1> HIDE DEF n
<1>3. j \in Jobs /\ j.stream = v.stream /\ j.seed = v.seed /\ j.index = v.index
  BY <1>1, <1>2 DEF D!Job, Jobs
<1>4. D!Reconcile(v, st) = <<>> \/ D!Reconcile(v, st) = <<j>>
  BY <1>1 DEF D!Reconcile, n
<1> HIDE DEF j
<1>5. ASSUME D!Reconcile(v, st) = <<j>> PROVE j.index + j.length <= StreamIndexMax
  <2>1. j.index + j.length < StreamIndexMax
    BY <1>5 DEF D!NonceTasksFit
  <2>2. j.index \in Nat /\ j.length \in Nat
    BY <1>3 DEF Jobs
  <2> QED BY <2>1, <2>2, StreamIndexMaxAssumption
<1> QED BY <1>3, <1>4, <1>5

\* The messages to the coordinator.
LEMMA CoordMsgKinds ==
  /\ \A segs \in Seq(Segments) :
       /\ NoncesMsg(segs) \in CoordMsgs /\ NoncesMsg(segs).type = "nonces"
       /\ NoncesMsg(segs).segments = segs
  /\ \A m \in CoordMsgs : m.type \in {"nonces", "shares"}
  /\ "nonces" # "shares"
BY DEF NoncesMsg, CoordMsgs

\* An answer with nonces is sent.
LEMMA AnswerNonces ==
  ASSUME SignInv, NEW segs \in Seq(Segments)
  PROVE  LET new == Append(toCoord, NoncesMsg(segs))
         IN  /\ new \in Seq(CoordMsgs)
             /\ ShareMsgs(new) = ShareMsgs(toCoord)
             /\ \A sl : At(toCoord, "nonces") = {} /\ AnswerOK(sl, NoncesMsg(segs)) =>
                  \E n \in 1 .. Len(new) : At(new, "nonces") = {n} /\ AnswerOK(sl, new[n])
<1> DEFINE m == NoncesMsg(segs)
           new == Append(toCoord, m)
<1>1. m \in CoordMsgs /\ m.type = "nonces" /\ m.type # "shares"
  BY CoordMsgKinds
<1>2. toCoord \in Seq(CoordMsgs)
  BY DEF SignInv, SystemInv, LinkInv
<1> HIDE DEF m
<1>3. /\ new \in Seq(CoordMsgs) /\ Len(toCoord) \in Nat /\ Len(new) = Len(toCoord) + 1
      /\ \A n \in 1 .. Len(toCoord) : new[n] = toCoord[n]
      /\ new[Len(toCoord) + 1] = m
      /\ At(new, "nonces") = At(toCoord, "nonces") \cup {Len(toCoord) + 1}
      /\ At(new, "shares") = At(toCoord, "shares")
  <2>1. /\ new \in Seq(CoordMsgs) /\ Len(toCoord) \in Nat /\ Len(new) = Len(toCoord) + 1
        /\ \A n \in 1 .. Len(toCoord) : new[n] = toCoord[n]
        /\ new[Len(toCoord) + 1] = m
        /\ \A t : m.type = t => At(new, t) = At(toCoord, t) \cup {Len(toCoord) + 1}
        /\ \A t : m.type # t => At(new, t) = At(toCoord, t)
    BY <1>1, <1>2, PushAt
  <2> HIDE DEF new
  <2> QED BY <1>1, <2>1
<1> HIDE DEF new
<1>4. ShareMsgs(new) = ShareMsgs(toCoord)
  <2>1. \A n \in At(toCoord, "shares") : new[n] = toCoord[n]
    BY <1>3 DEF At
  <2> QED BY <1>3, <2>1 DEF ShareMsgs
<1>5. ASSUME NEW sl, At(toCoord, "nonces") = {}, AnswerOK(sl, m)
      PROVE  \E n \in 1 .. Len(new) : At(new, "nonces") = {n} /\ AnswerOK(sl, new[n])
  <2>1. Len(new) \in 1 .. Len(new) /\ At(new, "nonces") = {Len(new)} /\ new[Len(new)] = m
    BY <1>3, <1>5
  <2> QED BY <1>5, <2>1
<1> QED BY <1>3, <1>4, <1>5 DEF new, m

\* get_or_create finds the slot of a stream before the empty ones.
LEMMA GetOrCreateFinds ==
  ASSUME SlotsOK(slots), NEW x \in Streams, Held(slots, x)
  PROVE  D!GetOrCreate(x) \in D!SlotIds /\ slots[D!GetOrCreate(x)].stream = x
<1>1. PICK i \in D!SlotIds : slots[i].stream = x
  BY DEF Held
<1>2. \A j \in D!SlotIds : slots[j].stream = x => j = i
  BY <1>1, SlotUnique
<1>3. D!SlotIds \subseteq Nat
  BY SystemAssumption DEF D!SlotIds
<1>4. \A j \in D!SlotIds : slots[j].stream = None => i < j
  <2>1. x # None
    BY SystemAssumption
  <2> QED BY <1>1, <1>3, <2>1 DEF SlotsOK
<1> DEFINE S == D!Holding(x) \cup D!Holding(None)
<1>5. i \in S /\ \A j \in S : i <= j /\ j \in Nat
  BY <1>1, <1>2, <1>3, <1>4 DEF D!Holding
<1> HIDE DEF S
<1>6. D!First(S) = i
  BY <1>5 DEF D!First
<1> QED BY <1>1, <1>5, <1>6 DEF D!GetOrCreate, S

\* One turn of open_nonce_streams.
LEMMA OpenStreamKeeps ==
  ASSUME IsFiniteSet(Streams), EnoughSlots, SignInv, Drawn, OpenStream
  PROVE  Keeps
<1> DEFINE st == Head(opening)
           x == st.stream
           i == D!GetOrCreate(x)
           create == slots[i].stream # x
           value == IF create THEN D!Initialized(x, lastUsed + 1, nextSeed) ELSE slots[i]
           jobs == D!Reconcile(value, st)
           R == Requested(prompt, toDevice)
           M == ShareMsgs(toCoord)
<1>1. /\ opening # <<>> /\ D!NonceTasksFit(jobs)
      /\ slots' = [slots EXCEPT ![i] = value]
      /\ nextSeed' = IF create THEN nextSeed + 1 ELSE nextSeed
      /\ tasks' = tasks \o jobs /\ opening' = Tail(opening) /\ batch' = batch
      /\ IF tasks' = <<>> THEN toCoord' = Append(toCoord, NoncesMsg(<<>>)) ELSE toCoord' = toCoord
      /\ UNCHANGED <<coordVars, prompt, panicked, toDevice, connected, protocolVars, cancelVars>>
  BY DEF OpenStream, D!OpenStream, Answer
<1>2. UNCHANGED <<cache, active, finished, holders, crashed, dispatch, needRequest, replenishing,
                  pending, awaiting, cancelling>>
  BY <1>1 DEF coordVars, protocolVars, cancelVars
<1>3. /\ awaiting /\ replenishing /\ Quiet(slots, prompt, toDevice)
      /\ Opening(opening, tasks, batch, toCoord)
  <2>1. ~NoToken(toDevice, opening, tasks, batch, toCoord)
    BY <1>1 DEF NoToken
  <2> QED BY <1>1, <2>1
        DEF SignInv, SystemInv, TokenInv, Token, Sent, Planned, Working, Answered
<1>4. /\ st \in States /\ opening' = <<>> /\ tasks = <<>> /\ batch = <<>>
      /\ At(toCoord, "nonces") = {}
  BY <1>1, <1>3 DEF Opening
<1>5. x \in Streams /\ x \in usedIds
  BY <1>1, <1>3, <1>4 DEF States, Drawn, Opening
<1>6. /\ SlotsOK(slots) /\ Agree(slots, cache[dev], active, R, M) /\ nextSeed \in Nat
      /\ toDevice \in Seq(DeviceMsgs) /\ Ordered(prompt, toDevice)
      /\ cancelling = 0 => Superseded(slots, prompt, toDevice, dispatch)
  BY DEF SignInv, SystemInv, LinkInv, Agree
<1> HIDE DEF st
<1>7. /\ Agree(slots', cache[dev], active, R, M)
      /\ \A y \in Streams : Held(slots, y) => SlotOf(slots', y) = SlotOf(slots, y)
      /\ Held(slots', x) /\ SlotOf(slots', x) = value
      /\ nextSeed' \in Nat
  <2>1. CASE Held(slots, x)
    <3>1. i \in D!SlotIds /\ slots[i].stream = x
      BY <1>5, <1>6, <2>1, GetOrCreateFinds
    <3>2. value = slots[i] /\ nextSeed' = nextSeed
      BY <1>1, <3>1
    <3>3. slots' = slots
      <4> HIDE DEF i, value
      <4> QED BY <1>1, <1>6, <3>1, <3>2 DEF SlotsOK
    <3>4. SlotOf(slots, x) = slots[i]
      BY <1>5, <1>6, <3>1, SlotUnique
    <3> HIDE DEF i, value
    <3> QED BY <1>6, <2>1, <3>2, <3>3, <3>4
  <2>2. CASE ~Held(slots, x)
    <3>1. i \in D!SlotIds /\ slots[i].stream # x
      BY <1>5, <1>6, <2>2, RoomLeft, SystemAssumption
    <3>2. value = D!Initialized(x, lastUsed + 1, nextSeed) /\ nextSeed' = nextSeed + 1
      BY <1>1, <3>1
    <3> HIDE DEF value
    <3>3. /\ SlotsOK(slots') /\ Held(slots', x) /\ SlotOf(slots', x) = value
          /\ SameElse(slots, slots', x)
      BY <1>1, <1>5, <1>6, <2>2, <3>2, CreateSlot
    <3> HIDE DEF i, R, M
    <3>4. /\ Agree(slots', cache[dev], active, R, M)
          /\ \A y \in Streams : Held(slots, y) => SlotOf(slots', y) = SlotOf(slots, y)
      BY <1>5, <1>6, <2>2, <3>3, AgreeOnCreated
    <3> QED BY <1>6, <3>2, <3>3, <3>4
  <2> QED BY <2>1, <2>2
<1>8. ASSUME NEW q \in R, Done(slots, q) PROVE Done(slots', q)
  <2>1. SessionHeld(slots, q)
    BY <1>6 DEF Agree, RequestOK
  <2>2. On(q) \in Streams /\ Held(slots, On(q))
    BY <2>1, SessionNumbers DEF SessionHeld, MadeOf
  <2> QED BY <1>7, <1>8, <2>2 DEF Done
<1>9. cancelling = 0 => Superseded(slots', prompt, toDevice, dispatch)
  BY <1>6, <1>8, SupersededKept
<1>10. Quiet(slots', prompt, toDevice)
  <2>1. prompt # None => prompt.session \in R
    BY DEF Requested
  <2> QED BY <1>3, <1>8, <2>1 DEF Quiet
<1>11. ValueOK(value) /\ value.stream = x /\ value = SlotOf(slots', x) /\ Held(slots', x)
  <2>1. SlotsOK(slots')
    BY <1>7 DEF Agree
  <2> HIDE DEF value
  <2> QED BY <1>5, <1>7, <2>1, HeldSlot
<1>12. tasks' = jobs
  <2>1. <<>> \o jobs = jobs
    <3>1. jobs = <<>> \/ \E e : jobs = <<e>>
      BY DEF D!Reconcile
    <3> HIDE DEF jobs
    <3>2. CASE jobs = <<>>
      BY <3>2
    <3>3. CASE \E e : jobs = <<e>>
      BY <3>3
    <3> QED BY <3>1, <3>2, <3>3
  <2> HIDE DEF jobs
  <2> QED BY <1>1, <1>4, <2>1
<1> HIDE DEF value, i, create
<1>13. \/ jobs = <<>>
       \/ \E j \in Jobs : /\ jobs = <<j>>
                          /\ j.stream = x /\ j.seed = value.seed /\ j.index = value.index
                          /\ j.index + j.length <= StreamIndexMax
  BY <1>1, <1>4, <1>5, <1>11, ReconcileJobs
<1> HIDE DEF jobs, x
<1>14. /\ toCoord' \in Seq(CoordMsgs) /\ ShareMsgs(toCoord') = M
       /\ Token(slots', prompt, toDevice, opening', tasks', batch', toCoord')
  <2>1. CASE jobs = <<>>
    <3>1. tasks' = <<>> /\ toCoord' = Append(toCoord, NoncesMsg(<<>>))
      BY <1>1, <1>12, <2>1
    <3>2. <<>> \in Seq(Segments) /\ NoncesMsg(<<>>).segments = <<>>
      BY EmptySeq DEF NoncesMsg
    <3>3. AnswerOK(slots', NoncesMsg(<<>>))
      BY <3>2 DEF AnswerOK
    <3>4. /\ toCoord' \in Seq(CoordMsgs) /\ ShareMsgs(toCoord') = M
          /\ \E n \in 1 .. Len(toCoord') : At(toCoord', "nonces") = {n} /\ AnswerOK(slots', toCoord'[n])
      BY <1>4, <3>1, <3>2, <3>3, AnswerNonces
    <3>5. Answered(slots', opening', tasks', batch', toCoord')
      BY <1>1, <1>4, <3>1, <3>4 DEF Answered
    <3> QED BY <1>10, <3>4, <3>5 DEF Token
  <2>2. CASE jobs # <<>>
    <3>1. PICK j \in Jobs : /\ jobs = <<j>>
                            /\ j.stream = x /\ j.seed = value.seed /\ j.index = value.index
                            /\ j.index + j.length <= StreamIndexMax
      BY <1>13, <2>2
    <3>2. toCoord' = toCoord /\ tasks' = <<j>> /\ tasks' # <<>> /\ tasks'[1] = j
      BY <1>1, <1>12, <2>2, <3>1
    <3>3. JobOK(slots', j)
      BY <1>11, <3>1 DEF JobOK
    <3>4. Planned(slots', opening', tasks', batch', toCoord')
      BY <1>1, <1>4, <3>2, <3>3 DEF Planned
    <3>5. toCoord' \in Seq(CoordMsgs)
      BY <3>2 DEF SignInv, SystemInv, LinkInv
    <3> QED BY <1>10, <3>2, <3>4, <3>5 DEF Token
  <2> QED BY <2>1, <2>2
<1>15. TokenInv'
  BY <1>1, <1>2, <1>3, <1>14 DEF SignInv, SystemInv, TokenInv
<1>16. LinkInv'
  BY <1>1, <1>2, <1>7, <1>14 DEF SignInv, SystemInv, LinkInv, ActiveSessions
<1> QED BY <1>1, <1>2, <1>6, <1>7, <1>9, <1>14, <1>15, <1>16 DEF Keeps, SignInv, SystemInv

\* The jobs go to the device loop.
LEMMA StartBatchKeeps ==
  ASSUME SignInv, StartBatch
  PROVE  Keeps
<1>1. /\ tasks # <<>> /\ batch' = tasks /\ tasks' = <<>> /\ UNCHANGED <<slots, opening, nextSeed>>
      /\ UNCHANGED <<coordVars, prompt, panicked, linkVars, protocolVars, cancelVars>>
  BY DEF StartBatch, D!StartBatch
<1>2. UNCHANGED <<cache, active, finished, holders, crashed, dispatch, needRequest, replenishing,
                  pending, awaiting, toDevice, toCoord, connected, cancelling>>
  BY <1>1 DEF coordVars, protocolVars, linkVars, cancelVars
<1>3. /\ awaiting /\ Quiet(slots, prompt, toDevice)
      /\ Planned(slots, opening, tasks, batch, toCoord)
  <2>1. ~NoToken(toDevice, opening, tasks, batch, toCoord)
    BY <1>1 DEF NoToken
  <2> QED BY <1>1, <2>1
        DEF SignInv, SystemInv, TokenInv, Token, Sent, Opening, Working, Answered
<1>4. Working(slots, opening, tasks', batch', toCoord) /\ batch' # <<>>
  BY <1>1, <1>3 DEF Planned, Working
<1>5. TokenInv'
  BY <1>1, <1>2, <1>3, <1>4 DEF SignInv, SystemInv, TokenInv, Token
<1>6. LinkInv'
  BY <1>1, <1>2 DEF SignInv, SystemInv, LinkInv, ActiveSessions
<1> QED BY <1>1, <1>2, <1>5, <1>6 DEF Keeps, SignInv, SystemInv

\* The batch is finished and sent.
LEMMA FinishBatchKeeps ==
  ASSUME SignInv, FinishBatch
  PROVE  Keeps
<1>1. /\ batch # <<>> /\ batch' = <<>> /\ UNCHANGED <<slots, opening, tasks, nextSeed>>
      /\ toCoord' = Append(toCoord, NoncesMsg(JobSegments(batch)))
      /\ UNCHANGED <<coordVars, prompt, panicked, toDevice, connected, protocolVars, cancelVars>>
  BY DEF FinishBatch, D!FinishBatch, Answer
<1>2. UNCHANGED <<cache, active, finished, holders, crashed, dispatch, needRequest, replenishing,
                  pending, awaiting, cancelling>>
  BY <1>1 DEF coordVars, protocolVars, cancelVars
<1>3. /\ awaiting /\ Quiet(slots, prompt, toDevice)
      /\ Working(slots, opening, tasks, batch, toCoord)
  <2>1. ~NoToken(toDevice, opening, tasks, batch, toCoord)
    BY <1>1 DEF NoToken
  <2> QED BY <1>1, <2>1
        DEF SignInv, SystemInv, TokenInv, Token, Sent, Opening, Planned, Answered
<1>4. PICK j : batch = <<j>> /\ JobOK(slots, j)
  BY <1>3 DEF Working
<1>5. /\ JobSegment(j) \in Segments
      /\ JobSegment(j).stream = j.stream /\ JobSegment(j).index = j.index
      /\ Run(JobSegment(j).nonces, j.seed, j.index)
      /\ IndexAfterLast(JobSegment(j)) = j.index + j.length
  BY <1>4, JobRun DEF JobOK
<1> DEFINE seg == JobSegment(j)
<1>6. JobSegments(batch) = <<seg>>
  <2>1. Len(<<j>>) = 1 /\ <<j>>[1] = j
    OBVIOUS
  <2>2. JobSegments(<<j>>) = [n \in 1 .. 1 |-> JobSegment(<<j>>[n])]
    BY <2>1 DEF JobSegments
  <2>3. [n \in 1 .. 1 |-> JobSegment(<<j>>[n])] = <<JobSegment(<<j>>[1])>>
    <3> HIDE DEF seg
    <3> QED OBVIOUS
  <2> QED BY <1>4, <2>1, <2>2, <2>3
<1> HIDE DEF seg
<1>7. SegmentHeld(slots, seg) /\ ~Overflows(seg) /\ seg.index = SlotOf(slots, seg.stream).index
  <2>1. seg \in Segments /\ Held(slots, seg.stream)
    BY <1>4, <1>5 DEF JobOK, seg
  <2>2. Run(seg.nonces, SlotOf(slots, seg.stream).seed, seg.index)
    BY <1>4, <1>5 DEF JobOK, seg
  <2>3. ~Overflows(seg)
    <3>1. j.index \in Nat /\ j.length \in Nat /\ j.index + j.length <= StreamIndexMax
      BY <1>4 DEF JobOK, Jobs
    <3> QED BY <1>5, <3>1, StreamIndexMaxAssumption DEF Overflows, seg
  <2> QED BY <1>4, <1>5, <2>1, <2>2, <2>3 DEF SegmentHeld, JobOK, seg
<1>8. <<seg>> \in Seq(Segments)
  BY <1>7 DEF SegmentHeld
<1>9. AnswerOK(slots, NoncesMsg(<<seg>>))
  <2>1. NoncesMsg(<<seg>>).segments = <<seg>> /\ <<seg>>[1] = seg
    BY DEF NoncesMsg
  <2> QED BY <1>7, <2>1 DEF AnswerOK
<1>10. /\ toCoord' \in Seq(CoordMsgs) /\ ShareMsgs(toCoord') = ShareMsgs(toCoord)
       /\ \E n \in 1 .. Len(toCoord') : At(toCoord', "nonces") = {n} /\ AnswerOK(slots, toCoord'[n])
  <2>1. At(toCoord, "nonces") = {}
    BY <1>3 DEF Working
  <2> QED BY <1>1, <1>6, <1>8, <1>9, <2>1, AnswerNonces
<1>11. Answered(slots, opening, tasks, batch', toCoord')
  BY <1>1, <1>3, <1>10 DEF Answered, Working
<1>12. TokenInv'
  BY <1>1, <1>2, <1>3, <1>11 DEF SignInv, SystemInv, TokenInv, Token
<1>13. LinkInv'
  BY <1>1, <1>2, <1>10 DEF SignInv, SystemInv, LinkInv, ActiveSessions
<1> QED BY <1>1, <1>2, <1>10, <1>12, <1>13 DEF Keeps, SignInv, SystemInv

\* sign_guaranteeing_nonces_destroyed: the slot has the nonces or the shares of the
\* request on the screen, and once it is written both sides still agree.
LEMMA SlotWritten ==
  ASSUME SignInv, prompt # None
  PROVE  LET p == prompt.session
             j == D!First(D!Holding(prompt.state.stream))
             value == D!SlotToWrite(slots[j], p, prompt.state.index)
             new == [slots EXCEPT ![j] = value]
             R == Requested(prompt, toDevice)
         IN  /\ CanAck(prompt) /\ p \in R /\ p \in SessionIds
             /\ Agree(new, cache[dev], active, R, ShareMsgs(toCoord))
             /\ \A q \in R : Done(slots, q) => Done(new, q)
             /\ Done(slots, p) => new = slots
             /\ Held(new, On(p)) /\ SlotOf(new, On(p)) = value /\ new[j] = value
             /\ ValueOK(value) /\ value.stream = On(p) /\ value.session = p
             /\ value.index = Ends(p)
<1> DEFINE p == prompt.session
           x == prompt.state.stream
           j == D!First(D!Holding(x))
           v == slots[j]
           value == D!SlotToWrite(v, p, prompt.state.index)
           new == [slots EXCEPT ![j] = value]
           R == Requested(prompt, toDevice)
           M == ShareMsgs(toCoord)
<1>1. /\ Agree(slots, cache[dev], active, R, M) /\ SlotsOK(slots)
      /\ Ordered(prompt, toDevice) /\ p \in R
  BY DEF SignInv, SystemInv, Agree, Requested
<1>2. RequestOK(slots, cache[dev], active, p) /\ SessionHeld(slots, p) /\ Signable(slots, p)
  BY <1>1 DEF Agree, RequestOK
<1>3. prompt = SignMsg(p) /\ p \in SessionIds
  BY <1>1 DEF Ordered
<1>4. /\ x = On(p) /\ prompt.state.index = From(p) /\ x \in Streams
      /\ From(p) \in Nat /\ Ends(p) \in Nat /\ Ends(p) = From(p) + NSigsOf(p) /\ p # None
      /\ NSigsOf(p) \in Nat \ {0}
  BY <1>3, DeviceMsgKinds, SessionNumbers
<1> HIDE DEF p, x
<1>5. /\ D!Holding(x) # {} /\ j \in D!SlotIds /\ v.stream = x /\ v = SlotOf(slots, x)
      /\ Held(slots, x)
  BY <1>1, <1>2, <1>4, GetFinds DEF SessionHeld
<1> HIDE DEF j
<1>6. ValueOK(v) /\ v.index \in Nat
  BY <1>1, <1>4, <1>5, HeldSlot
<1> HIDE DEF v
<1>7. /\ [s \in SessionIds |-> TaskSigs[s.task]][p] = NSigsOf(p)
      /\ D!Cached(v, p) <=> v.session = p
      /\ D!Cached(v, p) <=> Done(slots, p)
  BY <1>3, <1>4, <1>5 DEF NSigsOf, D!Cached, Done
<1>8. D!Cached(v, p) \/ D!NoncesAvailable(v, p, From(p))
  <2>1. Ends(p) <= StreamIndexMax
    BY <1>2 DEF SessionHeld, MadeOf
  <2>2. D!Cached(v, p) \/ From(p) >= v.index
    BY <1>2, <1>4, <1>5, <1>6, <1>7 DEF Signable
  <2> QED BY <1>4, <1>7, <2>1, <2>2 DEF D!NoncesAvailable
<1>9. CanAck(prompt)
  BY <1>4, <1>5, <1>8 DEF CanAck, j, v, x, p
<1>10. CASE Done(slots, p)
  <2>1. value = v
    BY <1>7, <1>10 DEF D!SlotToWrite
  <2>2. new = slots
    BY <1>1, <1>5, <2>1 DEF SlotsOK, v
  <2>3. v.session = p /\ v.index = Ends(p)
    BY <1>1, <1>2, <1>4, <1>5, <1>7, <1>10, SignableBound
  <2> HIDE DEF new, value
  <2> QED BY <1>1, <1>3, <1>4, <1>5, <1>6, <1>9, <2>1, <2>2, <2>3 DEF new, value, p, x, j, v
<1>11. CASE ~Done(slots, p)
  <2>1. From(p) >= v.index
    BY <1>7, <1>8, <1>11 DEF D!NoncesAvailable
  <2> DEFINE shares == {D!Share(p, k, v.seed, From(p) + k - 1) : k \in 1 .. NSigsOf(p)}
  <2>2. value = [v EXCEPT !.index = From(p) + NSigsOf(p), !.last_used = lastUsed + 1,
                          !.session = p, !.shares = shares]
    BY <1>4, <1>7, <1>11 DEF D!SlotToWrite, D!Signed
  <2> HIDE DEF value, shares
  <2>3. v = [stream |-> v.stream, index |-> v.index, seed |-> v.seed,
             last_used |-> v.last_used, session |-> v.session, shares |-> v.shares]
    BY <1>6 DEF ValueOK
  <2>4. /\ value = [stream |-> v.stream, index |-> Ends(p), seed |-> v.seed,
                    last_used |-> lastUsed + 1, session |-> p, shares |-> shares]
    BY <1>4, <2>2, <2>3
  <2>5. /\ value.stream = x /\ value.index = Ends(p) /\ value.seed = v.seed
        /\ value.session = p /\ value.shares = shares
        /\ value = [stream |-> value.stream, index |-> value.index, seed |-> value.seed,
                    last_used |-> value.last_used, session |-> value.session,
                    shares |-> value.shares]
    BY <1>5, <2>4
  <2>6. MadeOf(p, v.seed) /\ v.seed \in Nat
    BY <1>2, <1>4, <1>5, <1>6 DEF SessionHeld, ValueOK
  <2>7. ValueOK(value)
    BY <1>4, <2>5, <2>6 DEF ValueOK, shares
  <2>8. slots[j].stream = x
    BY <1>5 DEF v
  <2>9. /\ SlotsOK(new) /\ Held(new, x) /\ SlotOf(new, x) = value
        /\ SameElse(slots, new, x)
    BY <1>1, <1>4, <1>5, <2>5, <2>7, <2>8, WriteSlot
  <2>10. new[j] = value
    BY <1>1, <1>5 DEF SlotsOK
  <2> HIDE DEF new
  <2>11. \A q \in R : After(p, q)
    <3>1. \A b \in At(toDevice, "sign") : After(p, toDevice[b].session)
      BY <1>1 DEF Ordered, p
    <3>2. After(p, p)
      BY DEF After
    <3> QED BY <3>1, <3>2 DEF Requested, p
  <2> HIDE DEF R, M
  <2>12. /\ Agree(new, cache[dev], active, R, M)
         /\ \A q \in R : Done(slots, q) => Done(new, q)
    <3>1. /\ SlotOf(slots, On(p)).index <= From(p)
          /\ SameElse(slots, new, On(p)) /\ Held(new, On(p))
          /\ SlotOf(new, On(p)).seed = SlotOf(slots, On(p)).seed
          /\ SlotOf(new, On(p)).index = Ends(p) /\ SlotOf(new, On(p)).session = p
      BY <1>4, <1>5, <1>6, <2>1, <2>5, <2>9
    <3> QED BY <1>1, <2>9, <2>11, <3>1, AgreeOnSigned
  <2> QED BY <1>1, <1>3, <1>4, <1>9, <1>11, <2>5, <2>7, <2>9, <2>10, <2>12
          DEF new, value, p, x, j, v, R, M
<1> QED BY <1>10, <1>11

\* The answer with the shares is sent.
LEMMA AnswerShares ==
  ASSUME SignInv, NEW m \in CoordMsgs, m.type = "shares"
  PROVE  LET new == Append(toCoord, m)
         IN  /\ new \in Seq(CoordMsgs)
             /\ ShareMsgs(new) \subseteq ShareMsgs(toCoord) \cup {m}
             /\ At(new, "nonces") = At(toCoord, "nonces")
             /\ \A n \in 1 .. Len(toCoord) : n \in 1 .. Len(new) /\ new[n] = toCoord[n]
<1> DEFINE new == Append(toCoord, m)
<1>1. toCoord \in Seq(CoordMsgs) /\ m.type # "nonces"
  BY DEF SignInv, SystemInv, LinkInv
<1>2. /\ new \in Seq(CoordMsgs) /\ Len(toCoord) \in Nat /\ Len(new) = Len(toCoord) + 1
      /\ \A n \in 1 .. Len(toCoord) : new[n] = toCoord[n]
      /\ new[Len(toCoord) + 1] = m
      /\ \A t : m.type = t => At(new, t) = At(toCoord, t) \cup {Len(toCoord) + 1}
      /\ \A t : m.type # t => At(new, t) = At(toCoord, t)
  BY <1>1, PushAt
<1> HIDE DEF new
<1>3. /\ At(new, "nonces") = At(toCoord, "nonces")
      /\ At(new, "shares") = At(toCoord, "shares") \cup {Len(toCoord) + 1}
  BY <1>1, <1>2
<1>4. \A n \in At(toCoord, "shares") : new[n] = toCoord[n]
  BY <1>2 DEF At
<1>5. ShareMsgs(new) \subseteq ShareMsgs(toCoord) \cup {m}
  BY <1>2, <1>3, <1>4 DEF ShareMsgs
<1> QED BY <1>2, <1>3, <1>5 DEF new

\* The nonces that are sent with shares.
LEMMA ReplenishNonces ==
  ASSUME NEW v, ValueOK(v), v.stream \in Streams, NEW st \in States,
         D!NonceTasksFit(D!Reconcile(v, st)),
         NEW sl, Held(sl, v.stream), SlotOf(sl, v.stream) = v
  PROVE  LET segs == JobSegments(D!Reconcile(v, st))
         IN  /\ segs \in Seq(Segments)
             /\ segs = <<>> \/ \E seg \in {segs[1]} :
                  /\ segs = <<seg>> /\ SegmentHeld(sl, seg) /\ ~Overflows(seg)
                  /\ seg.stream = v.stream /\ seg.index = v.index
<1> DEFINE jobs == D!Reconcile(v, st)
<1>1. CASE jobs = <<>>
  <2>1. JobSegments(<<>>) = <<>>
    BY DEF JobSegments
  <2> QED BY <1>1, <2>1, EmptySeq
<1>2. CASE jobs # <<>>
  <2>1. PICK j \in Jobs : /\ jobs = <<j>>
                          /\ j.stream = v.stream /\ j.seed = v.seed /\ j.index = v.index
                          /\ j.index + j.length <= StreamIndexMax
    BY <1>2, ReconcileJobs
  <2> DEFINE seg == JobSegment(j)
  <2>2. JobSegments(jobs) = <<seg>>
    <3>1. Len(<<j>>) = 1 /\ <<j>>[1] = j
      OBVIOUS
    <3>2. JobSegments(<<j>>) = [n \in 1 .. 1 |-> JobSegment(<<j>>[n])]
      BY <3>1 DEF JobSegments
    <3>3. [n \in 1 .. 1 |-> JobSegment(<<j>>[n])] = <<JobSegment(<<j>>[1])>>
      <4> HIDE DEF seg
      <4> QED OBVIOUS
    <3> HIDE DEF jobs
    <3> QED BY <2>1, <3>1, <3>2, <3>3
  <2>3. /\ seg \in Segments /\ seg.stream = j.stream /\ seg.index = j.index
        /\ Run(seg.nonces, j.seed, j.index)
        /\ IndexAfterLast(seg) = j.index + j.length
    BY JobRun
  <2> HIDE DEF seg
  <2>4. SegmentHeld(sl, seg)
    BY <2>1, <2>3 DEF SegmentHeld
  <2>5. ~Overflows(seg)
    <3>1. j.index \in Nat /\ j.length \in Nat
      BY DEF Jobs
    <3> QED BY <2>1, <2>3, <3>1, StreamIndexMaxAssumption DEF Overflows
  <2>6. <<seg>> \in Seq(Segments) /\ <<seg>>[1] = seg
    BY <2>3
  <2> HIDE DEF jobs
  <2> QED BY <2>1, <2>2, <2>3, <2>4, <2>5, <2>6 DEF jobs
<1> QED BY <1>1, <1>2

\* The user confirms: sign_ack.
LEMMA ConfirmSignKeeps ==
  ASSUME SignInv, ConfirmSign
  PROVE  Keeps
<1> DEFINE p == prompt.session
           j == D!First(D!Holding(prompt.state.stream))
           value == D!SlotToWrite(slots[j], p, prompt.state.index)
           R == Requested(prompt, toDevice)
           M == ShareMsgs(toCoord)
<1>1. prompt # None /\ D!Idle /\ prompt' = None
  BY DEF ConfirmSign
<1>2. /\ CanAck(prompt) /\ p \in R /\ p \in SessionIds
      /\ Agree([slots EXCEPT ![j] = value], cache[dev], active, R, M)
      /\ \A q \in R : Done(slots, q) => Done([slots EXCEPT ![j] = value], q)
      /\ Done(slots, p) => [slots EXCEPT ![j] = value] = slots
      /\ Held([slots EXCEPT ![j] = value], On(p))
      /\ SlotOf([slots EXCEPT ![j] = value], On(p)) = value
      /\ [slots EXCEPT ![j] = value][j] = value
      /\ ValueOK(value) /\ value.stream = On(p) /\ value.session = p
      /\ value.index = Ends(p)
  BY <1>1, SlotWritten
<1> DEFINE m == [type |-> "shares", session |-> p, used |-> SharesNonces(slots'[j]),
                 replenish |-> JobSegments(D!Reconcile(slots'[j], prompt.state))]
<1>3. /\ D!NonceTasksFit(D!Reconcile(value, prompt.state))
      /\ slots' = [slots EXCEPT ![j] = value]
      /\ UNCHANGED <<opening, tasks, batch, nextSeed, panicked>>
      /\ toCoord' = Append(toCoord, m)
      /\ UNCHANGED <<coordVars, toDevice, connected, protocolVars, cancelVars>>
  BY <1>2 DEF ConfirmSign, D!Sign, Answer
<1> HIDE DEF value, j, R, M
<1>4. /\ Agree(slots', cache[dev], active, R, M)
      /\ \A q \in R : Done(slots, q) => Done(slots', q)
      /\ Done(slots, p) => slots' = slots
      /\ Held(slots', On(p)) /\ SlotOf(slots', On(p)) = value /\ slots'[j] = value
  BY <1>2, <1>3
<1>5. UNCHANGED <<cache, active, finished, holders, crashed, dispatch, needRequest, replenishing,
                  pending, awaiting, cancelling>>
  BY <1>3 DEF coordVars, protocolVars, cancelVars
<1>6. /\ Ordered(prompt, toDevice) /\ prompt = SignMsg(p) /\ prompt.state \in States
      /\ On(p) \in Streams /\ p # None /\ p.nonces[dev].nonces \in Seq(Nonces) /\ Ends(p) \in Nat
  <2>1. Ordered(prompt, toDevice)
    BY DEF SignInv, SystemInv
  <2>2. prompt = SignMsg(p)
    BY <1>1, <2>1 DEF Ordered
  <2> QED BY <1>2, <2>1, <2>2, DeviceMsgKinds, SessionNumbers
<1> DEFINE segs == JobSegments(D!Reconcile(value, prompt.state))
<1>7. /\ segs \in Seq(Segments)
      /\ segs = <<>> \/ \E seg \in {segs[1]} :
           /\ segs = <<seg>> /\ SegmentHeld(slots', seg) /\ ~Overflows(seg)
           /\ seg.stream = On(p) /\ seg.index = Ends(p)
  <2>1. /\ ValueOK(value) /\ value.stream \in Streams /\ Held(slots', value.stream)
        /\ SlotOf(slots', value.stream) = value
    BY <1>2, <1>4, <1>6
  <2>2. prompt.state \in States /\ D!NonceTasksFit(D!Reconcile(value, prompt.state))
    BY <1>3, <1>6
  <2>3. /\ segs \in Seq(Segments)
        /\ segs = <<>> \/ \E seg \in {segs[1]} :
             /\ segs = <<seg>> /\ SegmentHeld(slots', seg) /\ ~Overflows(seg)
             /\ seg.stream = value.stream /\ seg.index = value.index
    BY <2>1, <2>2, ReplenishNonces
  <2> HIDE DEF segs
  <2> QED BY <1>2, <2>3
<1>8. SharesNonces(value) = p.nonces[dev].nonces
  BY <1>2, <1>6, CachedShares
<1>9. m = [type |-> "shares", session |-> p, used |-> p.nonces[dev].nonces, replenish |-> segs]
  BY <1>4, <1>8
<1> HIDE DEF segs, m, p
<1>10. /\ m \in CoordMsgs /\ m.type = "shares" /\ m.session = p
       /\ m.used = p.nonces[dev].nonces /\ m.replenish = segs
  BY <1>2, <1>6, <1>7, <1>9 DEF CoordMsgs
<1>11. ShareOK(slots', active, m)
  <2>1. p \in DOMAIN active => Asked(active, p)
    BY <1>2, <1>4 DEF Agree, RequestOK
  <2>2. segs = <<>> \/ \E seg \in {segs[1]} :
           /\ segs = <<seg>> /\ SegmentHeld(slots', seg) /\ ~Overflows(seg)
           /\ seg.stream = On(p) /\ seg.index <= Ends(p)
    BY <1>6, <1>7
  <2>3. SlotOf(slots', On(p)).index >= Ends(p) /\ SlotOf(slots', On(p)).session = p
    BY <1>2, <1>4, <1>6
  <2> QED BY <1>2, <1>4, <1>10, <2>1, <2>2, <2>3 DEF ShareOK
<1>12. /\ toCoord' \in Seq(CoordMsgs)
       /\ ShareMsgs(toCoord') \subseteq M \cup {m}
       /\ At(toCoord', "nonces") = At(toCoord, "nonces")
       /\ \A n \in 1 .. Len(toCoord) : n \in 1 .. Len(toCoord') /\ toCoord'[n] = toCoord[n]
  BY <1>3, <1>10, AnswerShares DEF M
<1>13. Agree(slots', cache[dev], active, R, M \cup {m})
  BY <1>4, <1>11, AgreeOnShares
<1>14. /\ cancelling = 0 => Superseded(slots', None, toDevice, dispatch)
       /\ Ordered(None, toDevice)
       /\ Requested(None, toDevice) \subseteq R
  <2>1. toDevice \in Seq(DeviceMsgs)
    BY DEF SignInv, SystemInv, LinkInv
  <2>2. Ordered(None, toDevice) /\ Requested(None, toDevice) \subseteq R
    BY <1>6 DEF Ordered, Requested, R
  <2>3. ASSUME cancelling = 0 PROVE Superseded(slots', None, toDevice, dispatch)
    <3>1. Superseded(slots, prompt, toDevice, dispatch)
      BY <2>3 DEF SignInv, SystemInv
    <3>2. Superseded(slots', prompt, toDevice, dispatch)
      BY <1>4, <1>6, <2>1, <3>1, SupersededKept DEF R
    <3> QED BY <1>6, <2>1, <3>2, SupersededKept
  <2> QED BY <2>2, <2>3
<1>15. Agree(slots', cache[dev], active, Requested(None, toDevice), ShareMsgs(toCoord'))
  BY <1>12, <1>13, <1>14, AgreeOnFewer
<1>16. TokenInv'
  <2>1. CASE NoToken(toDevice, opening, tasks, batch, toCoord)
    <3>1. NoToken(toDevice, opening, tasks, batch, toCoord')
      BY <1>12, <2>1 DEF NoToken
    <3> QED BY <1>3, <1>5, <3>1 DEF SignInv, SystemInv, TokenInv
  <2>2. CASE awaiting /\ Sent(toDevice, opening, tasks, batch, toCoord)
    <3>1. Sent(toDevice, opening, tasks, batch, toCoord')
      BY <1>12, <2>2 DEF Sent
    <3> QED BY <1>3, <1>5, <2>2, <3>1 DEF SignInv, SystemInv, TokenInv, Token
  <2>3. CASE awaiting /\ Quiet(slots, prompt, toDevice) /\ Working(slots, opening, tasks, batch, toCoord)
             /\ batch # <<>>
    <3>1. slots' = slots /\ Quiet(slots, None, toDevice)
      BY <1>1, <1>4, <2>3 DEF Quiet, p
    <3>2. Working(slots, opening, tasks, batch, toCoord')
      BY <1>12, <2>3 DEF Working
    <3> QED BY <1>1, <1>3, <1>5, <2>3, <3>1, <3>2 DEF SignInv, SystemInv, TokenInv, Token
  <2>4. CASE awaiting /\ Quiet(slots, prompt, toDevice) /\ Answered(slots, opening, tasks, batch, toCoord)
    <3>1. slots' = slots /\ Quiet(slots, None, toDevice)
      BY <1>1, <1>4, <2>4 DEF Quiet, p
    <3>2. Answered(slots, opening, tasks, batch, toCoord')
      BY <1>12, <2>4 DEF Answered
    <3> QED BY <1>1, <1>3, <1>5, <2>4, <3>1, <3>2 DEF SignInv, SystemInv, TokenInv, Token
  <2> QED BY <1>1, <2>1, <2>2, <2>3, <2>4 DEF SignInv, SystemInv, TokenInv, Token, D!Idle
<1>17. LinkInv'
  BY <1>1, <1>3, <1>5, <1>12 DEF SignInv, SystemInv, LinkInv, ActiveSessions
<1> QED BY <1>1, <1>3, <1>5, <1>14, <1>15, <1>16, <1>17 DEF Keeps, SignInv, SystemInv

----------------------------------------------------------------------------
(* Failures *)

\* The link breaks, and slots are as they were or as sign_ack wrote them.
LEMMA LinkBreaksKeeps ==
  ASSUME SignInv, LinkBreaks, opening' = <<>>, tasks' = <<>>, batch' = <<>>,
         nextSeed' = nextSeed, UNCHANGED <<coordVars, panicked>>,
         dispatch' = None \/ dispatch' = dispatch,
         cancelling' \in Nat,
         NEW R, NEW M, Agree(slots', cache[dev], active, R, M)
  PROVE  Keeps
<1>1. /\ toDevice' = <<>> /\ toCoord' = <<>> /\ prompt' = None /\ connected' = FALSE
      /\ needRequest' = FALSE /\ replenishing' = FALSE /\ pending' = <<>> /\ awaiting' = FALSE
  BY DEF LinkBreaks
<1>2. UNCHANGED <<cache, active, finished, holders, crashed>>
  BY DEF coordVars
<1>3. Agree(slots', cache[dev], active, {}, {})
  BY AgreeOnFewer
<1>4. /\ <<>> \in Seq(DeviceMsgs) /\ <<>> \in Seq(CoordMsgs) /\ <<>> \in Seq(States)
  BY EmptySeq
<1>5. TokenInv'
  BY <1>1, NothingAt DEF TokenInv, NoToken
<1>6. LinkInv'
  BY <1>1, <1>2, <1>4 DEF SignInv, SystemInv, LinkInv, ActiveSessions
<1>7. Agree(slots, cache[dev], active, Requested(prompt, toDevice), ShareMsgs(toCoord))'
  BY <1>1, <1>2, <1>3, NothingRequested
<1>8. (Ordered(prompt, toDevice) /\ Superseded(slots, prompt, toDevice, dispatch))'
  BY <1>1, NothingRequested
<1> QED BY <1>2, <1>5, <1>6, <1>7, <1>8 DEF Keeps, SignInv, SystemInv

\* The device is unplugged.
LEMMA UnplugKeeps ==
  ASSUME SignInv, Unplug
  PROVE  Keeps
<1>1. /\ LinkBreaks /\ UNCHANGED <<coordVars, panicked, dispatch>> /\ cancelling' \in Nat
  BY DEF Unplug, cancelVars, SignInv, SystemInv, LinkInv
<1>2. CASE D!PowerLoss
  <2>1. UNCHANGED <<slots, nextSeed>> /\ opening' = <<>> /\ tasks' = <<>> /\ batch' = <<>>
    BY <1>2 DEF D!PowerLoss, D!LoseMemory
  <2>2. Agree(slots', cache[dev], active, Requested(prompt, toDevice), ShareMsgs(toCoord))
    BY <2>1 DEF SignInv, SystemInv
  <2> QED BY <1>1, <2>1, <2>2, LinkBreaksKeeps
<1>3. CASE prompt # None /\ D!SignPowerLoss(prompt.session, prompt.state)
  <2> DEFINE j == D!First(D!Holding(prompt.state.stream))
             value == D!SlotToWrite(slots[j], prompt.session, prompt.state.index)
  <2>1. /\ nextSeed' = nextSeed /\ opening' = <<>> /\ tasks' = <<>> /\ batch' = <<>>
        /\ slots' = [slots EXCEPT ![j] = value]
    BY <1>3 DEF D!SignPowerLoss, D!LoseMemory
  <2>2. Agree([slots EXCEPT ![j] = value], cache[dev], active,
              Requested(prompt, toDevice), ShareMsgs(toCoord))
    BY <1>3, SlotWritten
  <2> HIDE DEF j, value
  <2>3. Agree(slots', cache[dev], active, Requested(prompt, toDevice), ShareMsgs(toCoord))
    BY <2>1, <2>2
  <2> QED BY <1>1, <2>1, <2>3, LinkBreaksKeeps
<1> QED BY <1>2, <1>3 DEF Unplug

\* The app is restarted.
LEMMA RestartAppKeeps ==
  ASSUME SignInv, RestartApp
  PROVE  Keeps
<1>1. /\ LinkBreaks /\ UNCHANGED <<coordVars, panicked, slots, nextSeed>> /\ dispatch' = None
      /\ cancelling' = 0 /\ opening' = <<>> /\ tasks' = <<>> /\ batch' = <<>>
  BY DEF RestartApp, D!Idle
<1>2. Agree(slots', cache[dev], active, Requested(prompt, toDevice), ShareMsgs(toCoord))
  BY <1>1 DEF SignInv, SystemInv
<1> QED BY <1>1, <1>2, LinkBreaksKeeps

\* The device is plugged in again.
LEMMA ConnectKeeps ==
  ASSUME SignInv, Connect_
  PROVE  Keeps
<1>1. /\ connected' = TRUE
      /\ UNCHANGED <<coordVars, deviceVars, prompt, panicked, toDevice, toCoord, dispatch,
                     replenishing, pending, awaiting, cancelVars>>
  BY DEF Connect_
<1>2. UNCHANGED <<cache, active, finished, holders, crashed, slots, opening, tasks, batch, nextSeed,
                  cancelling>>
  BY <1>1 DEF coordVars, deviceVars, cancelVars
<1>3. TokenInv'
  BY <1>1, <1>2 DEF SignInv, SystemInv, TokenInv
<1>4. LinkInv'
  BY <1>1, <1>2 DEF SignInv, SystemInv, LinkInv, ActiveSessions
<1> QED BY <1>1, <1>2, <1>3, <1>4 DEF Keeps, SignInv, SystemInv

----------------------------------------------------------------------------
(* The coordinator's inbox *)

\* extend_segment with nonces of the device's seed.
LEMMA ExtendAgrees ==
  ASSUME SignInv, NEW R, NEW M, Agree(slots, cache[dev], active, R, M),
         NEW seg, SegmentHeld(slots, seg), ~Overflows(seg),
         \A s \in DOMAIN active : On(s) = seg.stream => seg.index <= Ends(s),
         Unasked(active, seg.stream) =>
           /\ seg.index >= SlotOf(slots, seg.stream).index
           /\ \A p \in R : On(p) = seg.stream => seg.index >= Ends(p)
  PROVE  /\ Agree(slots, ExtendSegment(cache, dev, seg)[dev], active, R, M)
         /\ seg \in SegmentsOf(Nonces)
<1> DEFINE x == seg.stream
           cd == cache[dev]
           curr == IF x \in DOMAIN cd THEN cd[x] ELSE Segment(x, 0, <<>>)
           seed == SlotOf(slots, x).seed
           new == ExtendSegment(cache, dev, seg)[dev]
<1>1. /\ seg \in Segments /\ Held(slots, x) /\ Run(seg.nonces, seed, seg.index)
      /\ x \in Streams /\ seg.index \in Nat /\ Len(seg.nonces) \in Nat
  BY LenProperties DEF SegmentHeld, Segments
<1>2. seg \in SegmentsOf(Nonces)
  <2>1. seg.index \in 0 .. StreamIndexMax
    BY <1>1, StreamIndexMaxAssumption DEF Overflows, IndexAfterLast
  <2> QED BY <1>1, <2>1 DEF Segments, SegmentsOf
<1>3. x \in DOMAIN cd => /\ cd[x] \in Segments /\ cd[x].stream = x
                         /\ Run(cd[x].nonces, seed, cd[x].index)
  BY DEF Agree, CacheHeld, SegmentHeld
<1>4. LET e == Segment(x, 0, <<>>)
      IN  /\ e \in Segments /\ e.stream = x /\ e.nonces = <<>> /\ Run(e.nonces, seed, e.index)
  BY <1>1, EmptySeq DEF Segment, Segments, Run
<1>5. curr \in Segments /\ curr.stream = x /\ Run(curr.nonces, seed, curr.index)
  BY <1>3, <1>4
<1>6. x \in DOMAIN cd => curr = cd[x]
  OBVIOUS
<1>7. x \notin DOMAIN cd => curr.nonces = <<>>
  BY <1>4
<1> HIDE DEF curr
<1> DEFINE e == Extend(curr, seg)
<1>8. /\ e \in Segments /\ e.stream = x /\ Run(e.nonces, seed, e.index)
      /\ e.index \in {curr.index, seg.index}
      /\ curr.nonces = <<>> => e = seg
  BY <1>1, <1>5, ExtendRun
<1> HIDE DEF e
<1>9. SegmentHeld(slots, e)
  BY <1>1, <1>8 DEF SegmentHeld
<1>10. new = [y \in DOMAIN cd \cup {x} |-> IF y = x THEN e ELSE cd[y]]
  <2>1. ExtendSegment(cache, dev, seg) =
          [cache EXCEPT ![dev] = [y \in DOMAIN cd \cup {x} |-> IF y = x THEN e ELSE cd[y]]]
    BY DEF ExtendSegment, e, curr
  <2>2. dev \in DOMAIN cache
    BY CacheFacts DEF CacheOK
  <2> HIDE DEF cd
  <2> QED BY <2>1, <2>2
<1> HIDE DEF new, cd, x
<1>11. /\ DOMAIN new = DOMAIN cd \cup {x} /\ new[x] = e
       /\ \A y \in DOMAIN cd \ {x} : new[y] = cd[y]
  BY <1>10
<1>12. new[x].index = seg.index \/ (x \in DOMAIN cd /\ new[x].index = cd[x].index)
  BY <1>6, <1>7, <1>8, <1>11
<1>13. Agree(slots, cd, active, R, M)
  BY DEF cd
<1>14. /\ \A s \in DOMAIN active : On(s) = x => seg.index <= Ends(s)
       /\ Unasked(active, x) => /\ seg.index >= SlotOf(slots, x).index
                                /\ \A p \in R : On(p) = x => seg.index >= Ends(p)
  BY DEF x
<1>15. Agree(slots, new, active, R, M)
  <2>1. SegmentHeld(slots, new[x]) /\ new[x].stream = x
    BY <1>8, <1>9, <1>11
  <2> DEFINE i == seg.index
  <2>2. /\ new[x].index = i \/ (x \in DOMAIN cd /\ new[x].index = cd[x].index)
        /\ \A s \in DOMAIN active : On(s) = x => i <= Ends(s)
        /\ Unasked(active, x) => /\ i >= SlotOf(slots, x).index
                                 /\ \A p \in R : On(p) = x => i >= Ends(p)
    BY <1>12, <1>14
  <2> HIDE DEF i
  <2> QED BY <1>1, <1>11, <1>13, <2>1, <2>2, AgreeOnExtended
<1> QED BY <1>2, <1>15 DEF new

\* The messages that are left when the first is taken.
LEMMA TakeFirst ==
  ASSUME SignInv, toCoord # <<>>, toCoord' = Tail(toCoord)
  PROVE  /\ toCoord' \in Seq(CoordMsgs) /\ Head(toCoord) \in CoordMsgs
         /\ Head(toCoord) = toCoord[1]
         /\ ShareMsgs(toCoord') \subseteq ShareMsgs(toCoord)
         /\ Head(toCoord).type = "shares" => Head(toCoord) \in ShareMsgs(toCoord)
         /\ Head(toCoord).type = "nonces" => 1 \in At(toCoord, "nonces")
         /\ At(toCoord, "nonces") = {} => At(toCoord', "nonces") = {}
         /\ At(toCoord, "nonces") = {1} => At(toCoord', "nonces") = {}
         /\ Head(toCoord).type # "nonces" => \A n \in 1 .. Len(toCoord) : At(toCoord, "nonces") = {n} =>
              \E k \in 1 .. Len(toCoord') : At(toCoord', "nonces") = {k} /\ toCoord'[k] = toCoord[n]
<1> DEFINE q == toCoord
           t == Tail(toCoord)
<1>1. q \in Seq(CoordMsgs)
  BY DEF SignInv, SystemInv, LinkInv
<1>2. /\ t \in Seq(CoordMsgs) /\ Head(q) \in CoordMsgs /\ Head(q) = q[1]
      /\ Len(q) \in Nat \ {0} /\ Len(t) = Len(q) - 1
      /\ \A n \in 1 .. Len(q) - 1 : t[n] = q[n + 1]
      /\ \A ty : At(t, ty) = {n \in 1 .. Len(q) - 1 : n + 1 \in At(q, ty)}
      /\ \A ty : 1 \in At(q, ty) <=> Head(q).type = ty
  BY <1>1, PopAt
<1> HIDE DEF t
<1>3. /\ At(t, "nonces") = {n \in 1 .. Len(q) - 1 : n + 1 \in At(q, "nonces")}
      /\ At(t, "shares") = {n \in 1 .. Len(q) - 1 : n + 1 \in At(q, "shares")}
      /\ 1 \in At(q, "nonces") <=> Head(q).type = "nonces"
      /\ 1 \in At(q, "shares") <=> Head(q).type = "shares"
  BY <1>2
<1>4. ShareMsgs(t) \subseteq ShareMsgs(q)
  BY <1>2, <1>3 DEF ShareMsgs
<1>5. Head(q).type = "shares" => Head(q) \in ShareMsgs(q)
  BY <1>2, <1>3 DEF ShareMsgs
<1>6. At(q, "nonces") = {} => At(t, "nonces") = {}
  BY <1>3
<1>7. At(q, "nonces") = {1} => At(t, "nonces") = {}
  BY <1>2, <1>3
<1>8. ASSUME Head(q).type # "nonces", NEW n \in 1 .. Len(q), At(q, "nonces") = {n}
      PROVE  \E k \in 1 .. Len(t) : At(t, "nonces") = {k} /\ t[k] = q[n]
  <2>1. n # 1
    BY <1>3, <1>8
  <2>2. n - 1 \in 1 .. Len(t) /\ (n - 1) + 1 = n
    BY <1>2, <2>1
  <2>3. At(t, "nonces") = {n - 1} /\ t[n - 1] = q[n]
    <3>1. \A k \in 1 .. Len(q) - 1 : k + 1 = n <=> k = n - 1
      BY <1>2
    <3>2. At(t, "nonces") = {n - 1}
      BY <1>2, <1>3, <1>8, <2>2, <3>1
    <3>3. t[n - 1] = q[(n - 1) + 1]
      BY <1>2, <2>2
    <3> QED BY <2>2, <3>2, <3>3
  <2> QED BY <2>2, <2>3
<1> QED BY <1>2, <1>3, <1>4, <1>5, <1>6, <1>7, <1>8 DEF t

\* recv_device_message(NonceResponse).
LEMMA ReceiveNoncesKeeps ==
  ASSUME SignInv, ~crashed, toCoord # <<>>, toCoord' = Tail(toCoord),
         Head(toCoord).type = "nonces",
         IF Head(toCoord).segments = <<>> THEN UNCHANGED coordVars
         ELSE RecvNonces(dev, Head(toCoord).segments[1]),
         awaiting' = FALSE, replenishing' = (replenishing /\ (pending # <<>> \/ ~awaiting)),
         UNCHANGED <<dispatch, needRequest, deviceVars, prompt, panicked, toDevice, connected, pending,
                     cancelVars>>
  PROVE  Keeps
<1> DEFINE m == Head(toCoord)
           R == Requested(prompt, toDevice)
           M == ShareMsgs(toCoord)
<1>1. /\ toCoord' \in Seq(CoordMsgs) /\ m = toCoord[1]
      /\ ShareMsgs(toCoord') \subseteq M
      /\ 1 \in At(toCoord, "nonces")
      /\ At(toCoord, "nonces") = {1} => At(toCoord', "nonces") = {}
  BY TakeFirst
<1>2. awaiting /\ Quiet(slots, prompt, toDevice) /\ Answered(slots, opening, tasks, batch, toCoord)
  BY <1>1 DEF SignInv, SystemInv, TokenInv, NoToken, Token, Sent, Opening, Planned, Working
<1>3. /\ At(toCoord, "nonces") = {1} /\ AnswerOK(slots, m)
      /\ opening = <<>> /\ tasks = <<>> /\ batch = <<>>
  BY <1>1, <1>2 DEF Answered
<1>4. UNCHANGED <<slots, opening, tasks, batch, nextSeed, cancelling>>
  BY DEF deviceVars, cancelVars
<1>5. Agree(slots, cache[dev], active, R, M) /\ SlotsOK(slots)
  BY DEF SignInv, SystemInv, Agree
<1> HIDE DEF m
<1>6. /\ Agree(slots, cache'[dev], active, R, M)
      /\ UNCHANGED <<active, finished, holders, crashed>>
      /\ [CoordNext(AllSegments)]_coordVars
  <2>1. CASE m.segments = <<>>
    BY <1>5, <2>1 DEF m, coordVars
  <2>2. CASE m.segments # <<>>
    <3>1. PICK seg : /\ m.segments = <<seg>> /\ seg = m.segments[1]
                     /\ SegmentHeld(slots, seg) /\ ~Overflows(seg)
                     /\ seg.index = SlotOf(slots, seg.stream).index
      BY <1>3, <2>2 DEF AnswerOK
    <3>2. RecvNonces(dev, seg)
      BY <2>2, <3>1 DEF m
    <3>3. ASSUME NEW s \in DOMAIN active, On(s) = seg.stream PROVE seg.index <= Ends(s)
      <4>1. SessionHeld(slots, s) /\ Signable(slots, s)
        BY <1>5 DEF Agree, SessionsOK
      <4> QED BY <1>5, <3>1, <3>3, <4>1, SignableBound
    <3>4. ASSUME NEW p \in R, On(p) = seg.stream PROVE seg.index >= Ends(p)
      <4>1. p = prompt.session /\ prompt # None
        BY <1>2, NothingAt DEF Requested, Quiet
      <4>2. Done(slots, p) /\ SessionHeld(slots, p)
        BY <1>2, <1>5, <4>1 DEF Quiet, Agree, RequestOK
      <4>3. SlotOf(slots, On(p)).index = Ends(p) /\ SlotOf(slots, On(p)).index \in Nat
        BY <1>5, <4>2, SignableBound
      <4> QED BY <3>1, <3>4, <4>3
    <3>5. seg.index >= SlotOf(slots, seg.stream).index
      <4>1. seg.index \in Nat
        BY <3>1 DEF SegmentHeld, Segments
      <4> QED BY <3>1, <4>1
    <3> HIDE DEF R, M
    <3>6. /\ Agree(slots, ExtendSegment(cache, dev, seg)[dev], active, R, M)
          /\ seg \in SegmentsOf(Nonces)
      BY <1>5, <3>1, <3>3, <3>4, <3>5, ExtendAgrees
    <3>7. CoordNext(AllSegments)
      BY <3>2, <3>6, SystemAssumption DEF CoordNext, AllSegments
    <3> QED BY <3>2, <3>6, <3>7 DEF RecvNonces
  <2> QED BY <2>1, <2>2
<1>7. TokenInv'
  <2>1. At(toDevice, "open") = {}
    BY <1>2, NothingAt DEF Quiet
  <2>2. NoToken(toDevice', opening', tasks', batch', toCoord')
    BY <1>1, <1>3, <1>4, <2>1 DEF NoToken
  <2> QED BY <1>4, <2>2 DEF SignInv, SystemInv, TokenInv
<1>8. LinkInv'
  BY <1>1, <1>4, <1>6 DEF SignInv, SystemInv, LinkInv, ActiveSessions
<1>9. Agree(slots, cache'[dev], active, R, ShareMsgs(toCoord'))
  BY <1>1, <1>6, AgreeOnFewer
<1> QED BY <1>4, <1>6, <1>7, <1>8, <1>9 DEF Keeps, SignInv, SystemInv

\* A message with shares leaves the request for nonces where it is.
LEMMA TokenStays ==
  ASSUME SignInv, toCoord # <<>>, toCoord' = Tail(toCoord), Head(toCoord).type = "shares",
         dispatch' = None \/ dispatch' = dispatch,
         UNCHANGED <<slots, prompt, toDevice, opening, tasks, batch, replenishing, awaiting, cancelling>>
  PROVE  TokenInv'
<1>1. /\ At(toCoord, "nonces") = {} => At(toCoord', "nonces") = {}
      /\ \A n \in 1 .. Len(toCoord) : At(toCoord, "nonces") = {n} =>
           \E k \in 1 .. Len(toCoord') : At(toCoord', "nonces") = {k} /\ toCoord'[k] = toCoord[n]
  BY TakeFirst
<1>2. NoToken(toDevice, opening, tasks, batch, toCoord) => NoToken(toDevice, opening, tasks, batch, toCoord')
  BY <1>1 DEF NoToken
<1>3. Sent(toDevice, opening, tasks, batch, toCoord) => Sent(toDevice, opening, tasks, batch, toCoord')
  BY <1>1 DEF Sent
<1>4. Opening(opening, tasks, batch, toCoord) => Opening(opening, tasks, batch, toCoord')
  BY <1>1 DEF Opening
<1>5. Planned(slots, opening, tasks, batch, toCoord) => Planned(slots, opening, tasks, batch, toCoord')
  BY <1>1 DEF Planned
<1>6. Working(slots, opening, tasks, batch, toCoord) => Working(slots, opening, tasks, batch, toCoord')
  BY <1>1 DEF Working
<1>7. Answered(slots, opening, tasks, batch, toCoord) => Answered(slots, opening, tasks, batch, toCoord')
  BY <1>1 DEF Answered
<1>8. Token(slots, prompt, toDevice, opening, tasks, batch, toCoord) =>
        Token(slots, prompt, toDevice, opening, tasks, batch, toCoord')
  BY <1>3, <1>4, <1>5, <1>6, <1>7 DEF Token
<1> QED BY <1>2, <1>8 DEF SignInv, SystemInv, TokenInv

\* recv_device_message(SignatureShare): the shares of an active session are all it
\* needs, verify, and close it without an assertion failing.
LEMMA ReceiveSharesKeeps ==
  ASSUME SignInv, ~crashed, toCoord # <<>>, toCoord' = Tail(toCoord), NEW m, m = Head(toCoord),
         m.type = "shares", RecvShares(dev, m.session, m.used, m.replenish),
         IF dispatch = m.session /\ dispatch \notin DOMAIN active'
           THEN dispatch' = None /\ needRequest' = FALSE
           ELSE UNCHANGED <<dispatch, needRequest>>,
         UNCHANGED <<awaiting, replenishing, deviceVars, prompt, panicked, toDevice, connected, pending,
                     cancelVars>>
  PROVE  Keeps
<1> DEFINE s == m.session
           R == Requested(prompt, toDevice)
           M == ShareMsgs(toCoord)
           c == Replenished(dev, m.replenish)
<1>1. /\ toCoord' \in Seq(CoordMsgs) /\ ShareMsgs(toCoord') \subseteq M /\ m \in M
  BY TakeFirst
<1>2. Agree(slots, cache[dev], active, R, M) /\ SlotsOK(slots) /\ ShareOK(slots, active, m)
  BY <1>1 DEF SignInv, SystemInv, Agree
<1>3. UNCHANGED <<slots, opening, tasks, batch, nextSeed, cancelling>>
  BY DEF deviceVars, cancelVars
<1>4. TokenInv'
  BY <1>3, TokenStays
<1>5. s \in SessionIds /\ s # None
  BY <1>2, SystemAssumption DEF ShareOK
<1>6. /\ toDevice \in Seq(DeviceMsgs) /\ Ordered(prompt, toDevice)
      /\ cancelling = 0 => Superseded(slots, prompt, toDevice, dispatch)
  BY DEF SignInv, SystemInv, LinkInv
<1>7. CASE s \notin ActiveSessions
  <2>1. UNCHANGED coordVars
    BY <1>7 DEF RecvShares, AcceptShares
  <2>2. UNCHANGED <<cache, active, finished, holders, crashed>>
    BY <2>1 DEF coordVars
  <2>3. dispatch # s
    BY <1>5, <1>7 DEF SignInv, SystemInv, LinkInv
  <2>4. UNCHANGED <<dispatch, needRequest>>
    BY <2>3
  <2>5. Agree(slots, cache[dev], active, R, ShareMsgs(toCoord'))
    BY <1>1, <1>2, AgreeOnFewer
  <2>6. LinkInv'
    BY <1>1, <1>3, <2>2, <2>4 DEF SignInv, SystemInv, LinkInv, ActiveSessions
  <2> QED BY <1>3, <1>4, <2>1, <2>2, <2>4, <2>5, <2>6 DEF Keeps, SignInv, SystemInv
<1>8. CASE s \in ActiveSessions
  <2>1. /\ Parties(s) = {dev} /\ active[s] \in [sent : SUBSET {dev}, got : {{}}]
    BY <1>8, ActiveFacts
  <2>2. /\ m.used = s.nonces[dev].nonces /\ dev \in active[s].sent /\ Done(slots, s)
        /\ Asked(active, s)
    BY <1>2, <1>8 DEF ShareOK, ActiveSessions, Asked, Done
  <2>3. AcceptShares(dev, s, m.used) /\ active[s].got \cup {dev} = Parties(s)
    BY <1>8, <2>1, <2>2 DEF AcceptShares, SignInv, SystemInv
  <2>4. /\ Agree(slots, c[dev], active, R, M)
        /\ m.replenish \in {<<>>} \cup {<<seg>> : seg \in SegmentsOf(Nonces)}
    <3>1. CASE m.replenish = <<>>
      BY <1>2, <3>1 DEF Replenished
    <3>2. CASE m.replenish # <<>>
      <4>1. PICK seg : /\ m.replenish = <<seg>> /\ seg = m.replenish[1]
                       /\ SegmentHeld(slots, seg) /\ ~Overflows(seg)
                       /\ seg.stream = On(s) /\ seg.index <= Ends(s)
        BY <1>2, <3>2 DEF ShareOK
      <4>2. ~Unasked(active, seg.stream)
        BY <1>8, <2>2, <4>1 DEF Unasked, ActiveSessions
      <4>3. \A r \in DOMAIN active : On(r) = seg.stream => seg.index <= Ends(r)
        BY <1>2, <1>8, <4>1 DEF Agree, SessionsOK, ActiveSessions
      <4> HIDE DEF R, M
      <4>4. /\ Agree(slots, ExtendSegment(cache, dev, seg)[dev], active, R, M)
            /\ seg \in SegmentsOf(Nonces)
        BY <1>2, <4>1, <4>2, <4>3, ExtendAgrees
      <4> QED BY <3>2, <4>1, <4>4 DEF Replenished
    <3> QED BY <3>1, <3>2
  <2>5. CanConsume(c, {s}) /\ Agree(slots, Consume(c, {s})[dev], Without({s}), R, M)
    <3> HIDE DEF c, R, M, s
    <3> QED BY <1>8, <2>4, CloseAgrees
  <2>6. /\ active' = Without({s}) /\ cache' = Consume(c, {s})
        /\ UNCHANGED <<holders, crashed>>
    BY <2>3, <2>5 DEF RecvShares, CompletedCache
  <2>7. DOMAIN active' = ActiveSessions \ {s}
    BY <2>6 DEF Without
  <2>8. /\ dispatch = s => dispatch' = None /\ needRequest' = FALSE
        /\ dispatch # s => UNCHANGED <<dispatch, needRequest>>
    BY <2>7
  <2>9. cancelling = 0 => Superseded(slots, prompt, toDevice, dispatch')
    <3>1. CASE dispatch = s
      BY <1>6, <2>2, <3>1, SupersededKept
    <3>2. CASE dispatch # s
      BY <1>6, <2>8, <3>2
    <3> QED BY <3>1, <3>2
  <2>10. LinkInv'
    BY <1>1, <1>3, <2>7, <2>8 DEF SignInv, SystemInv, LinkInv, ActiveSessions
  <2>11. Agree(slots, Consume(c, {s})[dev], Without({s}), R, ShareMsgs(toCoord'))
    BY <1>1, <2>5, AgreeOnFewer
  <2>12. CoordNext(AllSegments)
    <3>1. m.replenish \in {<<>>} \cup {<<seg>> : seg \in AllSegments[dev]}
      BY <2>4, SystemAssumption DEF AllSegments
    <3>2. GoodShares(AllSegments)
      BY <1>8, <2>2, <3>1 DEF GoodShares
    <3> QED BY <3>2 DEF CoordNext
  <2> HIDE DEF c, R, M, s
  <2>13. Agree(slots, cache[dev], active, Requested(prompt, toDevice), ShareMsgs(toCoord))'
    BY <1>3, <2>6, <2>11 DEF R
  <2> QED BY <1>3, <1>4, <2>6, <2>9, <2>10, <2>12, <2>13 DEF Keeps, SignInv, SystemInv
<1> QED BY <1>7, <1>8

\* The coordinator takes a message.
LEMMA CoordReceiveKeeps ==
  ASSUME SignInv, ~crashed, CoordReceive
  PROVE  Keeps
<1> DEFINE m == Head(toCoord)
<1>1. /\ toCoord # <<>> /\ toCoord' = Tail(toCoord)
      /\ UNCHANGED <<deviceVars, prompt, panicked, toDevice, connected, pending, cancelVars>>
  BY DEF CoordReceive
<1>2. CASE /\ m.type = "nonces"
           /\ IF m.segments = <<>> THEN UNCHANGED coordVars ELSE RecvNonces(dev, m.segments[1])
           /\ awaiting' = FALSE
           /\ replenishing' = (replenishing /\ (pending # <<>> \/ ~awaiting))
           /\ UNCHANGED <<dispatch, needRequest>>
  BY <1>1, <1>2, ReceiveNoncesKeeps
<1>3. CASE /\ m.type = "shares"
           /\ RecvShares(dev, m.session, m.used, m.replenish)
           /\ IF dispatch = m.session /\ dispatch \notin DOMAIN active'
                THEN dispatch' = None /\ needRequest' = FALSE
                ELSE UNCHANGED <<dispatch, needRequest>>
           /\ UNCHANGED <<awaiting, replenishing>>
  BY <1>1, <1>3, ReceiveSharesKeeps
<1> QED BY <1>2, <1>3 DEF CoordReceive

----------------------------------------------------------------------------
(* The streams that were drawn *)

\* The queues of requests: what is sent and received was drawn.
LEMMA DrawnQueues ==
  ASSUME SignInv, Drawn
  PROVE  /\ \A m \in DeviceMsgs :
              m.type # "open" \/ m.state.stream \in usedIds =>
                \A n \in At(Append(toDevice, m), "open") : Append(toDevice, m)[n].state.stream \in usedIds
         /\ toDevice # <<>> =>
              /\ \A n \in At(Tail(toDevice), "open") : Tail(toDevice)[n].state.stream \in usedIds
              /\ Head(toDevice).type = "open" => Head(toDevice).state.stream \in usedIds
         /\ pending # <<>> =>
              /\ Head(pending) \in States /\ Head(pending).stream \in usedIds
              /\ \A n \in 1 .. Len(Tail(pending)) : Tail(pending)[n].stream \in usedIds
<1>1. toDevice \in Seq(DeviceMsgs) /\ pending \in Seq(States)
  BY DEF SignInv, SystemInv, LinkInv
<1>2. \A n \in At(toDevice, "open") : n \in 1 .. Len(toDevice) /\ toDevice[n].state.stream \in usedIds
  BY DEF Drawn, At
<1>3. ASSUME NEW m \in DeviceMsgs, m.type # "open" \/ m.state.stream \in usedIds,
             NEW n \in At(Append(toDevice, m), "open")
      PROVE  Append(toDevice, m)[n].state.stream \in usedIds
  <2> DEFINE q == toDevice
             new == Append(toDevice, m)
  <2>a. /\ \A k \in 1 .. Len(q) : new[k] = q[k]
        /\ new[Len(q) + 1] = m
        /\ \A t : m.type = t => At(new, t) = At(q, t) \cup {Len(q) + 1}
        /\ \A t : m.type # t => At(new, t) = At(q, t)
    BY <1>1, PushAt
  <2> HIDE DEF q, new
  <2>b. /\ m.type = "open" => At(new, "open") = At(q, "open") \cup {Len(q) + 1}
        /\ m.type # "open" => At(new, "open") = At(q, "open")
    BY <2>a
  <2>1. /\ \A k \in 1 .. Len(toDevice) : Append(toDevice, m)[k] = toDevice[k]
        /\ Append(toDevice, m)[Len(toDevice) + 1] = m
        /\ m.type = "open" => At(Append(toDevice, m), "open") = At(toDevice, "open") \cup {Len(toDevice) + 1}
        /\ m.type # "open" => At(Append(toDevice, m), "open") = At(toDevice, "open")
    BY <2>a, <2>b DEF q, new
  <2>2. CASE n \in At(toDevice, "open")
    BY <1>2, <2>1, <2>2
  <2>3. CASE m.type = "open" /\ n = Len(toDevice) + 1
    BY <1>3, <2>1, <2>3
  <2> QED BY <1>3, <2>1, <2>2, <2>3
<1>4. ASSUME toDevice # <<>>
      PROVE  /\ \A n \in At(Tail(toDevice), "open") : Tail(toDevice)[n].state.stream \in usedIds
             /\ Head(toDevice).type = "open" => Head(toDevice).state.stream \in usedIds
  <2>1. /\ Head(toDevice) = toDevice[1]
        /\ \A n \in 1 .. Len(toDevice) - 1 : Tail(toDevice)[n] = toDevice[n + 1]
        /\ At(Tail(toDevice), "open") = {n \in 1 .. Len(toDevice) - 1 : n + 1 \in At(toDevice, "open")}
        /\ 1 \in At(toDevice, "open") <=> Head(toDevice).type = "open"
    BY <1>1, <1>4, PopAt
  <2> QED BY <1>2, <2>1
<1>5. ASSUME pending # <<>>
      PROVE  /\ Head(pending) \in States /\ Head(pending).stream \in usedIds
             /\ \A n \in 1 .. Len(Tail(pending)) : Tail(pending)[n].stream \in usedIds
  <2>1. /\ Len(pending) \in Nat \ {0} /\ Len(Tail(pending)) = Len(pending) - 1
        /\ \A n \in 1 .. Len(pending) - 1 : Tail(pending)[n] = pending[n + 1]
        /\ Head(pending) = pending[1] /\ Head(pending) \in States
    BY <1>1, <1>5, PopAt
  <2>2. 1 \in 1 .. Len(pending) /\ \A n \in 1 .. Len(pending) - 1 : n + 1 \in 1 .. Len(pending)
    BY <2>1
  <2> QED BY <2>1, <2>2 DEF Drawn
<1> QED BY <1>3, <1>4, <1>5

\* What is asked for: new ids, and the streams of the cache.
LEMMA RequestsDrawn ==
  ASSUME IsFiniteSet(Streams), SignInv, Drawn, NEW fresh \in SUBSET Streams
  PROVE  \A n \in 1 .. Len(OpeningRequests(fresh)) : OpeningRequests(fresh)[n].stream \in usedIds \cup fresh
<1> DEFINE T == usedIds \cup fresh
           ids == Ascending(fresh) \o Ascending(DOMAIN cache[dev])
<1>1. DOMAIN cache[dev] \subseteq usedIds
  <2>1. ASSUME NEW x \in DOMAIN cache[dev] PROVE x \in usedIds
    <3>1. Held(slots, x) /\ x \in Streams
      BY CacheFacts DEF SignInv, SystemInv, Agree, CacheHeld, SegmentHeld
    <3>2. x # None
      BY <3>1, SystemAssumption
    <3> QED BY <3>1, <3>2 DEF Held, Drawn
  <2> QED BY <2>1
<1>2. ASSUME NEW S \in SUBSET T PROVE Ascending(S) \in Seq(T)
  <2>1. IsFiniteSet(S) /\ S \in SUBSET Nat
    <3>1. S \subseteq Streams
      BY <1>2 DEF Drawn
    <3> QED BY <3>1, FS_Subset, CoordAssumption
  <2>2. Ascending(S) \in [1 .. Cardinality(S) -> S] /\ Cardinality(S) \in Nat
    BY <2>1, AscendingExists
  <2>3. Ascending(S) \in [1 .. Cardinality(S) -> T]
    BY <1>2, <2>2
  <2> HIDE DEF T
  <2> QED BY <2>2, <2>3, IsASeq
<1>3. ids \in Seq(T)
  <2>1. fresh \in SUBSET T /\ DOMAIN cache[dev] \in SUBSET T
    BY <1>1
  <2> HIDE DEF T
  <2> QED BY <1>2, <2>1, ConcatProperties
<1>4. OpeningRequests(fresh) = [n \in 1 .. Len(ids) |-> StreamState(ids[n])]
  BY DEF OpeningRequests
<1>5. \A x : StreamState(x).stream = x
  BY DEF StreamState
<1> HIDE DEF ids, T
<1>6. Len(ids) \in Nat /\ \A n \in 1 .. Len(ids) : ids[n] \in T
  BY <1>3, LenProperties, ElementOfSeq
<1>7. Len(OpeningRequests(fresh)) = Len(ids)
  BY <1>4, <1>6
<1> QED BY <1>4, <1>5, <1>6, <1>7 DEF T

\* sign_ack leaves every slot its stream.
LEMMA SignKeepsStreams ==
  ASSUME SignInv, Drawn, NEW j, NEW p, NEW k,
         slots' = [slots EXCEPT ![j] = D!SlotToWrite(slots[j], p, k)]
  PROVE  \A i \in D!SlotIds : slots'[i].stream \in usedIds \cup {None}
<1>1. SlotsOK(slots)
  BY DEF SignInv, SystemInv, Agree
<1>2. ASSUME NEW v, ValueOK(v) PROVE D!SlotToWrite(v, p, k).stream = v.stream
  <2>1. v = [stream |-> v.stream, index |-> v.index, seed |-> v.seed,
             last_used |-> v.last_used, session |-> v.session, shares |-> v.shares]
    BY <1>2 DEF ValueOK
  <2> QED BY <2>1 DEF D!SlotToWrite, D!Signed
<1>3. ASSUME NEW i \in D!SlotIds PROVE slots'[i].stream = slots[i].stream
  <2>1. ValueOK(slots[i]) /\ i \in DOMAIN slots
    BY <1>1 DEF SlotsOK
  <2>2. CASE i = j
    BY <1>2, <2>1, <2>2
  <2>3. CASE i # j
    BY <2>1, <2>3
  <2> QED BY <2>2, <2>3
<1> QED BY <1>3 DEF Drawn

\* A step that draws no ids and leaves the slots alone, or writes streams that were
\* drawn.
LEMMA DrawnUnchanged ==
  ASSUME SignInv, Drawn, usedIds' = usedIds,
         \/ UNCHANGED slots
         \/ \A i \in D!SlotIds : slots'[i].stream \in usedIds \cup {None},
         UNCHANGED pending \/ pending' = <<>> \/ (pending # <<>> /\ pending' = Tail(pending)),
         \/ UNCHANGED toDevice \/ toDevice' = <<>>
         \/ toDevice # <<>> /\ toDevice' = Tail(toDevice)
         \/ \E m \in DeviceMsgs : /\ m.type # "open" \/ m.state.stream \in usedIds
                                  /\ toDevice' = Append(toDevice, m),
         UNCHANGED opening \/ opening' = <<>> \/ opening'[1].stream \in usedIds
  PROVE  Drawn'
<1>1. \A i \in D!SlotIds : slots'[i].stream \in usedIds \cup {None}
  BY DEF Drawn
<1>2. \A n \in 1 .. Len(pending') : pending'[n].stream \in usedIds
  <2>1. CASE UNCHANGED pending
    BY <2>1 DEF Drawn
  <2>2. CASE pending' = <<>>
    BY <2>2
  <2>3. CASE pending # <<>> /\ pending' = Tail(pending)
    BY <2>3, DrawnQueues
  <2> QED BY <2>1, <2>2, <2>3
<1>3. \A n \in At(toDevice', "open") : toDevice'[n].state.stream \in usedIds
  <2>1. CASE UNCHANGED toDevice
    BY <2>1 DEF Drawn
  <2>2. CASE toDevice' = <<>>
    BY <2>2, NothingAt
  <2>3. CASE toDevice # <<>> /\ toDevice' = Tail(toDevice)
    BY <2>3, DrawnQueues
  <2>4. CASE \E m \in DeviceMsgs : /\ m.type # "open" \/ m.state.stream \in usedIds
                                   /\ toDevice' = Append(toDevice, m)
    BY <2>4, DrawnQueues
  <2> QED BY <2>1, <2>2, <2>3, <2>4
<1>4. opening' # <<>> => opening'[1].stream \in usedIds
  BY DEF Drawn
<1>5. usedIds \subseteq Streams
  BY DEF Drawn
<1> QED BY <1>1, <1>2, <1>3, <1>4, <1>5 DEF Drawn

\* Every step draws the ids it asks for.
LEMMA DrawnSteps ==
  ASSUME IsFiniteSet(Streams), SignInv, Drawn, [Next]_vars
  PROVE  Drawn'
<1>1. CASE StartReplenish
  <2>1. PICK fresh \in SUBSET (Streams \ usedIds) :
          pending' = OpeningRequests(fresh) /\ usedIds' = usedIds \cup fresh
    BY <1>1 DEF StartReplenish
  <2>2. UNCHANGED <<slots, opening, toDevice>>
    BY <1>1 DEF StartReplenish, deviceVars, linkVars
  <2>3. \A n \in 1 .. Len(pending') : pending'[n].stream \in usedIds'
    BY <2>1, RequestsDrawn
  <2>4. usedIds \subseteq usedIds' /\ usedIds' \subseteq Streams
    BY <2>1 DEF Drawn
  <2> QED BY <2>2, <2>3, <2>4 DEF Drawn
<1>2. CASE SendOpening
  <2> DEFINE m == OpenMsg(Head(pending))
  <2>1. /\ pending # <<>> /\ toDevice' = Append(toDevice, m) /\ pending' = Tail(pending)
        /\ UNCHANGED <<slots, opening, usedIds>>
    BY <1>2 DEF SendOpening, Send, deviceVars
  <2>2. m \in DeviceMsgs /\ m.state.stream \in usedIds
    BY <2>1, DrawnQueues, DeviceMsgKinds DEF OpenMsg
  <2> HIDE DEF m
  <2> QED BY <2>1, <2>2, DrawnUnchanged
<1>3. CASE RequestSign
  <2>1. /\ toDevice' = Append(toDevice, SignMsg(dispatch))
        /\ UNCHANGED <<slots, opening, usedIds, pending>> /\ dispatch \in ActiveSessions
    BY <1>3 DEF RequestSign, RequestDeviceSign, Send, deviceVars
  <2>2. SignMsg(dispatch) \in DeviceMsgs /\ SignMsg(dispatch).type # "open"
    BY <2>1, ActiveFacts, DeviceMsgKinds
  <2> QED BY <2>1, <2>2, DrawnUnchanged
<1>4. ASSUME AbortProtocols, UNCHANGED <<slots, opening, usedIds, toDevice>> PROVE Drawn'
  <2>1. pending' = <<>>
    BY <1>4 DEF AbortProtocols
  <2> QED BY <1>4, <2>1, DrawnUnchanged
<1>5. CASE CancelProtocol
  BY <1>4, <1>5 DEF CancelProtocol, deviceVars, linkVars
<1>6. ASSUME NEW s \in ActiveSessions, CancelSession(s) PROVE Drawn'
  <2>1. UNCHANGED <<slots, opening, usedIds, toDevice>>
    BY <1>6 DEF CancelSession, deviceVars, linkVars
  <2>2. CASE dispatch = s
    BY <1>4, <1>6, <2>1, <2>2 DEF CancelSession
  <2>3. CASE dispatch # s
    <3>1. UNCHANGED pending
      BY <1>6, <2>3 DEF CancelSession
    <3> QED BY <2>1, <3>1, DrawnUnchanged
  <2> QED BY <2>2, <2>3
<1>7. CASE ReceiveOpen
  <2> DEFINE st == Head(toDevice).state
  <2>1. /\ toDevice # <<>> /\ Head(toDevice).type = "open" /\ toDevice' = Tail(toDevice)
        /\ D!OpenNonceStreams(<<st>>, <<>>) \/ D!OpenNonceStreams(<<>>, <<st>>)
        /\ UNCHANGED <<usedIds, pending>>
    BY <1>7 DEF ReceiveOpen, Receives, protocolVars
  <2>2. st.stream \in usedIds
    BY <2>1, DrawnQueues
  <2> HIDE DEF st
  <2>3. <<st>> \o <<>> = <<st>> /\ <<>> \o <<st>> = <<st>> /\ Len(<<st>>) = 1
    OBVIOUS
  <2>4. (IF 1 < NSlots THEN 1 ELSE NSlots) = 1
    BY SystemAssumption
  <2>5. SubSeq(<<st>>, 1, 1) = <<st>>
    BY <2>3, SubSeqFull, <<st>> \in Seq({st})
  <2>6. opening' = <<st>> /\ UNCHANGED slots
    BY <2>1, <2>3, <2>4, <2>5 DEF D!OpenNonceStreams
  <2>7. opening'[1].stream \in usedIds
    BY <2>2, <2>6
  <2> QED BY <2>1, <2>6, <2>7, DrawnUnchanged
<1>8. CASE OpenStream
  <2> DEFINE st == Head(opening)
             i == D!GetOrCreate(st.stream)
             value == IF slots[i].stream # st.stream
                        THEN D!Initialized(st.stream, lastUsed + 1, nextSeed) ELSE slots[i]
  <2>1. /\ opening # <<>> /\ slots' = [slots EXCEPT ![i] = value] /\ opening' = Tail(opening)
        /\ UNCHANGED <<toDevice, usedIds, pending>>
    BY <1>8 DEF OpenStream, D!OpenStream, protocolVars
  <2>2. \E e : opening = <<e>>
    <3>1. ~NoToken(toDevice, opening, tasks, batch, toCoord)
      BY <2>1 DEF NoToken
    <3> QED BY <2>1, <3>1
          DEF SignInv, SystemInv, TokenInv, Token, Sent, Opening, Planned, Working, Answered
  <2>3. opening' = <<>> /\ st = opening[1]
    BY <2>1, <2>2
  <2>4. st.stream \in usedIds
    BY <2>1, <2>3 DEF Drawn
  <2> HIDE DEF st
  <2>5. value.stream = st.stream
    BY DEF D!Initialized
  <2> HIDE DEF i, value
  <2>6. ASSUME NEW n \in D!SlotIds PROVE slots'[n].stream \in usedIds \cup {None}
    <3>1. n \in DOMAIN slots
      BY DEF SignInv, SystemInv, Agree, SlotsOK
    <3>2. slots'[n] = IF n = i THEN value ELSE slots[n]
      BY <2>1, <3>1
    <3> QED BY <2>4, <2>5, <3>2 DEF Drawn
  <2> QED BY <2>1, <2>3, <2>6, DrawnUnchanged
<1>9. CASE ConfirmSign
  <2>1. UNCHANGED <<toDevice, usedIds, pending, opening>>
    BY <1>9 DEF ConfirmSign, protocolVars, D!Sign, deviceVars
  <2>2. \/ UNCHANGED slots
        \/ slots' = [slots EXCEPT ![D!First(D!Holding(prompt.state.stream))] =
                       D!SlotToWrite(slots[D!First(D!Holding(prompt.state.stream))],
                                     prompt.session, prompt.state.index)]
    BY <1>9 DEF ConfirmSign, D!Sign, deviceVars
  <2>3. UNCHANGED slots \/ \A i \in D!SlotIds : slots'[i].stream \in usedIds \cup {None}
    BY <2>2, SignKeepsStreams
  <2> QED BY <2>1, <2>3, DrawnUnchanged
<1>10. CASE Unplug
  <2>1. toDevice' = <<>> /\ pending' = <<>> /\ UNCHANGED usedIds /\ opening' = <<>>
    BY <1>10 DEF Unplug, LinkBreaks, D!PowerLoss, D!SignPowerLoss, D!LoseMemory
  <2>2. \/ UNCHANGED slots
        \/ slots' = [slots EXCEPT ![D!First(D!Holding(prompt.state.stream))] =
                       D!SlotToWrite(slots[D!First(D!Holding(prompt.state.stream))],
                                     prompt.session, prompt.state.index)]
    BY <1>10 DEF Unplug, D!PowerLoss, D!SignPowerLoss
  <2>3. UNCHANGED slots \/ \A i \in D!SlotIds : slots'[i].stream \in usedIds \cup {None}
    BY <2>2, SignKeepsStreams
  <2> QED BY <2>1, <2>3, DrawnUnchanged
<1>11. CASE RestartApp
  <2>1. toDevice' = <<>> /\ pending' = <<>> /\ UNCHANGED <<usedIds, slots, opening>>
    BY <1>11 DEF RestartApp, LinkBreaks
  <2> QED BY <2>1, DrawnUnchanged
<1>12. CASE ReceiveSign \/ ReceiveCancel
  <2>1. toDevice # <<>> /\ toDevice' = Tail(toDevice) /\ UNCHANGED <<usedIds, slots, opening, pending>>
    BY <1>12 DEF ReceiveSign, ReceiveCancel, Receives, deviceVars, protocolVars
  <2> QED BY <2>1, DrawnUnchanged
<1>13. ASSUME \/ CoordReceive \/ StartBatch \/ FinishBatch \/ Connect_ \/ UNCHANGED vars
              \/ \E t \in Tasks : StartSigning(t)
              \/ \E s \in ActiveSessions : RestoreSigning(s)
       PROVE  Drawn'
  <2>1. UNCHANGED <<usedIds, slots, opening, pending, toDevice>>
    BY <1>13 DEF CoordReceive, StartBatch, D!StartBatch, FinishBatch, D!FinishBatch, Connect_,
                 StartSigning, RestoreSigning, deviceVars, linkVars, protocolVars, vars
  <2> QED BY <2>1, DrawnUnchanged
<1>14. CASE SendCancelAll
  <2>1. /\ UNCHANGED <<usedIds, slots, opening, pending>>
        /\ toDevice' = Append(toDevice, CancelMsg) \/ UNCHANGED toDevice
    BY <1>14 DEF SendCancelAll, Send, deviceVars, protocolVars
  <2>2. CancelMsg \in DeviceMsgs /\ CancelMsg.type # "open"
    BY DeviceMsgKinds
  <2> QED BY <2>1, <2>2, DrawnUnchanged
<1> QED BY <1>1, <1>2, <1>3, <1>5, <1>6, <1>7, <1>8, <1>9, <1>10, <1>11, <1>12, <1>13, <1>14
        DEF Next, Coordinator, DeviceLoop

----------------------------------------------------------------------------
(* The system *)

\* Nothing was sent and nothing is held.
LEMMA SystemStarts ==
  ASSUME Init
  PROVE  SignInv /\ Drawn
<1>1. /\ CoordInit /\ slots = [i \in D!SlotIds |-> D!Empty]
      /\ opening = <<>> /\ tasks = <<>> /\ batch = <<>> /\ nextSeed = 0
      /\ prompt = None /\ panicked = FALSE /\ connected = TRUE
      /\ toDevice = <<>> /\ toCoord = <<>>
      /\ dispatch = None /\ needRequest = FALSE
      /\ replenishing = FALSE /\ pending = <<>> /\ awaiting = FALSE
      /\ cancelling = 0
  BY DEF Init, D!Init
<1>2. cache[dev] = <<>> /\ active = <<>> /\ dev \in holders /\ ~crashed
  BY <1>1, SystemAssumption DEF CoordInit
<1>3. SlotsOK(slots)
  <2>1. ValueOK(D!Empty) /\ D!Empty.stream = None
    BY DEF D!Empty, ValueOK
  <2> HIDE DEF D!Empty
  <2> QED BY <1>1, <2>1 DEF SlotsOK
<1>4. DOMAIN cache[dev] = {} /\ DOMAIN active = {}
  BY <1>2, NoSessions
<1>5. Agree(slots, cache[dev], active, {}, {})
  BY <1>3, <1>4 DEF Agree, CacheHeld, SessionsOK, NotBehind
<1>6. LinkInv
  BY <1>1, EmptySeq DEF LinkInv
<1>7. TokenInv
  BY <1>1, NothingAt DEF TokenInv, NoToken
<1>8. SignInv
  BY <1>1, <1>2, <1>5, <1>6, <1>7, NothingRequested, CoordInitInvariant DEF SignInv, SystemInv
<1>9. Drawn
  <2>1. D!Empty.stream = None
    BY DEF D!Empty
  <2>2. usedIds = {} /\ Len(pending) = 0
    BY <1>1 DEF Init
  <2> HIDE DEF D!Empty
  <2> QED BY <1>1, <2>1, <2>2, NothingAt DEF Drawn
<1> QED BY <1>8, <1>9

\* Every step keeps the invariant, and is a step of the coordinator or none.
LEMMA SystemSteps ==
  ASSUME IsFiniteSet(Streams), ~CancelReplenish, EnoughSlots, SignInv, Drawn, [Next]_vars
  PROVE  SignInv' /\ Drawn' /\ [CoordNext(AllSegments)]_coordVars
<1>1. Keeps
  <2>1. CASE Next
    <3>1. ~crashed
      BY DEF SignInv, SystemInv
    <3>2. CASE Coordinator
      BY <3>1, <3>2, SendOpeningKeeps, RequestSignKeeps, CoordReceiveKeeps DEF Coordinator
    <3>3. CASE DeviceLoop
      BY <3>3, ReceiveOpenKeeps, OpenStreamKeeps, StartBatchKeeps, FinishBatchKeeps,
         ReceiveSignKeeps, ReceiveCancelKeeps DEF DeviceLoop
    <3>4. CASE ConfirmSign \/ Connect_ \/ StartReplenish \/ CancelProtocol \/ SendCancelAll
               \/ Unplug \/ RestartApp
      BY <3>4, ConfirmSignKeeps, ConnectKeeps, StartReplenishKeeps, CancelProtocolKeeps,
         SendCancelAllKeeps, UnplugKeeps, RestartAppKeeps
    <3>5. ASSUME NEW t \in Tasks, StartSigning(t) PROVE Keeps
      BY <3>1, <3>5, StartSigningKeeps
    <3>6. ASSUME NEW s \in ActiveSessions, RestoreSigning(s) \/ CancelSession(s) PROVE Keeps
      BY <3>1, <3>6, RestoreSigningKeeps, CancelSessionKeeps
    <3> QED BY <2>1, <3>2, <3>3, <3>4, <3>5, <3>6 DEF Next
  <2>2. CASE UNCHANGED vars
    <3>1. UNCHANGED <<coordVars, deviceVars, prompt, panicked, linkVars, protocolVars, cancelVars>>
      BY <2>2 DEF vars
    <3>2. UNCHANGED <<cache, active, finished, holders, crashed, slots, opening, tasks, batch, nextSeed,
                      toDevice, toCoord, connected, dispatch, needRequest, replenishing, pending, awaiting,
                      cancelling>>
      BY <3>1 DEF coordVars, deviceVars, linkVars, protocolVars, cancelVars
    <3>3. TokenInv'
      BY <3>1, <3>2 DEF SignInv, SystemInv, TokenInv
    <3>4. LinkInv'
      BY <3>1, <3>2 DEF SignInv, SystemInv, LinkInv, ActiveSessions
    <3> QED BY <3>1, <3>2, <3>3, <3>4 DEF Keeps, SignInv, SystemInv
  <2> QED BY <2>1, <2>2
<1>2. AllSegments \in [Devices -> SUBSET SegmentsOf(Nonces)]
  BY DEF AllSegments
<1>3. CoordInvariant(Nonces)'
  BY <1>1, <1>2, CoordStepKeepsInvariant DEF Keeps, SignInv
<1> QED BY <1>1, <1>3, DrawnSteps DEF Keeps, SignInv

\* The invariant holds in every state of the system, as long as no more streams were
\* drawn than the device has slots.
LEMMA SystemAlwaysInvariant ==
  ASSUME IsFiniteSet(Streams), ~CancelReplenish
  PROVE  Spec /\ []EnoughSlots => [](SignInv /\ Drawn)
<1>1. Init => SignInv /\ Drawn
  BY SystemStarts
<1>2. EnoughSlots /\ SignInv /\ Drawn /\ [Next]_vars => SignInv' /\ Drawn'
  BY SystemSteps
<1> QED BY <1>1, <1>2, PTL DEF Spec

\* The device has the nonces or the shares of a session that is held.
LEMMA SessionCanBeAcked ==
  ASSUME SlotsOK(slots), NEW s, SessionHeld(slots, s), Signable(slots, s)
  PROVE  CanAck(SignMsg(s))
<1>1. s \in SessionIds /\ On(s) \in Streams /\ Held(slots, On(s)) /\ Ends(s) <= StreamIndexMax
  BY SessionNumbers DEF SessionHeld, MadeOf
<1>2. /\ SignMsg(s).session = s /\ SignMsg(s).state.stream = On(s) /\ SignMsg(s).state.index = From(s)
      /\ From(s) \in Nat /\ Ends(s) = From(s) + NSigsOf(s)
  BY <1>1, DeviceMsgKinds, SessionNumbers
<1> DEFINE v == slots[D!First(D!Holding(On(s)))]
<1>3. D!Holding(On(s)) # {} /\ v = SlotOf(slots, On(s))
  BY <1>1, GetFinds
<1>4. v.index \in Nat
  BY <1>1, <1>3, HeldSlot
<1>5. [r \in SessionIds |-> TaskSigs[r.task]][s] = NSigsOf(s)
  BY <1>1 DEF NSigsOf
<1> HIDE DEF v
<1>6. D!Cached(v, s) \/ D!NoncesAvailable(v, s, From(s))
  BY <1>1, <1>2, <1>3, <1>4, <1>5 DEF Signable, D!Cached, D!NoncesAvailable
<1> QED BY <1>2, <1>3, <1>6 DEF CanAck, v

\* The device never stops at "state changed while acking sign" or "failed to process
\* coordinator message": whatever was cancelled, unplugged or restarted in between, it
\* has the nonces of the request on its screen when its user confirms it.
THEOREM SignersNeverPanic ==
  ASSUME IsFiniteSet(Streams), ~CancelReplenish
  PROVE  Spec /\ []EnoughSlots => []DeviceNeverPanics
<1>1. SignInv => DeviceNeverPanics
  BY DEF SignInv, SystemInv, DeviceNeverPanics
<1> QED BY <1>1, SystemAlwaysInvariant, PTL

\* No assertion of the coordinator fails: the nonces of every session it closes and of
\* every segment a device sends follow those of its cache (consume, extend).
THEOREM SigningNeverCrashesCoordinator ==
  ASSUME IsFiniteSet(Streams), ~CancelReplenish
  PROVE  Spec /\ []EnoughSlots => []CoordinatorNeverCrashes
<1>1. SignInv => CoordinatorNeverCrashes
  BY DEF SignInv, SystemInv, CoordinatorNeverCrashes
<1> QED BY <1>1, SystemAlwaysInvariant, PTL

\* The coordinator never plans to use again a nonce that the device has used: in a
\* stream no session is using, its cache is not behind the device's slot.
THEOREM UnusedStreamsAreFresh ==
  ASSUME IsFiniteSet(Streams), ~CancelReplenish
  PROVE  Spec /\ []EnoughSlots => []CacheNotBehind
<1>1. ASSUME SignInv PROVE CacheNotBehind
  <2> SUFFICES ASSUME NEW x \in DOMAIN cache[dev] \ UsedStreams, NEW i \in D!Holding(x)
               PROVE  cache[dev][x].index >= slots[i].index
    BY DEF CacheNotBehind
  <2>1. Unasked(active, x)
    <3>1. ASSUME NEW s \in DOMAIN active, On(s) = x PROVE FALSE
      <4>1. dev \in Parties(s) /\ s \in ActiveSessions
        BY <1>1, <3>1, ActiveFacts DEF ActiveSessions
      <4>2. On(s) \in UsedStreams
        BY <4>1 DEF UsedStreams, On
      <4> QED BY <3>1, <4>2
    <3> QED BY <3>1 DEF Unasked
  <2>2. NotBehind(slots, cache[dev], active) /\ SlotsOK(slots)
    BY <1>1 DEF SignInv, SystemInv, Agree
  <2>3. x \in Streams /\ i \in D!SlotIds /\ slots[i].stream = x
    BY <1>1, CacheFacts DEF D!Holding
  <2>4. SlotOf(slots, x) = slots[i]
    BY <2>2, <2>3, SlotUnique
  <2> QED BY <2>1, <2>2, <2>4 DEF NotBehind
<1> QED BY <1>1, SystemAlwaysInvariant, PTL

\* The shares that reach the coordinator verify: they were made with the nonces of the
\* session they are sent for, also when they come out of the slot's cache.
THEOREM SharesMatchSessions ==
  ASSUME IsFiniteSet(Streams), ~CancelReplenish
  PROVE  Spec /\ []EnoughSlots => []SharesVerify
<1>1. ASSUME SignInv PROVE SharesVerify
  <2> SUFFICES ASSUME NEW n \in 1 .. Len(toCoord), toCoord[n].type = "shares"
               PROVE  toCoord[n].used = toCoord[n].session.nonces[dev].nonces
    BY DEF SharesVerify
  <2>1. toCoord[n] \in ShareMsgs(toCoord)
    BY DEF ShareMsgs, At
  <2> QED BY <1>1, <2>1 DEF SignInv, SystemInv, Agree, ShareOK
<1> QED BY <1>1, SystemAlwaysInvariant, PTL

\* A session that was interrupted can be restored: the device has its nonces, or the
\* shares it made with them (try_restore_signing_session).
THEOREM InterruptedSessionsCanBeSigned ==
  ASSUME IsFiniteSet(Streams), ~CancelReplenish
  PROVE  Spec /\ []EnoughSlots => []SessionsRestorable
<1>1. ASSUME SignInv PROVE SessionsRestorable
  <2> SUFFICES ASSUME NEW s \in ActiveSessions PROVE CanAck(SignMsg(s))
    BY DEF SessionsRestorable
  <2>1. SlotsOK(slots)
    BY <1>1 DEF SignInv, SystemInv, Agree
  <2> QED BY <1>1, <2>1, ActiveFacts, SessionCanBeAcked
<1> QED BY <1>1, SystemAlwaysInvariant, PTL

\* The coordinator that talks to the device over the link does what CoordSigning says
\* of a coordinator that may receive any segments: what is proved of CoordSpec holds of
\* it.
THEOREM SystemImplementsCoordinator ==
  ASSUME IsFiniteSet(Streams), ~CancelReplenish
  PROVE  Spec /\ []EnoughSlots => CoordSpec(AllSegments)
<1>1. Init => CoordInit
  BY DEF Init
<1>2. EnoughSlots /\ SignInv /\ Drawn /\ [Next]_vars => [CoordNext(AllSegments)]_coordVars
  BY SystemSteps
<1> QED BY <1>1, <1>2, SystemAlwaysInvariant, PTL DEF Spec, CoordSpec

=============================================================================
