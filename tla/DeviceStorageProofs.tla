----------------------- MODULE DeviceStorageProofs -----------------------
(* Proofs about what a device stores and gives up: its secret nonces, for  *)
(* every number of slots, streams and sessions, every batch size and every *)
(* width of the index, whatever the coordinators ask for; and the erase,   *)
(* for every number of sectors and of events.  The two share no state.     *)
EXTENDS DeviceNonces, EraseDevice, SequenceTheorems, WellFoundedInduction, TLAPS

-----------------------------------------------------------------------------
(* The nonce slots. *)

\* A non-empty set of naturals has a least element.
LEMMA LeastNatural ==
  ASSUME NEW S, S \subseteq Nat, S # {}
  PROVE  \E m \in S : \A k \in S : m <= k
<1>1. PICK m \in S : \A k \in S : ~ (<<k, m>> \in OpToRel(<, Nat))
  BY WFMin, NatLessThanWellFounded
<1>2. \A k \in S : ~ (k < m)
  BY <1>1 DEF OpToRel
<1> QED BY <1>2

\* The first slot of a set of slots is one of them.
LEMMA FirstInSet ==
  ASSUME NEW S, S \subseteq SlotIds, S # {}
  PROVE  First(S) \in S
<1>1. S \subseteq Nat
  BY BoundsAssumption DEF SlotIds
<1>2. \E m \in S : \A k \in S : m <= k
  BY <1>1, LeastNatural
<1> QED BY <1>2 DEF First

\* get_or_create finds a slot.
LEMMA GetOrCreateInSlots ==
  ASSUME slots \in [SlotIds -> SlotValues], NEW stream
  PROVE  GetOrCreate(stream) \in SlotIds
<1> DEFINE uses == {slots[i].last_used : i \in SlotIds}
           oldest == {i \in SlotIds : \A j \in SlotIds : slots[i].last_used <= slots[j].last_used}
<1>1. \A i \in SlotIds : slots[i].last_used \in Nat
  BY BoundsAssumption DEF SlotValues
<1>2. 1 \in SlotIds
  BY BoundsAssumption DEF SlotIds
<1>3. uses \subseteq Nat /\ uses # {}
  BY <1>1, <1>2
<1>4. PICK u \in uses : \A w \in uses : u <= w
  BY <1>3, LeastNatural
<1>5. oldest # {}
  BY <1>4
<1>6. First(oldest) \in SlotIds
  <2>1. oldest \subseteq SlotIds
    OBVIOUS
  <2> QED BY <1>5, <2>1, FirstInSet
<1>7. LeastRecentlyUsed \in SlotIds
  BY <1>6 DEF LeastRecentlyUsed
<1>8. ASSUME NEW S, S = Holding(stream) \cup Holding(None), S # {}
      PROVE  First(S) \in SlotIds
  <2>1. S \subseteq SlotIds
    BY <1>8 DEF Holding
  <2> QED BY <1>8, <2>1, FirstInSet
<1> QED BY <1>7, <1>8 DEF GetOrCreate

\* The counter AbSlots::new starts with is the one of a slot.
LEMMA NewestUseInBounds ==
  ASSUME NEW ss \in [SlotIds -> SlotValues]
  PROVE  /\ NewestUse(ss) \in 0 .. MaxUses
         /\ \A i \in SlotIds : ss[i].stream # None => ss[i].last_used <= NewestUse(ss)
<1> DEFINE used == {ss[i].last_used : i \in {j \in SlotIds : ss[j].stream # None}}
           left == {MaxUses - u : u \in used}
<1>1. used \subseteq 0 .. MaxUses
  BY DEF SlotValues
<1>2. NewestUse(ss) = IF used = {} THEN 0 ELSE CHOOSE u \in used : \A w \in used : w <= u
  BY DEF NewestUse
<1>3. \A i \in SlotIds : ss[i].stream # None => ss[i].last_used \in used
  OBVIOUS
<1> HIDE DEF used
<1>4. CASE used = {}
  BY <1>2, <1>3, <1>4, BoundsAssumption
<1>5. CASE used # {}
  <2>1. left \subseteq Nat /\ left # {}
    <3>1. \A u \in used : MaxUses - u \in Nat
      BY <1>1, BoundsAssumption
    <3> QED BY <1>5, <3>1
  <2>2. PICK l \in left : \A k \in left : l <= k
    <3> HIDE DEF left
    <3> QED BY <2>1, LeastNatural
  <2>3. PICK u \in used : l = MaxUses - u
    BY <2>2
  <2>4. \A w \in used : w <= u
    <3> SUFFICES ASSUME NEW w \in used PROVE w <= u
      OBVIOUS
    <3>1. MaxUses - w \in left
      OBVIOUS
    <3>2. MaxUses - u <= MaxUses - w
      BY <2>2, <2>3, <3>1
    <3>3. u \in Int /\ w \in Int
      BY <1>1
    <3> QED BY <3>2, <3>3, BoundsAssumption
  <2>5. NewestUse(ss) \in used /\ \A w \in used : w <= NewestUse(ss)
    BY <1>2, <1>5, <2>4
  <2> QED BY <1>1, <1>3, <2>5
<1> QED BY <1>4, <1>5

\* A slot that signed has a u32 index, and its shares their types.
LEMMA SlotToWriteType ==
  ASSUME NEW v \in SlotValues, NEW s \in Sessions, NEW i \in 0 .. IndexMax,
         Cached(v, s) \/ NoncesAvailable(v, s, i), lastUsed \in 0 .. MaxUses - 1
  PROVE  SlotToWrite(v, s, i) \in SlotValues
<1>1. CASE Cached(v, s)
  BY <1>1 DEF SlotToWrite
<1>2. CASE ~Cached(v, s)
  <2>1. NSigs[s] \in Nat \ {0} /\ i + NSigs[s] \in 0 .. IndexMax
    BY <1>2, SessionsAssumption, BoundsAssumption DEF NoncesAvailable
  <2>2. \A k \in 1 .. NSigs[s] : Share(s, k, v.seed, i + k - 1) \in Shares
    BY <2>1, BoundsAssumption DEF Share, Shares, SlotValues
  <2>3. lastUsed + 1 \in 0 .. MaxUses
    BY BoundsAssumption
  <2> QED BY <1>2, <2>1, <2>2, <2>3 DEF SlotToWrite, Signed, SlotValues
<1> QED BY <1>1, <1>2

\* Every state of the slots, of the message in hand and of the nonce jobs is
\* well typed, and every index is a u32.
THEOREM DeviceNoncesTypeOK == Spec => []TypeOK
<1> USE SessionsAssumption, BoundsAssumption
<1>1. Init => TypeOK
  BY EmptySeq DEF Init, TypeOK, SlotValues, Empty
<1>2. TypeOK /\ [Next]_vars => TypeOK'
  <2> SUFFICES ASSUME TypeOK, [Next]_vars PROVE TypeOK'
    OBVIOUS
  <2> USE DEF TypeOK
  <2>1. ASSUME NEW n \in 1 .. MaxOpen, NEW m \in 0 .. n,
               NEW existing \in Existing(m), NEW new \in New(n - m),
               OpenNonceStreams(existing, new)
        PROVE  TypeOK'
    <3>1. existing \in Seq(CoordStates) /\ new \in Seq(CoordStates)
      BY IsASeq DEF Existing, New
    <3>2. existing \o new \in Seq(CoordStates)
      BY <3>1, ConcatProperties
    <3>3. opening' \in Seq(CoordStates)
      BY <2>1, <3>2, SubSeqProperties DEF OpenNonceStreams
    <3> QED BY <2>1, <3>3 DEF OpenNonceStreams
  <2>2. CASE OpenStream
    <3> DEFINE state == Head(opening)
               i == GetOrCreate(state.stream)
               create == slots[i].stream # state.stream
               value == IF create THEN Initialized(state.stream, lastUsed + 1, nextSeed)
                                  ELSE slots[i]
    <3>1. state \in CoordStates /\ Tail(opening) \in Seq(CoordStates)
      BY <2>2, HeadTailProperties DEF OpenStream
    <3>2. state.stream \in Streams /\ state.index \in 0 .. IndexMax /\ state.remaining \in Nat
      BY <3>1 DEF CoordStates
    <3>3. i \in SlotIds
      BY GetOrCreateInSlots
    <3>4. lastUsed + 1 \in 0 .. MaxUses
      BY <2>2, SMTT(20) DEF OpenStream
    <3>5. value \in SlotValues /\ value.stream = state.stream
      <4>1. slots[i] \in SlotValues
        BY <3>3
      <4>2. Initialized(state.stream, lastUsed + 1, nextSeed) \in SlotValues
            /\ Initialized(state.stream, lastUsed + 1, nextSeed).stream = state.stream
        BY <3>2, <3>4 DEF SlotValues, Initialized, Empty
      <4> QED BY <4>1, <4>2
    <3>6. Reconcile(value, state) \in Seq(Jobs)
      <4> HIDE DEF value, state
      <4>1. Job(value, BatchSize) \in Jobs
        BY <3>2, <3>5 DEF Job, Jobs, SlotValues
      <4>2. state.index > value.index => Job(value, state.index - value.index) \in Jobs
        BY <3>2, <3>5 DEF Job, Jobs, SlotValues
      <4>3. value.index \in 0 .. IndexMax
        BY <3>5 DEF SlotValues
      <4> QED BY <3>2, <4>1, <4>2, <4>3 DEF Reconcile
    <3>7. tasks' \in Seq(Jobs)
      BY <2>2, <3>6, ConcatProperties DEF OpenStream
    <3>8. slots' \in [SlotIds -> SlotValues]
      BY <2>2, <3>3, <3>5 DEF OpenStream
    <3> QED BY <2>2, <3>1, <3>4, <3>7, <3>8 DEF OpenStream
  <2>3. CASE StartBatch
    BY <2>3, EmptySeq DEF StartBatch
  <2>4. CASE FinishBatch
    BY <2>4, EmptySeq DEF FinishBatch
  <2>5. ASSUME NEW s \in Sessions, NEW state \in CoordStates, CanSign(s, state)
        PROVE  /\ First(Holding(state.stream)) \in SlotIds
               /\ SlotToWrite(slots[First(Holding(state.stream))], s, state.index) \in SlotValues
    <3> DEFINE j == First(Holding(state.stream))
    <3>1. j \in SlotIds
      BY <2>5, FirstInSet DEF CanSign, Holding
    <3>2. slots[j] \in SlotValues /\ state.index \in 0 .. IndexMax /\ lastUsed \in 0 .. MaxUses - 1
      BY <2>5, <3>1 DEF CanSign, CoordStates
    <3>3. Cached(slots[j], s) \/ NoncesAvailable(slots[j], s, state.index)
      BY <2>5 DEF CanSign
    <3>4. SlotToWrite(slots[j], s, state.index) \in SlotValues
      BY <3>2, <3>3, SlotToWriteType
    <3> QED BY <3>1, <3>4
  <2>6. ASSUME NEW s \in Sessions, NEW state \in CoordStates, Sign(s, state)
        PROVE  TypeOK'
    <3> DEFINE j == First(Holding(state.stream))
               value == SlotToWrite(slots[j], s, state.index)
    <3>1. CanSign(s, state)
      BY <2>6 DEF Sign
    <3>2. j \in SlotIds /\ value \in SlotValues
      BY <2>5, <3>1
    <3>3. value.shares \in SUBSET Shares
      BY <3>2 DEF SlotValues
    <3>4. lastUsed' \in 0 .. MaxUses
      BY <2>6, <3>1 DEF Sign, CanSign
    <3>5. slots' = [slots EXCEPT ![j] = value] /\ released' = released \cup value.shares
      BY <2>6 DEF Sign
    <3> HIDE DEF j, value
    <3> QED BY <2>6, <3>2, <3>3, <3>4, <3>5 DEF Sign
  <2>7. ASSUME NEW s \in Sessions, NEW state \in CoordStates, SignPowerLoss(s, state)
        PROVE  TypeOK'
    <3> DEFINE j == First(Holding(state.stream))
               value == SlotToWrite(slots[j], s, state.index)
    <3>1. j \in SlotIds /\ value \in SlotValues
      BY <2>5, <2>7 DEF SignPowerLoss
    <3>2. Empty \in SlotValues
      BY DEF Empty, SlotValues
    <3>3. slots' = [slots EXCEPT ![j] = value] \/ slots' = [slots EXCEPT ![j] = Empty]
      BY <2>7 DEF SignPowerLoss
    <3>4. slots' \in [SlotIds -> SlotValues]
      <4> HIDE DEF j, value
      <4> QED BY <3>1, <3>2, <3>3
    <3>5. NewestUse(slots') \in 0 .. MaxUses
      BY <3>4, NewestUseInBounds
    <3> QED BY <2>7, <3>4, <3>5, EmptySeq DEF SignPowerLoss, LoseMemory
  <2>8. CASE PowerLoss
    BY <2>8, NewestUseInBounds, EmptySeq DEF PowerLoss, LoseMemory
  <2>9. CASE UNCHANGED vars
    BY <2>9 DEF vars
  <2> QED BY <2>1, <2>2, <2>3, <2>4, <2>6, <2>7, <2>8, <2>9 DEF Next
<1> QED BY <1>1, <1>2, PTL DEF Spec

\* What a slot is rewritten with when it signs: its cached shares again, or
\* new shares made with nonces at and after its index, each with its own,
\* and an index behind all of them.
LEMMA SignedSlot ==
  ASSUME NEW v \in SlotValues, NEW s \in Sessions, NEW i \in 0 .. IndexMax,
         Cached(v, s) \/ NoncesAvailable(v, s, i)
  PROVE  LET w == SlotToWrite(v, s, i)
         IN  /\ w.stream = v.stream /\ w.seed = v.seed /\ w.index >= v.index
             /\ \/ w = v
                \/ /\ w.last_used = lastUsed + 1
                   /\ \A sh \in w.shares :
                        sh.seed = v.seed /\ v.index <= sh.index /\ sh.index < w.index
                   /\ \A a, b \in w.shares : a.index = b.index => a = b
<1> DEFINE w == SlotToWrite(v, s, i)
<1>1. v.index \in Nat /\ i \in Nat
  BY BoundsAssumption DEF SlotValues
<1>2. CASE Cached(v, s)
  BY <1>1, <1>2 DEF SlotToWrite
<1>3. CASE ~Cached(v, s)
  <2>1. NSigs[s] \in Nat \ {0} /\ i >= v.index
    BY <1>3, SessionsAssumption DEF NoncesAvailable
  <2>2. w = Signed(v, s, i, lastUsed + 1)
    BY <1>3 DEF SlotToWrite
  <2>3. /\ w.index = i + NSigs[s] /\ w.last_used = lastUsed + 1
        /\ w.stream = v.stream /\ w.seed = v.seed
        /\ w.shares = {Share(s, k, v.seed, i + k - 1) : k \in 1 .. NSigs[s]}
    BY <2>2 DEF Signed, SlotValues
  <2> HIDE DEF w
  <2>4. \A sh \in w.shares : sh.seed = v.seed /\ v.index <= sh.index /\ sh.index < w.index
    BY <1>1, <2>1, <2>3 DEF Share
  <2>5. \A a, b \in w.shares : a.index = b.index => a = b
    BY <1>1, <2>1, <2>3 DEF Share
  <2> QED BY <1>1, <2>1, <2>3, <2>4, <2>5 DEF w
<1> QED BY <1>2, <1>3

\* The part of a Sign or a SignPowerLoss that concerns the slots.
LEMMA RewriteKeepsInvariant ==
  ASSUME TypeOK, NonceInvariant,
         NEW j \in SlotIds, Used(j), NEW w \in SlotValues,
         w.stream = slots[j].stream, w.seed = slots[j].seed, w.index >= slots[j].index,
         \/ w = slots[j]
         \/ /\ \A sh \in w.shares : /\ sh.seed = w.seed
                                    /\ slots[j].index <= sh.index /\ sh.index < w.index
            /\ \A a, b \in w.shares : a.index = b.index => a = b,
         slots' = [slots EXCEPT ![j] = w], nextSeed' = nextSeed,
         released' = released \cup w.shares \/ released' = released
  PROVE  NonceInvariant'
<1> DEFINE all == released \cup w.shares
<1>1. /\ slots'[j] = w /\ \A i \in SlotIds \ {j} : slots'[i] = slots[i]
      /\ \A i \in SlotIds : Used(i)' = Used(i) /\ slots'[i].seed = slots[i].seed
  BY DEF TypeOK, Used
<1>2. released' \subseteq all
  OBVIOUS
<1>3. /\ \A i \in SlotIds : slots[i].index \in Int /\ \A sh \in slots[i].shares : sh.index \in Int
      /\ w.index \in Int /\ \A sh \in all : sh.index \in Int
  BY BoundsAssumption, SMTT(20) DEF TypeOK, SlotValues, Shares
<1>4. SeedsUnique'
  BY <1>1 DEF NonceInvariant, SeedsUnique
<1>5. \A sh \in w.shares : sh.seed = w.seed /\ sh.index < w.index
  BY <1>1 DEF NonceInvariant, UsedNoncesBehind
<1>6. \A i \in SlotIds : Used(i) /\ slots[i].seed = w.seed => i = j
  BY DEF NonceInvariant, SeedsUnique
<1>7. \A a, b \in all : a.seed = b.seed /\ a.index = b.index => a = b
  <2> SUFFICES ASSUME NEW a \in all, NEW b \in all, a.seed = b.seed, a.index = b.index
               PROVE  a = b
    OBVIOUS
  <2>1. CASE w = slots[j]
    BY <2>1 DEF NonceInvariant, CachedSharesUnique, NoNonceReuse
  <2>2. CASE w # slots[j]
    <3>1. \A r \in released : r.seed = w.seed => r.index < slots[j].index
      BY DEF NonceInvariant, UsedNoncesBehind
    <3> QED BY <1>3, <2>2, <3>1 DEF NonceInvariant, NoNonceReuse
  <2> QED BY <2>1, <2>2
<1>8. UsedNoncesBehind'
  <2>1. \A r \in all : r.seed < nextSeed
    BY <1>5 DEF NonceInvariant, UsedNoncesBehind, SeedsUnique
  <2>2. ASSUME NEW r \in all, NEW i \in SlotIds, Used(i), slots[i].seed = r.seed
        PROVE  r.index < slots'[i].index
    <3>1. CASE r \in w.shares
      BY <1>1, <1>5, <1>6, <2>2, <3>1
    <3>2. CASE r \in released
      <4>1. r.index < slots[i].index
        BY <2>2, <3>2 DEF NonceInvariant, UsedNoncesBehind
      <4> QED BY <1>1, <1>3, <4>1
    <3> QED BY <3>1, <3>2
  <2>3. \A i \in SlotIds : \A sh \in slots'[i].shares :
          sh.seed = slots'[i].seed /\ sh.index < slots'[i].index
    BY <1>1, <1>5 DEF NonceInvariant, UsedNoncesBehind
  <2> QED BY <1>1, <1>2, <2>1, <2>2, <2>3 DEF UsedNoncesBehind
<1>9. CachedSharesUnique'
  <2>1. \A i \in SlotIds : ~Used(i)' => slots'[i].shares = {}
    BY <1>1 DEF NonceInvariant, CachedSharesUnique
  <2>2. ASSUME NEW i \in SlotIds, NEW sh \in slots'[i].shares,
               NEW r \in released' \cup slots'[i].shares,
               sh.seed = r.seed, sh.index = r.index
        PROVE  sh = r
    <3>1. CASE i = j
      BY <1>1, <1>2, <1>7, <2>2, <3>1
    <3>2. CASE i # j
      <4>1. sh \in slots[i].shares /\ Used(i) /\ sh.seed = slots[i].seed
        BY <1>1, <2>2, <3>2 DEF NonceInvariant, CachedSharesUnique, UsedNoncesBehind
      <4>2. r \notin w.shares
        BY <1>5, <1>6, <2>2, <3>2, <4>1
      <4>3. r \in released \cup slots[i].shares
        BY <1>1, <1>2, <3>2, <4>2
      <4> QED BY <2>2, <4>1, <4>3 DEF NonceInvariant, CachedSharesUnique
    <3> QED BY <3>1, <3>2
  <2> QED BY <2>1, <2>2 DEF CachedSharesUnique
<1> QED BY <1>2, <1>4, <1>7, <1>8, <1>9 DEF NonceInvariant, NoNonceReuse

\* What CanSign finds: a slot in use, and what it is rewritten with.
LEMMA CanSignSlot ==
  ASSUME TypeOK, NEW s \in Sessions, NEW state \in CoordStates, CanSign(s, state)
  PROVE  LET j == First(Holding(state.stream))
         IN  /\ j \in SlotIds /\ Used(j)
             /\ Cached(slots[j], s) \/ NoncesAvailable(slots[j], s, state.index)
             /\ SlotToWrite(slots[j], s, state.index) \in SlotValues
<1> DEFINE j == First(Holding(state.stream))
<1>1. j \in Holding(state.stream)
  <2>1. Holding(state.stream) # {} /\ Holding(state.stream) \subseteq SlotIds
    BY DEF CanSign, Holding
  <2> QED BY <2>1, FirstInSet
<1>2. j \in SlotIds /\ slots[j].stream = state.stream /\ state.stream # None
  BY <1>1, SessionsAssumption DEF Holding, CoordStates
<1>3. Cached(slots[j], s) \/ NoncesAvailable(slots[j], s, state.index)
  BY DEF CanSign
<1>4. slots[j] \in SlotValues /\ state.index \in 0 .. IndexMax /\ lastUsed \in 0 .. MaxUses - 1
  BY <1>2, BoundsAssumption DEF CanSign, CoordStates, TypeOK
<1>5. SlotToWrite(slots[j], s, state.index) \in SlotValues
  BY <1>3, <1>4, SlotToWriteType
<1> QED BY <1>2, <1>3, <1>5 DEF Used

\* The inductive invariant holds: every nonce that was used lies behind the
\* index of its slot, and every cached share is the only one of its nonce.
THEOREM DeviceNoncesInvariant == Spec => []NonceInvariant
<1>1. Init => NonceInvariant
  BY DEF Init, NonceInvariant, SeedsUnique, UsedNoncesBehind, CachedSharesUnique,
         NoNonceReuse, Used, Empty
<1>2. TypeOK /\ NonceInvariant /\ [Next]_vars => NonceInvariant'
  <2> SUFFICES ASSUME TypeOK, NonceInvariant, [Next]_vars PROVE NonceInvariant'
    OBVIOUS
  <2>1. ASSUME UNCHANGED <<slots, nextSeed, released>> PROVE NonceInvariant'
    BY <2>1 DEF NonceInvariant, SeedsUnique, UsedNoncesBehind, CachedSharesUnique,
                NoNonceReuse, Used
  <2>2. CASE OpenStream
    <3> DEFINE state == Head(opening)
               i == GetOrCreate(state.stream)
               new == Initialized(state.stream, lastUsed + 1, nextSeed)
    <3>1. i \in SlotIds
      BY GetOrCreateInSlots DEF TypeOK
    <3>2. CASE slots[i].stream = state.stream
      <4>1. slots' = slots
        <5>1. slots' = [slots EXCEPT ![i] = slots[i]]
          BY <2>2, <3>2 DEF OpenStream
        <5> HIDE DEF i
        <5> QED BY <3>1, <5>1 DEF TypeOK
      <4> QED BY <2>1, <2>2, <3>2, <4>1 DEF OpenStream
    <3>3. CASE slots[i].stream # state.stream
      <4>1. /\ slots' = [slots EXCEPT ![i] = new] /\ nextSeed' = nextSeed + 1
            /\ released' = released
        BY <2>2, <3>3 DEF OpenStream
      <4>2. new.seed = nextSeed /\ new.shares = {} /\ new.index = 0
        BY DEF Initialized
      <4>3. /\ nextSeed \in Nat /\ slots \in [SlotIds -> SlotValues]
            /\ \A k \in SlotIds : slots[k].seed \in Nat
            /\ \A r \in released : r.seed \in Nat
        BY DEF TypeOK, SlotValues, Shares
      <4> HIDE DEF i, new
      <4>4. slots'[i] = new /\ \A k \in SlotIds \ {i} : slots'[k] = slots[k]
        BY <3>1, <4>1, <4>3
      <4>5. \A k \in SlotIds \ {i} : Used(k)' = Used(k)
        BY <4>4 DEF Used
      <4>6. SeedsUnique'
        BY <4>1, <4>2, <4>3, <4>4, <4>5 DEF NonceInvariant, SeedsUnique
      <4>7. UsedNoncesBehind'
        <5>1. ASSUME NEW r \in released, NEW k \in SlotIds, Used(k)', slots'[k].seed = r.seed
              PROVE  r.index < slots'[k].index
          BY <4>2, <4>3, <4>4, <4>5, <5>1 DEF NonceInvariant, UsedNoncesBehind
        <5>2. \A r \in released : r.seed < nextSeed'
          <6>1. \A r \in released : r.seed < nextSeed
            BY DEF NonceInvariant, UsedNoncesBehind
          <6> QED BY <4>1, <4>3, <6>1
        <5>3. \A k \in SlotIds : \A sh \in slots'[k].shares :
                sh.seed = slots'[k].seed /\ sh.index < slots'[k].index
          BY <4>2, <4>4 DEF NonceInvariant, UsedNoncesBehind
        <5> QED BY <4>1, <5>1, <5>2, <5>3 DEF UsedNoncesBehind
      <4>8. CachedSharesUnique'
        BY <4>1, <4>2, <4>4, <4>5 DEF NonceInvariant, CachedSharesUnique
      <4> QED BY <4>1, <4>6, <4>7, <4>8 DEF NonceInvariant, NoNonceReuse
    <3> QED BY <3>2, <3>3
  <2>3. ASSUME NEW s \in Sessions, NEW state \in CoordStates,
               Sign(s, state) \/ SignPowerLoss(s, state)
        PROVE  NonceInvariant'
    <3> DEFINE j == First(Holding(state.stream))
               w == SlotToWrite(slots[j], s, state.index)
    <3>1. CanSign(s, state)
      BY <2>3 DEF Sign, SignPowerLoss
    <3>2. /\ j \in SlotIds /\ Used(j) /\ w \in SlotValues
          /\ Cached(slots[j], s) \/ NoncesAvailable(slots[j], s, state.index)
      BY <3>1, CanSignSlot
    <3>3. slots[j] \in SlotValues /\ state.index \in 0 .. IndexMax
      BY <3>2 DEF TypeOK, CoordStates
    <3>4. /\ w.stream = slots[j].stream /\ w.seed = slots[j].seed /\ w.index >= slots[j].index
          /\ \/ w = slots[j]
             \/ /\ \A sh \in w.shares : /\ sh.seed = slots[j].seed
                                        /\ slots[j].index <= sh.index /\ sh.index < w.index
                /\ \A a, b \in w.shares : a.index = b.index => a = b
      BY <3>2, <3>3, SignedSlot
    <3>5. nextSeed' = nextSeed /\ (released' = released \cup w.shares \/ released' = released)
      BY <2>3 DEF Sign, SignPowerLoss
    <3>6. slots' = [slots EXCEPT ![j] = w]
          \/ (slots' = [slots EXCEPT ![j] = Empty] /\ released' = released)
      BY <2>3 DEF Sign, SignPowerLoss
    <3> HIDE DEF j, w
    <3>7. CASE slots' = [slots EXCEPT ![j] = w]
      BY <3>2, <3>4, <3>5, <3>7, RewriteKeepsInvariant
    <3>8. CASE slots' = [slots EXCEPT ![j] = Empty] /\ released' = released
      <4>1. slots'[j] = Empty /\ \A k \in SlotIds \ {j} : slots'[k] = slots[k]
        BY <3>2, <3>8 DEF TypeOK
      <4>2. \A k \in SlotIds : Used(k)' <=> k # j /\ Used(k)
        <5>1. Empty.stream = None
          BY DEF Empty
        <5> QED BY <4>1, <5>1 DEF Used
      <4>3. slots'[j].shares = {}
        BY <4>1 DEF Empty
      <4>4. SeedsUnique'
        BY <3>5, <4>1, <4>2 DEF NonceInvariant, SeedsUnique
      <4>5. UsedNoncesBehind'
        BY <3>5, <3>8, <4>1, <4>2, <4>3 DEF NonceInvariant, UsedNoncesBehind
      <4>6. CachedSharesUnique'
        BY <3>8, <4>1, <4>2, <4>3 DEF NonceInvariant, CachedSharesUnique
      <4> QED BY <3>8, <4>4, <4>5, <4>6 DEF NonceInvariant, NoNonceReuse
    <3> QED BY <3>6, <3>7, <3>8
  <2>4. CASE UNCHANGED vars
    BY <2>1, <2>4 DEF vars
  <2> QED
    BY <2>1, <2>2, <2>3, <2>4
    DEF Next, OpenNonceStreams, StartBatch, FinishBatch, PowerLoss
<1> QED BY <1>1, <1>2, DeviceNoncesTypeOK, PTL DEF Spec

\* No nonce signs twice, for any requests of any coordinators, any retries,
\* evictions, power losses and torn slots (sign_guaranteeing_nonces_destroyed).
THEOREM DeviceNoncesNoNonceReuse == Spec => []NoNonceReuse
<1>1. NonceInvariant => NoNonceReuse
  BY DEF NonceInvariant
<1> QED BY <1>1, DeviceNoncesInvariant, PTL

\* The eviction order is total and never falls behind (increment_last_used,
\* AbSlots::new): no two slots in use have the same last_used, and the counter
\* is at least every slot's.
THEOREM DeviceNoncesLastUsedDistinct == Spec => []LastUsedDistinct
<1>1. Init => LastUsedDistinct
  BY DEF Init, LastUsedDistinct, Used, Empty
<1>2. TypeOK /\ LastUsedDistinct /\ [Next]_vars => LastUsedDistinct'
  <2> SUFFICES ASSUME TypeOK, LastUsedDistinct, [Next]_vars PROVE LastUsedDistinct'
    OBVIOUS
  <2>1. lastUsed \in Nat /\ \A i \in SlotIds : slots[i].last_used \in Nat
    BY BoundsAssumption DEF TypeOK, SlotValues
  <2>2. ASSUME NEW j \in SlotIds, NEW w, slots' = [slots EXCEPT ![j] = w],
               lastUsed' = lastUsed + 1, w = slots[j] \/ w.last_used = lastUsed + 1
        PROVE  LastUsedDistinct'
    <3>1. slots'[j] = w /\ \A k \in SlotIds \ {j} : slots'[k] = slots[k]
      BY <2>2 DEF TypeOK
    <3> QED BY <2>1, <2>2, <3>1 DEF LastUsedDistinct, Used
  <2>3. CASE OpenStream
    <3> DEFINE state == Head(opening)
               i == GetOrCreate(state.stream)
               new == Initialized(state.stream, lastUsed + 1, nextSeed)
    <3>1. i \in SlotIds
      BY GetOrCreateInSlots DEF TypeOK
    <3>2. new.last_used = lastUsed + 1
      BY DEF Initialized
    <3>3. lastUsed' = lastUsed + 1
          /\ (slots' = [slots EXCEPT ![i] = new] \/ slots' = [slots EXCEPT ![i] = slots[i]])
      BY <2>3 DEF OpenStream
    <3> HIDE DEF i, new
    <3> QED BY <2>2, <3>1, <3>2, <3>3
  <2>4. ASSUME NEW s \in Sessions, NEW state \in CoordStates, CanSign(s, state)
        PROVE  LET j == First(Holding(state.stream))
                   w == SlotToWrite(slots[j], s, state.index)
               IN  /\ j \in SlotIds /\ Used(j) /\ w \in SlotValues
                   /\ w.stream = slots[j].stream
                   /\ w = slots[j] \/ w.last_used = lastUsed + 1
    <3> DEFINE j == First(Holding(state.stream))
               w == SlotToWrite(slots[j], s, state.index)
    <3>1. /\ j \in SlotIds /\ Used(j) /\ w \in SlotValues
          /\ Cached(slots[j], s) \/ NoncesAvailable(slots[j], s, state.index)
      BY <2>4, CanSignSlot
    <3>2. slots[j] \in SlotValues /\ state.index \in 0 .. IndexMax
      BY <3>1 DEF TypeOK, CoordStates
    <3>3. w.stream = slots[j].stream /\ (w = slots[j] \/ w.last_used = lastUsed + 1)
      BY <3>1, <3>2, SignedSlot
    <3> QED BY <3>1, <3>3
  <2>5. ASSUME NEW s \in Sessions, NEW state \in CoordStates, Sign(s, state)
        PROVE  LastUsedDistinct'
    <3> DEFINE j == First(Holding(state.stream))
               w == SlotToWrite(slots[j], s, state.index)
    <3>1. j \in SlotIds /\ (w = slots[j] \/ w.last_used = lastUsed + 1)
      BY <2>4, <2>5 DEF Sign
    <3>2. slots' = [slots EXCEPT ![j] = w] /\ lastUsed' = lastUsed + 1
      BY <2>5 DEF Sign
    <3> HIDE DEF j, w
    <3> QED BY <2>2, <3>1, <3>2
  <2>6. ASSUME slots' \in [SlotIds -> SlotValues], lastUsed' = NewestUse(slots'),
               \A i, k \in SlotIds :
                 Used(i)' /\ Used(k)' /\ i # k => slots'[i].last_used # slots'[k].last_used
        PROVE  LastUsedDistinct'
    <3>1. \A i \in SlotIds : slots'[i].stream # None => slots'[i].last_used <= NewestUse(slots')
      BY <2>6, NewestUseInBounds
    <3> QED BY <2>6, <3>1 DEF LastUsedDistinct, Used
  <2>7. ASSUME NEW s \in Sessions, NEW state \in CoordStates, SignPowerLoss(s, state)
        PROVE  LastUsedDistinct'
    <3> DEFINE j == First(Holding(state.stream))
               w == SlotToWrite(slots[j], s, state.index)
    <3>1. /\ j \in SlotIds /\ Used(j) /\ w \in SlotValues /\ w.stream = slots[j].stream
          /\ w = slots[j] \/ w.last_used = lastUsed + 1
      BY <2>4, <2>7 DEF SignPowerLoss
    <3>2. /\ slots' = [slots EXCEPT ![j] = w] \/ slots' = [slots EXCEPT ![j] = Empty]
          /\ lastUsed' = NewestUse(slots')
      BY <2>7 DEF SignPowerLoss
    <3>3. Empty \in SlotValues /\ Empty.stream = None
      BY BoundsAssumption DEF Empty, SlotValues
    <3> HIDE DEF j, w
    <3>4. slots' \in [SlotIds -> SlotValues]
      BY <3>1, <3>2, <3>3 DEF TypeOK
    <3>5. /\ \A k \in SlotIds \ {j} : slots'[k] = slots[k]
          /\ slots'[j] = w \/ slots'[j] = Empty
      BY <3>1, <3>2 DEF TypeOK
    <3>6. ASSUME NEW i \in SlotIds, NEW k \in SlotIds, Used(i)', Used(k)', i # k
          PROVE  slots'[i].last_used # slots'[k].last_used
      <4>1. \A m \in SlotIds : Used(m)' => Used(m) /\ (slots'[m] = slots[m] \/ (m = j /\ slots'[m] = w))
        BY <3>1, <3>3, <3>5 DEF Used
      <4>2. \A m \in SlotIds : Used(m) => slots[m].last_used <= lastUsed
        BY DEF LastUsedDistinct
      <4>3. slots[i].last_used # slots[k].last_used
        BY <3>6, <4>1 DEF LastUsedDistinct
      <4> QED BY <2>1, <3>1, <3>6, <4>1, <4>2, <4>3
    <3> QED BY <2>6, <3>2, <3>4, <3>6
  <2>8. CASE PowerLoss
    <3>1. slots' = slots /\ lastUsed' = NewestUse(slots')
      BY <2>8 DEF PowerLoss
    <3> QED BY <2>6, <3>1 DEF TypeOK, LastUsedDistinct, Used
  <2>9. ASSUME UNCHANGED <<slots, lastUsed>> PROVE LastUsedDistinct'
    BY <2>9 DEF LastUsedDistinct, Used
  <2> QED
    BY <2>3, <2>5, <2>7, <2>8, <2>9
    DEF Next, OpenNonceStreams, StartBatch, FinishBatch, vars
<1> QED BY <1>1, <1>2, DeviceNoncesTypeOK, PTL DEF Spec

-----------------------------------------------------------------------------
(* The erase. *)

\* The flash holds the data of one identity at most.
OneOwner ==
  \A s, t \in Sectors : flash[s] # Blank /\ flash[t] # Blank => flash[s] = flash[t]

\* While a header is written all else is blank and its identity is unheard of.
FreshInit ==
  pc = "init" =>
    /\ sector \in {0, 1}
    /\ \A s \in Sectors : flash[s] = IF s < sector THEN born ELSE Blank
    /\ born \notin removed \cup toCoord

\* A confirmation in the queue, on its way or applied is about an identity whose
\* first sector is gone.
ConfirmedBegun ==
  /\ \A i \in 1 .. Len(queue) : queue[i] = "confirm" => flash[0] = Blank /\ pc \in {"run", "wipe"}
  /\ \A id \in removed \cup toCoord : flash[0] # id

RunsAlone ==
  /\ pc = "run" => self # Blank /\ sector = 0
  /\ pc = "boot" => sector = 0
  /\ erase = "rest" => flash[0] = Blank /\ pc \in {"run", "wipe"}
  /\ pc \in {"boot", "init"} => queue = <<>> /\ erase = "none"

EraseInvariant ==
  /\ EraseTypeOK
  /\ NoForeignData
  /\ OneOwner
  /\ FreshInit
  /\ ConfirmedBegun
  /\ RunsAlone

USE EraseAssumption

LEMMA EraseInitHolds == EraseInit => EraseInvariant
<1> SUFFICES ASSUME EraseInit PROVE EraseInvariant
  OBVIOUS
<1>1. flash \in [Sectors -> 0 .. 1] /\ 0 \in Sectors
  BY SMTT(30) DEF EraseInit, Sectors, Header, Blank
<1>2. EraseTypeOK
  BY <1>1, SMTT(30) DEF EraseInit, EraseTypeOK, Blank
<1>3. NoForeignData /\ OneOwner /\ FreshInit /\ RunsAlone
  BY <1>1, SMTT(30) DEF EraseInit, NoForeignData, OneOwner, FreshInit, RunsAlone, Blank
<1>4. ConfirmedBegun
  BY SMTT(30) DEF EraseInit, ConfirmedBegun
<1> QED BY <1>2, <1>3, <1>4 DEF EraseInvariant

\* Steps that leave the flash, the queue and what was confirmed alone.
LEMMA EraseQuiet ==
  ASSUME EraseInvariant,
         \/ StartErase \/ EraseAll \/ CancelProtocol \/ ReceiveDataErase \/ ReceiveCancel
         \/ ConfirmErase \/ SoftReset \/ AnnounceAck
  PROVE  EraseInvariant'
<1>1. EraseTypeOK'
  <2>1. CASE StartErase
    BY <2>1, SMTT(30) DEF EraseInvariant, EraseTypeOK, StartErase, Event, deviceMemory, RunsAlone
  <2>2. CASE EraseAll
    BY <2>2, SMTT(30) DEF EraseInvariant, EraseTypeOK, EraseAll, Event, deviceMemory
  <2>3. CASE CancelProtocol
    BY <2>3, SMTT(30) DEF EraseInvariant, EraseTypeOK, CancelProtocol, Event, deviceMemory, Blank
  <2>4. CASE ReceiveDataErase
    BY <2>4, SMTT(30) DEF EraseInvariant, EraseTypeOK, ReceiveDataErase
  <2>5. CASE ReceiveCancel
    BY <2>5, SMTT(30) DEF EraseInvariant, EraseTypeOK, ReceiveCancel, Event
  <2>6. CASE ConfirmErase
    BY <2>6, SMTT(30) DEF EraseInvariant, EraseTypeOK, ConfirmErase
  <2>7. CASE SoftReset
    BY <2>7, SMTT(30) DEF EraseInvariant, EraseTypeOK, SoftReset, Event
  <2>8. CASE AnnounceAck
    BY <2>8, SMTT(30) DEF EraseInvariant, EraseTypeOK, AnnounceAck
  <2> QED BY <2>1, <2>2, <2>3, <2>4, <2>5, <2>6, <2>7, <2>8
<1>2. (NoForeignData /\ OneOwner /\ FreshInit /\ ConfirmedBegun /\ RunsAlone)'
  BY SMTT(30) DEF EraseInvariant, NoForeignData, OneOwner, FreshInit, ConfirmedBegun, RunsAlone,
     StartErase, EraseAll, CancelProtocol, ReceiveDataErase, ReceiveCancel, ConfirmErase,
     SoftReset, AnnounceAck, deviceMemory, Sectors
<1> QED BY <1>1, <1>2 DEF EraseInvariant

\* Steps that only add an ordinary message to the queue.
LEMMA EraseQueues ==
  ASSUME EraseInvariant, Forward \/ Handshake
  PROVE  EraseInvariant'
<1>1. queue \in Seq({"other", "confirm"}) /\ queue' = Append(queue, "other")
  BY DEF EraseInvariant, EraseTypeOK, Forward, Handshake
<1>2. \A i \in 1 .. Len(queue') : queue'[i] = "confirm" => i \in 1 .. Len(queue) /\ queue[i] = "confirm"
  BY <1>1
<1>3. EraseTypeOK'
  <2>1. CASE Forward
    BY <1>1, <2>1, SMTT(30) DEF EraseInvariant, EraseTypeOK, Forward, Event
  <2>2. CASE Handshake
    BY <1>1, <2>2, SMTT(30) DEF EraseInvariant, EraseTypeOK, Handshake
  <2> QED BY <2>1, <2>2
<1>4. (NoForeignData /\ OneOwner /\ FreshInit /\ ConfirmedBegun /\ RunsAlone)'
  BY <1>2, SMTT(30) DEF EraseInvariant, NoForeignData, OneOwner, FreshInit, ConfirmedBegun,
     RunsAlone, Forward, Handshake, Sectors
<1> QED BY <1>3, <1>4 DEF EraseInvariant

LEMMA EraseCoordReceive ==
  ASSUME EraseInvariant, NEW id \in toCoord, CoordReceive(id)
  PROVE  EraseInvariant'
<1>1. EraseTypeOK'
  BY SMTT(30) DEF EraseInvariant, EraseTypeOK, CoordReceive, deviceMemory, Sectors, Blank
<1>2. (removed \cup toCoord)' \subseteq removed \cup toCoord
  BY DEF CoordReceive
<1>3. (NoForeignData /\ OneOwner /\ FreshInit /\ ConfirmedBegun /\ RunsAlone)'
  BY <1>2, SMTT(30) DEF EraseInvariant, NoForeignData, OneOwner, FreshInit, ConfirmedBegun,
     RunsAlone, CoordReceive, deviceMemory, Sectors
<1> QED BY <1>1, <1>3 DEF EraseInvariant

LEMMA EraseStore ==
  ASSUME EraseInvariant, NEW s \in Sectors, Store(s)
  PROVE  EraseInvariant'
<1>1. flash' \in [Sectors -> 0 .. born] /\ flash'[0] = flash[0]
  BY SMTT(30) DEF EraseInvariant, EraseTypeOK, Store, Sectors, Header
<1>2. EraseTypeOK'
  BY <1>1, SMTT(30) DEF EraseInvariant, EraseTypeOK, Store, Event, deviceMemory, Sectors
<1>3. \A t \in Sectors : flash'[t] \in {Blank, self}
  BY SMTT(30) DEF EraseInvariant, EraseTypeOK, NoForeignData, Store
<1>4. (NoForeignData /\ OneOwner /\ FreshInit /\ ConfirmedBegun /\ RunsAlone)'
  BY <1>1, <1>3, SMTT(30) DEF EraseInvariant, NoForeignData, OneOwner, FreshInit, ConfirmedBegun,
     RunsAlone, Store, deviceMemory
<1> QED BY <1>2, <1>4 DEF EraseInvariant

\* What one dequeued message can do.
LEMMA DequeueEffect ==
  ASSUME NEW q \in Seq({"other", "confirm"}), Dequeue(q)
  PROVE  /\ queue' \in Seq({"other", "confirm"})
         /\ \A i \in 1 .. Len(queue') : queue'[i] = "confirm" => \E j \in 1 .. Len(q) : q[j] = "confirm"
         /\ toCoord' # toCoord =>
              /\ \E j \in 1 .. Len(q) : q[j] = "confirm"
              /\ toCoord' = toCoord \cup {self}
<1>1. CASE conn = "acked" /\ q # <<>>
  <2>1. queue' = Tail(q) /\ Len(q) >= 1
    BY <1>1 DEF Dequeue
  <2>2. queue' \in Seq({"other", "confirm"})
        /\ \A i \in 1 .. Len(queue') : i + 1 \in 1 .. Len(q) /\ queue'[i] = q[i + 1]
    BY <2>1
  <2>3. toCoord' # toCoord => q[1] = "confirm" /\ toCoord' = toCoord \cup {self}
    BY <1>1 DEF Dequeue
  <2> QED BY <2>1, <2>2, <2>3
<1>2. CASE ~(conn = "acked" /\ q # <<>>)
  BY <1>2 DEF Dequeue
<1> QED BY <1>1, <1>2

LEMMA ErasePoll ==
  ASSUME EraseInvariant, PollIdle \/ PollInitial
  PROVE  EraseInvariant'
<1>1. queue \in Seq({"other", "confirm"}) /\ Dequeue(queue) /\ pc = "run"
  BY DEF EraseInvariant, EraseTypeOK, PollIdle, PollInitial
<1>2. /\ queue' \in Seq({"other", "confirm"})
      /\ \A i \in 1 .. Len(queue') : queue'[i] = "confirm" => \E j \in 1 .. Len(queue) : queue[j] = "confirm"
      /\ toCoord' # toCoord =>
           /\ \E j \in 1 .. Len(queue) : queue[j] = "confirm"
           /\ toCoord' = toCoord \cup {self}
  BY <1>1, DequeueEffect
<1>3. self \in 1 .. born
  BY <1>1, SMTT(30) DEF EraseInvariant, EraseTypeOK, RunsAlone, Blank
<1>4. queue' \in Seq({"other", "confirm"}) /\ toCoord' \subseteq 1 .. born
  BY <1>2, <1>3 DEF EraseInvariant, EraseTypeOK
<1>5. EraseTypeOK'
  <2>1. CASE PollIdle
    BY <1>4, <2>1, SMTT(30) DEF EraseInvariant, EraseTypeOK, PollIdle
  <2>2. CASE PollInitial
    BY <1>4, <2>2, SMTT(30) DEF EraseInvariant, EraseTypeOK, PollInitial
  <2> QED BY <2>1, <2>2
<1>6. ConfirmedBegun'
  BY <1>1, <1>2, <1>3, SMTT(30) DEF EraseInvariant, ConfirmedBegun, PollIdle, PollInitial, Blank
<1>7. (NoForeignData /\ OneOwner /\ FreshInit /\ RunsAlone)'
  BY <1>1, SMTT(30) DEF EraseInvariant, NoForeignData, OneOwner, FreshInit,
     RunsAlone, PollIdle, PollInitial
<1> QED BY <1>6, <1>7, <1>5 DEF EraseInvariant

LEMMA ErasePollFirst ==
  ASSUME EraseInvariant, PollFirst
  PROVE  EraseInvariant'
<1>1. Append(queue, "confirm") \in Seq({"other", "confirm"}) /\ Dequeue(Append(queue, "confirm"))
  BY DEF EraseInvariant, EraseTypeOK, PollFirst
<1>2. /\ queue' \in Seq({"other", "confirm"})
      /\ toCoord' # toCoord => toCoord' = toCoord \cup {self}
  BY <1>1, DequeueEffect
<1>3. self \in 1 .. born /\ 0 \in Sectors
  BY SMTT(30) DEF EraseInvariant, EraseTypeOK, RunsAlone, Blank, PollFirst, Sectors
<1>4. flash' \in [Sectors -> 0 .. born] /\ flash'[0] = Blank
      /\ \A s \in Sectors : s # 0 => flash'[s] = flash[s]
  BY <1>3, SMTT(30) DEF EraseInvariant, EraseTypeOK, PollFirst, Blank
<1>5. toCoord' \subseteq 1 .. born /\ removed' \subseteq 1 .. born
  BY <1>2, <1>3, SMTT(30) DEF EraseInvariant, EraseTypeOK, PollFirst
<1>6. queue' \in Seq({"other", "confirm"}) /\ flash' \in [Sectors -> 0 .. born]
  BY <1>2, <1>4
<1>7. EraseTypeOK'
  BY <1>5, <1>6, SMTT(30) DEF EraseInvariant, EraseTypeOK, PollFirst
<1>8. ConfirmedBegun'
  BY <1>4, <1>5, SMTT(30) DEF EraseInvariant, ConfirmedBegun, PollFirst, Blank
<1>9. (NoForeignData /\ OneOwner /\ FreshInit /\ RunsAlone)'
  BY <1>4, SMTT(30) DEF EraseInvariant, NoForeignData, OneOwner, FreshInit, RunsAlone, PollFirst
<1> QED BY <1>7, <1>8, <1>9 DEF EraseInvariant

LEMMA ErasePollRest ==
  ASSUME EraseInvariant, PollRest
  PROVE  EraseInvariant'
<1>1. EraseTypeOK'
  BY SMTT(30) DEF EraseInvariant, EraseTypeOK, PollRest, deviceMemory, Sectors
<1>2. (NoForeignData /\ OneOwner /\ FreshInit /\ ConfirmedBegun /\ RunsAlone)'
  BY SMTT(30) DEF EraseInvariant, NoForeignData, OneOwner, FreshInit, ConfirmedBegun, RunsAlone,
     PollRest, deviceMemory
<1> QED BY <1>1, <1>2 DEF EraseInvariant

LEMMA EraseWipe ==
  ASSUME EraseInvariant, Wipe
  PROVE  EraseInvariant'
<1>1. flash' \in [Sectors -> 0 .. born]
      /\ \A s \in Sectors : flash'[s] \in {Blank, flash[s]}
  BY SMTT(30) DEF EraseInvariant, EraseTypeOK, Wipe, Restart, Blank
<1>2. 0 \in Sectors
  BY DEF Sectors
<1>3. EraseTypeOK'
  <2>1. CASE sector < NSectors - 1
    <3>1. sector' \in Sectors
      BY <2>1, SMTT(30) DEF EraseInvariant, EraseTypeOK, Wipe, Sectors
    <3>2. flash' \in [Sectors -> 0 .. born]
      BY <1>1
    <3>3. UNCHANGED <<pc, self, born, deviceMemory, toDevice, toCoord, protocol, removed, events>>
      BY <2>1 DEF Wipe
    <3> QED BY <3>1, <3>2, <3>3, SMTT(30) DEF EraseInvariant, EraseTypeOK, deviceMemory
  <2>2. CASE ~(sector < NSectors - 1)
    <3>1. flash' \in [Sectors -> 0 .. born]
      BY <1>1
    <3>2. Restart /\ UNCHANGED <<toCoord, events>>
      BY <2>2 DEF Wipe
    <3> QED BY <1>2, <3>1, <3>2, SMTT(30) DEF EraseInvariant, EraseTypeOK, Restart, Blank
  <2> QED BY <2>1, <2>2
<1>4. (removed \cup toCoord)' = removed \cup toCoord /\ removed \cup toCoord \subseteq 1 .. born
  BY SMTT(30) DEF EraseInvariant, EraseTypeOK, Wipe, Restart
<1>5. (NoForeignData /\ OneOwner /\ FreshInit /\ RunsAlone)'
  BY <1>1, <1>2, SMTT(30) DEF EraseInvariant, NoForeignData, OneOwner, FreshInit, RunsAlone, Wipe,
     Restart, deviceMemory
<1>6. ConfirmedBegun'
  BY <1>1, <1>2, <1>4, SMTT(30) DEF EraseInvariant, ConfirmedBegun, Wipe, Restart, deviceMemory, Blank
<1> QED BY <1>3, <1>5, <1>6 DEF EraseInvariant

LEMMA EraseBoot ==
  ASSUME EraseInvariant, Boot
  PROVE  EraseInvariant'
<1>1. 0 \in Sectors /\ 1 \in Sectors /\ Identity \in 0 .. born
  BY SMTT(30) DEF EraseInvariant, EraseTypeOK, Identity, Sectors, Blank
<1>2. EraseTypeOK'
  BY <1>1, SMTT(30) DEF EraseInvariant, EraseTypeOK, Boot, deviceMemory
<1>3. Identity # Blank => \A s \in Sectors : flash[s] \in {Blank, Identity}
  BY <1>1, SMTT(30) DEF EraseInvariant, EraseTypeOK, OneOwner, Identity
<1>4. Identity = Blank => flash[0] = Blank /\ flash[1] = Blank
  BY DEF Identity
<1>5. pc' = "init" => \A s \in Sectors : flash[s] = Blank
  BY <1>4, SMTT(30) DEF Boot, Header
<1>6. removed \cup toCoord \subseteq 1 .. born /\ UNCHANGED <<removed, toCoord, flash, queue, sector>>
  BY SMTT(30) DEF EraseInvariant, EraseTypeOK, Boot, deviceMemory
<1>7. FreshInit'
  BY <1>1, <1>5, <1>6, SMTT(30) DEF EraseInvariant, EraseTypeOK, FreshInit, RunsAlone, Boot, Sectors
<1>8. (NoForeignData /\ OneOwner /\ ConfirmedBegun /\ RunsAlone)'
  BY <1>3, <1>6, SMTT(30) DEF EraseInvariant, EraseTypeOK, NoForeignData, OneOwner, ConfirmedBegun, RunsAlone,
     Boot, deviceMemory
<1> QED BY <1>2, <1>7, <1>8 DEF EraseInvariant

LEMMA EraseInitHeader ==
  ASSUME EraseInvariant, InitHeader
  PROVE  EraseInvariant'
<1>1. 0 \in Sectors /\ 1 \in Sectors /\ sector \in {0, 1} /\ born \in Nat \ {0}
  BY SMTT(30) DEF EraseInvariant, EraseTypeOK, FreshInit, InitHeader, Sectors
<1>2. \A s \in Sectors : flash'[s] = IF s <= sector THEN born ELSE Blank
  BY <1>1, SMTT(30) DEF EraseInvariant, EraseTypeOK, FreshInit, InitHeader, Sectors
<1>3. EraseTypeOK'
  BY <1>1, SMTT(30) DEF EraseInvariant, EraseTypeOK, InitHeader, deviceMemory
<1>4. (NoForeignData /\ OneOwner /\ FreshInit /\ RunsAlone)'
  BY <1>1, <1>2, SMTT(30) DEF EraseInvariant, NoForeignData, OneOwner, FreshInit, RunsAlone, InitHeader,
     deviceMemory, Blank, Sectors
<1>5. ConfirmedBegun'
  BY <1>1, <1>2, SMTT(30) DEF EraseInvariant, FreshInit, ConfirmedBegun, RunsAlone, InitHeader, deviceMemory
<1> QED BY <1>3, <1>4, <1>5 DEF EraseInvariant

LEMMA EraseLosesPower ==
  ASSUME EraseInvariant, ErasePowerLoss
  PROVE  EraseInvariant'
<1>1. EraseTypeOK'
  <2>1. 0 \in Sectors /\ toCoord' \subseteq 1 .. born
    BY SMTT(30) DEF EraseInvariant, EraseTypeOK, ErasePowerLoss, Sectors
  <2> QED
    BY <2>1, SMTT(30) DEF EraseInvariant, EraseTypeOK, ErasePowerLoss, Restart, Event, Blank
<1>2. (removed \cup toCoord)' \subseteq removed \cup toCoord
  BY DEF ErasePowerLoss, Restart
<1>3. (NoForeignData /\ OneOwner /\ FreshInit /\ ConfirmedBegun /\ RunsAlone)'
  BY <1>2, SMTT(30) DEF EraseInvariant, NoForeignData, OneOwner, FreshInit, ConfirmedBegun,
     RunsAlone, ErasePowerLoss, Restart
<1> QED BY <1>1, <1>3 DEF EraseInvariant

LEMMA EraseStep == EraseInvariant /\ [EraseNext]_eraseVars => EraseInvariant'
<1> SUFFICES ASSUME EraseInvariant, [EraseNext]_eraseVars PROVE EraseInvariant'
  OBVIOUS
<1>1. CASE UNCHANGED eraseVars
  BY <1>1, SMTT(30) DEF EraseInvariant, EraseTypeOK, NoForeignData, OneOwner, FreshInit, ConfirmedBegun,
     RunsAlone, eraseVars, deviceMemory
<1>2. CASE \E id \in toCoord : CoordReceive(id)
  BY <1>2, EraseCoordReceive
<1>3. CASE \E s \in Sectors : Store(s)
  BY <1>3, EraseStore
<1> QED
  BY <1>1, <1>2, <1>3, EraseQuiet, EraseQueues, ErasePoll, ErasePollFirst, ErasePollRest, EraseWipe,
     EraseBoot, EraseInitHeader, EraseLosesPower DEF EraseNext, Device

\* The inductive invariant of the erase.
THEOREM EraseDeviceInvariant == EraseSpec => []EraseInvariant
  BY EraseInitHolds, EraseStep, PTL DEF EraseSpec

\* The type invariant of EraseDevice.
THEOREM EraseDeviceTypeOK == EraseSpec => []EraseTypeOK
<1>1. EraseInvariant => EraseTypeOK
  BY DEF EraseInvariant
<1> QED BY <1>1, EraseDeviceInvariant, PTL

\* A device that runs has only its own data behind its header, wherever the
\* power went away in an erase, its recovery or the writing of a header.
THEOREM EraseDeviceNoForeignData == EraseSpec => []NoForeignData
<1>1. EraseInvariant => NoForeignData
  BY DEF EraseInvariant
<1> QED BY <1>1, EraseDeviceInvariant, PTL

\* The app deletes the shares of a device only after it began to destroy its
\* data, whatever was cancelled, repeated or confirmed late.
THEOREM EraseDeviceRemovedMeansBegun == EraseSpec => []RemovedMeansBegun
<1>1. EraseInvariant => RemovedMeansBegun
  BY DEF EraseInvariant, ConfirmedBegun, RemovedMeansBegun
<1> QED BY <1>1, EraseDeviceInvariant, PTL
=============================================================================
