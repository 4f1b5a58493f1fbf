---------------------------- MODULE DeviceNonces ----------------------------
(***************************************************************************)
(* The secret nonces of one device (frostsnap_core/src/device_nonces.rs,   *)
(* and the handlers of device.rs that use them).                           *)
(*                                                                         *)
(* Flash holds NSlots slots.  A slot is one nonce stream: a ratcheted seed *)
(* at an index, and the signature shares of the last session it signed.    *)
(* A nonce is <<seed, index>>, where seed names the random seed material   *)
(* the slot was initialised with.                                          *)
(*                                                                         *)
(* The requests come from any number of coordinators, in any order and     *)
(* with any contents.  Writing a slot is atomic (AbWrite) except that a    *)
(* slot value of more than one flash buffer can be left unreadable.        *)
(***************************************************************************)
EXTENDS Integers, Sequences

CONSTANTS
  Streams,      (* nonce stream ids                                        *)
  Sessions,     (* signing session ids; an id fixes what is signed         *)
  NSigs,        (* NSigs[s]: signatures of session s                       *)
  Tearable,     (* sessions whose slot value exceeds one flash buffer      *)
  NSlots,       (* nonce slots in flash                                    *)
  BatchSize,    (* nonce_batch_size                                        *)
  IndexMax,     (* u32::MAX                                                *)
  MaxOpen,      (* bound: streams in one OpenNonceStreams                  *)
  MaxUses,      (* bound: last_used counter                                *)
  MaxSeeds,     (* bound: seeds drawn                                      *)
  None          (* no stream, no session                                   *)

ASSUME SessionsAssumption ==
  /\ None \notin Sessions
  /\ None \notin Streams
  /\ NSigs \in [Sessions -> Nat \ {0}]
  /\ Tearable \subseteq Sessions
ASSUME BoundsAssumption ==
  /\ NSlots \in Nat \ {0}
  /\ BatchSize \in Nat \ {0}
  /\ IndexMax \in Nat
  /\ MaxOpen \in Nat
  /\ MaxUses \in Nat
  /\ MaxSeeds \in Nat

VARIABLES
  slots,        (* flash: the value of every slot                          *)
  lastUsed,     (* memory: AbSlots.last_used                               *)
  opening,      (* memory: streams of the OpenNonceStreams in hand         *)
  tasks,        (* memory: nonce jobs made for it so far                   *)
  batch,        (* memory: nonce_task_batch, the jobs being worked on      *)
  nextSeed,     (* history: seeds drawn so far                             *)
  released      (* history: signature shares that left the device          *)

vars == <<slots, lastUsed, opening, tasks, batch, nextSeed, released>>

SlotIds == 1 .. NSlots

\* read_slot is None.
Empty ==
  [stream |-> None, index |-> 0, seed |-> 0, last_used |-> 0,
   session |-> None, shares |-> {}]

\* A signature share: which of the session's signatures it is for and the
\* nonce it was made with.
Share(s, k, seed, i) == [session |-> s, item |-> k, seed |-> seed, index |-> i]

\* A slot that holds a stream, in the order get and get_or_create scan them.
Holding(stream) == {i \in SlotIds : slots[i].stream = stream}

First(S) == CHOOSE i \in S : \A j \in S : i <= j

\* get_or_create: the first slot that has the stream or is empty, otherwise
\* the first of the least recently used.
LeastRecentlyUsed ==
  First({i \in SlotIds : \A j \in SlotIds : slots[i].last_used <= slots[j].last_used})

GetOrCreate(stream) ==
  LET S == Holding(stream) \cup Holding(None)
  IN  IF S # {} THEN First(S) ELSE LeastRecentlyUsed

\* NonceStreamSlot::initialize
Initialized(stream, used, seed) ==
  [stream |-> stream, index |-> 0, seed |-> seed, last_used |-> used,
   session |-> None, shares |-> {}]

\* A nonce job: how many nonces of which slot state.
Job(v, n) == [stream |-> v.stream, seed |-> v.seed, index |-> v.index, length |-> n]

\* reconcile_coord_nonce_stream_state: the jobs for what the coordinator
\* says it has, at most one.
Reconcile(v, state) ==
  IF v.index > state.index \/ state.remaining < BatchSize
    THEN <<Job(v, BatchSize)>>
    ELSE IF v.index = state.index THEN <<>>
    ELSE <<Job(v, state.index - v.index)>>

\* nonce_task does not panic on "cannot have an index at u32::MAX".
NonceTasksFit(jobs) ==
  \A n \in 1 .. Len(jobs) : jobs[n].index + jobs[n].length < IndexMax

\* The slot after signing session s with the nonces from index i on.
Signed(v, s, i, used) ==
  [v EXCEPT !.index = i + NSigs[s],
            !.last_used = used,
            !.session = s,
            !.shares = {Share(s, k, v.seed, i + k - 1) : k \in 1 .. NSigs[s]}]

\* Mutant: the counter starts over at boot.
NewestUseForgotten(s) == 0

\* AbSlots::new
NewestUse(s) ==
  LET used == {s[i].last_used : i \in {j \in SlotIds : s[j].stream # None}}
  IN  IF used = {} THEN 0 ELSE CHOOSE u \in used : \A w \in used : w <= u

\* No OpenNonceStreams is being handled.
Idle == opening = <<>> /\ tasks = <<>>

----------------------------------------------------------------------------
Init ==
  /\ slots = [i \in SlotIds |-> Empty]
  /\ lastUsed = 0
  /\ opening = <<>>
  /\ tasks = <<>>
  /\ batch = <<>>
  /\ nextSeed = 0
  /\ released = {}

CoordStates == [stream : Streams, index : 0 .. IndexMax, remaining : 0 .. BatchSize]

\* recv_coordinator_message(OpenNonceStreams) starts.  Its streams are
\* partitioned into those that exist and the new ones, are worked through in
\* that order, and no more of them than there are slots.
OpenNonceStreams(existing, new) ==
  /\ Idle
  /\ LET ordered == existing \o new
     IN  opening' = SubSeq(ordered, 1, IF Len(ordered) < NSlots THEN Len(ordered) ELSE NSlots)
  /\ UNCHANGED <<slots, lastUsed, tasks, batch, nextSeed, released>>

\* One turn of its loop: get_or_create, then reconcile.  Without a job at the
\* end the handler has answered with an empty NonceResponse.
OpenStream ==
  /\ opening # <<>>
  /\ lastUsed < MaxUses
  /\ LET state == Head(opening)
         i == GetOrCreate(state.stream)
         create == slots[i].stream # state.stream
         value == IF create THEN Initialized(state.stream, lastUsed + 1, nextSeed)
                            ELSE slots[i]
         jobs == Reconcile(value, state)
     IN  /\ create => nextSeed < MaxSeeds
         /\ NonceTasksFit(jobs)
         /\ slots' = [slots EXCEPT ![i] = value]
         /\ nextSeed' = IF create THEN nextSeed + 1 ELSE nextSeed
         /\ tasks' = tasks \o jobs
  /\ lastUsed' = lastUsed + 1
  /\ opening' = Tail(opening)
  /\ UNCHANGED <<batch, released>>

\* The jobs go to the device loop, in place of an unfinished batch.
StartBatch ==
  /\ opening = <<>>
  /\ tasks # <<>>
  /\ batch' = tasks
  /\ tasks' = <<>>
  /\ UNCHANGED <<slots, lastUsed, opening, nextSeed, released>>

\* The batch finished and its NonceResponse was sent, or a soft reset of the
\* device loop dropped it.
FinishBatch ==
  /\ Idle
  /\ batch # <<>>
  /\ batch' = <<>>
  /\ UNCHANGED <<slots, lastUsed, opening, tasks, nextSeed, released>>

\* Mutant: the shares of a session are not looked for in the slot.
CachedNever(v, s) == FALSE

\* Mutant: whatever the slot has cached is taken for the session's.
CachedAny(v, s) == v.session # None

\* sign_guaranteeing_nonces_destroyed can answer session s: the slot cached
\* it, or the nonces asked for are unused and in range.
Cached(v, s) == v.session = s

\* Mutant: the index check is dropped.
NoncesAvailableUnchecked(v, s, i) == i + NSigs[s] <= IndexMax

NoncesAvailable(v, s, i) == i >= v.index /\ i + NSigs[s] <= IndexMax

\* What the slot is rewritten with.
SlotToWrite(v, s, i) ==
  IF Cached(v, s) THEN v ELSE Signed(v, s, i, lastUsed + 1)

CanSign(s, state) ==
  /\ Idle
  /\ lastUsed < MaxUses
  /\ Holding(state.stream) # {}
  /\ LET v == slots[First(Holding(state.stream))]
     IN  Cached(v, s) \/ NoncesAvailable(v, s, state.index)

\* sign_ack: write the slot, read it back and, when the job that replenishes
\* the nonces can be made, release the shares the slot holds.
Sign(s, state) ==
  /\ CanSign(s, state)
  /\ LET j == First(Holding(state.stream))
         value == SlotToWrite(slots[j], s, state.index)
     IN  /\ NonceTasksFit(Reconcile(value, state))
         /\ slots' = [slots EXCEPT ![j] = value]
         /\ released' = released \cup value.shares
  /\ lastUsed' = lastUsed + 1
  /\ UNCHANGED <<opening, tasks, batch, nextSeed>>

\* Memory after a power loss.
LoseMemory ==
  /\ opening' = <<>>
  /\ tasks' = <<>>
  /\ batch' = <<>>

\* sign_ack wrote the slot, but the power failed or nonce_task panicked before
\* the shares were sent; or the power failed while a large slot was written.
SignPowerLoss(s, state) ==
  /\ CanSign(s, state)
  /\ LET j == First(Holding(state.stream))
         value == SlotToWrite(slots[j], s, state.index)
     IN  \/ slots' = [slots EXCEPT ![j] = value]
         \/ s \in Tearable /\ slots' = [slots EXCEPT ![j] = Empty]
  /\ lastUsed' = NewestUse(slots')
  /\ LoseMemory
  /\ UNCHANGED <<nextSeed, released>>

\* The power fails anywhere else, or a panic restarts the device.
PowerLoss ==
  /\ lastUsed' = NewestUse(slots)
  /\ LoseMemory
  /\ UNCHANGED <<slots, nextSeed, released>>

\* Lists of n streams that are, or are not, in a slot.
Existing(n) == [1 .. n -> {state \in CoordStates : Holding(state.stream) # {}}]
New(n) == [1 .. n -> {state \in CoordStates : Holding(state.stream) = {}}]

Next ==
  \/ \E n \in 1 .. MaxOpen : \E m \in 0 .. n :
       \E existing \in Existing(m), new \in New(n - m) : OpenNonceStreams(existing, new)
  \/ OpenStream
  \/ StartBatch
  \/ FinishBatch
  \/ \E s \in Sessions, state \in CoordStates : Sign(s, state)
  \/ \E s \in Sessions, state \in CoordStates : SignPowerLoss(s, state)
  \/ PowerLoss

Spec == Init /\ [][Next]_vars

----------------------------------------------------------------------------
(* Properties *)

Shares == [session : Sessions, item : Nat, seed : Nat, index : 0 .. IndexMax]
SlotValues ==
  [stream : Streams \cup {None}, index : 0 .. IndexMax, seed : Nat,
   last_used : 0 .. MaxUses, session : Sessions \cup {None},
   shares : SUBSET Shares]
Jobs == [stream : Streams, seed : Nat, index : 0 .. IndexMax, length : Nat]

\* Every index a slot is rewritten with is a u32 (iter_secret_nonces stops at
\* u32::MAX), and what is opened and being worked on are streams.
TypeOK ==
  /\ slots \in [SlotIds -> SlotValues]
  /\ lastUsed \in 0 .. MaxUses
  /\ opening \in Seq(CoordStates)
  /\ tasks \in Seq(Jobs)
  /\ batch \in Seq(Jobs)
  /\ nextSeed \in Nat
  /\ released \in SUBSET Shares

\* No nonce ever signs twice: two shares that left the device and were made
\* with the same nonce are the same share of the same session, whatever is
\* requested, retried, evicted or cut short by a power loss
\* (sign_guaranteeing_nonces_destroyed).
NoNonceReuse ==
  \A a, b \in released : a.seed = b.seed /\ a.index = b.index => a = b

Used(i) == slots[i].stream # None

SeedsUnique ==
  /\ \A i \in SlotIds : Used(i) => slots[i].seed < nextSeed
  /\ \A i, j \in SlotIds : Used(i) /\ Used(j) /\ i # j => slots[i].seed # slots[j].seed

\* Every nonce that was ever used lies behind the index of its slot.
UsedNoncesBehind ==
  /\ \A r \in released :
       /\ r.seed < nextSeed
       /\ \A i \in SlotIds : Used(i) /\ slots[i].seed = r.seed => r.index < slots[i].index
  /\ \A i \in SlotIds : \A sh \in slots[i].shares :
       sh.seed = slots[i].seed /\ sh.index < slots[i].index

\* A cached share is the only one made with its nonce.
CachedSharesUnique ==
  \A i \in SlotIds :
    /\ ~Used(i) => slots[i].shares = {}
    /\ \A sh \in slots[i].shares : \A r \in released \cup slots[i].shares :
         sh.seed = r.seed /\ sh.index = r.index => sh = r

\* The inductive invariant behind NoNonceReuse.
NonceInvariant ==
  /\ SeedsUnique
  /\ UsedNoncesBehind
  /\ CachedSharesUnique
  /\ NoNonceReuse

\* The order that get_or_create evicts in is total, across reboots too: no two
\* slots have the same last_used, and the counter is never behind a slot
\* (increment_last_used, AbSlots::new).
LastUsedDistinct ==
  \A i, j \in SlotIds :
    /\ Used(i) => slots[i].last_used <= lastUsed
    /\ Used(i) /\ Used(j) /\ i # j => slots[i].last_used # slots[j].last_used

=============================================================================
