---------------------------- MODULE CoordSigning ----------------------------
(***************************************************************************)
(* The coordinator's signing state (frostsnap_core/src/coordinator.rs and  *)
(* coord_nonces.rs): the nonces it got from every device, the signing      *)
(* sessions under way and the devices that hold a share of the key.  All   *)
(* of it is persisted with the operation that changes it.                  *)
(*                                                                         *)
(* One key with one access structure.  A session is identified by what it  *)
(* signs and the nonces it signs with, as session_id() hashes them.  Stream *)
(* ids are numbers, in the order the coordinator's map keeps them.         *)
(***************************************************************************)
EXTENDS NonceStream, FiniteSets

CONSTANTS
  Devices,      (* device ids                                              *)
  Streams,      (* nonce stream ids                                        *)
  Tasks,        (* sign tasks                                              *)
  TaskSigs,     (* TaskSigs[t]: signatures task t needs                    *)
  Threshold     (* of the access structure                                 *)

ASSUME CoordAssumption ==
  /\ Streams \subseteq Nat
  /\ TaskSigs \in [Tasks -> Nat \ {0}]
  /\ Threshold \in Nat \ {0}

VARIABLES
  cache,        (* nonce_cache: device -> stream -> segment                *)
  active,       (* active_signing_sessions: session -> who was sent the    *)
                (* request, whose shares arrived                           *)
  finished,     (* finished_signing_sessions                               *)
  holders,      (* devices of device_to_share_index                        *)
  crashed       (* an assertion of the coordinator failed                  *)

coordVars == <<cache, active, finished, holders, crashed>>

CoordInit ==
  /\ cache = [d \in Devices |-> <<>>]
  /\ active = <<>>
  /\ finished = {}
  /\ holders = Devices
  /\ crashed = FALSE

ActiveSessions == DOMAIN active
Parties(s) == DOMAIN s.nonces
NSigsOf(s) == TaskSigs[s.task]

----------------------------------------------------------------------------
(* The nonce cache *)

\* NonceCache::extend_segment, on top of an empty segment for a new stream.
ExtendSegment(c, d, seg) ==
  LET curr == IF seg.stream \in DOMAIN c[d] THEN c[d][seg.stream]
                                            ELSE Segment(seg.stream, 0, <<>>)
      new == IF Overflows(seg) THEN curr ELSE Extend(curr, seg)
  IN  [c EXCEPT ![d] =
        [x \in DOMAIN c[d] \cup {seg.stream} |-> IF x = seg.stream THEN new ELSE c[d][x]]]

\* all_used_nonce_streams
UsedStreams == UNION {{s.nonces[d].stream : d \in Parties(s)} : s \in ActiveSessions}

\* Mutant: a stream is skipped only when its session's request was sent.
SuitableStreamsIfUnsent(d, n) ==
  {x \in DOMAIN cache[d] :
     /\ \A s \in ActiveSessions : d \in active[s].sent => s.nonces[d].stream # x
     /\ ~Overflows(cache[d][x])
     /\ Len(cache[d][x].nonces) >= n}

\* NonceCache::new_signing_session: the streams of a device it would take.
SuitableStreams(d, n) ==
  {x \in DOMAIN cache[d] :
     /\ x \notin UsedStreams
     /\ ~Overflows(cache[d][x])
     /\ Len(cache[d][x].nonces) >= n}

\* The nonces a session takes of a device: a prefix of its first such stream.
ChosenNonces(d, n) ==
  LET x == CHOOSE y \in SuitableStreams(d, n) : \A z \in SuitableStreams(d, n) : y <= z
  IN  SubSegment(cache[d][x], n)

\* The first index a session leaves to others.
IndexAfter(s, d) == s.nonces[d].index + NSigsOf(s)

\* NonceCache::consume's assertion holds when sessions S close.
CanConsume(c, S) ==
  \A s \in S : \A d \in active[s].sent :
    s.nonces[d].stream \in DOMAIN c[d] => c[d][s.nonces[d].stream].index <= IndexAfter(s, d)

\* Mutant: only a session whose shares arrived uses up its nonces.
ConsumeIfAnswered(c, S) ==
  [d \in Devices |->
    [x \in DOMAIN c[d] |->
      LET users == {s \in S : d \in active[s].got /\ s.nonces[d].stream = x}
      IN  IF users = {} THEN c[d][x]
          ELSE DeleteUpTo(c[d][x], IndexAfter(CHOOSE s \in users : TRUE, d))]]

\* The cache after CloseSignSession of sessions S: what a device was asked to
\* use is gone, the nonces of a request that was never sent stay.
Consume(c, S) ==
  [d \in Devices |->
    [x \in DOMAIN c[d] |->
      LET users == {s \in S : d \in active[s].sent /\ s.nonces[d].stream = x}
      IN  IF users = {} THEN c[d][x]
          ELSE DeleteUpTo(c[d][x], IndexAfter(CHOOSE s \in users : TRUE, d))]]

----------------------------------------------------------------------------
(* Operations *)

\* An assertion fails: the coordinator stops where it is.
Crash ==
  /\ crashed' = TRUE
  /\ UNCHANGED <<cache, active, finished, holders>>

Without(S) == [s \in ActiveSessions \ S |-> active[s]]

\* The session that start_sign makes.
NewSession(t, selected) == [task |-> t, nonces |-> [d \in selected |-> ChosenNonces(d, TaskSigs[t])]]

\* start_sign
StartSign(t, selected) ==
  /\ selected \subseteq holders
  /\ Cardinality(selected) >= Threshold
  /\ \A d \in selected : SuitableStreams(d, TaskSigs[t]) # {}
  /\ LET s == NewSession(t, selected)
     IN  active' = [x \in ActiveSessions \cup {s} |->
                      IF x = s THEN [sent |-> {}, got |-> {}] ELSE active[x]]
  /\ UNCHANGED <<cache, finished, holders, crashed>>

\* request_device_sign: coord_share_decryption_contrib finds no share index
\* for a device that is not a holder, and the coordinator expects one.
RequestDeviceSign(s, d) ==
  /\ s \in ActiveSessions
  /\ d \in Parties(s)
  /\ IF d \in holders
       THEN /\ active' = [active EXCEPT ![s].sent = @ \cup {d}]
            /\ UNCHANGED <<cache, finished, holders, crashed>>
       ELSE Crash

\* recv_device_message(NonceResponse) with the segment of one stream.
RecvNonces(d, seg) ==
  /\ cache' = ExtendSegment(cache, d, seg)
  /\ UNCHANGED <<active, finished, holders, crashed>>

\* The cache once the nonces that came with shares are in it.
Replenished(d, replenish) ==
  IF replenish = <<>> THEN cache ELSE ExtendSegment(cache, d, replenish[1])

\* Mutant: the session is closed before the nonces that came with the shares
\* are added.
CompletedCacheClosedFirst(d, replenish, S) ==
  IF replenish = <<>> THEN Consume(cache, S)
  ELSE ExtendSegment(Consume(cache, S), d, replenish[1])

\* The cache after the last share of the sessions S.
CompletedCache(d, replenish, S) == Consume(Replenished(d, replenish), S)

\* The shares are accepted: the session is active, the device holds a share and
\* takes part, and the shares verify under the session's nonces.
AcceptShares(d, s, used) ==
  /\ s \in ActiveSessions
  /\ d \in holders
  /\ d \in Parties(s)
  /\ used = s.nonces[d].nonces

\* recv_device_message(SignatureShare): shares of session s, made with the
\* nonces "used", and none or one segment of new nonces.
RecvShares(d, s, used, replenish) ==
  IF ~AcceptShares(d, s, used) THEN UNCHANGED coordVars
  ELSE IF active[s].got \cup {d} # Parties(s)
    THEN /\ active' = [active EXCEPT ![s].got = @ \cup {d}]
         /\ cache' = Replenished(d, replenish)
         /\ UNCHANGED <<finished, holders, crashed>>
  ELSE IF ~CanConsume(Replenished(d, replenish), {s})
    THEN Crash
  ELSE /\ active' = Without({s})
       /\ cache' = CompletedCache(d, replenish, {s})
       /\ finished' = finished \cup {s}
       /\ UNCHANGED <<holders, crashed>>

\* cancel_sign_session
CancelSignSession(s) ==
  /\ s \in ActiveSessions
  /\ IF CanConsume(cache, {s})
       THEN /\ active' = Without({s})
            /\ cache' = Consume(cache, {s})
            /\ UNCHANGED <<finished, holders, crashed>>
       ELSE Crash

\* cancel_all_signing_sessions
CancelAllSignSessions ==
  /\ ActiveSessions # {}
  /\ IF CanConsume(cache, ActiveSessions)
       THEN /\ active' = <<>>
            /\ cache' = Consume(cache, ActiveSessions)
            /\ UNCHANGED <<finished, holders, crashed>>
       ELSE Crash

\* forget_finished_sign_session
ForgetFinishedSignSession(s) ==
  /\ s \in finished
  /\ finished' = finished \ {s}
  /\ UNCHANGED <<cache, active, holders, crashed>>

\* Mutant: only a device whose shares arrived is kept.
DeleteShareIfNoShares(d) ==
  /\ d \in holders
  /\ \A s \in ActiveSessions : d \notin active[s].got
  /\ holders' = holders \ {d}
  /\ UNCHANGED <<cache, active, finished, crashed>>

\* delete_share
DeleteShare(d) ==
  /\ d \in holders
  /\ \A s \in ActiveSessions : d \notin active[s].sent \cup active[s].got
  /\ holders' = holders \ {d}
  /\ UNCHANGED <<cache, active, finished, crashed>>

\* delete_key: its sessions close with it.  A key all of whose shares were
\* deleted can still be deleted.
DeleteKey ==
  IF CanConsume(cache, ActiveSessions)
    THEN /\ holders' = {}
         /\ active' = <<>>
         /\ cache' = Consume(cache, ActiveSessions)
         /\ UNCHANGED <<finished, crashed>>
    ELSE Crash

----------------------------------------------------------------------------
(* The coordinator on its own, whatever its devices send *)

\* A device answers a request it was sent, as often as it was sent it.
GoodShares(segs) ==
  \E s \in ActiveSessions : \E d \in active[s].sent :
    \E replenish \in {<<>>} \cup {<<seg>> : seg \in segs[d]} :
      RecvShares(d, s, s.nonces[d].nonces, replenish)

\* Shares that were made with other nonces, or for a session that is closed; the
\* nonces that come with them are not looked at.
BadShares ==
  \E s \in ActiveSessions \cup finished : \E d \in Parties(s) :
    RecvShares(d, s, <<>>, <<>>)

\* segs[d] are the segments that device d may send.
CoordNext(segs) ==
  /\ ~crashed
  /\ \/ \E t \in Tasks, selected \in SUBSET Devices : StartSign(t, selected)
     \/ \E s \in ActiveSessions, d \in Devices : RequestDeviceSign(s, d)
     \/ \E d \in Devices : \E seg \in segs[d] : RecvNonces(d, seg)
     \/ GoodShares(segs)
     \/ BadShares
     \/ \E s \in ActiveSessions : CancelSignSession(s)
     \/ CancelAllSignSessions
     \/ \E s \in finished : ForgetFinishedSignSession(s)
     \/ \E d \in Devices : DeleteShare(d)
     \/ DeleteKey

CoordSpec(segs) == CoordInit /\ [][CoordNext(segs)]_coordVars

----------------------------------------------------------------------------
(* Properties *)

\* No nonce is given to two sessions at a time (all_used_nonce_streams): the
\* nonces of two active sessions are different on every device.
ActiveNoncesDisjoint ==
  \A s, r \in ActiveSessions : \A d \in Parties(s) \cap Parties(r) :
    s # r => s.nonces[d].stream # r.nonces[d].stream

\* Who was asked to sign still holds its share (delete_share), so its answer is
\* not turned away with "got shares from signer who was not part of the access
\* structure".
AskedDevicesHoldShares == \A s \in ActiveSessions : active[s].sent \subseteq holders

\* A closed session leaves none of the nonces a device was asked to use behind,
\* whatever nonces arrived with its last shares (CloseSignSession).
ClosedNoncesGone ==
  [][\A s \in DOMAIN active \ DOMAIN active' : \A d \in active[s].sent :
       \A i \in s.nonces[d].index .. IndexAfter(s, d) - 1 :
         s.nonces[d].stream \in DOMAIN cache'[d] =>
           ~Covers(cache'[d][s.nonces[d].stream], i)]_coordVars

\* However many nonces of a cached segment a signing request takes, they are the
\* first ones (new_signing_session); delete_up_to, when the session closes, drops
\* those and no others, and leaves as many as the request said remain.
TakenIsPrefix ==
  \A d \in Devices : \A x \in DOMAIN cache[d] : \E seg \in {cache[d][x]} :
    \A n \in 0 .. Len(seg.nonces) :
      FallsApart(seg, SubSegment(seg, n), DeleteUpTo(seg, seg.index + n), n)

\* No assertion of the coordinator fails: consume's "tried to consume no
\* nonces", request_device_sign's "must be able to decrypt rootkey".
CoordinatorNeverCrashes == ~crashed

=============================================================================
