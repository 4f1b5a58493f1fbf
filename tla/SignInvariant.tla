--------------------------- MODULE SignInvariant ---------------------------
(***************************************************************************)
(* What the coordinator and the device agree on while messages are under   *)
(* way, links break and both restart: the inductive invariant of           *)
(* SignSystem.  Its parts take the state they speak of as parameters: the  *)
(* slots (sl), the cache of the device's nonces (cd), the active sessions  *)
(* (ac), the request on the screen (pr) and the two queues (td, tc), so    *)
(* that a proof can follow what one step does to each.                     *)
(***************************************************************************)
EXTENDS SignSystem

----------------------------------------------------------------------------
(* The device's slots *)

\* What the coordinator says it has of a stream.
States == [stream : Streams, index : Nat, remaining : Nat]

\* The public nonces of the streams, and segments of them.
Nonces == Nat \X Nat
Segments == [stream : Streams, index : Nat, nonces : Seq(Nonces)]

\* Some slot has stream x, and what is in it.
Held(sl, x) == \E i \in D!SlotIds : sl[i].stream = x
SlotOf(sl, x) == sl[CHOOSE i \in D!SlotIds : sl[i].stream = x]

\* The stream of a session, where its nonces begin and where they end.
On(s) == s.nonces[dev].stream
From(s) == s.nonces[dev].index
Ends(s) == IndexAfter(s, dev)

\* The nonces of a seed from an index on.
Run(ns, seed, i) == \A k \in 1 .. Len(ns) : ns[k] = <<seed, i + k - 1>>

\* A session whose nonces are those of a seed.
MadeOf(s, seed) ==
  /\ s \in SessionIds
  /\ Len(s.nonces[dev].nonces) = NSigsOf(s)
  /\ Run(s.nonces[dev].nonces, seed, From(s))
  /\ Ends(s) <= StreamIndexMax

\* A slot is a stream and what it cached: the last session it signed, which ends
\* where the slot is now.
ValueOK(v) ==
  /\ v = [stream |-> v.stream, index |-> v.index, seed |-> v.seed,
          last_used |-> v.last_used, session |-> v.session, shares |-> v.shares]
  /\ v.stream \in Streams \cup {None} /\ v.index \in Nat /\ v.seed \in Nat
  /\ v.session # None =>
       /\ MadeOf(v.session, v.seed) /\ On(v.session) = v.stream /\ Ends(v.session) = v.index
       /\ v.shares = {D!Share(v.session, k, v.seed, From(v.session) + k - 1) :
                        k \in 1 .. NSigsOf(v.session)}

\* The streams fill the slots from the first on, each one of them.
SlotsOK(sl) ==
  /\ sl = [i \in D!SlotIds |-> sl[i]]
  /\ \A i \in D!SlotIds : ValueOK(sl[i])
  /\ \A i, j \in D!SlotIds :
       i < j /\ sl[j].stream # None => sl[i].stream # None /\ sl[i].stream # sl[j].stream

SessionHeld(sl, s) == MadeOf(s, SlotOf(sl, On(s)).seed) /\ Held(sl, On(s))

\* The slot has the session's shares or its nonces.
Signable(sl, s) ==
  SlotOf(sl, On(s)).index <= From(s) \/ SlotOf(sl, On(s)).session = s

SegmentHeld(sl, seg) ==
  /\ seg \in Segments
  /\ Held(sl, seg.stream)
  /\ Run(seg.nonces, SlotOf(sl, seg.stream).seed, seg.index)

----------------------------------------------------------------------------
(* The coordinator's cache and sessions *)

Asked(ac, s) == dev \in ac[s].sent
Unasked(ac, x) == \A s \in DOMAIN ac : On(s) = x => ~Asked(ac, s)

CacheHeld(sl, cd) == \A x \in DOMAIN cd : SegmentHeld(sl, cd[x]) /\ cd[x].stream = x

SessionsOK(sl, cd, ac) ==
  /\ \A s \in DOMAIN ac :
       /\ SessionHeld(sl, s) /\ Signable(sl, s)
       /\ ac[s] \in [sent : SUBSET {dev}, got : {{}}]
       /\ On(s) \in DOMAIN cd /\ cd[On(s)].index <= Ends(s)
  /\ \A s, r \in DOMAIN ac : On(s) = On(r) => s = r

\* The coordinator is not behind the device in a stream nobody was asked to use.
NotBehind(sl, cd, ac) ==
  \A x \in DOMAIN cd : Unasked(ac, x) => cd[x].index >= SlotOf(sl, x).index

\* Session q uses what p leaves.
After(p, q) == On(q) = On(p) /\ q # p => From(q) >= Ends(p)

\* A session the device is asked to sign, which may be closed: later ones do not
\* use its nonces.
RequestOK(sl, cd, ac, p) ==
  /\ SessionHeld(sl, p) /\ Signable(sl, p)
  /\ \A s \in DOMAIN ac : After(p, s)
  /\ p \in DOMAIN ac => Asked(ac, p)
  /\ On(p) \in DOMAIN cd /\ Unasked(ac, On(p)) => cd[On(p)].index >= Ends(p)

\* Shares that were sent, and the nonces that are sent with them.
ShareOK(sl, ac, m) ==
  /\ m.session \in SessionIds /\ Held(sl, On(m.session))
  /\ m.used = m.session.nonces[dev].nonces
  /\ SlotOf(sl, On(m.session)).index >= Ends(m.session)
  /\ m.replenish = <<>> \/ \E seg \in {m.replenish[1]} :
       /\ m.replenish = <<seg>>
       /\ SegmentHeld(sl, seg) /\ ~Overflows(seg)
       /\ seg.stream = On(m.session) /\ seg.index <= Ends(m.session)
  /\ m.session \in DOMAIN ac =>
       Asked(ac, m.session) /\ SlotOf(sl, On(m.session)).session = m.session

\* What the coordinator and the device have in common, with requests for sessions
\* R and shares M under way.
Agree(sl, cd, ac, R, M) ==
  /\ SlotsOK(sl)
  /\ CacheHeld(sl, cd)
  /\ SessionsOK(sl, cd, ac)
  /\ NotBehind(sl, cd, ac)
  /\ \A p \in R : RequestOK(sl, cd, ac, p)
  /\ \A m \in M : ShareOK(sl, ac, m)

----------------------------------------------------------------------------
(* What is under way *)

DeviceMsgs ==
  [type : {"open"}, state : States] \cup [type : {"cancel"}]
    \cup [type : {"sign"}, session : SessionIds, state : States]

CoordMsgs ==
  [type : {"nonces"}, segments : Seq(Segments)]
    \cup [type : {"shares"}, session : SessionIds, used : Seq(Nonces), replenish : Seq(Segments)]

\* Where the messages of a type are.
At(q, type) == {n \in 1 .. Len(q) : q[n].type = type}

Requested(pr, td) ==
  {td[n].session : n \in At(td, "sign")} \cup (IF pr = None THEN {} ELSE {pr.session})
ShareMsgs(tc) == {tc[n] : n \in At(tc, "shares")}

\* Requests are made for sessions, in the order of the nonces they use.
Ordered(pr, td) ==
  /\ \A n \in At(td, "sign") : td[n] = SignMsg(td[n].session)
  /\ \A a, b \in At(td, "sign") : a < b => After(td[a].session, td[b].session)
  /\ pr # None => /\ pr.session \in SessionIds /\ pr = SignMsg(pr.session)
                  /\ \A b \in At(td, "sign") : After(pr.session, td[b].session)

Done(sl, s) == SlotOf(sl, On(s)).session = s
CancelAfter(td, a) == \E b \in 1 .. Len(td) : b > a /\ td[b].type = "cancel"

\* A request for another session than the one that is being signed was answered
\* or is followed by a Cancel, when no Cancel has still to be sent.
Superseded(sl, pr, td, dp) ==
  /\ \A a \in At(td, "sign") :
       td[a].session = dp \/ Done(sl, td[a].session) \/ CancelAfter(td, a)
  /\ pr # None => pr.session = dp \/ Done(sl, pr.session) \/ CancelAfter(td, 0)

Jobs == [stream : Streams, seed : Nat, index : Nat, length : Nat]

\* The nonces a job is for are those the slot goes on with.
JobOK(sl, j) ==
  /\ j \in Jobs /\ Held(sl, j.stream)
  /\ j.seed = SlotOf(sl, j.stream).seed /\ j.index = SlotOf(sl, j.stream).index
  /\ j.index + j.length <= StreamIndexMax

\* So are those of an answer.
AnswerOK(sl, m) ==
  m.segments = <<>> \/ \E seg \in {m.segments[1]} :
    /\ m.segments = <<seg>>
    /\ SegmentHeld(sl, seg) /\ ~Overflows(seg)
    /\ seg.index = SlotOf(sl, seg.stream).index

\* Nothing is on its way to the device that makes it go on in a stream.
Quiet(sl, pr, td) == td = <<>> /\ (pr # None => Done(sl, pr.session))

\* Where the one request for nonces may be.
NoToken(td, op, tk, bt, tc) ==
  At(td, "open") = {} /\ op = <<>> /\ tk = <<>> /\ bt = <<>> /\ At(tc, "nonces") = {}
Sent(td, op, tk, bt, tc) ==
  /\ Len(td) > 0 /\ At(td, "open") = {Len(td)}
  /\ op = <<>> /\ tk = <<>> /\ bt = <<>> /\ At(tc, "nonces") = {}
Opening(op, tk, bt, tc) ==
  /\ \E st \in {op[1]} : op = <<st>> /\ st \in States
  /\ tk = <<>> /\ bt = <<>> /\ At(tc, "nonces") = {}
Planned(sl, op, tk, bt, tc) ==
  /\ op = <<>> /\ \E j \in {tk[1]} : tk = <<j>> /\ JobOK(sl, j)
  /\ bt = <<>> /\ At(tc, "nonces") = {}
Working(sl, op, tk, bt, tc) ==
  /\ op = <<>> /\ tk = <<>> /\ \E j \in {bt[1]} : bt = <<j>> /\ JobOK(sl, j)
  /\ At(tc, "nonces") = {}
Answered(sl, op, tk, bt, tc) ==
  /\ op = <<>> /\ tk = <<>> /\ bt = <<>>
  /\ \E n \in 1 .. Len(tc) : At(tc, "nonces") = {n} /\ AnswerOK(sl, tc[n])

Token(sl, pr, td, op, tk, bt, tc) ==
  \/ Sent(td, op, tk, bt, tc)
  \/ /\ Quiet(sl, pr, td)
     /\ \/ op # <<>> /\ Opening(op, tk, bt, tc)
        \/ tk # <<>> /\ Planned(sl, op, tk, bt, tc)
        \/ bt # <<>> /\ Working(sl, op, tk, bt, tc)
        \/ Answered(sl, op, tk, bt, tc)

TokenInv ==
  /\ replenishing => dispatch = None /\ cancelling = 0
  /\ awaiting => replenishing
  /\ \/ NoToken(toDevice, opening, tasks, batch, toCoord)
     \/ awaiting /\ Token(slots, prompt, toDevice, opening, tasks, batch, toCoord)

LinkInv ==
  /\ toDevice \in Seq(DeviceMsgs) /\ toCoord \in Seq(CoordMsgs)
  /\ pending \in Seq(States)
  /\ nextSeed \in Nat /\ cancelling \in Nat
  /\ ~connected => toDevice = <<>> /\ prompt = None /\ ~needRequest /\ ~replenishing
  /\ dispatch # None => dispatch \in ActiveSessions

\* The streams the device has, or is asked for, were drawn.
Drawn ==
  /\ usedIds \subseteq Streams
  /\ \A i \in D!SlotIds : slots[i].stream \in usedIds \cup {None}
  /\ \A n \in 1 .. Len(pending) : pending[n].stream \in usedIds
  /\ \A n \in At(toDevice, "open") : toDevice[n].state.stream \in usedIds
  /\ opening # <<>> => opening[1].stream \in usedIds

SystemInv ==
  /\ LinkInv
  /\ Agree(slots, cache[dev], active, Requested(prompt, toDevice), ShareMsgs(toCoord))
  /\ Ordered(prompt, toDevice)
  /\ cancelling = 0 => Superseded(slots, prompt, toDevice, dispatch)
  /\ TokenInv
  /\ dev \in holders
  /\ ~crashed /\ ~panicked

\* No more stream ids were drawn than the device has slots.
EnoughSlots == Cardinality(usedIds) <= NSlots

=============================================================================
