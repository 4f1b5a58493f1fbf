---------------------------- MODULE KeyGenProofs ----------------------------
(* Proofs about key generation, for any devices, any selections of them, any *)
(* number of key generations and any number of failures.  What a device does *)
(* with its inbox, and the app's loop with the messages it reads, are        *)
(* recursive functions; the facts about them are proved by looking at the    *)
(* shortest inbox, and the smallest set of devices, at which they could fail.*)
(*                                                                           *)
(* The first half is about who has confirmed what is persisted               *)
(* (KeyGenInvariant).  The second half is about the order of the messages on *)
(* their way to a device, and where they find it (OrderInvariant).           *)
EXTENDS KeyGen, SequenceTheorems, FiniteSetTheorems, WellFoundedInduction, TLAPS

----------------------------------------------------------------------------
(* The inductive invariant *)

\* What the app sends to devices, and what a device answers.
Orders ==
  [type : {"Begin", "CertifyPlease", "Check", "Finalize"}, id : KeygenIds, to : SUBSET Devices]
    \cup [type : {"Cancel", "Preview"}, id : {None}, to : SUBSET Devices]

Answers == [type : {"Response", "Certify", "Ack"}, id : KeygenIds]

Entries == [state : {"none", "responses", "certificates", "acks", "finalize"},
            from : SUBSET Devices]

Phases == [KeygenIds -> {"none", "1", "2", "4"}]

CoordType ==
  /\ pending \in [KeygenIds -> Entries]
  /\ members \in [KeygenIds -> SUBSET Devices]
  /\ keys \subseteq KeygenIds
  /\ ui # None => ui \in [id : KeygenIds, send : BOOLEAN, finished : BOOLEAN, aborted : BOOLEAN]
  /\ form \subseteq Devices /\ seen \subseteq Devices
  /\ outbox \in Seq(Orders)
  /\ down \in [Devices -> Seq(Orders)] /\ up \in [Devices -> Seq(Answers)]

DeviceType ==
  /\ phase \in [Devices -> Phases]
  /\ prompt \in [Devices -> KeygenIds \cup {None}]
  /\ named \in [Devices -> BOOLEAN]
  /\ shares \in [Devices -> SUBSET KeygenIds]

\* The pending key generations: who answered the check has confirmed, and only
\* what began is pending.
Confirms(p) ==
  \A k \in KeygenIds :
    /\ p[k].state = "acks" => \A d \in p[k].from : <<d, k>> \in confirmed
    /\ p[k].state = "finalize" => \A d \in members[k] : <<d, k>> \in confirmed
    /\ p[k].state # "none" => members[k] # {}

\* Finalize is only sent for a key that is persisted, and only to its devices.
Backed(ms) ==
  \A i \in DOMAIN ms : ms[i].type = "Finalize" =>
    ms[i].id \in keys /\ ms[i].to \subseteq members[ms[i].id]

BackedFor(d, ms) ==
  \A i \in DOMAIN ms : ms[i].type = "Finalize" => ms[i].id \in keys /\ d \in members[ms[i].id]

FinalizeIsBacked == Backed(outbox) /\ \A d \in Devices : BackedFor(d, down[d])

\* An ack is only sent by a device whose user confirmed.
AcksConfirm ==
  \A d \in Devices : \A i \in DOMAIN up[d] :
    up[d][i].type = "Ack" => <<d, up[d][i].id>> \in confirmed

KeysBegan == \A k \in keys : members[k] # {}

KeyGenInvariant ==
  /\ CoordType /\ DeviceType
  /\ Confirms(pending) /\ FinalizeIsBacked /\ AcksConfirm /\ KeysBegan
  /\ NoOrphanShare /\ EveryoneConfirmed

----------------------------------------------------------------------------
(* Recursion *)

\* A non-empty set of naturals has a least element.
LEMMA LeastNatural ==
  ASSUME NEW S, S \subseteq Nat, S # {}
  PROVE  \E m \in S : \A k \in S : m <= k
<1>1. PICK m \in S : \A k \in S : ~ (<<k, m>> \in OpToRel(<, Nat))
  BY WFMin, NatLessThanWellFounded
<1>2. \A k \in S : ~ (k < m)
  BY <1>1 DEF OpToRel
<1> QED BY <1>2

\* A set that has zero, and the successor of what it has, has all of 0 .. n.
LEMMA UpTo ==
  ASSUME NEW n \in Nat, NEW G, 0 \in G,
         \A i \in 1 .. n : i - 1 \in G => i \in G
  PROVE  \A i \in 0 .. n : i \in G
<1> DEFINE bad == {i \in 0 .. n : i \notin G}
<1>1. SUFFICES ASSUME NEW j \in 0 .. n, j \notin G PROVE FALSE
  OBVIOUS
<1>2. j \in bad /\ bad \subseteq Nat
  BY <1>1
<1>3. PICK m \in bad : \A k \in bad : m <= k
  <2> HIDE DEF bad
  <2> QED BY <1>2, LeastNatural
<1>4. m \in 1 .. n /\ m \notin G
  BY <1>3
<1>5. m - 1 \in G
  <2>1. m - 1 \in 0 .. n /\ ~ (m <= m - 1)
    BY <1>4
  <2> QED BY <2>1, <1>3
<1> QED BY <1>4, <1>5

\* A set of sets that has the empty set, and a finite set if it has the set
\* without its chosen element, has every finite set.
LEMMA OnSubsets ==
  ASSUME NEW R, IsFiniteSet(R), NEW G, {} \in G,
         \A s \in SUBSET R : s # {} /\ s \ {CHOOSE x \in s : TRUE} \in G => s \in G
  PROVE  \A s \in SUBSET R : s \in G
<1> DEFINE bad == {s \in SUBSET R : s \notin G}
           sizes == {Cardinality(s) : s \in bad}
<1>1. SUFFICES ASSUME NEW t \in SUBSET R, t \notin G PROVE FALSE
  OBVIOUS
<1>2. \A s \in SUBSET R : IsFiniteSet(s) /\ Cardinality(s) \in Nat
  BY FS_Subset, FS_CardinalityType
<1>3. sizes # {} /\ sizes \subseteq Nat
  BY <1>1, <1>2
<1>4. PICK m \in sizes : \A k \in sizes : m <= k
  <2> HIDE DEF sizes
  <2> QED BY <1>3, LeastNatural
<1>5. PICK s \in bad : m = Cardinality(s)
  BY <1>4
<1>6. s \in SUBSET R /\ s # {}
  BY <1>5
<1> DEFINE x == CHOOSE y \in s : TRUE
<1>7. x \in s
  BY <1>6
<1> HIDE DEF x
<1>8. s \ {x} \in SUBSET R /\ Cardinality(s \ {x}) = m - 1
  BY <1>2, <1>5, <1>6, <1>7, FS_RemoveElement
<1>9. s \ {x} \in G
  <2>1. SUFFICES ASSUME s \ {x} \notin G PROVE FALSE
    OBVIOUS
  <2>2. m - 1 \in sizes
    BY <1>8, <2>1
  <2> HIDE DEF sizes
  <2> QED BY <1>3, <1>4, <2>2
<1>10. s \in G
  BY <1>6, <1>9 DEF x
<1> QED BY <1>5, <1>10

----------------------------------------------------------------------------
(* The device's loop *)

\* What recv_coordinator_message leaves to do, and what is then sent.
Tasks == [type : {"Response", "Certify", "CheckKeyGen", "FinalizeKeyGen"}, id : KeygenIds]
Replies == [type : {"Response", "Certify"}, id : KeygenIds]

\* A poll in the middle of its work, when it may save shares of the keys in S.
Polls(S, outs) == [phase : Phases, prompt : KeygenIds \cup {None}, named : BOOLEAN,
                   saved : SUBSET S, out : Seq(outs), failed : BOOLEAN]

\* The message m tells to save only shares of the keys in S.
Allows(S, m) == m.type = "Finalize" => m.id \in S

\* A step of a key generation keeps what a poll works on in shape.
LEMMA ToType ==
  ASSUME NEW S, NEW w \in Polls(S, Tasks), NEW k \in KeygenIds, NEW from,
         NEW to \in {"none", "1", "2", "4"}, NEW out \in Tasks
  PROVE  To(w, k, from, to, out) \in Polls(S, Tasks)
<1>1. Append(w.out, out) \in Seq(Tasks)
  BY DEF Polls
<1>2. [w.phase EXCEPT ![k] = to] \in Phases
  BY DEF Polls, Phases
<1> QED BY <1>1, <1>2 DEF To, Polls

\* A message of the inbox keeps it in shape.
LEMMA ProcessType ==
  ASSUME NEW S \in SUBSET KeygenIds, NEW w \in Polls(S, Tasks), NEW m \in Orders, Allows(S, m)
  PROVE  Process(w, m) \in Polls(S, Tasks)
<1>1. CASE w.failed
  BY <1>1 DEF Process
<1>2. CASE ~w.failed /\ m.type = "Cancel"
  BY <1>2 DEF Process, Polls, Idle, Phases
<1>3. CASE ~w.failed /\ m.type = "Preview"
  BY <1>3 DEF Process, Polls
<1>4. CASE ~w.failed /\ m.type \in {"Begin", "CertifyPlease", "Check", "Finalize"}
  <2>1. m.id \in KeygenIds
    BY <1>4 DEF Orders
  <2>2. \A type \in {"Response", "Certify", "CheckKeyGen", "FinalizeKeyGen"} :
          Answer(type, m.id) \in Tasks
    BY <2>1 DEF Answer, Tasks
  <2>3. CASE m.type = "Begin"
    <3>1. Append(w.out, Answer("Response", m.id)) \in Seq(Tasks)
      BY <2>2 DEF Polls
    <3>2. [w.phase EXCEPT ![m.id] = "1"] \in Phases
      BY DEF Polls, Phases
    <3>3. Process(w, m) =
            [w EXCEPT !.phase[m.id] = "1", !.out = Append(@, Answer("Response", m.id))]
      BY <1>4, <2>3 DEF Process
    <3> QED BY <3>1, <3>2, <3>3 DEF Polls
  <2>4. CASE m.type = "CertifyPlease"
    <3>1. Process(w, m) = To(w, m.id, "1", "2", Answer("Certify", m.id))
      BY <1>4, <2>4 DEF Process
    <3> QED BY <2>1, <2>2, <3>1, ToType
  <2>5. CASE m.type = "Check"
    <3>1. Process(w, m) = To(w, m.id, "2", "none", Answer("CheckKeyGen", m.id))
      BY <1>4, <2>5 DEF Process
    <3> QED BY <2>1, <2>2, <3>1, ToType
  <2>6. CASE m.type = "Finalize"
    <3> DEFINE v == To(w, m.id, "4", "none", Answer("FinalizeKeyGen", m.id))
    <3>1. v \in Polls(S, Tasks)
      BY <2>1, <2>2, ToType
    <3>2. Process(w, m) = IF v.failed THEN v ELSE [v EXCEPT !.saved = @ \cup {m.id}]
      BY <1>4, <2>6 DEF Process
    <3>3. m.id \in S
      BY <2>6 DEF Allows
    <3> HIDE DEF v
    <3> QED BY <3>1, <3>2, <3>3 DEF Polls
  <2> QED BY <1>4, <2>3, <2>4, <2>5, <2>6
<1>5. m.type \in {"Begin", "CertifyPlease", "Check", "Finalize", "Cancel", "Preview"}
  BY DEF Orders
<1> QED BY <1>1, <1>2, <1>3, <1>4, <1>5

\* An entry of the outbox keeps it in shape.
LEMMA EmitType ==
  ASSUME NEW S, NEW w \in Polls(S, Replies), NEW o \in Tasks
  PROVE  Emit(w, o) \in Polls(S, Replies)
<1>1. o.id \in KeygenIds
  BY DEF Tasks
<1>2. CASE w.failed
  BY <1>2 DEF Emit
<1>3. CASE ~w.failed /\ o.type = "CheckKeyGen"
  BY <1>1, <1>3 DEF Emit, Polls
<1>4. CASE ~w.failed /\ o.type = "FinalizeKeyGen"
  <2>1. (~w.named) \in BOOLEAN
    OBVIOUS
  <2> QED BY <1>4, <2>1 DEF Emit, Polls
<1>5. CASE ~w.failed /\ o.type \notin {"CheckKeyGen", "FinalizeKeyGen"}
  <2>1. o \in Replies
    BY <1>5 DEF Tasks, Replies
  <2>2. Append(w.out, o) \in Seq(Replies)
    BY <2>1 DEF Polls
  <2>3. Emit(w, o) = [w EXCEPT !.out = Append(@, o)]
    BY <1>5 DEF Emit
  <2> QED BY <2>2, <2>3 DEF Polls
<1> QED BY <1>2, <1>3, <1>4, <1>5

\* The inbox is worked off message by message.
LEMMA AfterInboxUnfolds ==
  ASSUME NEW d, NEW n \in Nat
  PROVE  \E w : /\ w[0] = Working(d)
                /\ \A i \in 1 .. n : w[i] = Process(w[i - 1], down[d][i])
                /\ AfterInbox(d, n) = w[n]
<1> DEFINE Runs(w, j) == /\ w[0] = Working(d)
                         /\ \A i \in 1 .. j : w[i] = Process(w[i - 1], down[d][i])
           G == {j \in 0 .. n : \E w : Runs(w, j)}
<1>1. 0 \in G
  <2> DEFINE w == [i \in {0} |-> Working(d)]
  <2>1. Runs(w, 0)
    OBVIOUS
  <2> HIDE DEF w
  <2>2. 0 \in 0 .. n /\ \E f : Runs(f, 0)
    BY <2>1
  <2> QED BY <2>2
<1>2. ASSUME NEW j \in 1 .. n, j - 1 \in G
      PROVE  j \in G
  <2>1. PICK w : Runs(w, j - 1)
    BY <1>2
  <2> DEFINE v == [i \in 0 .. j |-> IF i = j THEN Process(w[j - 1], down[d][j]) ELSE w[i]]
  <2>2. v[0] = w[0] /\ v[j] = Process(w[j - 1], down[d][j])
    OBVIOUS
  <2>3. \A i \in 1 .. j - 1 : v[i] = w[i] /\ v[i - 1] = w[i - 1]
    OBVIOUS
  <2>4. v[j - 1] = w[j - 1]
    OBVIOUS
  <2> HIDE DEF v
  <2>5. \A i \in 1 .. j : i # j => i \in 1 .. j - 1
    OBVIOUS
  <2>6. Runs(v, j)
    BY <2>1, <2>2, <2>3, <2>4, <2>5
  <2> QED BY <2>6
<1>3. n \in G
  <2> HIDE DEF G
  <2> QED BY <1>1, <1>2, UpTo
<1>4. PICK w : Runs(w, n)
  BY <1>3
<1> DEFINE Step(g) == [i \in 0 .. n |-> IF i = 0 THEN Working(d) ELSE Process(g[i - 1], down[d][i])]
           h == [i \in 0 .. n |-> w[i]]
<1>5. \A i \in 1 .. n : h[i - 1] = w[i - 1] /\ h[i] = w[i]
  OBVIOUS
<1>6. h = Step(h)
  BY <1>4, <1>5
<1> HIDE DEF h
<1>7. PICK g : g = (CHOOSE f : f = Step(f)) /\ g = Step(g)
  BY <1>6
<1>8. AfterInbox(d, n) = g[n]
  BY <1>7 DEF AfterInbox
<1>9. \A i \in 0 .. n : g[i] = IF i = 0 THEN Working(d) ELSE Process(g[i - 1], down[d][i])
  <2> HIDE DEF h
  <2>1. g = Step(g)
    BY <1>7
  <2>2. \A i \in 0 .. n : Step(g)[i] =
                            IF i = 0 THEN Working(d) ELSE Process(g[i - 1], down[d][i])
    OBVIOUS
  <2> HIDE DEF Step
  <2> QED BY <2>1, <2>2
<1>10. g[0] = Working(d) /\ \A i \in 1 .. n : g[i] = Process(g[i - 1], down[d][i])
  BY <1>9
<1> QED BY <1>8, <1>10

\* The outbox is worked off entry by entry.
LEMMA AfterOutboxUnfolds ==
  ASSUME NEW w, Len(w.out) \in Nat
  PROVE  \E v : /\ v[0] = [w EXCEPT !.out = <<>>]
                /\ \A i \in 1 .. Len(w.out) : v[i] = Emit(v[i - 1], w.out[i])
                /\ AfterOutbox(w) = v[Len(w.out)]
<1> DEFINE n == Len(w.out)
           start == [w EXCEPT !.out = <<>>]
           Runs(v, j) == /\ v[0] = start
                         /\ \A i \in 1 .. j : v[i] = Emit(v[i - 1], w.out[i])
           G == {j \in 0 .. n : \E v : Runs(v, j)}
           Step(g) == [i \in 0 .. n |-> IF i = 0 THEN start ELSE Emit(g[i - 1], w.out[i])]
<1>0. n \in Nat /\ AfterOutbox(w) = (CHOOSE f : f = Step(f))[n]
  BY DEF AfterOutbox
<1> HIDE DEF n, start
<1>1. 0 \in G
  <2> DEFINE v == [i \in {0} |-> start]
  <2>1. Runs(v, 0)
    OBVIOUS
  <2> HIDE DEF v
  <2>2. 0 \in 0 .. n /\ \E f : Runs(f, 0)
    BY <1>0, <2>1
  <2> QED BY <2>2
<1>2. ASSUME NEW j \in 1 .. n, j - 1 \in G
      PROVE  j \in G
  <2>1. PICK v : Runs(v, j - 1)
    BY <1>2
  <2> DEFINE u == [i \in 0 .. j |-> IF i = j THEN Emit(v[j - 1], w.out[j]) ELSE v[i]]
  <2>2. u[0] = v[0] /\ u[j] = Emit(v[j - 1], w.out[j])
    BY <1>0
  <2>3. \A i \in 1 .. j - 1 : u[i] = v[i] /\ u[i - 1] = v[i - 1]
    BY <1>0
  <2>4. u[j - 1] = v[j - 1]
    BY <1>0
  <2> HIDE DEF u
  <2>5. \A i \in 1 .. j : i # j => i \in 1 .. j - 1
    BY <1>0
  <2>6. Runs(u, j)
    BY <2>1, <2>2, <2>3, <2>4, <2>5
  <2> QED BY <2>6
<1>3. n \in G
  <2>1. n \in 0 .. n
    BY <1>0
  <2> HIDE DEF G
  <2> QED BY <1>0, <1>1, <1>2, <2>1, UpTo
<1>4. PICK v : Runs(v, n)
  BY <1>3
<1> DEFINE h == [i \in 0 .. n |-> v[i]]
<1>5. \A i \in 1 .. n : h[i - 1] = v[i - 1] /\ h[i] = v[i]
  BY <1>0
<1>6. h = Step(h)
  BY <1>4, <1>5
<1> HIDE DEF h
<1>7. PICK g : g = (CHOOSE f : f = Step(f)) /\ g = Step(g)
  BY <1>6
<1>8. AfterOutbox(w) = g[n]
  BY <1>0, <1>7
<1>9. \A i \in 0 .. n : g[i] = IF i = 0 THEN start ELSE Emit(g[i - 1], w.out[i])
  <2>1. g = Step(g)
    BY <1>7
  <2>2. \A i \in 0 .. n : Step(g)[i] = IF i = 0 THEN start ELSE Emit(g[i - 1], w.out[i])
    OBVIOUS
  <2> HIDE DEF Step
  <2> QED BY <2>1, <2>2
<1>10. g[0] = start /\ \A i \in 1 .. n : g[i] = Emit(g[i - 1], w.out[i])
  BY <1>0, <1>9
<1> QED BY <1>8, <1>10 DEF n, start

\* A poll saves only shares that its inbox allows, and sends no ack.
LEMMA AfterInboxType ==
  ASSUME NEW d, NEW n \in Nat, NEW S \in SUBSET KeygenIds, Working(d) \in Polls(S, Tasks),
         \A i \in 1 .. n : down[d][i] \in Orders /\ Allows(S, down[d][i])
  PROVE  AfterInbox(d, n) \in Polls(S, Tasks)
<1>1. PICK w : /\ w[0] = Working(d)
               /\ \A i \in 1 .. n : w[i] = Process(w[i - 1], down[d][i])
               /\ AfterInbox(d, n) = w[n]
  BY AfterInboxUnfolds
<1> DEFINE G == {i \in 0 .. n : w[i] \in Polls(S, Tasks)}
<1>2. 0 \in G
  BY <1>1
<1>3. ASSUME NEW i \in 1 .. n, i - 1 \in G
      PROVE  i \in G
  <2>1. w[i - 1] \in Polls(S, Tasks)
    BY <1>3
  <2>2. Process(w[i - 1], down[d][i]) \in Polls(S, Tasks)
    BY <2>1, ProcessType
  <2> QED BY <1>1, <2>2
<1>4. n \in G
  <2> HIDE DEF G
  <2> QED BY <1>2, <1>3, UpTo
<1> QED BY <1>1, <1>4

LEMMA AfterOutboxType ==
  ASSUME NEW S, NEW w \in Polls(S, Tasks)
  PROVE  AfterOutbox(w) \in Polls(S, Replies)
<1>1. w.out \in Seq(Tasks) /\ Len(w.out) \in Nat
  BY DEF Polls
<1>2. PICK v : /\ v[0] = [w EXCEPT !.out = <<>>]
               /\ \A i \in 1 .. Len(w.out) : v[i] = Emit(v[i - 1], w.out[i])
               /\ AfterOutbox(w) = v[Len(w.out)]
  BY <1>1, AfterOutboxUnfolds
<1> DEFINE n == Len(w.out)
           G == {i \in 0 .. n : v[i] \in Polls(S, Replies)}
<1>3. 0 \in G
  <2>1. [w EXCEPT !.out = <<>>] \in Polls(S, Replies)
    <3>1. <<>> \in Seq(Replies)
      OBVIOUS
    <3> QED BY <3>1 DEF Polls
  <2> QED BY <1>1, <1>2, <2>1
<1>4. ASSUME NEW i \in 1 .. n, i - 1 \in G
      PROVE  i \in G
  <2>1. v[i - 1] \in Polls(S, Replies) /\ w.out[i] \in Tasks
    BY <1>1, <1>4
  <2>2. Emit(v[i - 1], w.out[i]) \in Polls(S, Replies)
    BY <2>1, EmitType
  <2> QED BY <1>1, <1>2, <2>2
<1>5. n \in G
  <2>1. n \in Nat /\ n \in 0 .. n
    BY <1>1
  <2> HIDE DEF G, n
  <2> QED BY <1>3, <1>4, <2>1, UpTo
<1> QED BY <1>2, <1>5

----------------------------------------------------------------------------
(* The messages of devices *)

FollowUps == [type : {"CertifyPlease", "Check"}, id : KeygenIds, to : SUBSET Devices]

\* The coordinator between two of the messages it has read.
Sound(s) ==
  /\ s \in [pending : [KeygenIds -> Entries], out : Seq(FollowUps)]
  /\ Confirms(s.pending)

\* recv_device_message keeps it sound: a member that is counted for the acks is
\* one that acked.
LEMMA RecvDeviceMessageSound ==
  ASSUME CoordType, AcksConfirm, NEW d \in Readable, NEW s, Sound(s)
  PROVE  Sound(RecvDeviceMessage(d, s))
<1>0. d \in Devices /\ up[d] \in Seq(Answers) /\ up[d] # <<>>
  BY DEF Readable, CoordType
<1>1. PICK m : m = Head(up[d])
  OBVIOUS
<1>2. m \in Answers /\ (m.type = "Ack" => <<d, m.id>> \in confirmed)
  <2>1. m = up[d][1] /\ 1 \in DOMAIN up[d]
    BY <1>0, <1>1
  <2> QED BY <1>0, <2>1 DEF AcksConfirm
<1>3. PICK k \in KeygenIds : k = m.id
  BY <1>2 DEF Answers
<1>4. PICK type \in {"Response", "Certify", "Ack"} : type = m.type
  BY <1>2 DEF Answers
<1>5. s \in [pending : [KeygenIds -> Entries], out : Seq(FollowUps)] /\ Confirms(s.pending)
  BY DEF Sound
<1>6. s.pending \in [KeygenIds -> Entries] /\ s.out \in Seq(FollowUps) /\ s.pending[k] \in Entries
  BY <1>5
<1>7. members[k] \in SUBSET Devices
  BY DEF CoordType
<1> DEFINE from == s.pending[k].from \cup {d}
           accepted == Accepts(s.pending[k], d, members[k], type)
<1>8. accepted => /\ s.pending[k].state = Expects[type]
                  /\ d \in members[k]
  BY DEF Accepts
<1>9. CASE accepted /\ from = members[k]
  <2> DEFINE e == [state |-> Advances[type], from |-> {}]
             more == [n \in DOMAIN FollowUp[type] |-> Message(FollowUp[type][n], k, members[k])]
             p == [s.pending EXCEPT ![k] = e]
  <2>1. RecvDeviceMessage(d, s) = [pending |-> p, out |-> s.out \o more]
    BY <1>1, <1>3, <1>4, <1>9 DEF RecvDeviceMessage
  <2>2. e \in Entries
    BY DEF Advances, Entries
  <2>3. more \in Seq(FollowUps)
    <3>1. CASE type = "Ack"
      BY <3>1 DEF FollowUp
    <3>2. CASE type = "Response"
      <4>1. FollowUp[type] = <<"CertifyPlease">>
        BY <3>2 DEF FollowUp
      <4>2. more = <<Message("CertifyPlease", k, members[k])>>
        BY <4>1
      <4>3. Message("CertifyPlease", k, members[k]) \in FollowUps
        BY <1>7 DEF Message, FollowUps
      <4> QED BY <4>2, <4>3
    <3>3. CASE type = "Certify"
      <4>1. FollowUp[type] = <<"Check">>
        BY <3>3 DEF FollowUp
      <4>2. more = <<Message("Check", k, members[k])>>
        BY <4>1
      <4>3. Message("Check", k, members[k]) \in FollowUps
        BY <1>7 DEF Message, FollowUps
      <4> QED BY <4>2, <4>3
    <3> QED BY <3>1, <3>2, <3>3
  <2>4. s.out \o more \in Seq(FollowUps)
    <3> HIDE DEF more
    <3> QED BY <1>6, <2>3
  <2>5. p \in [KeygenIds -> Entries]
    BY <1>6, <2>2
  <2>6. Confirms(p)
    <3>1. \A j \in KeygenIds : j # k => p[j] = s.pending[j]
      BY <1>6
    <3>2. p[k] = e /\ e.from = {} /\ members[k] # {}
      BY <1>6, <1>8, <1>9
    <3>3. e.state = "finalize" => \A x \in members[k] : <<x, k>> \in confirmed
      <4>1. SUFFICES ASSUME e.state = "finalize" PROVE \A x \in members[k] : <<x, k>> \in confirmed
        OBVIOUS
      <4>2. type = "Ack"
        BY <4>1 DEF Advances
      <4>3. s.pending[k].state = "acks"
        BY <1>8, <1>9, <4>2 DEF Expects
      <4>4. \A x \in s.pending[k].from : <<x, k>> \in confirmed
        BY <1>5, <4>3 DEF Confirms
      <4> QED BY <1>2, <1>3, <1>4, <1>9, <4>2, <4>4
    <3> HIDE DEF p, e
    <3> QED BY <1>5, <3>1, <3>2, <3>3 DEF Confirms
  <2> HIDE DEF p, more
  <2> QED BY <2>1, <2>4, <2>5, <2>6 DEF Sound
<1>10. CASE accepted /\ from # members[k]
  <2> DEFINE e == [s.pending[k] EXCEPT !.from = from]
             p == [s.pending EXCEPT ![k] = e]
  <2>1. RecvDeviceMessage(d, s) = [s EXCEPT !.pending = p]
    BY <1>1, <1>3, <1>4, <1>10 DEF RecvDeviceMessage
  <2>2. e \in Entries /\ e.state = s.pending[k].state /\ e.from = from
    BY <1>0, <1>6 DEF Entries
  <2>3. p \in [KeygenIds -> Entries]
    BY <1>6, <2>2
  <2>4. Confirms(p)
    <3>1. \A j \in KeygenIds : j # k => p[j] = s.pending[j]
      BY <1>6
    <3>2. p[k] = e
      BY <1>6
    <3>3. e.state = "acks" => \A x \in e.from : <<x, k>> \in confirmed
      <4>1. SUFFICES ASSUME e.state = "acks" PROVE \A x \in e.from : <<x, k>> \in confirmed
        OBVIOUS
      <4>2. type = "Ack"
        BY <1>8, <1>10, <2>2, <4>1 DEF Expects
      <4>3. \A x \in s.pending[k].from : <<x, k>> \in confirmed
        BY <1>5, <2>2, <4>1 DEF Confirms
      <4> QED BY <1>2, <1>3, <1>4, <2>2, <4>2, <4>3
    <3> HIDE DEF p, e
    <3> QED BY <1>5, <2>2, <3>1, <3>2, <3>3 DEF Confirms
  <2> HIDE DEF p
  <2> QED BY <1>5, <2>1, <2>3, <2>4 DEF Sound
<1>11. CASE ~accepted
  <2> DEFINE e == IF type = "Ack" /\ s.pending[k].state = "acks" THEN s.pending[k] ELSE NoKeygen
             p == [s.pending EXCEPT ![k] = e]
  <2>1. RecvDeviceMessage(d, s) = [s EXCEPT !.pending = p]
    BY <1>1, <1>3, <1>4, <1>11 DEF RecvDeviceMessage
  <2>2. e \in Entries /\ (e = s.pending[k] \/ e.state = "none")
    BY <1>6 DEF Entries, NoKeygen
  <2>3. p \in [KeygenIds -> Entries]
    BY <1>6, <2>2
  <2>4. Confirms(p)
    <3>1. \A j \in KeygenIds : j # k => p[j] = s.pending[j]
      BY <1>6
    <3>2. p[k] = e
      BY <1>6
    <3> HIDE DEF p, e
    <3> QED BY <1>5, <2>2, <3>1, <3>2 DEF Confirms
  <2> HIDE DEF p
  <2> QED BY <1>5, <2>1, <2>3, <2>4 DEF Sound
<1> QED BY <1>9, <1>10, <1>11

\* The device whose message is taken last.
Chosen(s) == CHOOSE d \in s : TRUE

\* The messages are received one after the other, in some order of the devices.
LEMMA ReceivedUnfolds ==
  ASSUME NEW R, IsFiniteSet(R)
  PROVE  \E g : /\ g[{}] = [pending |-> pending, out |-> <<>>]
                /\ \A s \in SUBSET R : s # {} =>
                     g[s] = RecvDeviceMessage(Chosen(s), g[s \ {Chosen(s)}])
                /\ Received(R) = g[R]
<1> DEFINE base == [pending |-> pending, out |-> <<>>]
           n == Cardinality(R)
           Turn(g, s) == IF s = {} THEN base
                         ELSE RecvDeviceMessage(Chosen(s), g[s \ {Chosen(s)}])
           Runs(g, j) == \A s \in SUBSET R : Cardinality(s) <= j => g[s] = Turn(g, s)
           G == {j \in 0 .. n : \E g : Runs(g, j)}
           Step(g) == [s \in SUBSET R |-> Turn(g, s)]
<1>1. /\ n \in Nat
      /\ \A s \in SUBSET R : /\ Cardinality(s) \in Nat /\ Cardinality(s) <= n
                             /\ (Cardinality(s) = 0 <=> s = {})
                             /\ s # {} => /\ s \ {Chosen(s)} \in SUBSET R
                                          /\ Cardinality(s \ {Chosen(s)}) = Cardinality(s) - 1
  <2>1. n \in Nat
    BY FS_CardinalityType
  <2>2. ASSUME NEW s \in SUBSET R
        PROVE  IsFiniteSet(s) /\ Cardinality(s) \in Nat /\ Cardinality(s) <= n
    BY FS_Subset, FS_CardinalityType
  <2>3. ASSUME NEW s \in SUBSET R
        PROVE  Cardinality(s) = 0 <=> s = {}
    BY <2>2, FS_EmptySet
  <2>4. ASSUME NEW s \in SUBSET R, s # {}
        PROVE  /\ s \ {Chosen(s)} \in SUBSET R
               /\ Cardinality(s \ {Chosen(s)}) = Cardinality(s) - 1
    <3>1. Chosen(s) \in s
      BY <2>4 DEF Chosen
    <3> QED BY <2>2, <3>1, FS_RemoveElement
  <2> QED BY <2>1, <2>2, <2>3, <2>4
<1>2. Received(R) = (CHOOSE f : f = Step(f))[R]
  BY DEF Received, FoldSet, MapThenFoldSet, Chosen
<1> HIDE DEF n, base
<1>3. 0 \in G
  <2> DEFINE g == [s \in SUBSET R |-> base]
  <2>0. \A s \in SUBSET R : Cardinality(s) <= 0 => s = {}
    <3> SUFFICES ASSUME NEW s \in SUBSET R, Cardinality(s) <= 0 PROVE s = {}
      OBVIOUS
    <3>1. Cardinality(s) \in Nat /\ (Cardinality(s) = 0 => s = {})
      BY <1>1
    <3> QED BY <3>1
  <2>1. Runs(g, 0)
    BY <2>0
  <2> HIDE DEF g, Runs
  <2>2. 0 \in 0 .. n /\ \E f : Runs(f, 0)
    BY <1>1, <2>1
  <2> QED BY <2>2
<1>4. ASSUME NEW j \in 1 .. n, j - 1 \in G
      PROVE  j \in G
  <2>1. PICK g : Runs(g, j - 1)
    BY <1>4
  <2> DEFINE h == [s \in SUBSET R |-> IF Cardinality(s) = j THEN Turn(g, s) ELSE g[s]]
  <2>2. \A s \in SUBSET R : Cardinality(s) = j => h[s] = Turn(g, s)
    OBVIOUS
  <2>3. \A s \in SUBSET R : Cardinality(s) <= j - 1 => h[s] = g[s]
    BY <1>1
  <2>4. ASSUME NEW s \in SUBSET R, Cardinality(s) <= j
        PROVE  Turn(h, s) = Turn(g, s)
    <3> HIDE DEF h
    <3>1. CASE s = {}
      BY <3>1
    <3>2. CASE s # {}
      <4>1. /\ s \ {Chosen(s)} \in SUBSET R
            /\ Cardinality(s \ {Chosen(s)}) <= j - 1
        BY <1>1, <2>4, <3>2
      <4>2. h[s \ {Chosen(s)}] = g[s \ {Chosen(s)}]
        BY <2>3, <4>1
      <4> QED BY <4>2
    <3> QED BY <3>1, <3>2
  <2>5. ASSUME NEW s \in SUBSET R, Cardinality(s) <= j, Cardinality(s) # j
        PROVE  Cardinality(s) <= j - 1
    <3>1. Cardinality(s) \in Nat
      BY <1>1
    <3>2. j \in Nat
      BY <1>1
    <3> QED BY <2>5, <3>1, <3>2
  <2> HIDE DEF h, Turn
  <2>6. Runs(h, j)
    BY <2>1, <2>2, <2>3, <2>4, <2>5
  <2> HIDE DEF Runs
  <2> QED BY <1>1, <2>6
<1>5. n \in G
  <2>1. n \in 0 .. n
    BY <1>1
  <2> HIDE DEF G
  <2> QED BY <1>1, <1>3, <1>4, <2>1, UpTo
<1>6. PICK f : Runs(f, n)
  BY <1>5
<1> DEFINE h == [s \in SUBSET R |-> f[s]]
<1>7. \A s \in SUBSET R : Turn(h, s) = Turn(f, s)
  BY <1>1
<1>8. ASSUME NEW s \in SUBSET R PROVE f[s] = Turn(f, s)
  <2>1. Cardinality(s) <= n
    BY <1>1
  <2> HIDE DEF Turn
  <2> QED BY <1>6, <2>1
<1>9. h = Step(h)
  <2> HIDE DEF Turn
  <2> QED BY <1>7, <1>8
<1> HIDE DEF h, Turn
<1>10. PICK g : g = (CHOOSE x : x = Step(x)) /\ g = Step(g)
  BY <1>9
<1>11. \A s \in SUBSET R : g[s] = Turn(g, s)
  <2>1. \A s \in SUBSET R : Step(g)[s] = Turn(g, s)
    OBVIOUS
  <2>2. g = Step(g)
    BY <1>10
  <2> HIDE DEF Step
  <2> QED BY <2>1, <2>2
<1>12. {} \in SUBSET R
  OBVIOUS
<1>13. g[{}] = base
  BY <1>11, <1>12 DEF Turn
<1>14. \A s \in SUBSET R : s # {} => g[s] = RecvDeviceMessage(Chosen(s), g[s \ {Chosen(s)}])
  BY <1>11 DEF Turn
<1>15. Received(R) = g[R]
  BY <1>2, <1>10
<1> QED BY <1>13, <1>14, <1>15 DEF base

\* So the coordinator is sound after all of them.
LEMMA ReceivedSound ==
  ASSUME KeyGenInvariant, NEW R \in SUBSET Readable
  PROVE  Sound(Received(R))
<1>1. IsFiniteSet(R)
  <2>1. R \subseteq Devices
    BY DEF Readable, KeyGenInvariant, CoordType
  <2> QED BY <2>1, KeyGenAssumption, FS_Subset
<1>2. PICK g : /\ g[{}] = [pending |-> pending, out |-> <<>>]
               /\ \A s \in SUBSET R : s # {} =>
                    g[s] = RecvDeviceMessage(Chosen(s), g[s \ {Chosen(s)}])
               /\ Received(R) = g[R]
  BY <1>1, ReceivedUnfolds
<1> DEFINE G == {s \in SUBSET R : Sound(g[s])}
<1>3. {} \in G
  <2>1. Sound([pending |-> pending, out |-> <<>>])
    BY DEF Sound, KeyGenInvariant, CoordType
  <2> QED BY <1>2, <2>1
<1>4. ASSUME NEW s \in SUBSET R, s # {}, s \ {CHOOSE x \in s : TRUE} \in G
      PROVE  s \in G
  <2>1. Chosen(s) \in s
    BY <1>4 DEF Chosen
  <2>2. Sound(g[s \ {Chosen(s)}])
    BY <1>4 DEF Chosen
  <2>3. Chosen(s) \in Readable /\ CoordType /\ AcksConfirm
    BY <2>1 DEF KeyGenInvariant
  <2>4. Sound(RecvDeviceMessage(Chosen(s), g[s \ {Chosen(s)}]))
    BY <2>2, <2>3, RecvDeviceMessageSound
  <2> QED BY <1>2, <1>4, <2>4
<1>5. R \in G
  <2> HIDE DEF G
  <2> QED BY <1>1, <1>3, <1>4, OnSubsets
<1> QED BY <1>2, <1>5

----------------------------------------------------------------------------
(* What is sent *)

\* The elements of two sequences put together.
LEMMA TogetherElements ==
  ASSUME NEW S, NEW s \in Seq(S), NEW t \in Seq(S)
  PROVE  /\ s \o t \in Seq(S)
         /\ \A i \in DOMAIN (s \o t) : \/ i \in DOMAIN s /\ (s \o t)[i] = s[i]
                                       \/ \E j \in DOMAIN t : (s \o t)[i] = t[j]
<1>1. PICK u : u = s \o t
  OBVIOUS
<1>2. /\ u \in Seq(S) /\ Len(u) = Len(s) + Len(t)
      /\ \A i \in 1 .. Len(s) + Len(t) : u[i] = IF i <= Len(s) THEN s[i] ELSE t[i - Len(s)]
  BY <1>1, ConcatProperties
<1>3. ASSUME NEW i \in DOMAIN u
      PROVE  (i \in DOMAIN s /\ u[i] = s[i]) \/ \E j \in DOMAIN t : u[i] = t[j]
  <2>1. i \in 1 .. Len(s) + Len(t)
    BY <1>2
  <2>2. CASE i <= Len(s)
    BY <1>2, <2>1, <2>2
  <2>3. CASE ~ (i <= Len(s))
    <3>1. i - Len(s) \in DOMAIN t /\ u[i] = t[i - Len(s)]
      BY <1>2, <2>1, <2>3
    <3> QED BY <3>1
  <2> QED BY <2>2, <2>3
<1> QED BY <1>1, <1>2, <1>3

\* A queue may grow by messages that are backed.
LEMMA JoinBacked ==
  ASSUME NEW ms \in Seq(Orders), Backed(ms), NEW ns \in Seq(Orders), Backed(ns)
  PROVE  ms \o ns \in Seq(Orders) /\ Backed(ms \o ns)
<1>1. PICK u : u = ms \o ns
  OBVIOUS
<1>2. /\ u \in Seq(Orders)
      /\ \A i \in DOMAIN u : (i \in DOMAIN ms /\ u[i] = ms[i]) \/ \E j \in DOMAIN ns : u[i] = ns[j]
  BY <1>1, TogetherElements
<1>3. Backed(u)
  BY <1>2 DEF Backed
<1> QED BY <1>1, <1>2, <1>3

LEMMA JoinBackedFor ==
  ASSUME NEW d, NEW ms \in Seq(Orders), BackedFor(d, ms), NEW ns \in Seq(Orders), BackedFor(d, ns)
  PROVE  ms \o ns \in Seq(Orders) /\ BackedFor(d, ms \o ns)
<1>1. PICK u : u = ms \o ns
  OBVIOUS
<1>2. /\ u \in Seq(Orders)
      /\ \A i \in DOMAIN u : (i \in DOMAIN ms /\ u[i] = ms[i]) \/ \E j \in DOMAIN ns : u[i] = ns[j]
  BY <1>1, TogetherElements
<1>3. BackedFor(d, u)
  BY <1>2 DEF BackedFor
<1> QED BY <1>1, <1>2, <1>3

\* Messages that are no Finalize are backed.
LEMMA PlainBacked ==
  ASSUME NEW ms, \A i \in DOMAIN ms : ms[i].type # "Finalize"
  PROVE  Backed(ms)
BY DEF Backed

LEMMA OneBacked ==
  ASSUME NEW m \in Orders, m.type # "Finalize"
  PROVE  <<m>> \in Seq(Orders) /\ Backed(<<m>>)
<1>1. \A i \in DOMAIN <<m>> : <<m>>[i] = m
  OBVIOUS
<1> QED BY <1>1, PlainBacked

\* The names and the Cancel of a page that heard of an abort.
LEMMA CancelAllBacked ==
  ASSUME form \subseteq Devices, seen \subseteq Devices, NEW early \in BOOLEAN
  PROVE  /\ Names \in Seq(Orders) /\ Backed(Names)
         /\ Cancel \in Orders /\ Cancel.type # "Finalize"
         /\ CancelAll(early) \in Seq(Orders) /\ Backed(CancelAll(early))
<1> DEFINE a == Preview(form)
           b == Message("Cancel", None, seen \ form)
<1>1. a \in Orders /\ a.type # "Finalize" /\ b \in Orders /\ b.type # "Finalize"
  BY DEF Preview, Message, Orders
<1>2. Cancel \in Orders /\ Cancel.type # "Finalize"
  BY DEF Cancel, Message, Orders
<1>3. Names = <<a>> \o <<b>>
  BY DEF Names
<1> HIDE DEF a, b
<1>4. Names \in Seq(Orders) /\ Backed(Names)
  BY <1>1, <1>3, OneBacked, JoinBacked
<1>5. <<Cancel>> \in Seq(Orders) /\ Backed(<<Cancel>>)
  BY <1>2, OneBacked
<1>6. Names \o <<Cancel>> \in Seq(Orders) /\ Backed(Names \o <<Cancel>>)
  BY <1>4, <1>5, JoinBacked
<1> QED BY <1>2, <1>4, <1>5, <1>6 DEF CancelAll

----------------------------------------------------------------------------
(* The steps *)

LEMMA KeyGenInit == Init => KeyGenInvariant
<1> SUFFICES ASSUME Init PROVE KeyGenInvariant
  OBVIOUS
<1>1. CoordType
  BY DEF Init, CoordType, NoKeygen, Entries
<1>2. DeviceType
  BY DEF Init, DeviceType, Idle, Phases
<1>3. Confirms(pending) /\ KeysBegan /\ NoOrphanShare /\ EveryoneConfirmed
  BY DEF Init, Confirms, NoKeygen, KeysBegan, NoOrphanShare, EveryoneConfirmed
<1>4. FinalizeIsBacked /\ AcksConfirm
  BY DEF Init, FinalizeIsBacked, Backed, BackedFor, AcksConfirm
<1> QED BY <1>1, <1>2, <1>3, <1>4 DEF KeyGenInvariant

\* generate_new_key: what begins was not begun before, so nothing is known of it.
LEMMA GenerateStep ==
  ASSUME KeyGenInvariant, NEW k \in KeygenIds, NEW S \in MemberSets, GenerateNewKey(k, S)
  PROVE  KeyGenInvariant'
<1>1. S \in SUBSET Devices /\ S # {}
  BY KeyGenAssumption
<1>2. k \notin keys
  BY DEF GenerateNewKey, KeyGenInvariant, KeysBegan
<1>3. /\ members \in [KeygenIds -> SUBSET Devices] /\ pending \in [KeygenIds -> Entries]
      /\ keys \subseteq KeygenIds
  BY DEF KeyGenInvariant, CoordType
<1>4. /\ \A j \in KeygenIds : j # k => members'[j] = members[j] /\ pending'[j] = pending[j]
      /\ members'[k] = S /\ pending'[k] = [state |-> "responses", from |-> {}]
      /\ members' \in [KeygenIds -> SUBSET Devices]
  BY <1>1, <1>3 DEF GenerateNewKey
<1>5. pending' \in [KeygenIds -> Entries]
  BY <1>3 DEF GenerateNewKey, Entries
<1>6. ui' \in [id : KeygenIds, send : BOOLEAN, finished : BOOLEAN, aborted : BOOLEAN]
  BY DEF GenerateNewKey
<1>7. UNCHANGED <<keys, form, outbox, linkVars, deviceVars, confirmed>>
  BY DEF GenerateNewKey
<1>8. CoordType'
  BY <1>4, <1>5, <1>6, <1>7 DEF KeyGenInvariant, CoordType, linkVars
<1>9. DeviceType'
  BY <1>7 DEF KeyGenInvariant, DeviceType, deviceVars
<1>10. Confirms(pending)'
  BY <1>1, <1>4, <1>7 DEF KeyGenInvariant, Confirms
<1>11. FinalizeIsBacked'
  <2>1. \A j \in keys : members'[j] = members[j]
    BY <1>2, <1>3, <1>4
  <2> QED BY <2>1, <1>7 DEF KeyGenInvariant, FinalizeIsBacked, Backed, BackedFor, linkVars
<1>12. AcksConfirm'
  BY <1>7 DEF KeyGenInvariant, AcksConfirm, linkVars
<1>13. KeysBegan' /\ NoOrphanShare' /\ EveryoneConfirmed'
  <2>1. \A j \in keys : members'[j] = members[j]
    BY <1>2, <1>3, <1>4
  <2> QED BY <2>1, <1>7 DEF KeyGenInvariant, KeysBegan, NoOrphanShare, EveryoneConfirmed, deviceVars
<1> QED BY <1>8, <1>9, <1>10, <1>11, <1>12, <1>13 DEF KeyGenInvariant

\* What a step that leaves keys, shares, devices and the link alone may do: give
\* up key generations, change the page and send what is backed.
LEMMA AppStep ==
  ASSUME KeyGenInvariant,
         UNCHANGED <<members, keys, down, up, phase, prompt, named, shares, confirmed>>,
         pending' \in [KeygenIds -> Entries],
         \A k \in KeygenIds : pending'[k] = pending[k] \/ pending'[k] = NoKeygen,
         ui' # None =>
           ui' \in [id : KeygenIds, send : BOOLEAN, finished : BOOLEAN, aborted : BOOLEAN],
         form' \subseteq Devices, seen' \subseteq Devices,
         outbox' \in Seq(Orders), Backed(outbox')
  PROVE  KeyGenInvariant'
<1>1. CoordType'
  BY DEF KeyGenInvariant, CoordType
<1>2. DeviceType'
  BY DEF KeyGenInvariant, DeviceType
<1>3. Confirms(pending)'
  BY DEF KeyGenInvariant, Confirms, NoKeygen
<1>4. FinalizeIsBacked' /\ AcksConfirm'
  BY DEF KeyGenInvariant, FinalizeIsBacked, Backed, BackedFor, AcksConfirm
<1>5. KeysBegan' /\ NoOrphanShare' /\ EveryoneConfirmed'
  BY DEF KeyGenInvariant, KeysBegan, NoOrphanShare, EveryoneConfirmed
<1> QED BY <1>1, <1>2, <1>3, <1>4, <1>5 DEF KeyGenInvariant

\* What AppStep needs of the state before the step.
LEMMA AppFacts ==
  ASSUME KeyGenInvariant
  PROVE  /\ pending \in [KeygenIds -> Entries] /\ NoKeygen \in Entries
         /\ members \in [KeygenIds -> SUBSET Devices]
         /\ form \subseteq Devices /\ seen \subseteq Devices
         /\ outbox \in Seq(Orders) /\ Backed(outbox)
         /\ ui # None =>
              ui \in [id : KeygenIds, send : BOOLEAN, finished : BOOLEAN, aborted : BOOLEAN]
BY DEF KeyGenInvariant, CoordType, FinalizeIsBacked, NoKeygen, Entries

\* finalize_keygen: the key is persisted in the step that tells the devices, and
\* all of them have confirmed.
LEMMA FinalizeStep ==
  ASSUME KeyGenInvariant, NEW k \in KeygenIds, FinalizeKeygen(k)
  PROVE  KeyGenInvariant'
<1>1. /\ pending' = [pending EXCEPT ![k] = NoKeygen] /\ keys' = keys \cup {k}
      /\ outbox' = Append(outbox, Message("Finalize", k, members[k]))
      /\ pending[k].state = "finalize"
      /\ UNCHANGED <<members, form, linkVars, deviceVars, confirmed>>
  BY DEF FinalizeKeygen, Finalizable, historyVars
<1>2. /\ \A d \in members[k] : <<d, k>> \in confirmed
      /\ members[k] # {} /\ members[k] \in SUBSET Devices
  BY <1>1 DEF KeyGenInvariant, Confirms, CoordType
<1>3. pending' \in [KeygenIds -> Entries] /\ Confirms(pending)'
  BY <1>1, AppFacts DEF KeyGenInvariant, Confirms, NoKeygen
<1>4. ui' \in [id : KeygenIds, send : BOOLEAN, finished : BOOLEAN, aborted : BOOLEAN]
  BY AppFacts DEF FinalizeKeygen, Finalizable
<1> DEFINE m == Message("Finalize", k, members[k])
<1>5. m \in Orders /\ m.id = k /\ m.to = members[k]
  BY <1>2 DEF Message, Orders
<1> HIDE DEF m
<1>6. outbox' = outbox \o <<m>>
  BY <1>1, AppFacts DEF m
<1>7. outbox' \in Seq(Orders)
  BY <1>5, <1>6, AppFacts
<1>8. Backed(outbox)'
  <2>1. \A i \in DOMAIN outbox' : (i \in DOMAIN outbox /\ outbox'[i] = outbox[i]) \/ outbox'[i] = m
    BY <1>6, AppFacts
  <2> QED BY <1>1, <1>5, <2>1, AppFacts DEF Backed
<1>9. CoordType' /\ DeviceType'
  BY <1>1, <1>3, <1>4, <1>7 DEF KeyGenInvariant, CoordType, DeviceType, linkVars, deviceVars
<1>10. FinalizeIsBacked' /\ AcksConfirm'
  BY <1>1, <1>8 DEF KeyGenInvariant, FinalizeIsBacked, BackedFor, AcksConfirm, linkVars
<1>11. KeysBegan' /\ NoOrphanShare' /\ EveryoneConfirmed'
  BY <1>1, <1>2 DEF KeyGenInvariant, KeysBegan, NoOrphanShare, EveryoneConfirmed, deviceVars
<1> QED BY <1>3, <1>9, <1>10, <1>11 DEF KeyGenInvariant

\* The other calls of the app.
LEMMA CallsStep ==
  ASSUME KeyGenInvariant,
         \/ \E k \in KeygenIds : FinalizeFails(k)
         \/ CancelProtocol \/ SendCancelAll \/ ResetDeviceNames
         \/ \E d \in Devices : SetDeviceName(d) \/ ClearDeviceName(d)
  PROVE  KeyGenInvariant'
<1>1. CASE \E k \in KeygenIds : FinalizeFails(k)
  <2>1. PICK k \in KeygenIds : FinalizeFails(k)
    BY <1>1
  <2>2. /\ pending' = [pending EXCEPT ![k] = NoKeygen]
        /\ UNCHANGED <<members, keys, pageVars, outbox, linkVars, deviceVars, confirmed>>
    BY <2>1 DEF FinalizeFails
  <2> QED BY <2>2, AppFacts, AppStep DEF pageVars, linkVars, deviceVars, Backed
<1>2. CASE CancelProtocol
  <2>1. /\ ui' = None
        /\ UNCHANGED <<members, keys, form, outbox, linkVars, deviceVars, confirmed>>
        /\ pending' = pending \/ pending' = [pending EXCEPT ![ui.id] = NoKeygen]
    BY <1>2 DEF CancelProtocol
  <2> QED BY <2>1, AppFacts, AppStep DEF linkVars, deviceVars, Backed
<1>5. CASE SendCancelAll
  <2>1. /\ outbox' = Append(outbox, Cancel)
        /\ UNCHANGED <<coordVars, ui, form, linkVars, deviceVars, confirmed>>
    BY <1>5 DEF SendCancelAll, pageVars
  <2>2. Cancel \in Orders /\ Cancel.type # "Finalize"
    BY AppFacts, CancelAllBacked
  <2>3. outbox' = outbox \o <<Cancel>>
    BY <2>1, <2>2, AppFacts
  <2>4. outbox' \in Seq(Orders) /\ Backed(outbox')
    BY <2>2, <2>3, AppFacts, OneBacked, JoinBacked
  <2> QED BY <2>1, <2>4, AppFacts, AppStep DEF coordVars, linkVars, deviceVars
<1>3. CASE ResetDeviceNames
  <2>1. /\ outbox' = outbox \o Names
        /\ UNCHANGED <<coordVars, ui, form, linkVars, deviceVars, confirmed>>
    BY <1>3 DEF ResetDeviceNames, historyVars
  <2>2. outbox' \in Seq(Orders) /\ Backed(outbox')
    BY <2>1, AppFacts, CancelAllBacked, JoinBacked
  <2> QED BY <2>1, <2>2, AppFacts, AppStep DEF coordVars, linkVars, deviceVars
<1>4. CASE \E d \in Devices : SetDeviceName(d) \/ ClearDeviceName(d)
  <2>1. PICK d \in Devices : SetDeviceName(d) \/ ClearDeviceName(d)
    BY <1>4
  <2>2. /\ form' = form \cup {d} \/ form' = form \ {d}
        /\ UNCHANGED <<coordVars, ui, linkVars, deviceVars, confirmed>>
    BY <2>1 DEF SetDeviceName, ClearDeviceName, historyVars
  <2>3. PICK m \in Orders : m.type # "Finalize" /\ outbox' = Append(outbox, m)
    <3>1. Preview({d}) \in Orders /\ Preview({d}).type # "Finalize"
      BY DEF Preview, Message, Orders
    <3>2. Message("Cancel", None, {d}) \in Orders /\ Message("Cancel", None, {d}).type # "Finalize"
      BY DEF Message, Orders
    <3> QED BY <2>1, <3>1, <3>2 DEF SetDeviceName, ClearDeviceName
  <2>4. outbox' = outbox \o <<m>>
    BY <2>3, AppFacts
  <2>5. outbox' \in Seq(Orders) /\ Backed(outbox')
    BY <2>3, <2>4, AppFacts, OneBacked, JoinBacked
  <2>6. form' \subseteq Devices
    BY <2>2, AppFacts
  <2> QED BY <2>2, <2>5, <2>6, AppFacts, AppStep DEF coordVars, linkVars, deviceVars
<1> QED BY <1>1, <1>2, <1>3, <1>4, <1>5

\* The messages of ms that go to d, in their order.
Sent(d, ms) ==
  LET s[i \in 0 .. Len(ms)] ==
        IF i = 0 THEN <<>>
        ELSE IF d \in ms[i].to THEN Append(s[i - 1], ms[i]) ELSE s[i - 1]
  IN  s[Len(ms)]

\* What is in the outbox for a device is found going through it.
LEMMA SentUnfolds ==
  ASSUME NEW d, NEW q, Len(q) \in Nat
  PROVE  \E ms : /\ ms[0] = <<>>
                 /\ \A i \in 1 .. Len(q) :
                      ms[i] = IF d \in q[i].to THEN Append(ms[i - 1], q[i]) ELSE ms[i - 1]
                 /\ Sent(d, q) = ms[Len(q)]
<1> DEFINE n == Len(q)
           empty == <<>>
           Add(s, i) == IF d \in q[i].to THEN Append(s, q[i]) ELSE s
           Runs(f, j) == f[0] = empty /\ \A i \in 1 .. j : f[i] = Add(f[i - 1], i)
           G == {j \in 0 .. n : \E f : Runs(f, j)}
           Step(g) == [i \in 0 .. n |-> IF i = 0 THEN empty ELSE Add(g[i - 1], i)]
<1>0. n \in Nat /\ Sent(d, q) = (CHOOSE f : f = Step(f))[n]
  BY DEF Sent
<1> HIDE DEF n, Add, empty
<1>1. 0 \in G
  <2> DEFINE f == [i \in {0} |-> empty]
  <2>1. Runs(f, 0)
    OBVIOUS
  <2> HIDE DEF f
  <2>2. 0 \in 0 .. n /\ \E g : Runs(g, 0)
    BY <1>0, <2>1
  <2> QED BY <2>2
<1>2. ASSUME NEW j \in 1 .. n, j - 1 \in G
      PROVE  j \in G
  <2>1. PICK f : Runs(f, j - 1)
    BY <1>2
  <2> DEFINE u == [i \in 0 .. j |-> IF i = j THEN Add(f[j - 1], j) ELSE f[i]]
  <2>2. u[0] = f[0] /\ u[j] = Add(f[j - 1], j)
    BY <1>0
  <2>3. \A i \in 1 .. j - 1 : u[i] = f[i] /\ u[i - 1] = f[i - 1]
    BY <1>0
  <2>4. u[j - 1] = f[j - 1]
    BY <1>0
  <2> HIDE DEF u
  <2>5. \A i \in 1 .. j : i # j => i \in 1 .. j - 1
    BY <1>0
  <2>6. Runs(u, j)
    BY <2>1, <2>2, <2>3, <2>4, <2>5
  <2> QED BY <2>6
<1>3. n \in G
  <2>1. n \in 0 .. n
    BY <1>0
  <2> HIDE DEF G
  <2> QED BY <1>0, <1>1, <1>2, <2>1, UpTo
<1>4. PICK f : Runs(f, n)
  BY <1>3
<1> DEFINE h == [i \in 0 .. n |-> f[i]]
<1>5. \A i \in 1 .. n : h[i - 1] = f[i - 1] /\ h[i] = f[i]
  BY <1>0
<1>6. h = Step(h)
  BY <1>4, <1>5
<1> HIDE DEF h
<1>7. PICK g : g = (CHOOSE x : x = Step(x)) /\ g = Step(g)
  BY <1>6
<1>8. Sent(d, q) = g[n]
  BY <1>0, <1>7
<1>9. \A i \in 0 .. n : g[i] = IF i = 0 THEN empty ELSE Add(g[i - 1], i)
  <2>1. g = Step(g)
    BY <1>7
  <2>2. \A i \in 0 .. n : Step(g)[i] = IF i = 0 THEN empty ELSE Add(g[i - 1], i)
    OBVIOUS
  <2> HIDE DEF Step
  <2> QED BY <2>1, <2>2
<1>10. g[0] = empty /\ \A i \in 1 .. n : g[i] = Add(g[i - 1], i)
  BY <1>0, <1>9
<1> QED BY <1>8, <1>10 DEF n, Add, empty

\* What the loop hands to a device is what was sent to it.
LEMMA AddressedIsSent ==
  ASSUME NEW d PROVE Addressed(d) = Sent(d, outbox)
BY DEF Addressed, Sent

\* Every message that goes to d is one of the queue.
LEMMA SentType ==
  ASSUME NEW d, NEW q \in Seq(Orders)
  PROVE  /\ Sent(d, q) \in Seq(Orders)
         /\ \A j \in DOMAIN Sent(d, q) : d \in Sent(d, q)[j].to /\ \E i \in DOMAIN q : Sent(d, q)[j] = q[i]
<1>0. Len(q) \in Nat /\ DOMAIN q = 1 .. Len(q) /\ \A i \in 1 .. Len(q) : q[i] \in Orders
  OBVIOUS
<1>1. PICK ms : /\ ms[0] = <<>>
                /\ \A i \in 1 .. Len(q) :
                     ms[i] = IF d \in q[i].to THEN Append(ms[i - 1], q[i]) ELSE ms[i - 1]
                /\ Sent(d, q) = ms[Len(q)]
  BY <1>0, SentUnfolds
<1> DEFINE n == Len(q)
           Of(s) == \A j \in DOMAIN s : d \in s[j].to /\ \E i \in DOMAIN q : s[j] = q[i]
           G == {i \in 0 .. n : ms[i] \in Seq(Orders) /\ Of(ms[i])}
<1>2. 0 \in G
  <2>1. <<>> \in Seq(Orders) /\ Of(<<>>)
    OBVIOUS
  <2>2. 0 \in 0 .. n
    BY <1>0
  <2> HIDE DEF Of
  <2> QED BY <1>1, <2>1, <2>2
<1>3. ASSUME NEW i \in 1 .. n, i - 1 \in G
      PROVE  i \in G
  <2>1. PICK s \in Seq(Orders) : s = ms[i - 1] /\ Of(s)
    BY <1>3
  <2>2. PICK m \in Orders : m = q[i]
    BY <1>0
  <2>3. i \in 0 .. n /\ i \in DOMAIN q
    BY <1>0
  <2>4. CASE d \in m.to
    <3>1. ms[i] = Append(s, m)
      BY <1>1, <2>1, <2>2, <2>4
    <3>2. /\ Append(s, m) \in Seq(Orders)
          /\ \A j \in DOMAIN Append(s, m) :
               (j \in DOMAIN s /\ Append(s, m)[j] = s[j]) \/ Append(s, m)[j] = m
      OBVIOUS
    <3>3. Of(Append(s, m))
      BY <2>1, <2>2, <2>3, <2>4, <3>2
    <3> QED BY <2>3, <3>1, <3>2, <3>3
  <2>5. CASE d \notin m.to
    <3>1. ms[i] = s
      BY <1>1, <2>1, <2>2, <2>5
    <3> QED BY <2>1, <2>3, <3>1
  <2> QED BY <2>4, <2>5
<1>4. n \in G
  <2>1. n \in Nat /\ n \in 0 .. n
    BY <1>0
  <2> HIDE DEF G, n
  <2> QED BY <1>2, <1>3, <2>1, UpTo
<1> QED BY <1>1, <1>4

\* Nothing comes of an empty queue.
LEMMA SentEmpty ==
  ASSUME NEW d PROVE Sent(d, <<>>) = <<>>
<1>1. Len(<<>>) = 0 /\ 0 \in Nat
  OBVIOUS
<1>2. PICK ms : ms[0] = <<>> /\ Sent(d, <<>>) = ms[Len(<<>>)]
  <2> DEFINE q == <<>>
  <2>1. Len(q) \in Nat
    OBVIOUS
  <2> HIDE DEF q
  <2>2. \E ms : ms[0] = <<>> /\ Sent(d, q) = ms[Len(q)]
    BY <2>1, SentUnfolds
  <2> QED BY <2>2 DEF q
<1> QED BY <1>1, <1>2

\* A message that is put into the queue goes after the others.
LEMMA SentAppend ==
  ASSUME NEW d, NEW q \in Seq(Orders), NEW m \in Orders
  PROVE  Sent(d, Append(q, m)) = IF d \in m.to THEN Append(Sent(d, q), m) ELSE Sent(d, q)
<1> DEFINE n == Len(q)
<1>0. PICK r \in Seq(Orders) : r = Append(q, m)
  <2>1. Append(q, m) \in Seq(Orders)
    OBVIOUS
  <2> QED BY <2>1
<1>1. /\ n \in Nat /\ Len(r) = n + 1 /\ r[n + 1] = m
      /\ \A i \in 1 .. n : r[i] = q[i]
  BY <1>0
<1>2. PICK f : /\ f[0] = <<>>
               /\ \A i \in 1 .. Len(q) :
                    f[i] = IF d \in q[i].to THEN Append(f[i - 1], q[i]) ELSE f[i - 1]
               /\ Sent(d, q) = f[Len(q)]
  BY <1>1, SentUnfolds
<1>3. PICK g : /\ g[0] = <<>>
               /\ \A i \in 1 .. Len(r) :
                    g[i] = IF d \in r[i].to THEN Append(g[i - 1], r[i]) ELSE g[i - 1]
               /\ Sent(d, r) = g[Len(r)]
  <2>1. Len(r) \in Nat
    OBVIOUS
  <2> QED BY <2>1, SentUnfolds
<1> DEFINE G == {i \in 0 .. n : f[i] = g[i]}
<1>4. 0 \in G
  BY <1>1, <1>2, <1>3
<1>5. ASSUME NEW i \in 1 .. n, i - 1 \in G
      PROVE  i \in G
  <2>1. i \in 1 .. Len(q) /\ i \in 1 .. Len(r) /\ i \in 0 .. n /\ r[i] = q[i] /\ f[i - 1] = g[i - 1]
    BY <1>1, <1>5
  <2> QED BY <1>2, <1>3, <2>1
<1>6. f[n] = g[n]
  <2>1. n \in 0 .. n
    BY <1>1
  <2>2. n \in G
    <3> HIDE DEF G, n
    <3> QED BY <1>1, <1>4, <1>5, <2>1, UpTo
  <2> QED BY <2>2
<1>7. n + 1 \in 1 .. Len(r) /\ (n + 1) - 1 = n
  BY <1>1
<1>8. g[n + 1] = IF d \in m.to THEN Append(g[n], m) ELSE g[n]
  <2>1. g[n + 1] = IF d \in r[n + 1].to THEN Append(g[(n + 1) - 1], r[n + 1]) ELSE g[(n + 1) - 1]
    BY <1>3, <1>7
  <2> HIDE DEF n
  <2> QED BY <1>1, <1>7, <2>1
<1>9. Sent(d, q) = f[n] /\ Sent(d, r) = g[n + 1]
  BY <1>1, <1>2, <1>3
<1> HIDE DEF n
<1> QED BY <1>0, <1>6, <1>8, <1>9

\* What the link hands to a device is backed for it.
LEMMA DeliveredBacked ==
  ASSUME KeyGenInvariant, NEW d \in Devices
  PROVE  down[d] \o Addressed(d) \in Seq(Orders) /\ BackedFor(d, down[d] \o Addressed(d))
<1>1. /\ outbox \in Seq(Orders) /\ Backed(outbox)
      /\ down[d] \in Seq(Orders) /\ BackedFor(d, down[d])
  BY DEF KeyGenInvariant, CoordType, FinalizeIsBacked
<1>2. PICK s \in Seq(Orders) : /\ s = Addressed(d)
                              /\ \A j \in DOMAIN s : d \in s[j].to /\ \E i \in DOMAIN outbox : s[j] = outbox[i]
  BY <1>1, SentType, AddressedIsSent
<1>3. BackedFor(d, s)
  BY <1>1, <1>2 DEF Backed, BackedFor
<1> QED BY <1>1, <1>2, <1>3, JoinBackedFor

\* An iteration of the app's loop.
LEMMA IterateStep ==
  ASSUME KeyGenInvariant, NEW R \in SUBSET Readable, NEW early \in BOOLEAN, Iterate(R, early)
  PROVE  KeyGenInvariant'
<1> DEFINE gone == seen \ plugged
           stack == Disconnected(gone)
           s == Received(R)
           begins == stack # None /\ stack.send
           aborts == stack # None /\ stack.aborted /\ ~stack.finished
           completes == stack # None /\ (stack.aborted \/ stack.finished)
           first == IF begins THEN <<Message("Begin", stack.id, members[stack.id])>> ELSE <<>>
           last == IF aborts THEN CancelAll(early) ELSE <<>>
<1>1. /\ seen' = seen \ gone
      /\ up' = [d \in Devices |-> IF d \in R THEN Tail(up[d]) ELSE up[d]]
      /\ down' = [d \in Devices |->
                    IF d \in seen \ gone THEN down[d] \o Addressed(d) ELSE down[d]]
      /\ pending' = s.pending
      /\ outbox' = (s.out \o first) \o last
      /\ ui' = IF stack = None \/ completes THEN None ELSE [stack EXCEPT !.send = FALSE]
      /\ UNCHANGED <<members, keys, form, deviceVars, confirmed>>
  BY ZenonT(40) DEF Iterate
<1>2. Sound(s)
  BY ReceivedSound
<1>3. stack # None =>
        stack \in [id : KeygenIds, send : BOOLEAN, finished : BOOLEAN, aborted : BOOLEAN]
  BY AppFacts DEF Disconnected
<1>4. first \in Seq(Orders) /\ Backed(first)
  <2>1. CASE begins
    <3> DEFINE m == Message("Begin", stack.id, members[stack.id])
    <3>1. stack.id \in KeygenIds
      <4> HIDE DEF stack
      <4> QED BY <1>3, <2>1
    <3>2. m \in Orders /\ m.type # "Finalize"
      <4> HIDE DEF stack
      <4> QED BY <3>1, AppFacts DEF Message, Orders
    <3>3. first = <<m>>
      BY <2>1
    <3> HIDE DEF m, first
    <3> QED BY <3>2, <3>3, OneBacked
  <2>2. CASE ~begins
    <3>1. first = <<>> /\ <<>> \in Seq(Orders) /\ Backed(<<>>)
      BY <2>2 DEF Backed
    <3> HIDE DEF first
    <3> QED BY <3>1
  <2> QED BY <2>1, <2>2
<1>5. last \in Seq(Orders) /\ Backed(last)
  <2>1. <<>> \in Seq(Orders) /\ Backed(<<>>)
    BY DEF Backed
  <2>2. last = <<>> \/ last = CancelAll(early)
    BY DEF last
  <2> HIDE DEF last
  <2> QED BY <2>1, <2>2, AppFacts, CancelAllBacked
<1>6. s.out \in Seq(Orders) /\ Backed(s.out)
  <2> HIDE DEF s
  <2>1. s.out \in Seq(FollowUps)
    BY <1>2 DEF Sound
  <2>2. FollowUps \subseteq Orders
    BY DEF FollowUps, Orders
  <2>3. \A i \in DOMAIN s.out : s.out[i] \in FollowUps
    BY <2>1
  <2>4. \A i \in DOMAIN s.out : s.out[i].type # "Finalize"
    BY <2>3 DEF FollowUps
  <2>5. s.out \in Seq(Orders)
    BY <2>1, <2>2
  <2> QED BY <2>4, <2>5, PlainBacked
<1>7. outbox' \in Seq(Orders) /\ Backed(outbox')
  <2> HIDE DEF s, first, last
  <2>1. s.out \o first \in Seq(Orders) /\ Backed(s.out \o first)
    BY <1>4, <1>6, JoinBacked
  <2> QED BY <1>1, <1>5, <2>1, JoinBacked
<1>8. pending' \in [KeygenIds -> Entries] /\ Confirms(pending)'
  <2>1. s.pending \in [KeygenIds -> Entries] /\ Confirms(s.pending)
    BY <1>2 DEF Sound
  <2> HIDE DEF s
  <2> QED BY <1>1, <2>1 DEF Confirms
<1>9. ui' # None => ui' \in [id : KeygenIds, send : BOOLEAN, finished : BOOLEAN, aborted : BOOLEAN]
  <2> HIDE DEF stack
  <2> QED BY <1>1, <1>3
<1>10. /\ down' \in [Devices -> Seq(Orders)]
       /\ \A d \in Devices : BackedFor(d, down'[d])
  <2>1. \A d \in Devices : down[d] \in Seq(Orders) /\ BackedFor(d, down[d])
    BY DEF KeyGenInvariant, CoordType, FinalizeIsBacked
  <2>2. \A d \in Devices : down'[d] \in Seq(Orders) /\ BackedFor(d, down'[d])
    <3> HIDE DEF gone
    <3> QED BY <1>1, <2>1, DeliveredBacked
  <2> QED BY <1>1, <2>2
<1>11. up' \in [Devices -> Seq(Answers)] /\ AcksConfirm'
  <2>1. ASSUME NEW d \in Devices
        PROVE  /\ up'[d] \in Seq(Answers)
               /\ \A i \in DOMAIN up'[d] : up'[d][i].type = "Ack" => <<d, up'[d][i].id>> \in confirmed
    <3>1. /\ up[d] \in Seq(Answers)
          /\ \A i \in DOMAIN up[d] : up[d][i].type = "Ack" => <<d, up[d][i].id>> \in confirmed
      BY DEF KeyGenInvariant, CoordType, AcksConfirm
    <3>2. CASE d \in R
      <4>1. up[d] # <<>> /\ up'[d] = Tail(up[d])
        BY <1>1, <3>2 DEF Readable
      <4>2. /\ up'[d] \in Seq(Answers)
            /\ \A i \in DOMAIN up'[d] : i + 1 \in DOMAIN up[d] /\ up'[d][i] = up[d][i + 1]
        BY <3>1, <4>1
      <4> QED BY <3>1, <4>2
    <3>3. CASE d \notin R
      BY <1>1, <3>1, <3>3
    <3> QED BY <3>2, <3>3
  <2>2. confirmed' = confirmed
    BY <1>1
  <2>3. up' \in [Devices -> Seq(Answers)]
    BY <1>1, <2>1
  <2> QED BY <2>1, <2>2, <2>3 DEF AcksConfirm
<1> HIDE DEF s, stack, first, last
<1>12. CoordType' /\ DeviceType'
  <2>1. seen' \subseteq Devices /\ form' \subseteq Devices
    BY <1>1, AppFacts
  <2>2. CoordType'
    BY <1>1, <1>7, <1>8, <1>9, <1>10, <1>11, <2>1 DEF KeyGenInvariant, CoordType
  <2> QED BY <1>1, <2>2 DEF KeyGenInvariant, DeviceType, deviceVars
<1>13. FinalizeIsBacked'
  BY <1>1, <1>7, <1>10 DEF FinalizeIsBacked, Backed, BackedFor
<1>14. KeysBegan' /\ NoOrphanShare' /\ EveryoneConfirmed'
  BY <1>1 DEF KeyGenInvariant, KeysBegan, NoOrphanShare, EveryoneConfirmed, deviceVars
<1> QED BY <1>8, <1>11, <1>12, <1>13, <1>14 DEF KeyGenInvariant

\* What a step of a device, or a failure, may do: the link holds less or more of
\* what is backed and confirmed, the device gets shares it may have, and the user
\* confirms.
LEMMA DeviceStep ==
  ASSUME KeyGenInvariant,
         UNCHANGED <<coordVars, ui, form>>,
         seen' \subseteq Devices, outbox' \in Seq(Orders), Backed(outbox'),
         confirmed \subseteq confirmed',
         down' \in [Devices -> Seq(Orders)], \A d \in Devices : BackedFor(d, down'[d]),
         up' \in [Devices -> Seq(Answers)], AcksConfirm',
         DeviceType', NoOrphanShare'
  PROVE  KeyGenInvariant'
<1>1. CoordType'
  BY DEF KeyGenInvariant, CoordType, coordVars
<1>2. Confirms(pending)'
  BY DEF KeyGenInvariant, Confirms, coordVars
<1>3. FinalizeIsBacked'
  BY DEF FinalizeIsBacked, Backed, BackedFor, coordVars
<1>4. KeysBegan' /\ EveryoneConfirmed'
  BY DEF KeyGenInvariant, KeysBegan, EveryoneConfirmed, coordVars
<1> QED BY <1>1, <1>2, <1>3, <1>4 DEF KeyGenInvariant

\* The state of a device and its link.
LEMMA DeviceFacts ==
  ASSUME KeyGenInvariant, NEW d \in Devices
  PROVE  /\ down \in [Devices -> Seq(Orders)] /\ up \in [Devices -> Seq(Answers)]
         /\ down[d] \in Seq(Orders) /\ up[d] \in Seq(Answers)
         /\ BackedFor(d, down[d])
         /\ \A i \in DOMAIN up[d] : up[d][i].type = "Ack" => <<d, up[d][i].id>> \in confirmed
         /\ phase[d] \in Phases /\ prompt[d] \in KeygenIds \cup {None} /\ named[d] \in BOOLEAN
         /\ shares[d] \in SUBSET KeygenIds
BY DEF KeyGenInvariant, CoordType, DeviceType, FinalizeIsBacked, AcksConfirm

\* A poll of a device.
LEMMA DevicePollStep ==
  ASSUME KeyGenInvariant, NEW d \in Devices, NEW n \in 1 .. MaxInbox, DevicePoll(d, n)
  PROVE  KeyGenInvariant'
<1> DEFINE S == {k \in keys : d \in members[k]}
           w == AfterInbox(d, n)
           v == AfterOutbox(w)
<1>1. /\ n \in 1 .. Len(down[d])
      /\ down' = [down EXCEPT ![d] = SubSeq(@, n + 1, Len(@))]
      /\ shares' = [shares EXCEPT ![d] = IF w.failed THEN @ ELSE @ \cup w.saved]
      /\ phase' = [phase EXCEPT ![d] = IF v.failed THEN Idle ELSE v.phase]
      /\ prompt' = [prompt EXCEPT ![d] = IF v.failed THEN None ELSE v.prompt]
      /\ named' = [named EXCEPT ![d] = v.named /\ ~v.failed]
      /\ up' = [up EXCEPT ![d] = IF v.failed THEN @ ELSE @ \o v.out]
      /\ UNCHANGED <<coordVars, ui, form, outbox, seen, confirmed>>
  BY DEF DevicePoll, pageVars, historyVars
<1>2. S \in SUBSET KeygenIds
  BY DEF KeyGenInvariant, CoordType
<1>3. n \in Nat
  BY <1>1
<1>4. Working(d) \in Polls(S, Tasks)
  <2>1. <<>> \in Seq(Tasks)
    OBVIOUS
  <2> QED BY <2>1, DeviceFacts DEF Working, Polls
<1>5. \A i \in 1 .. n : down[d][i] \in Orders /\ Allows(S, down[d][i])
  <2> SUFFICES ASSUME NEW i \in 1 .. n PROVE down[d][i] \in Orders /\ Allows(S, down[d][i])
    OBVIOUS
  <2>1. i \in DOMAIN down[d] /\ down[d][i] \in Orders
    BY <1>1, DeviceFacts
  <2> QED BY <2>1, DeviceFacts DEF BackedFor, Allows
<1> HIDE DEF S
<1>6. w \in Polls(S, Tasks)
  BY <1>2, <1>3, <1>4, <1>5, AfterInboxType
<1>7. v \in Polls(S, Replies)
  <2> HIDE DEF w
  <2> QED BY <1>6, AfterOutboxType
<1> HIDE DEF w, v
<1>8. /\ down' \in [Devices -> Seq(Orders)]
      /\ \A e \in Devices : BackedFor(e, down'[e])
  <2>1. \A e \in Devices : e # d => down'[e] = down[e]
    BY <1>1, DeviceFacts
  <2>2. /\ down'[d] \in Seq(Orders)
        /\ \A i \in DOMAIN down'[d] : i + n \in DOMAIN down[d] /\ down'[d][i] = down[d][i + n]
    <3>1. down'[d] = SubSeq(down[d], n + 1, Len(down[d]))
      BY <1>1, DeviceFacts
    <3> QED BY <1>1, <3>1, DeviceFacts
  <2>3. BackedFor(d, down'[d])
    BY <2>2, DeviceFacts DEF BackedFor
  <2>4. \A e \in Devices : BackedFor(e, down'[e])
    BY <2>1, <2>3, DeviceFacts
  <2>5. down' \in [Devices -> Seq(Orders)]
    BY <1>1, <2>2, DeviceFacts
  <2> QED BY <2>4, <2>5
<1>9. up' \in [Devices -> Seq(Answers)] /\ AcksConfirm'
  <2>1. \A e \in Devices : e # d => up'[e] = up[e]
    BY <1>1, DeviceFacts
  <2>2. /\ up'[d] \in Seq(Answers)
        /\ \A i \in DOMAIN up'[d] : up'[d][i].type = "Ack" => <<d, up'[d][i].id>> \in confirmed
    <3>1. CASE v.failed
      BY <1>1, <3>1, DeviceFacts
    <3>2. CASE ~v.failed
      <4>1. v.out \in Seq(Replies)
        BY <1>7 DEF Polls
      <4>2. Replies \subseteq Answers
        BY DEF Replies, Answers
      <4>3. v.out \in Seq(Answers)
        BY <4>1, <4>2
      <4>4. \A j \in DOMAIN v.out : v.out[j].type # "Ack"
        <5>1. \A j \in DOMAIN v.out : v.out[j] \in Replies
          BY <4>1
        <5> QED BY <5>1 DEF Replies
      <4>5. up'[d] = up[d] \o v.out
        BY <1>1, <3>2, DeviceFacts
      <4>6. /\ up'[d] \in Seq(Answers)
            /\ \A i \in DOMAIN up'[d] : \/ i \in DOMAIN up[d] /\ up'[d][i] = up[d][i]
                                        \/ \E j \in DOMAIN v.out : up'[d][i] = v.out[j]
        <5>1. PICK a \in Seq(Answers) : a = up[d]
          BY DeviceFacts
        <5>2. PICK b \in Seq(Answers) : b = v.out
          BY <4>3
        <5>3. PICK c : c = a \o b
          OBVIOUS
        <5>4. /\ c \in Seq(Answers)
              /\ \A i \in DOMAIN c : (i \in DOMAIN a /\ c[i] = a[i]) \/ \E j \in DOMAIN b : c[i] = b[j]
          BY <5>3, TogetherElements
        <5>5. up'[d] = c
          BY <4>5, <5>1, <5>2, <5>3
        <5> QED BY <5>1, <5>2, <5>4, <5>5
      <4> QED BY <4>4, <4>6, DeviceFacts
    <3> QED BY <3>1, <3>2
  <2>3. up' \in [Devices -> Seq(Answers)]
    BY <1>1, <2>2, DeviceFacts
  <2>4. confirmed' = confirmed
    BY <1>1
  <2> QED BY <2>1, <2>2, <2>3, <2>4, DeviceFacts DEF AcksConfirm
<1>10. w.saved \subseteq S
  BY <1>6 DEF Polls
<1>11. DeviceType'
  <2>1. Idle \in Phases
    BY DEF Idle, Phases
  <2>2. /\ (IF v.failed THEN Idle ELSE v.phase) \in Phases
        /\ (IF v.failed THEN None ELSE v.prompt) \in KeygenIds \cup {None}
        /\ (v.named /\ ~v.failed) \in BOOLEAN
    BY <1>7, <2>1 DEF Polls
  <2>3. (IF w.failed THEN shares[d] ELSE shares[d] \cup w.saved) \in SUBSET KeygenIds
    BY <1>2, <1>10, DeviceFacts
  <2>4. DeviceType
    BY DEF KeyGenInvariant
  <2> QED BY <1>1, <2>2, <2>3, <2>4 DEF DeviceType
<1>12. NoOrphanShare'
  <2>1. NoOrphanShare /\ shares \in [Devices -> SUBSET KeygenIds]
    BY DEF KeyGenInvariant, DeviceType
  <2>2. \A k \in w.saved : k \in keys /\ d \in members[k]
    BY <1>10 DEF S
  <2>3. \A e \in Devices : e # d => shares'[e] = shares[e]
    BY <1>1, <2>1
  <2>4. \A k \in shares'[d] : k \in shares[d] \/ k \in w.saved
    BY <1>1, <2>1
  <2>5. members' = members /\ keys' = keys
    BY <1>1 DEF coordVars
  <2> QED BY <2>1, <2>2, <2>3, <2>4, <2>5 DEF NoOrphanShare
<1>13. outbox' \in Seq(Orders) /\ Backed(outbox')
  BY <1>1, AppFacts
<1> QED BY <1>1, <1>8, <1>9, <1>11, <1>12, <1>13, AppFacts, DeviceStep

\* The user confirms on a device.
LEMMA KeyGenConfirmStep ==
  ASSUME KeyGenInvariant, NEW d \in Devices, KeyGenConfirm(d)
  PROVE  KeyGenInvariant'
<1> DEFINE k == prompt[d]
           m == Answer("Ack", k)
<1>1. /\ k # None
      /\ phase' = [phase EXCEPT ![d][k] = "4"]
      /\ up' = [up EXCEPT ![d] = Append(@, m)]
      /\ prompt' = [prompt EXCEPT ![d] = None]
      /\ confirmed' = confirmed \cup {<<d, k>>}
      /\ UNCHANGED <<coordVars, ui, form, outbox, seen, down, named, shares>>
  BY DEF KeyGenConfirm, pageVars
<1>2. k \in KeygenIds /\ m \in Answers /\ m.id = k
  BY <1>1, DeviceFacts DEF Answer, Answers
<1> HIDE DEF k, m
<1>3. up' \in [Devices -> Seq(Answers)] /\ AcksConfirm'
  <2>1. \A e \in Devices : e # d => up'[e] = up[e]
    BY <1>1, DeviceFacts
  <2>2. /\ up'[d] \in Seq(Answers)
        /\ \A i \in DOMAIN up'[d] : (i \in DOMAIN up[d] /\ up'[d][i] = up[d][i]) \/ up'[d][i] = m
    BY <1>1, <1>2, DeviceFacts
  <2>3. up' \in [Devices -> Seq(Answers)]
    BY <1>1, <2>2, DeviceFacts
  <2>4. ASSUME NEW e \in Devices, NEW i \in DOMAIN up'[e], up'[e][i].type = "Ack"
        PROVE  <<e, up'[e][i].id>> \in confirmed'
    BY <1>1, <1>2, <2>1, <2>2, <2>4, DeviceFacts
  <2> QED BY <2>3, <2>4 DEF AcksConfirm
<1>4. DeviceType'
  <2>1. [phase[d] EXCEPT ![k] = "4"] \in Phases
    BY DeviceFacts DEF Phases
  <2>2. phase' = [phase EXCEPT ![d] = [phase[d] EXCEPT ![k] = "4"]]
    BY <1>1
  <2> QED BY <1>1, <2>1, <2>2 DEF KeyGenInvariant, DeviceType
<1>5. NoOrphanShare'
  BY <1>1 DEF KeyGenInvariant, NoOrphanShare, coordVars
<1>6. \A e \in Devices : BackedFor(e, down'[e])
  BY <1>1, DeviceFacts
<1> QED BY <1>1, <1>3, <1>4, <1>5, <1>6, AppFacts, DeviceFacts, DeviceStep

\* A device that was rebooted keeps its shares only.
LEMMA RebootedType ==
  ASSUME KeyGenInvariant, NEW S, Rebooted(S)
  PROVE  DeviceType' /\ shares' = shares
<1>1. Idle \in Phases
  BY DEF Idle, Phases
<1> QED BY <1>1 DEF KeyGenInvariant, DeviceType, Rebooted

\* A device is unplugged or comes back, and the app dies.
LEMMA FailureStep ==
  ASSUME KeyGenInvariant, (\E d \in Devices : Unplug(d) \/ Connect(d)) \/ AppCrash
  PROVE  KeyGenInvariant'
<1>1. <<>> \in Seq(Orders) /\ <<>> \in Seq(Answers) /\ Backed(<<>>) /\ \A d : BackedFor(d, <<>>)
  BY DEF Backed, BackedFor
<1>2. ASSUME NEW d \in Devices, Unplug(d) \/ Connect(d)
      PROVE  KeyGenInvariant'
  <2>1. /\ down' = [down EXCEPT ![d] = <<>>] /\ up' = [up EXCEPT ![d] = <<>>]
        /\ Rebooted({d})
        /\ UNCHANGED <<coordVars, ui, form, confirmed>>
    BY <1>2 DEF Unplug, Connect, pageVars, historyVars
  <2>2. DeviceType' /\ shares' = shares
    BY <2>1, RebootedType
  <2>3. NoOrphanShare'
    BY <2>1, <2>2 DEF KeyGenInvariant, NoOrphanShare, coordVars
  <2>4. /\ down' \in [Devices -> Seq(Orders)]
        /\ \A e \in Devices : BackedFor(e, down'[e])
    <3>1. \A e \in Devices : down'[e] = down[e] \/ down'[e] = <<>>
      BY <2>1, DeviceFacts
    <3>2. down' \in [Devices -> Seq(Orders)]
      BY <1>1, <2>1, DeviceFacts
    <3> QED BY <1>1, <3>1, <3>2, DeviceFacts
  <2>5. up' \in [Devices -> Seq(Answers)] /\ AcksConfirm'
    <3>1. \A e \in Devices : up'[e] = up[e] \/ up'[e] = <<>>
      BY <2>1, DeviceFacts
    <3>2. up' \in [Devices -> Seq(Answers)]
      BY <1>1, <2>1, DeviceFacts
    <3>3. DOMAIN <<>> = {}
      OBVIOUS
    <3> QED BY <2>1, <3>1, <3>2, <3>3, DeviceFacts DEF AcksConfirm
  <2>6. seen' \subseteq Devices
    BY <1>2, AppFacts DEF Unplug, Connect
  <2>7. outbox' \in Seq(Orders) /\ Backed(outbox')
    <3>1. CASE outbox' = outbox
      BY <3>1, AppFacts
    <3>2. CASE outbox' # outbox
      <4> DEFINE m == Preview({d})
      <4>1. m \in Orders /\ m.type # "Finalize"
        BY DEF Preview, Message, Orders
      <4>2. outbox' = Append(outbox, m)
        BY <1>2, <3>2 DEF Unplug, Connect
      <4> HIDE DEF m
      <4>3. outbox' = outbox \o <<m>>
        BY <4>1, <4>2, AppFacts
      <4> QED BY <4>1, <4>3, AppFacts, OneBacked, JoinBacked
    <3> QED BY <3>1, <3>2
  <2> QED BY <2>1, <2>2, <2>3, <2>4, <2>5, <2>6, <2>7, DeviceStep
<1>3. CASE AppCrash
  <2>1. /\ pending' = [k \in KeygenIds |-> NoKeygen]
        /\ ui' = None /\ form' = {} /\ outbox' = <<>> /\ seen' = {}
        /\ up' = [d \in Devices |-> <<>>]
        /\ UNCHANGED <<members, keys, down, deviceVars, confirmed>>
    BY <1>3 DEF AppCrash
  <2>2. CoordType'
    BY <1>1, <2>1, AppFacts DEF KeyGenInvariant, CoordType
  <2>3. DeviceType'
    BY <2>1 DEF KeyGenInvariant, DeviceType, deviceVars
  <2>4. Confirms(pending)'
    BY <2>1 DEF Confirms, NoKeygen
  <2>5. FinalizeIsBacked'
    BY <1>1, <2>1 DEF KeyGenInvariant, FinalizeIsBacked, Backed, BackedFor
  <2>6. AcksConfirm'
    BY <2>1 DEF AcksConfirm
  <2>7. KeysBegan' /\ NoOrphanShare' /\ EveryoneConfirmed'
    BY <2>1 DEF KeyGenInvariant, KeysBegan, NoOrphanShare, EveryoneConfirmed, deviceVars
  <2> QED BY <2>2, <2>3, <2>4, <2>5, <2>6, <2>7 DEF KeyGenInvariant
<1> QED BY <1>2, <1>3

LEMMA KeyGenStep == KeyGenInvariant /\ [Next]_vars => KeyGenInvariant'
<1> SUFFICES ASSUME KeyGenInvariant, [Next]_vars PROVE KeyGenInvariant'
  OBVIOUS
<1>1. CASE \E k \in KeygenIds, S \in MemberSets : GenerateNewKey(k, S)
  BY <1>1, GenerateStep
<1>2. CASE \E k \in KeygenIds : FinalizeKeygen(k)
  BY <1>2, FinalizeStep
<1>3. CASE \/ \E k \in KeygenIds : FinalizeFails(k)
           \/ CancelProtocol \/ SendCancelAll \/ ResetDeviceNames
           \/ \E d \in Devices : SetDeviceName(d) \/ ClearDeviceName(d)
  BY <1>3, CallsStep
<1>4. CASE \E R \in SUBSET Readable, early \in BOOLEAN : Iterate(R, early)
  BY <1>4, IterateStep
<1>5. CASE \E d \in Devices : KeyGenConfirm(d)
  BY <1>5, KeyGenConfirmStep
<1>6. CASE \E d \in Devices : \E n \in 1 .. MaxInbox : DevicePoll(d, n)
  BY <1>6, DevicePollStep
<1>7. CASE (\E d \in Devices : Unplug(d) \/ Connect(d)) \/ AppCrash
  BY <1>7, FailureStep
<1>8. CASE UNCHANGED vars
  <2>1. UNCHANGED <<coordVars, ui, form, outbox, seen, down, up, deviceVars, confirmed>>
    BY <1>8 DEF vars, pageVars, linkVars, historyVars
  <2>2. DeviceType' /\ NoOrphanShare' /\ AcksConfirm'
    BY <2>1 DEF KeyGenInvariant, DeviceType, NoOrphanShare, AcksConfirm, coordVars, deviceVars
  <2>3. \A d \in Devices : BackedFor(d, down'[d])
    BY <2>1, DeviceFacts
  <2>4. /\ down' \in [Devices -> Seq(Orders)] /\ up' \in [Devices -> Seq(Answers)]
        /\ outbox' \in Seq(Orders) /\ Backed(outbox') /\ seen' \subseteq Devices
    BY <2>1 DEF KeyGenInvariant, CoordType, FinalizeIsBacked
  <2> QED BY <2>1, <2>2, <2>3, <2>4, DeviceStep
<1> QED BY <1>1, <1>2, <1>3, <1>4, <1>5, <1>6, <1>7, <1>8 DEF Next

\* The invariant is what the theorems follow from.
LEMMA KeyGenAlways == Spec => []KeyGenInvariant
<1> QED BY KeyGenInit, KeyGenStep, PTL DEF Spec

\* A device has a share only of a key that finalize_keygen has persisted and that
\* it is a device of, whatever is cancelled, unplugged or crashes, and whenever.
THEOREM SharesAreOfKeys == Spec => []NoOrphanShare
<1>1. KeyGenInvariant => NoOrphanShare
  BY DEF KeyGenInvariant
<1> QED BY <1>1, KeyGenAlways, PTL

\* A key exists only if its session hash was accepted on every one of its devices:
\* an ack that the coordinator counts was sent for this key generation by this
\* device's user, also when attempts follow each other closely.
THEOREM KeysAreConfirmed == Spec => []EveryoneConfirmed
<1>1. KeyGenInvariant => EveryoneConfirmed
  BY DEF KeyGenInvariant
<1> QED BY <1>1, KeyGenAlways, PTL

----------------------------------------------------------------------------
(* One device and one key generation *)

\* What is on its way to a device.
Line(d) == down[d] \o Sent(d, outbox)

\* Where s, and L after its first n messages, is about the key generation k.
At(s, k) == {i \in DOMAIN s : s[i].id = k}
Rest(L, n, k) == {i \in DOMAIN L : i > n /\ L[i].id = k}

\* What may be under way for a member that has not answered, the phase in which
\* a message has to meet the device, the phase in which an answer leaves it, and
\* the phase of a member that has answered.
Stage == [responses |-> {"Begin", "Response"},
          certificates |-> {"CertifyPlease", "Certify"},
          acks |-> {"Check", "CheckKeyGen", "Ack"},
          finalize |-> {}]
Meets == [CertifyPlease |-> "1", Check |-> "2", Finalize |-> "4"]
Leaves == [Response |-> "1", Certify |-> "2", Ack |-> "4"]
Reaches == [responses |-> "1", certificates |-> "2", acks |-> "4", finalize |-> "4"]

\* At most one message, answer, task or prompt of k is under way.
Lone(k, L, n, U, O, p) ==
  /\ \A i, j \in Rest(L, n, k) : i = j
  /\ \A i, j \in At(U, k) : i = j
  /\ \A i, j \in At(O, k) : i = j
  /\ Rest(L, n, k) # {} => At(U, k) = {} /\ At(O, k) = {} /\ p # k
  /\ At(U, k) # {} => At(O, k) = {} /\ p # k
  /\ At(O, k) # {} => p # k

\* A message of k finds the device where it expects it, and no Cancel is before it.
Met(k, L, n, ph) ==
  \A i \in Rest(L, n, k) : L[i].type # "Begin" =>
    /\ ph = Meets[L[i].type]
    /\ \A j \in DOMAIN L : j > n /\ j < i => L[j].type # "Cancel"

\* The device and the link agree with the entry e of k in pending_keygens, and a
\* Cancel that is under way is older than k.
Agrees(k, d, e, unsent, L, n, U, O, p, ph) ==
  e.state # "none" =>
    /\ \A i \in Rest(L, n, k) : d \notin e.from /\ L[i].type \in Stage[e.state]
    /\ \A i \in At(U, k) : /\ d \notin e.from /\ U[i].type \in Stage[e.state]
                           /\ ph = Leaves[U[i].type]
    /\ \A i \in At(O, k) : /\ d \notin e.from /\ O[i].type \in Stage[e.state]
                           /\ O[i].type # "CheckKeyGen" => ph = Leaves[O[i].type]
    /\ p = k => d \notin e.from /\ e.state = "acks"
    /\ d \in e.from \/ e.state = "finalize" => ph = Reaches[e.state]
    /\ \A i \in DOMAIN L : i > n /\ L[i].type = "Cancel" =>
         unsent \/ \E j \in Rest(L, n, k) : j > i /\ L[j].type = "Begin"

\* The device has its share if k is finalized, or will be told.
Kept(k, L, n, safe) ==
  safe \/ \E i \in Rest(L, n, k) : L[i].type = "Finalize"

Holds(k, d, e, unsent, L, n, U, O, p, ph, safe) ==
  /\ Lone(k, L, n, U, O, p)
  /\ Met(k, L, n, ph)
  /\ Agrees(k, d, e, unsent, L, n, U, O, p, ph)
  /\ Kept(k, L, n, safe)

\* A message that is appended to the line, of another key generation or none,
\* changes nothing, unless it is a Cancel and k is pending.
LEMMA OtherMessage ==
  ASSUME NEW k \in KeygenIds, NEW d, NEW e \in Entries, NEW unsent, NEW L \in Seq(Orders),
         NEW n \in Nat,
         NEW U, NEW O, NEW p, NEW ph, NEW safe,
         Holds(k, d, e, unsent, L, n, U, O, p, ph, safe),
         n <= Len(L),
         NEW m \in Orders, m.id # k, m.type = "Cancel" => e.state = "none" \/ unsent
  PROVE  Holds(k, d, e, unsent, Append(L, m), n, U, O, p, ph, safe)
<1>1. PICK M : M = Append(L, m)
  OBVIOUS
<1>2. /\ M \in Seq(Orders) /\ Len(M) = Len(L) + 1 /\ M[Len(L) + 1] = m
      /\ DOMAIN L = 1 .. Len(L) /\ DOMAIN M = 1 .. Len(L) + 1 /\ Len(L) \in Nat
      /\ \A i \in DOMAIN L : M[i] = L[i]
  BY <1>1
<1>3. /\ Rest(M, n, k) = Rest(L, n, k)
      /\ \A i \in Rest(L, n, k) : i \in DOMAIN L /\ M[i] = L[i]
  BY <1>2 DEF Rest
<1>4. Lone(k, M, n, U, O, p)
  BY <1>3 DEF Lone, Holds
<1>5. Met(k, M, n, ph)
  <2> SUFFICES ASSUME NEW i \in Rest(L, n, k), M[i].type # "Begin"
               PROVE  /\ ph = Meets[M[i].type]
                      /\ \A j \in DOMAIN M : j > n /\ j < i => M[j].type # "Cancel"
    BY <1>3 DEF Met
  <2>1. /\ ph = Meets[L[i].type]
        /\ \A j \in DOMAIN L : j > n /\ j < i => L[j].type # "Cancel"
    BY <1>3 DEF Holds, Met
  <2>2. \A j \in DOMAIN M : j < i => j \in DOMAIN L
    BY <1>2, <1>3
  <2> QED BY <1>2, <1>3, <2>1, <2>2
<1>6. Agrees(k, d, e, unsent, M, n, U, O, p, ph)
  <2> SUFFICES ASSUME e.state # "none"
               PROVE  Agrees(k, d, e, unsent, M, n, U, O, p, ph)
    BY DEF Agrees
  <2>0. Agrees(k, d, e, unsent, L, n, U, O, p, ph)
    BY DEF Holds
  <2>1. \A i \in Rest(M, n, k) : d \notin e.from /\ M[i].type \in Stage[e.state]
    BY <1>3, <2>0 DEF Agrees
  <2>2. \A i \in DOMAIN M : i > n /\ M[i].type = "Cancel" =>
          unsent \/ \E j \in Rest(M, n, k) : j > i /\ M[j].type = "Begin"
    <3> SUFFICES ASSUME NEW i \in DOMAIN M, i > n, M[i].type = "Cancel", ~unsent
                 PROVE  \E j \in Rest(M, n, k) : j > i /\ M[j].type = "Begin"
      OBVIOUS
    <3>1. i \in DOMAIN L
      BY <1>2
    <3>2. PICK j \in Rest(L, n, k) : j > i /\ L[j].type = "Begin"
      BY <1>2, <2>0, <3>1 DEF Agrees
    <3> QED BY <1>3, <3>2
  <2> QED BY <2>0, <2>1, <2>2 DEF Agrees
<1>7. Kept(k, M, n, safe)
  BY <1>3 DEF Kept, Holds
<1> QED BY <1>1, <1>4, <1>5, <1>6, <1>7 DEF Holds

\* A message of k that is appended when nothing of k is under way.
LEMMA OwnMessage ==
  ASSUME NEW k \in KeygenIds, NEW d, NEW e \in Entries, NEW unsent, NEW L \in Seq(Orders),
         NEW n \in Nat,
         NEW U, NEW p, NEW ph, NEW safe,
         n <= Len(L),
         Rest(L, n, k) = {}, At(U, k) = {}, p # k,
         NEW m \in Orders, m.id = k,
         m.type # "Begin" => /\ ph = Meets[m.type]
                             /\ \A j \in DOMAIN L : j > n => L[j].type # "Cancel",
         e.state # "none" => d \notin e.from /\ m.type \in Stage[e.state],
         safe \/ m.type = "Finalize"
  PROVE  Holds(k, d, e, unsent, Append(L, m), n, U, <<>>, p, ph, safe)
<1>1. PICK M : M = Append(L, m)
  OBVIOUS
<1>2. /\ M \in Seq(Orders) /\ Len(M) = Len(L) + 1 /\ M[Len(L) + 1] = m
      /\ DOMAIN L = 1 .. Len(L) /\ DOMAIN M = 1 .. Len(L) + 1 /\ Len(L) \in Nat
      /\ \A i \in DOMAIN L : M[i] = L[i]
  BY <1>1
<1>3. Rest(M, n, k) = {Len(L) + 1} /\ At(<<>>, k) = {}
  BY <1>2 DEF Rest, At
<1>4. Lone(k, M, n, U, <<>>, p)
  BY <1>3 DEF Lone
<1>5. m.type # "Cancel" /\ (m.type # "Begin" => \A j \in DOMAIN M : j > n => M[j].type # "Cancel")
  BY <1>2, KeyGenAssumption DEF Orders
<1>6. Met(k, M, n, ph)
  BY <1>2, <1>3, <1>5 DEF Met
<1>7. Agrees(k, d, e, unsent, M, n, U, <<>>, p, ph)
  <2> SUFFICES ASSUME e.state # "none"
               PROVE  Agrees(k, d, e, unsent, M, n, U, <<>>, p, ph)
    BY DEF Agrees
  <2>1. \A i \in Rest(M, n, k) : d \notin e.from /\ M[i].type \in Stage[e.state]
    BY <1>2, <1>3
  <2>2. \A i \in DOMAIN M : i > n /\ M[i].type = "Cancel" =>
          unsent \/ \E j \in Rest(M, n, k) : j > i /\ M[j].type = "Begin"
    <3> SUFFICES ASSUME NEW i \in DOMAIN M, i > n, M[i].type = "Cancel"
                 PROVE  \E j \in Rest(M, n, k) : j > i /\ M[j].type = "Begin"
      OBVIOUS
    <3>1. m.type = "Begin" /\ i # Len(L) + 1
      BY <1>2, <1>5
    <3>2. Len(L) + 1 > i
      BY <1>2, <3>1
    <3> QED BY <1>2, <1>3, <3>1, <3>2
  <2>3. e.state # "finalize" /\ d \notin e.from
    BY <1>2, <1>3, <2>1 DEF Stage
  <2> QED BY <1>3, <2>1, <2>2, <2>3 DEF Agrees
<1>8. Kept(k, M, n, safe)
  BY <1>2, <1>3 DEF Kept
<1> QED BY <1>1, <1>4, <1>6, <1>7, <1>8 DEF Holds

\* Nothing of k is under way.
Muted(k, L, n, U, O, p) ==
  Rest(L, n, k) = {} /\ At(U, k) = {} /\ At(O, k) = {} /\ p # k

\* What is about k when one more message is worked off.
LEMMA RestNext ==
  ASSUME NEW L \in Seq(Orders), NEW n \in Nat, NEW k, n + 1 \in DOMAIN L
  PROVE  /\ L[n + 1].id # k => Rest(L, n + 1, k) = Rest(L, n, k)
         /\ L[n + 1].id = k => /\ n + 1 \in Rest(L, n, k)
                               /\ Rest(L, n + 1, k) = Rest(L, n, k) \ {n + 1}
<1>1. Len(L) \in Nat /\ DOMAIN L = 1 .. Len(L)
  OBVIOUS
<1>2. \A i \in DOMAIN L : i > n <=> (i > n + 1 \/ i = n + 1)
  BY <1>1
<1>3. L[n + 1].id = k => n + 1 \in Rest(L, n, k)
  BY <1>2 DEF Rest
<1>4. \A i : i \in Rest(L, n, k) /\ i # n + 1 => i \in Rest(L, n + 1, k)
  BY <1>2 DEF Rest
<1>5. \A i \in Rest(L, n + 1, k) : i \in Rest(L, n, k) /\ i # n + 1
  BY <1>1, <1>2 DEF Rest
<1>6. n + 1 \in Rest(L, n, k) => L[n + 1].id = k
  BY DEF Rest
<1> QED BY <1>3, <1>4, <1>5, <1>6

\* What is about k when a task is added.
LEMMA AtAppend ==
  ASSUME NEW T, NEW O \in Seq(T), NEW o \in T, NEW k
  PROVE  /\ At(Append(O, o), k) = IF o.id = k THEN At(O, k) \cup {Len(O) + 1} ELSE At(O, k)
         /\ Append(O, o)[Len(O) + 1] = o
         /\ \A i \in At(O, k) : Append(O, o)[i] = O[i] /\ i # Len(O) + 1
<1>1. PICK M : M = Append(O, o)
  OBVIOUS
<1>2. /\ DOMAIN M = 1 .. Len(O) + 1 /\ M[Len(O) + 1] = o /\ DOMAIN O = 1 .. Len(O) /\ Len(O) \in Nat
      /\ \A i \in DOMAIN O : M[i] = O[i]
  BY <1>1
<1>3. At(M, k) = IF o.id = k THEN At(O, k) \cup {Len(O) + 1} ELSE At(O, k)
  BY <1>2 DEF At
<1>4. \A i \in At(O, k) : M[i] = O[i] /\ i # Len(O) + 1
  BY <1>2 DEF At
<1> QED BY <1>1, <1>2, <1>3, <1>4

\* The device takes a message of another key generation, or a name.
LEMMA TakeOther ==
  ASSUME NEW k \in KeygenIds, NEW d, NEW e \in Entries, NEW unsent, NEW L \in Seq(Orders),
         NEW n \in Nat,
         NEW U, NEW O, NEW p, NEW ph, NEW safe,
         Holds(k, d, e, unsent, L, n, U, O, p, ph, safe),
         n + 1 \in DOMAIN L, L[n + 1].id # k, L[n + 1].type # "Cancel",
         NEW O2, At(O2, k) = At(O, k), \A i \in At(O, k) : O2[i] = O[i],
         NEW safe2, safe => safe2
  PROVE  Holds(k, d, e, unsent, L, n + 1, U, O2, p, ph, safe2)
<1>1. Rest(L, n + 1, k) = Rest(L, n, k)
  BY RestNext
<1>2. Lone(k, L, n + 1, U, O2, p)
  BY <1>1 DEF Lone, Holds
<1>3. Met(k, L, n + 1, ph)
  BY <1>1 DEF Met, Holds
<1>4. Agrees(k, d, e, unsent, L, n + 1, U, O2, p, ph)
  <2> SUFFICES ASSUME e.state # "none"
               PROVE  Agrees(k, d, e, unsent, L, n + 1, U, O2, p, ph)
    BY DEF Agrees
  <2>0. Agrees(k, d, e, unsent, L, n, U, O, p, ph)
    BY DEF Holds
  <2>1. \A i \in DOMAIN L : i > n + 1 => i > n
    OBVIOUS
  <2> QED BY <1>1, <2>0, <2>1 DEF Agrees
<1>5. Kept(k, L, n + 1, safe2)
  BY <1>1 DEF Kept, Holds
<1> QED BY <1>2, <1>3, <1>4, <1>5 DEF Holds

\* It takes a Cancel.
LEMMA TakeCancel ==
  ASSUME NEW k \in KeygenIds, NEW d, NEW e \in Entries, NEW unsent, NEW L \in Seq(Orders),
         NEW n \in Nat,
         NEW U, NEW O, NEW p, NEW ph, NEW safe,
         Holds(k, d, e, unsent, L, n, U, O, p, ph, safe),
         unsent => e.state = "responses" /\ e.from = {} /\ Muted(k, L, n, U, O, p),
         n + 1 \in DOMAIN L, L[n + 1].type = "Cancel"
  PROVE  Holds(k, d, e, unsent, L, n + 1, U, O, None, "none", safe)
<1>0. L[n + 1].id = None /\ None # k /\ n + 1 > n
  <2>1. L[n + 1] \in Orders
    OBVIOUS
  <2> QED BY <2>1, KeyGenAssumption DEF Orders
<1>1. Rest(L, n + 1, k) = Rest(L, n, k) /\ \A i \in Rest(L, n + 1, k) : i > n + 1 /\ i > n
  <2>1. Rest(L, n + 1, k) = Rest(L, n, k)
    BY <1>0, RestNext
  <2>2. \A i \in Rest(L, n + 1, k) : i \in DOMAIN L /\ i > n + 1 /\ i > n
    BY DEF Rest
  <2> QED BY <2>1, <2>2
<1>2. Lone(k, L, n + 1, U, O, None)
  BY <1>0, <1>1 DEF Lone, Holds
<1>3. \A i \in Rest(L, n, k) : L[i].type = "Begin"
  BY <1>0, <1>1 DEF Met, Holds
<1>4. Met(k, L, n + 1, "none")
  BY <1>1, <1>3 DEF Met
<1>5. Agrees(k, d, e, unsent, L, n + 1, U, O, None, "none")
  <2> SUFFICES ASSUME e.state # "none"
               PROVE  Agrees(k, d, e, unsent, L, n + 1, U, O, None, "none")
    BY DEF Agrees
  <2>0. Agrees(k, d, e, unsent, L, n, U, O, p, ph)
    BY DEF Holds
  <2>1. \A i \in DOMAIN L : i > n + 1 => i > n
    OBVIOUS
  <2>2. \A i \in Rest(L, n + 1, k) : d \notin e.from /\ L[i].type \in Stage[e.state]
    BY <1>1, <2>0 DEF Agrees
  <2>3. \A i \in DOMAIN L : i > n + 1 /\ L[i].type = "Cancel" =>
          unsent \/ \E j \in Rest(L, n + 1, k) : j > i /\ L[j].type = "Begin"
    BY <1>1, <2>0, <2>1 DEF Agrees
  <2>4. At(U, k) = {} /\ At(O, k) = {} /\ d \notin e.from /\ e.state # "finalize"
    <3>1. CASE unsent
      BY <3>1 DEF Muted
    <3>2. CASE ~unsent
      <4>1. PICK j \in Rest(L, n, k) : L[j].type = "Begin"
        BY <1>0, <2>0, <3>2 DEF Agrees
      <4>2. At(U, k) = {} /\ At(O, k) = {}
        BY <4>1 DEF Holds, Lone
      <4>3. d \notin e.from /\ "Begin" \in Stage[e.state]
        BY <2>0, <4>1 DEF Agrees
      <4> QED BY <4>2, <4>3 DEF Stage
    <3> QED BY <3>1, <3>2
  <2> QED BY <1>0, <2>2, <2>3, <2>4 DEF Agrees
<1>6. Kept(k, L, n + 1, safe)
  BY <1>1 DEF Kept, Holds
<1> QED BY <1>2, <1>4, <1>5, <1>6 DEF Holds

\* It takes a message of k, and there is something to send.
LEMMA TakeOwn ==
  ASSUME NEW k \in KeygenIds, NEW d, NEW e \in Entries, NEW unsent, NEW L \in Seq(Orders),
         NEW n \in Nat,
         NEW U, NEW O \in Seq(Tasks), NEW p, NEW ph, NEW safe,
         Holds(k, d, e, unsent, L, n, U, O, p, ph, safe),
         n + 1 \in DOMAIN L, L[n + 1].id = k,
         NEW o \in Tasks, o.id = k, NEW ph2, NEW safe2, safe => safe2,
         L[n + 1].type = "Finalize" => safe2,
         L[n + 1].type # "Finalize" => \A st \in {"responses", "certificates", "acks", "finalize"} :
            L[n + 1].type \in Stage[st] => /\ o.type \in Stage[st]
                                           /\ o.type # "CheckKeyGen" => ph2 = Leaves[o.type]
  PROVE  Holds(k, d, e, unsent, L, n + 1, U, Append(O, o), p, ph2, safe2)
<1>1. n + 1 \in Rest(L, n, k) /\ Rest(L, n + 1, k) = {}
  <2>1. n + 1 \in Rest(L, n, k) /\ Rest(L, n + 1, k) = Rest(L, n, k) \ {n + 1}
    BY RestNext
  <2>2. \A i, j \in Rest(L, n, k) : i = j
    BY DEF Holds, Lone
  <2> QED BY <2>1, <2>2
<1>2. At(U, k) = {} /\ At(O, k) = {} /\ p # k
  BY <1>1 DEF Holds, Lone
<1>3. PICK O2 : O2 = Append(O, o)
  OBVIOUS
<1>4. At(O2, k) = {Len(O) + 1} /\ O2[Len(O) + 1] = o
  BY <1>2, <1>3, AtAppend
<1>5. Lone(k, L, n + 1, U, O2, p)
  BY <1>1, <1>2, <1>4 DEF Lone
<1>6. Met(k, L, n + 1, ph2)
  BY <1>1 DEF Met
<1>7. Agrees(k, d, e, unsent, L, n + 1, U, O2, p, ph2)
  <2> SUFFICES ASSUME e.state # "none"
               PROVE  Agrees(k, d, e, unsent, L, n + 1, U, O2, p, ph2)
    BY DEF Agrees
  <2>0. Agrees(k, d, e, unsent, L, n, U, O, p, ph)
    BY DEF Holds
  <2>1. d \notin e.from /\ L[n + 1].type \in Stage[e.state]
    BY <1>1, <2>0 DEF Agrees
  <2>2. e.state \in {"responses", "certificates", "acks", "finalize"}
    BY DEF Entries
  <2>3. L[n + 1].type # "Finalize" /\ e.state # "finalize"
    BY <2>1, <2>2 DEF Stage
  <2>4. o.type \in Stage[e.state] /\ (o.type # "CheckKeyGen" => ph2 = Leaves[o.type])
    BY <2>1, <2>2, <2>3
  <2>5. ASSUME NEW i \in DOMAIN L, i > n + 1, L[i].type = "Cancel"
        PROVE  unsent
    <3>1. i > n
      BY <2>5
    <3>2. SUFFICES ASSUME NEW j \in Rest(L, n, k), j > i PROVE FALSE
      BY <2>0, <2>5, <3>1 DEF Agrees
    <3>3. j = n + 1
      BY <1>1 DEF Holds, Lone
    <3> QED BY <2>5, <3>2, <3>3
  <2> QED BY <1>1, <1>2, <1>4, <2>1, <2>3, <2>4, <2>5 DEF Agrees
<1>8. Kept(k, L, n + 1, safe2)
  <2> SUFFICES safe2
    BY DEF Kept
  <2>1. safe \/ \E i \in Rest(L, n, k) : L[i].type = "Finalize"
    BY DEF Holds, Kept
  <2>2. \A i \in Rest(L, n, k) : i = n + 1
    BY <1>1 DEF Holds, Lone
  <2> QED BY <2>1, <2>2
<1> QED BY <1>3, <1>5, <1>6, <1>7, <1>8 DEF Holds

----------------------------------------------------------------------------
(* A device's inbox and outbox *)

\* What a message makes of a poll.
Works(w, m, v) ==
  /\ m.type = "Cancel" => /\ v.phase = Idle /\ v.prompt = None /\ ~v.failed
                          /\ v.out = w.out /\ v.saved = w.saved
  /\ m.type = "Preview" => /\ v.phase = w.phase /\ v.prompt = w.prompt /\ ~v.failed
                           /\ v.out = w.out /\ v.saved = w.saved
  /\ m.type = "Begin" =>
       /\ v.phase = [w.phase EXCEPT ![m.id] = "1"] /\ v.prompt = w.prompt /\ ~v.failed
       /\ v.out = Append(w.out, Answer("Response", m.id)) /\ v.saved = w.saved
  /\ m.type \in {"CertifyPlease", "Check", "Finalize"} =>
       /\ v.failed <=> w.phase[m.id] # Meets[m.type]
       /\ ~v.failed => v.prompt = w.prompt
  /\ m.type = "CertifyPlease" /\ ~v.failed =>
       /\ v.phase = [w.phase EXCEPT ![m.id] = "2"]
       /\ v.out = Append(w.out, Answer("Certify", m.id)) /\ v.saved = w.saved
  /\ m.type = "Check" /\ ~v.failed =>
       /\ v.phase = [w.phase EXCEPT ![m.id] = "none"]
       /\ v.out = Append(w.out, Answer("CheckKeyGen", m.id)) /\ v.saved = w.saved
  /\ m.type = "Finalize" /\ ~v.failed =>
       /\ v.phase = [w.phase EXCEPT ![m.id] = "none"]
       /\ v.out = Append(w.out, Answer("FinalizeKeyGen", m.id))
       /\ v.saved = w.saved \cup {m.id}

\* What a message does: it is about no key generation, it fails, or it moves the
\* device on in one key generation and adds a task.
LEMMA ProcessCases ==
  ASSUME NEW w \in Polls(KeygenIds, Tasks), NEW m \in Orders, ~w.failed, NEW v, v = Process(w, m)
  PROVE  Works(w, m, v)
<1>1. CASE m.type \in {"Cancel", "Preview", "Begin"}
  BY <1>1 DEF Process, Polls, Works
<1>2. CASE m.type = "CertifyPlease"
  <2>1. v = To(w, m.id, "1", "2", Answer("Certify", m.id))
    BY <1>2 DEF Process
  <2> QED BY <1>2, <2>1 DEF To, Polls, Meets, Works
<1>3. CASE m.type = "Check"
  <2>1. v = To(w, m.id, "2", "none", Answer("CheckKeyGen", m.id))
    BY <1>3 DEF Process
  <2> QED BY <1>3, <2>1 DEF To, Polls, Meets, Works
<1>4. CASE m.type = "Finalize"
  <2> DEFINE u == To(w, m.id, "4", "none", Answer("FinalizeKeyGen", m.id))
  <2>1. v = IF u.failed THEN u ELSE [u EXCEPT !.saved = @ \cup {m.id}]
    BY <1>4 DEF Process
  <2>2. CASE w.phase[m.id] = "4"
    <3>1. u = [w EXCEPT !.phase[m.id] = "none", !.out = Append(@, Answer("FinalizeKeyGen", m.id))]
      BY <2>2 DEF To
    <3>2. ~u.failed /\ v = [u EXCEPT !.saved = @ \cup {m.id}]
      BY <2>1, <3>1 DEF Polls
    <3>3. /\ u.phase = [w.phase EXCEPT ![m.id] = "none"] /\ u.prompt = w.prompt
          /\ u.out = Append(w.out, Answer("FinalizeKeyGen", m.id)) /\ u.saved = w.saved
          /\ u.failed = w.failed
          /\ u = [u EXCEPT !.saved = @]
      BY <3>1 DEF Polls
    <3>4. u \in [phase : {u.phase}, prompt : {u.prompt}, named : {u.named},
                 saved : {u.saved}, out : {u.out}, failed : {u.failed}]
      BY <3>1 DEF Polls
    <3> HIDE DEF u
    <3>5. /\ v.phase = u.phase /\ v.prompt = u.prompt /\ v.out = u.out /\ v.failed = u.failed
          /\ v.saved = u.saved \cup {m.id}
      BY <3>2, <3>4
    <3> QED BY <1>4, <2>2, <3>3, <3>5 DEF Meets, Works
  <2>3. CASE w.phase[m.id] # "4"
    BY <1>4, <2>1, <2>3 DEF To, Polls, Meets, Works
  <2> QED BY <2>2, <2>3
<1>5. m.type \in {"Begin", "CertifyPlease", "Check", "Finalize", "Cancel", "Preview"}
  BY DEF Orders
<1> QED BY <1>1, <1>2, <1>3, <1>4, <1>5

\* A poll that fails on a message of k did not meet it where it expects it.
LEMMA ProcessMeets ==
  ASSUME NEW w \in Polls(KeygenIds, Tasks), NEW m \in Orders, ~w.failed, Process(w, m).failed
  PROVE  m.id \in KeygenIds /\ m.type # "Begin" /\ w.phase[m.id] # Meets[m.type]
<1>1. PICK v : v = Process(w, m)
  OBVIOUS
<1>2. m.type \in {"CertifyPlease", "Check", "Finalize"} /\ w.phase[m.id] # Meets[m.type]
  <2>0. Works(w, m, v)
    BY <1>1, ProcessCases
  <2>1. m.type \in {"Begin", "CertifyPlease", "Check", "Finalize", "Cancel", "Preview"}
    BY DEF Orders
  <2> QED BY <1>1, <2>0, <2>1 DEF Works
<1> QED BY <1>2 DEF Orders

\* A step of a poll leaves alone what it does not read about.
LEMMA ProcessMuted ==
  ASSUME NEW k \in KeygenIds, NEW L \in Seq(Orders), NEW n \in Nat, n + 1 \in DOMAIN L, NEW U,
         NEW w \in Polls(KeygenIds, Tasks), ~w.failed, NEW v, v = Process(w, L[n + 1]), ~v.failed,
         Muted(k, L, n, U, w.out, w.prompt)
  PROVE  Muted(k, L, n + 1, U, v.out, v.prompt)
<1>0. PICK m \in Orders : m = L[n + 1]
  OBVIOUS
<1>00. Works(w, m, v)
  BY <1>0, ProcessCases
<1>1. m \in Orders /\ m.id # k /\ Rest(L, n + 1, k) = Rest(L, n, k)
  BY <1>0, RestNext DEF Muted
<1>2. PICK O \in Seq(Tasks) : O = w.out
  BY DEF Polls
<1>3. m.type \in {"Begin", "CertifyPlease", "Check", "Finalize", "Cancel", "Preview"}
  BY <1>1 DEF Orders
<1>4. v.prompt = w.prompt \/ v.prompt = None
  BY <1>00, <1>3 DEF Works
<1>5. v.out = O \/ \E o \in Tasks : o.id = m.id /\ v.out = Append(O, o)
  <2>1. m.type \notin {"Cancel", "Preview"} => m.id \in KeygenIds
    BY <1>1 DEF Orders
  <2>2. \A type \in {"Response", "Certify", "CheckKeyGen", "FinalizeKeyGen"} :
          m.id \in KeygenIds => Answer(type, m.id) \in Tasks /\ Answer(type, m.id).id = m.id
    BY DEF Answer, Tasks
  <2> QED BY <1>00, <1>2, <1>3, <2>1, <2>2 DEF Works
<1>6. At(v.out, k) = At(O, k)
  <2>1. CASE v.out = O
    BY <2>1
  <2>2. CASE \E o \in Tasks : o.id = m.id /\ v.out = Append(O, o)
    BY <1>1, <2>2, AtAppend
  <2> QED BY <1>5, <2>1, <2>2
<1>7. None # k
  BY KeyGenAssumption
<1> QED BY <1>1, <1>2, <1>4, <1>6, <1>7 DEF Muted

\* A step of a poll keeps what holds of an unbroken key generation.
LEMMA ProcessHolds ==
  ASSUME NEW k \in KeygenIds, NEW d, NEW e \in Entries, NEW unsent,
         NEW L \in Seq(Orders), NEW n \in Nat, n + 1 \in DOMAIN L, NEW U, NEW sh,
         NEW w \in Polls(KeygenIds, Tasks), ~w.failed, NEW v, v = Process(w, L[n + 1]), ~v.failed,
         unsent => /\ e.state = "responses" /\ e.from = {}
                   /\ Muted(k, L, n, U, w.out, w.prompt),
         NEW before \in BOOLEAN, before = (k \notin keys \/ k \in sh \cup w.saved),
         NEW after \in BOOLEAN, after = (k \notin keys \/ k \in sh \cup v.saved),
         Holds(k, d, e, unsent, L, n, U, w.out, w.prompt, w.phase[k], before)
  PROVE  Holds(k, d, e, unsent, L, n + 1, U, v.out, v.prompt, v.phase[k], after)
<1>0. PICK m \in Orders : m = L[n + 1]
  OBVIOUS
<1>00. Works(w, m, v)
  BY <1>0, ProcessCases
<1>1. PICK O \in Seq(Tasks) : O = w.out
  BY DEF Polls
<1>2. w.phase \in Phases /\ m.type \in {"Begin", "CertifyPlease", "Check", "Finalize", "Cancel", "Preview"}
  BY <1>0 DEF Polls, Orders
<1>3. CASE m.type = "Cancel"
  <2>1. /\ v.phase = Idle /\ v.prompt = None /\ v.out = w.out /\ v.saved = w.saved
    BY <1>00, <1>3 DEF Works
  <2>2. v.phase[k] = "none"
    BY <2>1 DEF Idle
  <2>3. before = after
    BY <2>1
  <2> QED BY <1>0, <1>3, <2>1, <2>2, <2>3, TakeCancel
<1>4. CASE m.type = "Preview"
  <2>1. /\ v.phase = w.phase /\ v.prompt = w.prompt /\ v.out = w.out /\ v.saved = w.saved
    BY <1>00, <1>4 DEF Works
  <2>2. m.id # k
    BY <1>0, <1>4, KeyGenAssumption DEF Orders
  <2> QED BY <1>0, <1>4, <2>1, <2>2, TakeOther
<1>5. CASE m.type \in {"Begin", "CertifyPlease", "Check", "Finalize"}
  <2>0. m.id \in KeygenIds
    BY <1>0, <1>5 DEF Orders
  <2> DEFINE type == CASE m.type = "Begin" -> "Response" [] m.type = "CertifyPlease" -> "Certify"
                       [] m.type = "Check" -> "CheckKeyGen" [] m.type = "Finalize" -> "FinalizeKeyGen"
             ph == CASE m.type = "Begin" -> "1" [] m.type = "CertifyPlease" -> "2"
                       [] m.type \in {"Check", "Finalize"} -> "none"
             o == Answer(type, m.id)
  <2>1. /\ v.phase = [w.phase EXCEPT ![m.id] = ph]
        /\ v.prompt = w.prompt
        /\ v.out = Append(w.out, o)
        /\ v.saved = IF m.type = "Finalize" THEN w.saved \cup {m.id} ELSE w.saved
    BY <1>00, <1>5 DEF Works
  <2>2. type \in {"Response", "Certify", "CheckKeyGen", "FinalizeKeyGen"}
    BY <1>5
  <2>3. o \in Tasks /\ o.id = m.id /\ o.type = type
    <3> HIDE DEF type
    <3> QED BY <2>0, <2>2 DEF Answer, Tasks
  <2>4. CASE m.id = k
    <3>1. v.phase[k] = ph
      BY <1>2, <2>1, <2>4 DEF Phases
    <3>2. m.type = "Finalize" => k \in v.saved
      BY <2>1, <2>4
    <3>3. m.type # "Finalize" => \A st \in {"responses", "certificates", "acks", "finalize"} :
             m.type \in Stage[st] => /\ type \in Stage[st]
                                     /\ type # "CheckKeyGen" => ph = Leaves[type]
      BY <1>5 DEF Stage, Leaves
    <3>4. (before => after) /\ (m.type = "Finalize" => after)
      BY <2>1, <3>2
    <3> HIDE DEF o, type, ph
    <3>5. Holds(k, d, e, unsent, L, n + 1, U, Append(O, o), w.prompt, ph, after)
      BY <1>0, <1>1, <2>3, <2>4, <3>3, <3>4, TakeOwn
    <3> QED BY <1>1, <2>1, <3>1, <3>5
  <2>5. CASE m.id # k
    <3>1. v.phase[k] = w.phase[k]
      BY <1>2, <2>1, <2>5 DEF Phases
    <3> HIDE DEF o
    <3>2. At(v.out, k) = At(O, k) /\ \A i \in At(O, k) : v.out[i] = O[i]
      <4>1. PICK x \in Tasks : x = o /\ x.id # k
        BY <2>3, <2>5
      <4>2. v.out = Append(O, x)
        BY <1>1, <2>1, <4>1
      <4>3. At(v.out, k) = At(O, k)
        BY <4>1, <4>2, AtAppend
      <4>4. \A i \in DOMAIN O : v.out[i] = O[i]
        BY <4>2
      <4> QED BY <4>3, <4>4 DEF At
    <3>3. before => after
      BY <2>1
    <3>4. Holds(k, d, e, unsent, L, n + 1, U, v.out, w.prompt, w.phase[k], after)
      BY <1>0, <1>1, <1>5, <2>5, <3>2, <3>3, TakeOther
    <3> QED BY <2>1, <3>1, <3>4
  <2> QED BY <2>4, <2>5
<1> QED BY <1>2, <1>3, <1>4, <1>5

\* The key generation k is on the stack and Begin is not sent yet.
Unsent(k) == ui # None /\ ui.id = k /\ ui.send

\* What holds of d and k when the device has worked off n messages.
Poised(k, d, n, w) ==
  Holds(k, d, pending[k], Unsent(k), Line(d), n, up[d], w.out, w.prompt, w.phase[k],
        k \notin keys \/ k \in shares[d] \cup w.saved)

FreshAt(k, d, n, w) ==
  Unsent(k) => /\ pending[k].state = "responses" /\ pending[k].from = {}
               /\ Muted(k, Line(d), n, up[d], w.out, w.prompt)

\* The line of a device starts with what is in the link.
LEMMA LineType ==
  ASSUME KeyGenInvariant, NEW d \in Devices
  PROVE  /\ Line(d) \in Seq(Orders)
         /\ Len(down[d]) \in Nat /\ Len(Line(d)) \in Nat /\ Len(down[d]) <= Len(Line(d))
         /\ DOMAIN Line(d) = 1 .. Len(Line(d))
         /\ \A i \in 1 .. Len(down[d]) : i \in DOMAIN Line(d) /\ Line(d)[i] = down[d][i]
<1>1. PICK a \in Seq(Orders) : a = down[d]
  BY DeviceFacts
<1>2. PICK b \in Seq(Orders) : b = Sent(d, outbox)
  BY AppFacts, SentType
<1>3. PICK c : c = a \o b
  OBVIOUS
<1>4. c \in Seq(Orders) /\ Len(c) = Len(a) + Len(b) /\ \A i \in 1 .. Len(a) : c[i] = a[i]
  BY <1>3
<1> QED BY <1>1, <1>2, <1>3, <1>4 DEF Line

\* A device that works off its inbox keeps what holds of the key generations in K,
\* and it fails only on a message of another one.
LEMMA InboxHolds ==
  ASSUME KeyGenInvariant, NEW d \in Devices, NEW n \in 1 .. Len(down[d]),
         NEW K \in SUBSET KeygenIds,
         \A k \in K : Poised(k, d, 0, Working(d)),
         \A k \in KeygenIds : FreshAt(k, d, 0, Working(d))
  PROVE  \E w : /\ w = AfterInbox(d, n)
                /\ w \in Polls(KeygenIds, Tasks)
                /\ ~w.failed => /\ \A k \in K : Poised(k, d, n, w)
                                /\ \A k \in KeygenIds : FreshAt(k, d, n, w)
                /\ w.failed => \E i \in 1 .. n : down[d][i].id \in KeygenIds \ K
<1>0. n \in Nat
  BY LineType
<1>1. PICK w : /\ w[0] = Working(d)
               /\ \A i \in 1 .. n : w[i] = Process(w[i - 1], down[d][i])
               /\ AfterInbox(d, n) = w[n]
  BY <1>0, AfterInboxUnfolds
<1> DEFINE Good(i) == /\ w[i] \in Polls(KeygenIds, Tasks)
                      /\ ~w[i].failed => /\ \A k \in K : Poised(k, d, i, w[i])
                                         /\ \A k \in KeygenIds : FreshAt(k, d, i, w[i])
                      /\ w[i].failed => \E j \in 1 .. i : down[d][j].id \in KeygenIds \ K
           G == {i \in 0 .. n : Good(i)}
<1>2. 0 \in G
  <2>1. Working(d) \in Polls(KeygenIds, Tasks) /\ ~Working(d).failed
    <3>1. <<>> \in Seq(Tasks)
      OBVIOUS
    <3> QED BY <3>1, DeviceFacts DEF Working, Polls
  <2> QED BY <1>1, <2>1
<1>3. ASSUME NEW i \in 1 .. n, i - 1 \in G
      PROVE  i \in G
  <2>1. PICK j \in Nat : j = i - 1 /\ j + 1 = i /\ j \in G
    BY <1>3
  <2>2. PICK L \in Seq(Orders) : L = Line(d)
    BY LineType
  <2>3. i \in DOMAIN L /\ L[i] = down[d][i] /\ L[i] \in Orders
    BY <1>0, <2>2, LineType
  <2>4. PICK a \in Polls(KeygenIds, Tasks) : a = w[j]
    BY <2>1
  <2>5. PICK b : b = Process(a, L[i]) /\ b = w[i]
    BY <1>1, <2>1, <2>3, <2>4
  <2>6. b \in Polls(KeygenIds, Tasks)
    <3>1. Allows(KeygenIds, L[i])
      BY <2>3 DEF Allows, Orders
    <3> QED BY <2>3, <2>5, <3>1, ProcessType
  <2>7. CASE a.failed
    <3>1. b.failed
      BY <2>5, <2>7 DEF Process
    <3>2. \E x \in 1 .. j : down[d][x].id \in KeygenIds \ K
      BY <2>1, <2>4, <2>7
    <3>3. \E x \in 1 .. i : down[d][x].id \in KeygenIds \ K
      BY <2>1, <3>2
    <3> QED BY <2>5, <2>6, <3>1, <3>3
  <2>8. CASE ~a.failed /\ b.failed
    <3>1. L[i].id \in KeygenIds /\ L[i].type # "Begin" /\ a.phase[L[i].id] # Meets[L[i].type]
      BY <2>3, <2>5, <2>8, ProcessMeets
    <3>2. L[i].id \notin K
      <4> SUFFICES ASSUME L[i].id \in K PROVE FALSE
        OBVIOUS
      <4>1. Poised(L[i].id, d, j, a)
        BY <2>1, <2>4, <2>8
      <4>2. i \in Rest(L, j, L[i].id)
        BY <2>1, <2>3 DEF Rest
      <4> QED BY <2>2, <3>1, <4>1, <4>2 DEF Poised, Holds, Met
    <3> QED BY <2>3, <2>5, <2>6, <2>8, <3>1, <3>2
  <2>9. CASE ~a.failed /\ ~b.failed
    <3>1. ASSUME NEW k \in KeygenIds PROVE FreshAt(k, d, i, b)
      <4>1. FreshAt(k, d, j, a)
        BY <2>1, <2>4, <2>9
      <4>2. Muted(k, L, j, up[d], a.out, a.prompt) => Muted(k, L, i, up[d], b.out, b.prompt)
        BY <2>1, <2>3, <2>5, <2>9, ProcessMuted
      <4> QED BY <2>2, <4>1, <4>2 DEF FreshAt
    <3>2. ASSUME NEW k \in K PROVE Poised(k, d, i, b)
      <4>1. FreshAt(k, d, j, a) /\ Poised(k, d, j, a)
        BY <2>1, <2>4, <2>9
      <4>2. PICK e, un, sh, up1 : e = pending[k] /\ un = Unsent(k) /\ sh = shares[d] /\ up1 = up[d]
        OBVIOUS
      <4>3. e \in Entries /\ k \in KeygenIds
        BY <4>2, AppFacts
      <4>4. un => /\ e.state = "responses" /\ e.from = {}
                  /\ Muted(k, L, j, up1, a.out, a.prompt)
        BY <2>2, <4>1, <4>2 DEF FreshAt
      <4>50. PICK before \in BOOLEAN, after \in BOOLEAN :
               /\ before = (k \notin keys \/ k \in sh \cup a.saved)
               /\ after = (k \notin keys \/ k \in sh \cup b.saved)
        OBVIOUS
      <4>5. Holds(k, d, e, un, L, j, up1, a.out, a.prompt, a.phase[k], before)
        BY <2>2, <4>1, <4>2, <4>50 DEF Poised
      <4>6. Holds(k, d, e, un, L, j + 1, up1, b.out, b.prompt, b.phase[k], after)
        <5>1. b = Process(a, L[j + 1]) /\ j + 1 \in DOMAIN L
          BY <2>1, <2>3, <2>5
        <5>2. j \in Nat /\ ~a.failed /\ ~b.failed
          BY <2>1, <2>9
        <5> HIDE DEF G, Good
        <5> QED BY <4>3, <4>4, <4>50, <4>5, <5>1, <5>2, ProcessHolds
      <4> QED BY <2>1, <2>2, <4>2, <4>50, <4>6 DEF Poised
    <3> QED BY <2>5, <2>6, <2>9, <3>1, <3>2
  <2> QED BY <2>7, <2>8, <2>9
<1> HIDE DEF Good
<1>4. n \in G
  <2>1. n \in 0 .. n
    BY <1>0
  <2> HIDE DEF G
  <2>2. \A i \in 1 .. n : i - 1 \in G => i \in G
    BY <1>3
  <2> QED BY <1>0, <1>2, <2>1, <2>2, UpTo
<1> QED BY <1>1, <1>4 DEF Good

\* Its tasks are of key generations it has a message of, and what it tells of a
\* finalized key is saved.
LEMMA InboxTasks ==
  ASSUME KeyGenInvariant, NEW d \in Devices, NEW n \in 1 .. Len(down[d])
  PROVE  /\ \A o \in DOMAIN AfterInbox(d, n).out :
              /\ \E i \in 1 .. n : AfterInbox(d, n).out[o].id = down[d][i].id
              /\ AfterInbox(d, n).out[o].type = "FinalizeKeyGen" =>
                   AfterInbox(d, n).out[o].id \in AfterInbox(d, n).saved
         /\ AfterInbox(d, n).prompt \in {prompt[d], None}
<1>0. n \in Nat
  BY LineType
<1>1. PICK w : /\ w[0] = Working(d)
               /\ \A i \in 1 .. n : w[i] = Process(w[i - 1], down[d][i])
               /\ AfterInbox(d, n) = w[n]
  BY <1>0, AfterInboxUnfolds
<1> DEFINE Tells(v, i) == /\ \A o \in DOMAIN v.out :
                               /\ \E j \in 1 .. i : v.out[o].id = down[d][j].id
                               /\ v.out[o].type = "FinalizeKeyGen" => v.out[o].id \in v.saved
                          /\ v.prompt \in {prompt[d], None}
           G == {i \in 0 .. n : w[i] \in Polls(KeygenIds, Tasks) /\ Tells(w[i], i)}
<1>2. 0 \in G
  <2>1. Working(d) \in Polls(KeygenIds, Tasks) /\ Tells(Working(d), 0)
    <3>1. <<>> \in Seq(Tasks)
      OBVIOUS
    <3> QED BY <3>1, DeviceFacts DEF Working, Polls
  <2> HIDE DEF Tells
  <2> QED BY <1>1, <2>1
<1>3. ASSUME NEW i \in 1 .. n, i - 1 \in G
      PROVE  i \in G
  <2>1. PICK a \in Polls(KeygenIds, Tasks) : a = w[i - 1] /\ Tells(a, i - 1)
    BY <1>3
  <2>2. PICK m \in Orders : m = down[d][i]
    BY <1>0, DeviceFacts, LineType
  <2>3. PICK b : b = Process(a, m) /\ b = w[i]
    BY <1>1, <2>1, <2>2
  <2>4. b \in Polls(KeygenIds, Tasks)
    <3>1. Allows(KeygenIds, m)
      BY DEF Allows, Orders
    <3> QED BY <2>3, <3>1, ProcessType
  <2>5. \A o \in DOMAIN a.out : \E j \in 1 .. i : a.out[o].id = down[d][j].id
    <3>1. \A j \in 1 .. i - 1 : j \in 1 .. i
      BY <1>0
    <3> QED BY <2>1, <3>1
  <2>6. CASE b.prompt \in {a.prompt, None} /\ b.out = a.out /\ b.saved = a.saved
    BY <2>1, <2>3, <2>4, <2>5, <2>6
  <2>7. CASE \E o \in Tasks : /\ b.prompt = a.prompt /\ b.out = Append(a.out, o)
                              /\ o.id = m.id /\ a.saved \subseteq b.saved
                              /\ o.type = "FinalizeKeyGen" => m.id \in b.saved
    <3>1. PICK o \in Tasks : /\ b.prompt = a.prompt /\ b.out = Append(a.out, o)
                             /\ o.id = m.id /\ a.saved \subseteq b.saved
                             /\ o.type = "FinalizeKeyGen" => m.id \in b.saved
      BY <2>7
    <3>2. PICK O \in Seq(Tasks) : O = a.out
      BY DEF Polls
    <3>3. \A x \in DOMAIN b.out : (x \in DOMAIN O /\ b.out[x] = O[x]) \/ b.out[x] = o
      BY <3>1, <3>2
    <3>4. ASSUME NEW x \in DOMAIN b.out
          PROVE  /\ \E j \in 1 .. i : b.out[x].id = down[d][j].id
                 /\ b.out[x].type = "FinalizeKeyGen" => b.out[x].id \in b.saved
      <4>1. CASE b.out[x] = o
        <5>1. i \in 1 .. i
          BY <1>0
        <5> QED BY <2>2, <3>1, <4>1, <5>1
      <4>2. CASE x \in DOMAIN O /\ b.out[x] = O[x]
        BY <2>1, <2>5, <3>1, <3>2, <4>2
      <4> QED BY <3>3, <4>1, <4>2
    <3>5. Tells(b, i)
      BY <2>1, <3>1, <3>4
    <3> HIDE DEF Tells
    <3> QED BY <2>3, <2>4, <3>5
  <2>8. CASE b = a
    BY <2>6, <2>8
  <2>9. CASE ~a.failed
    <3>1. Works(a, m, b)
      BY <2>3, <2>9, ProcessCases
    <3>2. m.type \in {"Begin", "CertifyPlease", "Check", "Finalize", "Cancel", "Preview"}
      BY DEF Orders
    <3>3. \A type \in {"Response", "Certify", "CheckKeyGen", "FinalizeKeyGen"} :
            m.id \in KeygenIds => /\ Answer(type, m.id) \in Tasks
                                  /\ Answer(type, m.id).id = m.id /\ Answer(type, m.id).type = type
      BY DEF Answer, Tasks
    <3>4. m.type \notin {"Cancel", "Preview"} => m.id \in KeygenIds
      BY DEF Orders
    <3>5. CASE m.type \in {"CertifyPlease", "Check", "Finalize"} /\ b.failed
      <4>1. b.out = a.out /\ b.saved = a.saved /\ b.prompt = a.prompt
        BY <2>3, <2>9, <3>5 DEF Process, To, Polls
      <4> QED BY <2>6, <4>1
    <3>6. CASE m.type \in {"Cancel", "Preview"}
      BY <2>6, <3>1, <3>6 DEF Works
    <3>7. CASE m.type = "Begin"
      BY <2>7, <3>1, <3>3, <3>4, <3>7 DEF Works
    <3>8. CASE m.type \in {"CertifyPlease", "Check", "Finalize"} /\ ~b.failed
      BY <2>7, <3>1, <3>3, <3>4, <3>8 DEF Works
    <3> QED BY <3>2, <3>5, <3>6, <3>7, <3>8
  <2>10. CASE a.failed
    BY <2>3, <2>8, <2>10 DEF Process
  <2> QED BY <2>9, <2>10
<1>4. n \in G
  <2> HIDE DEF G
  <2> QED BY <1>0, <1>2, <1>3, UpTo
<1> QED BY <1>1, <1>4

\* What the outbox leaves of a poll's tasks.
Sends(w, v) ==
  /\ v.phase = w.phase
  /\ v.failed => \E i \in DOMAIN w.out : w.out[i].type = "FinalizeKeyGen"
  /\ \A j \in DOMAIN v.out : \E i \in DOMAIN w.out : v.out[j] = w.out[i]
  /\ \A k \in KeygenIds : (\A i, j \in At(w.out, k) : i = j) => \A i, j \in At(v.out, k) : i = j
  /\ \/ v.prompt \in {w.prompt, None}
     \/ \E i \in DOMAIN w.out : w.out[i].type = "CheckKeyGen" /\ w.out[i].id = v.prompt

\* The outbox of a poll sends answers to what it was told, or shows one of them.
LEMMA OutboxSends ==
  ASSUME NEW w \in Polls(KeygenIds, Tasks), ~w.failed
  PROVE  Sends(w, AfterOutbox(w)) /\ AfterOutbox(w) \in Polls(KeygenIds, Replies)
<1>0. PICK O \in Seq(Tasks) : O = w.out
  BY DEF Polls
<1>1. PICK v : /\ v[0] = [w EXCEPT !.out = <<>>]
               /\ \A i \in 1 .. Len(O) : v[i] = Emit(v[i - 1], O[i])
               /\ AfterOutbox(w) = v[Len(O)]
  <2>1. Len(w.out) \in Nat
    BY <1>0
  <2> QED BY <1>0, <2>1, AfterOutboxUnfolds
<1> DEFINE n == Len(O)
           Good(x, i) ==
             /\ x \in Polls(KeygenIds, Replies) /\ x.phase = w.phase
             /\ x.failed => \E j \in DOMAIN O : O[j].type = "FinalizeKeyGen"
             /\ \A j \in DOMAIN x.out : \E y \in 1 .. i : x.out[j] = O[y]
             /\ \A k \in KeygenIds : (\A a, b \in At(O, k) : a = b) => \A a, b \in At(x.out, k) : a = b
             /\ \/ x.prompt \in {w.prompt, None}
                \/ \E j \in DOMAIN O : O[j].type = "CheckKeyGen" /\ O[j].id = x.prompt
           G == {i \in 0 .. n : Good(v[i], i)}
<1>2. n \in Nat /\ DOMAIN O = 1 .. n
  BY <1>0
<1>3. 0 \in G
  <2> DEFINE x == [w EXCEPT !.out = <<>>]
  <2>1. x \in Polls(KeygenIds, Replies)
    <3>1. <<>> \in Seq(Replies)
      OBVIOUS
    <3> QED BY <3>1 DEF Polls
  <2>2. x.phase = w.phase /\ ~x.failed /\ x.out = <<>> /\ x.prompt = w.prompt
    BY DEF Polls
  <2>3. At(<<>>, 0) = {} /\ \A k : At(<<>>, k) = {}
    BY DEF At
  <2> HIDE DEF x
  <2>4. Good(x, 0)
    BY <2>1, <2>2, <2>3
  <2> HIDE DEF Good
  <2> QED BY <1>1, <1>2, <2>4 DEF x
<1>4. ASSUME NEW i \in 1 .. n, i - 1 \in G
      PROVE  i \in G
  <2>1. PICK x : x = v[i - 1] /\ Good(x, i - 1)
    BY <1>4
  <2>2. PICK o \in Tasks : o = O[i]
    BY <1>2
  <2>3. PICK y : y = Emit(x, o) /\ y = v[i]
    BY <1>1, <2>1, <2>2
  <2>4. y \in Polls(KeygenIds, Replies)
    BY <2>1, <2>3, EmitType
  <2>5. i \in DOMAIN O /\ i \in 0 .. n /\ \A j \in 1 .. i - 1 : j \in 1 .. i
    BY <1>2
  <2>6. \A j \in DOMAIN x.out : \E z \in 1 .. i : x.out[j] = O[z]
    BY <2>1, <2>5
  <2>7. CASE x.failed
    <3>1. y = x
      BY <2>3, <2>7 DEF Emit
    <3>2. Good(y, i)
      BY <2>1, <2>6, <3>1
    <3> HIDE DEF Good
    <3> QED BY <2>3, <2>5, <3>2
  <2>8. CASE ~x.failed /\ o.type = "CheckKeyGen"
    <3>1. y.phase = x.phase /\ ~y.failed /\ y.out = x.out /\ y.prompt = o.id
      BY <2>1, <2>3, <2>8 DEF Emit, Polls
    <3>2. Good(y, i)
      BY <2>1, <2>2, <2>4, <2>5, <2>6, <2>8, <3>1
    <3> HIDE DEF Good
    <3> QED BY <2>3, <2>5, <3>2
  <2>9. CASE ~x.failed /\ o.type = "FinalizeKeyGen"
    <3>1. y.phase = x.phase /\ y.out = x.out /\ y.prompt = None
      <4>1. y = [x EXCEPT !.failed = ~x.named, !.named = FALSE, !.prompt = None]
        BY <2>3, <2>9 DEF Emit
      <4> QED BY <2>1, <4>1 DEF Polls
    <3>2. Good(y, i)
      BY <2>1, <2>2, <2>4, <2>5, <2>6, <2>9, <3>1
    <3> HIDE DEF Good
    <3> QED BY <2>3, <2>5, <3>2
  <2>10. CASE ~x.failed /\ o.type \notin {"CheckKeyGen", "FinalizeKeyGen"}
    <3>0. PICK X \in Seq(Tasks) : X = x.out
      <4>1. x.out \in Seq(Replies)
        BY <2>1 DEF Polls
      <4>2. Replies \subseteq Tasks
        BY DEF Replies, Tasks
      <4>3. x.out \in Seq(Tasks)
        BY <4>1, <4>2
      <4> QED BY <4>3
    <3>1. y.phase = x.phase /\ ~y.failed /\ y.out = Append(X, o) /\ y.prompt = x.prompt
      BY <2>1, <2>3, <2>10, <3>0 DEF Emit, Polls
    <3>2. PICK Y : Y = Append(X, o)
      OBVIOUS
    <3>3. \A j \in DOMAIN Y : (j \in DOMAIN X /\ Y[j] = X[j]) \/ Y[j] = o
      BY <3>2
    <3>4. i \in 1 .. i
      BY <1>2
    <3>5. \A j \in DOMAIN Y : \E z \in 1 .. i : Y[j] = O[z]
      BY <2>2, <2>6, <3>0, <3>3, <3>4
    <3>6. ASSUME NEW k \in KeygenIds, \A a, b \in At(O, k) : a = b
          PROVE  \A a, b \in At(Y, k) : a = b
      <4>1. \A a, b \in At(X, k) : a = b
        BY <2>1, <3>0, <3>6
      <4>2. CASE o.id # k
        <5>1. At(Y, k) = At(X, k)
          BY <3>2, <4>2, AtAppend
        <5> QED BY <4>1, <5>1
      <4>3. CASE o.id = k
        <5>1. At(X, k) = {}
          <6> SUFFICES ASSUME NEW j \in At(X, k) PROVE FALSE
            OBVIOUS
          <6>1. PICK z \in 1 .. i - 1 : X[j] = O[z]
            BY <2>1, <3>0 DEF At
          <6>2. z \in At(O, k) /\ i \in At(O, k)
            BY <1>2, <2>2, <2>5, <4>3, <6>1 DEF At
          <6>3. z # i
            BY <1>2
          <6> QED BY <3>6, <6>2, <6>3
        <5>2. At(Y, k) = {Len(X) + 1}
          BY <3>2, <4>3, <5>1, AtAppend
        <5> QED BY <5>2
      <4> QED BY <4>2, <4>3
    <3>7. Good(y, i)
      BY <2>1, <2>4, <3>1, <3>2, <3>5, <3>6
    <3> HIDE DEF Good
    <3> QED BY <2>3, <2>5, <3>7
  <2> QED BY <2>7, <2>8, <2>9, <2>10
<1>5. n \in G
  <2>1. n \in 0 .. n
    BY <1>2
  <2> HIDE DEF G, n
  <2> QED BY <1>2, <1>3, <1>4, <2>1, UpTo
<1>6. PICK x : x = AfterOutbox(w) /\ Good(x, n)
  BY <1>1, <1>5
<1>7. Sends(w, x)
  BY <1>0, <1>2, <1>6 DEF Sends
<1> QED BY <1>6, <1>7

\* What is put into the link behind what is there.
LEMMA AtJoin ==
  ASSUME NEW U \in Seq(Answers), NEW V \in Seq(Answers), NEW k
  PROVE  /\ \A x \in At(U \o V, k) : \/ x \in At(U, k) /\ (U \o V)[x] = U[x]
                                     \/ /\ x - Len(U) \in At(V, k)
                                        /\ (U \o V)[x] = V[x - Len(U)]
         /\ At(U, k) = {} /\ At(V, k) = {} => At(U \o V, k) = {}
<1>1. PICK W : W = U \o V
  OBVIOUS
<1>2. /\ Len(W) = Len(U) + Len(V) /\ DOMAIN W = 1 .. Len(U) + Len(V)
      /\ Len(U) \in Nat /\ Len(V) \in Nat
      /\ DOMAIN U = 1 .. Len(U) /\ DOMAIN V = 1 .. Len(V)
      /\ \A i \in 1 .. Len(U) + Len(V) : W[i] = IF i <= Len(U) THEN U[i] ELSE V[i - Len(U)]
  BY <1>1
<1>3. ASSUME NEW x \in At(W, k)
      PROVE  (x \in At(U, k) /\ W[x] = U[x]) \/ (x - Len(U) \in At(V, k) /\ W[x] = V[x - Len(U)])
  <2>1. x \in 1 .. Len(U) + Len(V) /\ W[x].id = k
    BY <1>2 DEF At
  <2>2. CASE x <= Len(U)
    BY <1>2, <2>1, <2>2 DEF At
  <2>3. CASE ~ (x <= Len(U))
    <3>1. x - Len(U) \in DOMAIN V /\ W[x] = V[x - Len(U)]
      BY <1>2, <2>1, <2>3
    <3> QED BY <2>1, <3>1 DEF At
  <2> QED BY <2>2, <2>3
<1> QED BY <1>1, <1>3

\* What holds of a poll holds of the device when its outbox is worked off.
LEMMA OutboxHolds ==
  ASSUME NEW k \in KeygenIds, NEW d, NEW e \in Entries, NEW unsent, NEW L \in Seq(Orders),
         NEW n \in Nat,
         NEW U \in Seq(Answers), NEW safe,
         NEW w \in Polls(KeygenIds, Tasks), NEW v \in Polls(KeygenIds, Replies), Sends(w, v),
         Holds(k, d, e, unsent, L, n, U, w.out, w.prompt, w.phase[k], safe)
  PROVE  Holds(k, d, e, unsent, L, n, U \o v.out, <<>>, v.prompt, v.phase[k], safe)
<1>1. PICK V \in Seq(Answers) : V = v.out /\ \A i \in DOMAIN V : V[i].type # "CheckKeyGen"
  <2>1. v.out \in Seq(Replies)
    BY DEF Polls
  <2>2. Replies \subseteq Answers
    BY DEF Replies, Answers
  <2>3. \A i \in DOMAIN v.out : v.out[i].type # "CheckKeyGen"
    <3>1. \A i \in DOMAIN v.out : v.out[i] \in Replies
      BY <2>1
    <3> QED BY <3>1 DEF Replies
  <2>4. v.out \in Seq(Answers)
    BY <2>1, <2>2
  <2> QED BY <2>3, <2>4
<1>2. PICK O : O = w.out
  OBVIOUS
<1>3. PICK W : W = U \o V
  OBVIOUS
<1>4. /\ \A x \in At(W, k) : \/ x \in At(U, k) /\ W[x] = U[x]
                             \/ x - Len(U) \in At(V, k) /\ W[x] = V[x - Len(U)]
      /\ At(U, k) = {} /\ At(V, k) = {} => At(W, k) = {}
      /\ Len(U) \in Nat
      /\ \A x \in At(W, k) : x \in Nat
  <2>1. Len(U) \in Nat /\ W \in Seq(Answers)
    BY <1>3
  <2>2. \A x \in At(W, k) : x \in Nat
    BY <2>1 DEF At
  <2> QED BY ZenonT(40), <1>3, <2>1, <2>2, AtJoin
<1>5. \A j \in At(V, k) : \E i \in At(O, k) : V[j] = O[i]
  BY <1>1, <1>2 DEF At, Sends
<1>6. Lone(k, L, n, U, O, w.prompt) /\ Agrees(k, d, e, unsent, L, n, U, O, w.prompt, w.phase[k])
  BY <1>2 DEF Holds
<1>7. \A i, j \in At(V, k) : i = j
  BY <1>1, <1>2, <1>6 DEF Lone, Sends
<1>8. At(V, k) # {} => At(U, k) = {} /\ Rest(L, n, k) = {} /\ w.prompt # k
  BY <1>5, <1>6 DEF Lone
<1>9. v.prompt = k => \/ w.prompt = k
                      \/ \E i \in At(O, k) : O[i].type = "CheckKeyGen"
  BY <1>2, KeyGenAssumption DEF Sends, At
<1>10. v.prompt = k => At(U, k) = {} /\ Rest(L, n, k) = {}
  BY <1>6, <1>9 DEF Lone
<1>11. v.prompt = k => At(V, k) = {}
  <2> SUFFICES ASSUME v.prompt = k, NEW j \in At(V, k) PROVE FALSE
    OBVIOUS
  <2>1. PICK i \in At(O, k) : V[j] = O[i]
    BY <1>5
  <2>2. O[i].type # "CheckKeyGen"
    BY <1>1, <2>1 DEF At
  <2>3. w.prompt # k
    BY <2>1, <1>6 DEF Lone
  <2>4. PICK x \in At(O, k) : O[x].type = "CheckKeyGen"
    BY <1>9, <2>3
  <2>5. x = i
    BY <1>6 DEF Lone
  <2> QED BY <2>2, <2>4, <2>5
<1>12. At(<<>>, k) = {}
  BY DEF At
<1>13. Lone(k, L, n, W, <<>>, v.prompt)
  <2>1. \A x, y \in At(W, k) : x = y
    <3> SUFFICES ASSUME NEW x \in At(W, k), NEW y \in At(W, k) PROVE x = y
      OBVIOUS
    <3>1. CASE At(V, k) = {}
      BY <1>4, <1>6, <3>1 DEF Lone
    <3>2. CASE At(V, k) # {}
      <4>1. x - Len(U) \in At(V, k) /\ y - Len(U) \in At(V, k)
        BY <1>4, <1>8, <3>2
      <4>2. x - Len(U) = y - Len(U)
        BY <1>7, <4>1
      <4> QED BY <1>4, <4>2
    <3> QED BY <3>1, <3>2
  <2>2. At(W, k) # {} => At(U, k) # {} \/ At(V, k) # {}
    BY <1>4
  <2>3. Rest(L, n, k) # {} => At(U, k) = {} /\ At(V, k) = {} /\ v.prompt # k
    BY <1>6, <1>8, <1>10 DEF Lone
  <2>4. At(W, k) # {} => v.prompt # k
    BY <2>2, <1>10, <1>11
  <2> QED BY <1>6, <1>12, <2>1, <2>2, <2>3, <2>4 DEF Lone
<1>14. v.phase[k] = w.phase[k]
  BY DEF Sends
<1>15. Agrees(k, d, e, unsent, L, n, W, <<>>, v.prompt, v.phase[k])
  <2> SUFFICES ASSUME e.state # "none"
               PROVE  Agrees(k, d, e, unsent, L, n, W, <<>>, v.prompt, v.phase[k])
    BY DEF Agrees
  <2>1. \A i \in At(U, k) : /\ d \notin e.from /\ U[i].type \in Stage[e.state]
                            /\ w.phase[k] = Leaves[U[i].type]
    BY <1>6 DEF Agrees
  <2>2. \A i \in At(V, k) : /\ d \notin e.from /\ V[i].type \in Stage[e.state]
                            /\ w.phase[k] = Leaves[V[i].type]
    <3> SUFFICES ASSUME NEW i \in At(V, k)
                 PROVE  /\ d \notin e.from /\ V[i].type \in Stage[e.state]
                        /\ w.phase[k] = Leaves[V[i].type]
      OBVIOUS
    <3>1. PICK j \in At(O, k) : V[i] = O[j]
      BY <1>5
    <3>2. V[i].type # "CheckKeyGen"
      BY <1>1 DEF At
    <3> QED BY <1>6, <3>1, <3>2 DEF Agrees
  <2>3. \A i \in At(W, k) : /\ d \notin e.from /\ W[i].type \in Stage[e.state]
                            /\ w.phase[k] = Leaves[W[i].type]
    BY <1>4, <2>1, <2>2
  <2>4. v.prompt = k => d \notin e.from /\ e.state = "acks"
    <3>1. CASE w.prompt = k
      BY <1>6, <3>1 DEF Agrees
    <3>2. ASSUME NEW i \in At(O, k), O[i].type = "CheckKeyGen"
          PROVE  d \notin e.from /\ e.state = "acks"
      <4>1. d \notin e.from /\ "CheckKeyGen" \in Stage[e.state]
        BY <1>6, <3>2 DEF Agrees
      <4>2. e.state \in {"none", "responses", "certificates", "acks", "finalize"}
        BY DEF Entries
      <4> QED BY <4>1, <4>2 DEF Stage
    <3> QED BY <1>9, <3>1, <3>2
  <2> QED BY <1>6, <1>12, <1>14, <2>3, <2>4 DEF Agrees
<1>16. Met(k, L, n, v.phase[k]) /\ Kept(k, L, n, safe)
  BY <1>14 DEF Holds
<1> QED BY <1>1, <1>3, <1>13, <1>15, <1>16 DEF Holds

\* M is what L holds behind its first n messages.
Dropped(L, n, M) == M = SubSeq(L, n + 1, Len(L))

\* What is read is gone.
LEMMA DropRest ==
  ASSUME NEW k, NEW L \in Seq(Orders), NEW n \in Nat, n <= Len(L),
         NEW M, Dropped(L, n, M)
  PROVE  /\ \A i \in Rest(M, 0, k) : i + n \in Rest(L, n, k) /\ M[i] = L[i + n] /\ i \in Nat
         /\ \A i \in Rest(L, n, k) : i - n \in Rest(M, 0, k) /\ M[i - n] = L[i] /\ i \in Nat
         /\ \A i \in DOMAIN M : i + n \in DOMAIN L /\ i + n > n /\ i > 0 /\ M[i] = L[i + n] /\ i \in Nat
         /\ (Rest(L, n, k) = {}) <=> (Rest(M, 0, k) = {})
<1>0. PICK l \in Nat : l = Len(L) /\ n <= l
  OBVIOUS
<1>1. /\ DOMAIN L = 1 .. l /\ DOMAIN M = 1 .. l - n
      /\ \A i \in 1 .. l - n : M[i] = L[i + n]
  BY <1>0 DEF Dropped
<1>2. /\ \A i \in Rest(M, 0, k) : i + n \in Rest(L, n, k) /\ M[i] = L[i + n] /\ i \in Nat
      /\ \A i \in Rest(L, n, k) : i - n \in Rest(M, 0, k) /\ M[i - n] = L[i] /\ i \in Nat
      /\ \A i \in DOMAIN M : i + n \in DOMAIN L /\ i + n > n /\ i > 0 /\ M[i] = L[i + n] /\ i \in Nat
  <2>1. \A i \in DOMAIN M : i + n \in DOMAIN L /\ i + n > n /\ i > 0 /\ M[i] = L[i + n] /\ i \in Nat
    <3>1. \A i \in 1 .. l - n : i + n \in 1 .. l /\ i + n > n /\ i > 0 /\ i \in Nat
      BY <1>0
    <3> QED BY <1>1, <3>1
  <2>2. \A i \in DOMAIN L : i > n => i - n \in DOMAIN M /\ i - n > 0 /\ (i - n) + n = i /\ i \in Nat
    <3>1. \A i \in 1 .. l : i > n => i - n \in 1 .. l - n /\ i - n > 0 /\ (i - n) + n = i /\ i \in Nat
      BY <1>0
    <3> QED BY <1>1, <3>1
  <2> QED BY <2>1, <2>2 DEF Rest
<1>3. Rest(L, n, k) = {} <=> Rest(M, 0, k) = {}
  BY <1>2
<1> QED BY <1>2, <1>3

\* Nothing is under way of what nothing was under way of.
LEMMA DropMuted ==
  ASSUME NEW k, NEW L \in Seq(Orders), NEW n \in Nat, n <= Len(L), NEW U, NEW O, NEW p,
         NEW M, Dropped(L, n, M), Muted(k, L, n, U, O, p)
  PROVE  Muted(k, M, 0, U, O, p)
<1>1. \A x \in Rest(M, 0, k) : x + n \in Rest(L, n, k)
  BY DropRest
<1> QED BY <1>1 DEF Muted

\* What holds after n messages holds when they have left the line.
LEMMA DropHolds ==
  ASSUME NEW k \in KeygenIds, NEW d, NEW e, NEW unsent, NEW L \in Seq(Orders), NEW n \in Nat,
         n <= Len(L),
         NEW U, NEW O, NEW p, NEW ph, NEW safe,
         NEW M, Dropped(L, n, M),
         Holds(k, d, e, unsent, L, n, U, O, p, ph, safe)
  PROVE  Holds(k, d, e, unsent, M, 0, U, O, p, ph, safe)
<1>2. /\ \A i \in Rest(M, 0, k) : i + n \in Rest(L, n, k) /\ M[i] = L[i + n] /\ i \in Nat
      /\ \A i \in Rest(L, n, k) : i - n \in Rest(M, 0, k) /\ M[i - n] = L[i] /\ i \in Nat
      /\ \A i \in DOMAIN M : i + n \in DOMAIN L /\ i + n > n /\ i > 0 /\ M[i] = L[i + n] /\ i \in Nat
      /\ Rest(L, n, k) = {} <=> Rest(M, 0, k) = {}
  BY DropRest
<1>5. Holds(k, d, e, unsent, M, 0, U, O, p, ph, safe)
  <2>1. Lone(k, M, 0, U, O, p)
    <3>1. \A i, j \in Rest(M, 0, k) : i = j
      <4> SUFFICES ASSUME NEW i \in Rest(M, 0, k), NEW j \in Rest(M, 0, k) PROVE i = j
        OBVIOUS
      <4>1. i + n = j + n
        BY <1>2 DEF Holds, Lone
      <4> QED BY <1>2, <4>1
    <3> QED BY <1>2, <3>1 DEF Holds, Lone
  <2>2. Met(k, M, 0, ph)
    <3> SUFFICES ASSUME NEW i \in Rest(M, 0, k), M[i].type # "Begin"
                 PROVE  /\ ph = Meets[M[i].type]
                        /\ \A j \in DOMAIN M : j > 0 /\ j < i => M[j].type # "Cancel"
      BY DEF Met
    <3>1. /\ ph = Meets[M[i].type]
          /\ \A j \in DOMAIN L : j > n /\ j < i + n => L[j].type # "Cancel"
      BY SMTT(30), <1>2 DEF Holds, Met
    <3>2. \A j \in DOMAIN M : j < i => j + n < i + n
      BY <1>2
    <3> QED BY SMTT(30), <1>2, <3>1, <3>2
  <2>3. Agrees(k, d, e, unsent, M, 0, U, O, p, ph)
    <3> SUFFICES ASSUME e.state # "none"
                 PROVE  Agrees(k, d, e, unsent, M, 0, U, O, p, ph)
      BY DEF Agrees
    <3>0. Agrees(k, d, e, unsent, L, n, U, O, p, ph)
      BY DEF Holds
    <3>1. \A i \in Rest(M, 0, k) : d \notin e.from /\ M[i].type \in Stage[e.state]
      BY <1>2, <3>0 DEF Agrees
    <3>2. ASSUME NEW i \in DOMAIN M, M[i].type = "Cancel", ~unsent
          PROVE  \E j \in Rest(M, 0, k) : j > i /\ M[j].type = "Begin"
      <4>1. PICK j \in Rest(L, n, k) : j > i + n /\ L[j].type = "Begin"
        BY <1>2, <3>0, <3>2 DEF Agrees
      <4>2. j - n > i
        BY <1>2, <4>1
      <4> QED BY SMTT(30), <1>2, <4>1, <4>2
    <3> QED BY <3>0, <3>1, <3>2 DEF Agrees
  <2>4. Kept(k, M, 0, safe)
    BY <1>2 DEF Holds, Kept
  <2> QED BY <2>1, <2>2, <2>3, <2>4 DEF Holds
<1> QED BY <1>5

----------------------------------------------------------------------------
(* What is sent behind the rest *)

\* M is L with messages behind it that are about no key generation; none of them
\* is a Cancel when it has to be calm.
Extends(L, M, calm) ==
  /\ M \in Seq(Orders) /\ Len(L) <= Len(M)
  /\ \A i \in DOMAIN L : M[i] = L[i]
  /\ \A i \in DOMAIN M : i > Len(L) => M[i].id = None /\ (calm => M[i].type # "Cancel")

\* The line itself is one.
LEMMA ExtendsSelf ==
  ASSUME NEW L \in Seq(Orders), NEW calm
  PROVE  Extends(L, L, calm)
BY DEF Extends

\* So is the line with one more such message.
LEMMA ExtendsMore ==
  ASSUME NEW L \in Seq(Orders), NEW M, NEW calm, Extends(L, M, calm), NEW m \in Orders, m.id = None,
         calm => m.type # "Cancel"
  PROVE  Extends(L, Append(M, m), calm)
<1>1. PICK N : N = Append(M, m)
  OBVIOUS
<1>2. M \in Seq(Orders) /\ Len(L) \in Nat /\ Len(M) \in Nat /\ Len(L) <= Len(M)
  BY DEF Extends
<1>3. /\ N \in Seq(Orders) /\ Len(N) = Len(M) + 1 /\ N[Len(M) + 1] = m
      /\ DOMAIN N = 1 .. Len(M) + 1
      /\ \A i \in 1 .. Len(M) : N[i] = M[i]
  BY <1>1, <1>2
<1>4. DOMAIN L = 1 .. Len(L) /\ DOMAIN M = 1 .. Len(M) /\ \A i \in 1 .. Len(L) : i \in 1 .. Len(M)
  BY <1>2
<1>5. \A i \in 1 .. Len(M) + 1 : i \in 1 .. Len(M) \/ i = Len(M) + 1
  BY <1>2
<1>6. Len(L) <= Len(N)
  BY <1>2, <1>3
<1> QED BY <1>1, <1>3, <1>4, <1>5, <1>6 DEF Extends

\* A line grows when a message about no key generation is sent.
LEMMA LineExtends ==
  ASSUME NEW L \in Seq(Orders), NEW D \in Seq(Orders), NEW d, NEW q \in Seq(Orders), NEW calm,
         Extends(L, D \o Sent(d, q), calm),
         NEW m \in Orders, m.id = None, calm => ~ (m.type = "Cancel" /\ d \in m.to)
  PROVE  Extends(L, D \o Sent(d, Append(q, m)), calm)
<1>1. PICK s \in Seq(Orders) : s = Sent(d, q)
  BY SentType
<1>2. CASE d \in m.to
  <2>1. Sent(d, Append(q, m)) = Append(s, m)
    BY <1>1, <1>2, SentAppend
  <2>2. D \o Append(s, m) = Append(D \o s, m)
    OBVIOUS
  <2>3. Extends(L, Append(D \o s, m), calm)
    BY <1>1, <1>2, ExtendsMore
  <2> QED BY <2>1, <2>2, <2>3
<1>3. CASE d \notin m.to
  BY <1>1, <1>3, SentAppend
<1> QED BY <1>2, <1>3

\* What holds of d and k is kept when its line grows so, or when k is given up.
LEMMA HoldsExtends ==
  ASSUME NEW k \in KeygenIds, NEW d, NEW e \in Entries, NEW unsent, NEW L \in Seq(Orders),
         NEW U, NEW O, NEW p, NEW ph, NEW safe,
         Holds(k, d, e, unsent, L, 0, U, O, p, ph, safe),
         NEW f, NEW later, (f = e /\ later = unsent) \/ f.state = "none",
         NEW M, Extends(L, M, f.state # "none")
  PROVE  Holds(k, d, f, later, M, 0, U, O, p, ph, safe)
<1>1. /\ M \in Seq(Orders) /\ Len(L) \in Nat /\ Len(M) \in Nat /\ Len(L) <= Len(M)
      /\ DOMAIN L = 1 .. Len(L) /\ DOMAIN M = 1 .. Len(M)
      /\ \A i \in DOMAIN L : i \in DOMAIN M /\ M[i] = L[i]
      /\ \A i \in DOMAIN M : i \in DOMAIN L \/ (i > Len(L) /\ M[i].id = None)
  BY DEF Extends
<1>2. None # k
  BY KeyGenAssumption
<1>3. /\ Rest(M, 0, k) = Rest(L, 0, k)
      /\ \A i \in Rest(L, 0, k) : i \in DOMAIN L /\ M[i] = L[i]
  BY <1>1, <1>2 DEF Rest
<1>4. Lone(k, M, 0, U, O, p)
  BY <1>3 DEF Lone, Holds
<1>5. Met(k, M, 0, ph)
  <2> SUFFICES ASSUME NEW i \in Rest(L, 0, k), M[i].type # "Begin"
               PROVE  /\ ph = Meets[M[i].type]
                      /\ \A j \in DOMAIN M : j > 0 /\ j < i => M[j].type # "Cancel"
    BY <1>3 DEF Met
  <2>1. /\ ph = Meets[L[i].type]
        /\ \A j \in DOMAIN L : j > 0 /\ j < i => L[j].type # "Cancel"
    BY <1>3 DEF Holds, Met
  <2>2. \A j \in DOMAIN M : j < i => j \in DOMAIN L
    BY <1>1, <1>3
  <2> QED BY <1>1, <1>3, <2>1, <2>2
<1>6. Agrees(k, d, f, later, M, 0, U, O, p, ph)
  <2> SUFFICES ASSUME f.state # "none"
               PROVE  Agrees(k, d, f, later, M, 0, U, O, p, ph)
    BY DEF Agrees
  <2>0. Agrees(k, d, e, unsent, L, 0, U, O, p, ph) /\ f = e /\ later = unsent
    BY DEF Holds
  <2>1. \A i \in Rest(M, 0, k) : d \notin e.from /\ M[i].type \in Stage[e.state]
    BY <1>3, <2>0 DEF Agrees
  <2>2. \A i \in DOMAIN M : i > 0 /\ M[i].type = "Cancel" =>
          unsent \/ \E j \in Rest(M, 0, k) : j > i /\ M[j].type = "Begin"
    <3> SUFFICES ASSUME NEW i \in DOMAIN M, i > 0, M[i].type = "Cancel", ~unsent
                 PROVE  \E j \in Rest(M, 0, k) : j > i /\ M[j].type = "Begin"
      OBVIOUS
    <3>1. i \in DOMAIN L
      BY <1>1 DEF Extends
    <3>2. PICK j \in Rest(L, 0, k) : j > i /\ L[j].type = "Begin"
      BY <1>1, <2>0, <3>1 DEF Agrees
    <3> QED BY <1>3, <3>2
  <2> QED BY <2>0, <2>1, <2>2 DEF Agrees
<1>7. Kept(k, M, 0, safe)
  BY <1>3 DEF Kept, Holds
<1> QED BY <1>4, <1>5, <1>6, <1>7 DEF Holds

\* Nothing is under way after that either, when nothing was before.
LEMMA MutedExtends ==
  ASSUME NEW k \in KeygenIds, NEW L \in Seq(Orders), NEW U, NEW O, NEW p,
         Muted(k, L, 0, U, O, p), NEW M, NEW calm, Extends(L, M, calm)
  PROVE  Muted(k, M, 0, U, O, p)
<1>1. \A i \in DOMAIN M : i \in DOMAIN L \/ M[i].id = None
  BY DEF Extends
<1>2. None # k
  BY KeyGenAssumption
<1>3. Rest(M, 0, k) = Rest(L, 0, k)
  BY <1>1, <1>2 DEF Rest, Extends, Muted
<1> QED BY <1>3 DEF Muted

----------------------------------------------------------------------------
(* Orders meet the devices: the inductive invariant *)

AllHold ==
  \A k \in KeygenIds \ broken : \A d \in members[k] :
    /\ panicked[d] = "no" =>
         Holds(k, d, pending[k], Unsent(k), Line(d), 0, up[d], <<>>, prompt[d], phase[d][k],
               k \notin keys \/ k \in shares[d])
    /\ panicked[d] = "name" => (k \in keys => k \in shares[d])

\* Nothing is under way of a key generation that did not begin on the devices.
Fresh ==
  \A k \in KeygenIds : Unsent(k) =>
    /\ pending[k].state = "responses" /\ pending[k].from = {}
    /\ \A d \in Devices : Muted(k, Line(d), 0, up[d], <<>>, prompt[d])

\* What is pending is on the stack, and its devices keep their names.
Active ==
  \A k \in KeygenIds \ broken : pending[k].state # "none" =>
    /\ ui # None /\ ui.id = k /\ k \notin keys
    /\ members[k] \subseteq form

OnStack ==
  ui # None =>
    /\ ui.finished => ui.id \in keys
    /\ ui.aborted /\ ~ui.finished => ui.id \in broken
    /\ \A j \in keys : j # ui.id => members[j] \cap members[ui.id] = {}

Apart == \A j, k \in keys : j # k => members[j] \cap members[k] = {}

Attached == \A k \in KeygenIds \ broken : members[k] \subseteq seen

\* A device only has to do with key generations it is a member of.
Known ==
  \A d \in Devices :
    /\ \A i \in DOMAIN Line(d) : Line(d)[i].id # None => d \in members[Line(d)[i].id]
    /\ \A i \in DOMAIN up[d] : d \in members[up[d][i].id]
    /\ prompt[d] # None => d \in members[prompt[d]]

Panics ==
  /\ panicked \in [Devices -> {"no", "message", "name"}]
  /\ \A d \in Devices :
       /\ panicked[d] = "name" => \E k \in keys : d \in members[k]
       /\ panicked[d] = "message" => \E k \in broken : d \in members[k]

OrderInvariant ==
  /\ KeyGenInvariant
  /\ broken \subseteq KeygenIds
  /\ AllHold /\ Fresh /\ Active /\ OnStack /\ Apart /\ Attached /\ Known /\ Panics

----------------------------------------------------------------------------
(* The app's calls *)

\* The facts about one device and one key generation.
LEMMA PairFacts ==
  ASSUME OrderInvariant, NEW k \in KeygenIds \ broken, NEW d \in members[k]
  PROVE  /\ d \in Devices /\ d \in seen
         /\ pending[k] \in Entries
         /\ Line(d) \in Seq(Orders) /\ up[d] \in Seq(Answers)
         /\ panicked[d] = "no" =>
              Holds(k, d, pending[k], Unsent(k), Line(d), 0, up[d], <<>>, prompt[d], phase[d][k],
                    k \notin keys \/ k \in shares[d])
         /\ panicked[d] = "name" => (k \in keys => k \in shares[d])
<1>1. KeyGenInvariant /\ AllHold /\ Attached
  BY DEF OrderInvariant
<1>2. members[k] \subseteq Devices /\ pending[k] \in Entries
  BY <1>1, AppFacts
<1>3. up[d] \in Seq(Answers) /\ Line(d) \in Seq(Orders)
  BY <1>1, <1>2, DeviceFacts, LineType
<1> QED BY <1>1, <1>2, <1>3 DEF AllHold, Attached

\* Nothing is under way yet of a key generation that waits to be sent, so it does
\* not matter what is sent before it.
LEMMA UnsentHolds ==
  ASSUME NEW k \in KeygenIds, NEW d, NEW e, NEW L \in Seq(Orders),
         NEW U, NEW p, NEW ph, NEW M, NEW calm, Extends(L, M, calm),
         e.state = "responses", e.from = {}, Muted(k, L, 0, U, <<>>, p),
         NEW unsent, unsent, NEW safe, safe
  PROVE  Holds(k, d, e, unsent, M, 0, U, <<>>, p, ph, safe)
<1>1. Muted(k, M, 0, U, <<>>, p)
  BY MutedExtends
<1>2. Lone(k, M, 0, U, <<>>, p) /\ Met(k, M, 0, ph)
  BY <1>1 DEF Muted, Lone, Met
<1>3. Agrees(k, d, e, unsent, M, 0, U, <<>>, p, ph)
  BY <1>1 DEF Muted, Agrees
<1> QED BY <1>2, <1>3 DEF Holds, Kept

\* What the app may do between the iterations of its loop: give up key
\* generations, change the page, and send what is about no key generation, with a
\* Cancel only for a device that no pending one is of, unless it breaks that one or
\* its Begin is not sent yet.
LEMMA AppKeeps ==
  ASSUME OrderInvariant, KeyGenInvariant',
         UNCHANGED <<members, keys, seen, down, up, phase, prompt, shares, panicked>>,
         broken \subseteq broken', broken' \subseteq KeygenIds,
         \A k \in KeygenIds : pending'[k] = pending[k] \/ pending'[k] = NoKeygen,
         \A k \in KeygenIds : Unsent(k)' => Unsent(k) /\ pending'[k] = pending[k],
         \A k \in KeygenIds \ broken' : pending'[k].state # "none" =>
           ui' = ui /\ members[k] \subseteq form',
         OnStack',
         \A d \in Devices : Extends(Line(d), Line(d)', FALSE),
         \A k \in KeygenIds \ broken' : \A d \in members[k] :
           pending'[k].state # "none" => Unsent(k)' \/ Extends(Line(d), Line(d)', TRUE)
  PROVE  OrderInvariant'
<1>0. NoKeygen.state = "none"
  BY DEF NoKeygen
<1>1. AllHold'
  <2> SUFFICES ASSUME NEW k \in KeygenIds \ broken', NEW d \in members[k]
               PROVE  /\ panicked[d] = "no" =>
                           Holds(k, d, pending'[k], Unsent(k)', Line(d)', 0, up[d], <<>>, prompt[d],
                                 phase[d][k], k \notin keys \/ k \in shares[d])
                      /\ panicked[d] = "name" => (k \in keys => k \in shares[d])
    BY DEF AllHold
  <2>0. k \in KeygenIds \ broken
    OBVIOUS
  <2>1. ASSUME panicked[d] = "no"
        PROVE  Holds(k, d, pending'[k], Unsent(k)', Line(d)', 0, up[d], <<>>, prompt[d],
                     phase[d][k], k \notin keys \/ k \in shares[d])
    <3>0. CASE pending'[k].state # "none" /\ Unsent(k)'
      <4>1. /\ Unsent(k) /\ pending'[k] = pending[k]
            /\ pending[k].state = "responses" /\ pending[k].from = {}
            /\ Muted(k, Line(d), 0, up[d], <<>>, prompt[d])
        BY <2>0, <3>0, PairFacts DEF OrderInvariant, Fresh
      <4>2. k \notin keys
        BY <2>0, <4>1 DEF OrderInvariant, Active
      <4>3. Extends(Line(d), Line(d)', FALSE) /\ Line(d) \in Seq(Orders)
        BY <2>0, PairFacts
      <4> QED BY <3>0, <4>1, <4>2, <4>3, UnsentHolds
    <3>4. CASE ~ (pending'[k].state # "none" /\ Unsent(k)')
      <4>1. Extends(Line(d), Line(d)', pending'[k].state # "none")
        <5>1. CASE pending'[k].state # "none"
          <6>1. (pending'[k].state # "none") = TRUE
            BY <5>1
          <6> QED BY <3>4, <5>1, <6>1
        <5>2. CASE ~ (pending'[k].state # "none")
          <6>1. (pending'[k].state # "none") = FALSE
            BY <5>2
          <6> QED BY <2>0, <6>1, PairFacts
        <5> QED BY <5>1, <5>2
      <4>2. (pending'[k] = pending[k] /\ Unsent(k)' = Unsent(k)) \/ pending'[k].state = "none"
        <5>1. CASE pending'[k].state # "none"
          <6>1. ui' = ui
            BY <5>1
          <6> QED BY <1>0, <5>1, <6>1 DEF Unsent
        <5> QED BY <5>1
      <4>3. Holds(k, d, pending[k], Unsent(k), Line(d), 0, up[d], <<>>, prompt[d], phase[d][k],
                  k \notin keys \/ k \in shares[d])
        BY <2>0, <2>1, PairFacts
      <4> QED BY <2>0, <4>1, <4>2, <4>3, PairFacts, HoldsExtends
    <3> QED BY <3>0, <3>4
  <2> QED BY <2>0, <2>1, PairFacts
<1>2. Fresh'
  <2> SUFFICES ASSUME NEW k \in KeygenIds, Unsent(k)'
               PROVE  /\ pending'[k].state = "responses" /\ pending'[k].from = {}
                      /\ \A d \in Devices : Muted(k, Line(d)', 0, up[d], <<>>, prompt[d])
    BY DEF Fresh, Muted
  <2>1. /\ pending'[k].state = "responses" /\ pending'[k].from = {}
        /\ \A d \in Devices : Muted(k, Line(d), 0, up[d], <<>>, prompt[d])
    BY DEF OrderInvariant, Fresh
  <2>2. ASSUME NEW d \in Devices PROVE Muted(k, Line(d)', 0, up[d], <<>>, prompt[d])
    <3>1. Line(d) \in Seq(Orders)
      BY LineType DEF OrderInvariant
    <3>2. Extends(Line(d), Line(d)', FALSE) /\ Muted(k, Line(d), 0, up[d], <<>>, prompt[d])
      BY <2>1
    <3> QED BY <3>1, <3>2, MutedExtends
  <2> QED BY <2>1, <2>2
<1>3. Active'
  <2> SUFFICES ASSUME NEW k \in KeygenIds \ broken', pending'[k].state # "none"
               PROVE  ui' # None /\ ui'.id = k /\ k \notin keys /\ members[k] \subseteq form'
    BY DEF Active
  <2>1. /\ pending'[k] = pending[k] /\ ui' = ui /\ members[k] \subseteq form'
        /\ k \in KeygenIds \ broken
    BY <1>0
  <2> QED BY <2>1 DEF OrderInvariant, Active
<1>4. Apart' /\ Attached' /\ Panics' /\ (broken \subseteq KeygenIds)'
  BY DEF OrderInvariant, Apart, Attached, Panics
<1>5. Known'
  <2> SUFFICES ASSUME NEW d \in Devices
               PROVE  /\ \A i \in DOMAIN Line(d)' : Line(d)'[i].id # None => d \in members[Line(d)'[i].id]
                      /\ \A i \in DOMAIN up[d] : d \in members[up[d][i].id]
                      /\ prompt[d] # None => d \in members[prompt[d]]
    BY DEF Known
  <2>1. /\ \A i \in DOMAIN Line(d) : Line(d)[i].id # None => d \in members[Line(d)[i].id]
        /\ \A i \in DOMAIN up[d] : d \in members[up[d][i].id]
        /\ prompt[d] # None => d \in members[prompt[d]]
    BY DEF OrderInvariant, Known
  <2>2. Extends(Line(d), Line(d)', FALSE) /\ Line(d) \in Seq(Orders)
    BY LineType DEF OrderInvariant
  <2>3. PICK L \in Seq(Orders) : L = Line(d)
    BY <2>2
  <2>4. PICK M \in Seq(Orders) : M = Line(d)'
    BY <2>2 DEF Extends
  <2>5. ASSUME NEW i \in DOMAIN M, M[i].id # None
        PROVE  d \in members[M[i].id]
    <3>1. Extends(L, M, FALSE)
      BY <2>2, <2>3, <2>4
    <3>2. i \in DOMAIN L /\ M[i] = L[i]
      BY <2>5, <3>1 DEF Extends
    <3> QED BY <2>1, <2>3, <2>5, <3>2
  <2> QED BY <2>1, <2>4, <2>5
<1> QED BY <1>1, <1>2, <1>3, <1>4, <1>5 DEF OrderInvariant

\* The line of a device when the app sends something.
LEMMA LineGrows ==
  ASSUME OrderInvariant, NEW d \in Devices, down' = down, NEW calm, NEW m \in Orders,
         outbox' = Append(outbox, m), m.id = None, calm => ~ (m.type = "Cancel" /\ d \in m.to)
  PROVE  Extends(Line(d), Line(d)', calm)
<1>1. Line(d) \in Seq(Orders) /\ down[d] \in Seq(Orders) /\ outbox \in Seq(Orders)
  BY LineType, DeviceFacts, AppFacts DEF OrderInvariant
<1>2. Extends(Line(d), down[d] \o Sent(d, outbox), calm)
  BY <1>1, ExtendsSelf DEF Line
<1>3. Extends(Line(d), down[d] \o Sent(d, Append(outbox, m)), calm)
  BY <1>1, <1>2, LineExtends
<1>4. Line(d)' = down[d] \o Sent(d, outbox')
  BY DEF Line, Sent
<1> QED BY <1>3, <1>4

\* The line when nothing is sent.
LEMMA LineStays ==
  ASSUME OrderInvariant, NEW d \in Devices, down' = down, outbox' = outbox
  PROVE  \A calm \in BOOLEAN : Extends(Line(d), Line(d)', calm)
<1>1. Line(d)' = Line(d)
  BY DEF Line, Sent
<1> QED BY <1>1, LineType, ExtendsSelf DEF OrderInvariant

\* The names, and the Cancel after them.
LEMMA NamesGrow ==
  ASSUME OrderInvariant, NEW d \in Devices, NEW D \in Seq(Orders), NEW q \in Seq(Orders), NEW calm,
         NEW L \in Seq(Orders), Extends(L, D \o Sent(d, q), calm)
  PROVE  /\ ~ (calm /\ d \in seen \ form) => Extends(L, D \o Sent(d, q \o Names), calm)
         /\ ~calm => \A early \in BOOLEAN : Extends(L, D \o Sent(d, q \o CancelAll(early)), calm)
<1> DEFINE a == Preview(form)
           b == Message("Cancel", None, seen \ form)
<1>1. /\ a \in Orders /\ a.id = None /\ a.type = "Preview"
      /\ b \in Orders /\ b.id = None /\ b.type = "Cancel" /\ b.to = seen \ form
      /\ Cancel \in Orders /\ Cancel.id = None
  <2>1. form \subseteq Devices /\ seen \subseteq Devices
    BY AppFacts DEF OrderInvariant
  <2> QED BY <2>1 DEF Preview, Message, Orders, Cancel
<1>2. Names = <<a, b>>
  BY DEF Names
<1> HIDE DEF a, b
<1>3. Append(q, a) \in Seq(Orders) /\ Append(Append(q, a), b) \in Seq(Orders)
  BY <1>1
<1>4. q \o Names = Append(Append(q, a), b) /\ q \o <<Cancel>> = Append(q, Cancel)
      /\ q \o (Names \o <<Cancel>>) = Append(Append(Append(q, a), b), Cancel)
  BY <1>1, <1>2
<1>5. Extends(L, D \o Sent(d, Append(q, a)), calm)
  BY <1>1, LineExtends
<1>6. ~ (calm /\ d \in seen \ form) => Extends(L, D \o Sent(d, Append(Append(q, a), b)), calm)
  BY <1>1, <1>3, <1>5, LineExtends
<1>7. ASSUME ~calm, NEW early \in BOOLEAN
      PROVE  Extends(L, D \o Sent(d, q \o CancelAll(early)), calm)
  <2>1. CASE early
    <3>1. Extends(L, D \o Sent(d, Append(Append(Append(q, a), b), Cancel)), calm)
      BY <1>1, <1>3, <1>6, <1>7, LineExtends
    <3> QED BY <1>4, <2>1, <3>1 DEF CancelAll
  <2>2. CASE ~early
    <3>1. Extends(L, D \o Sent(d, Append(q, Cancel)), calm)
      BY <1>1, <1>7, LineExtends
    <3> QED BY <1>4, <2>2, <3>1 DEF CancelAll
  <2> QED BY <2>1, <2>2
<1> QED BY <1>4, <1>6, <1>7

\* Nothing is under way at first.
LEMMA OrderInit == Init => OrderInvariant
<1> SUFFICES ASSUME Init PROVE OrderInvariant
  OBVIOUS
<1>1. KeyGenInvariant
  BY KeyGenInit
<1>2. /\ \A k \in KeygenIds : pending[k] = NoKeygen /\ members[k] = {}
      /\ keys = {} /\ ui = None /\ outbox = <<>> /\ broken = {}
      /\ \A d \in Devices : down[d] = <<>> /\ up[d] = <<>> /\ prompt[d] = None /\ panicked[d] = "no"
      /\ panicked = [d \in Devices |-> "no"]
  BY DEF Init
<1>3. AllHold /\ Attached
  BY <1>2 DEF AllHold, Attached
<1>4. Fresh /\ OnStack /\ Apart
  BY <1>2 DEF Fresh, Unsent, OnStack, Apart
<1>5. Active
  BY <1>2 DEF Active, NoKeygen
<1>6. Known
  <2> SUFFICES ASSUME NEW d \in Devices
               PROVE  /\ \A i \in DOMAIN Line(d) : Line(d)[i].id # None => d \in members[Line(d)[i].id]
                      /\ \A i \in DOMAIN up[d] : d \in members[up[d][i].id]
                      /\ prompt[d] # None => d \in members[prompt[d]]
    BY DEF Known
  <2>1. Line(d) = <<>> \o <<>>
    BY <1>2, SentEmpty DEF Line
  <2>2. DOMAIN (<<>> \o <<>>) = {} /\ DOMAIN <<>> = {}
    OBVIOUS
  <2> QED BY <1>2, <2>1, <2>2
<1>7. Panics
  BY <1>2 DEF Panics
<1> QED BY <1>1, <1>2, <1>3, <1>4, <1>5, <1>6, <1>7 DEF OrderInvariant

\* The app gives up the key generation and says nothing.
LEMMA FinalizeFailsKeeps ==
  ASSUME OrderInvariant, KeyGenInvariant', NEW k \in KeygenIds, FinalizeFails(k)
  PROVE  OrderInvariant'
<1>1. /\ pending[k].state = "finalize"
      /\ pending' = [pending EXCEPT ![k] = NoKeygen]
      /\ down' = down /\ outbox' = outbox /\ ui' = ui /\ form' = form
      /\ UNCHANGED <<members, keys, seen, up, phase, prompt, shares, panicked, broken>>
  BY DEF FinalizeFails, Finalizable, pageVars, linkVars, deviceVars
<1>2. pending \in [KeygenIds -> Entries]
  BY AppFacts DEF OrderInvariant
<1>3. \A j \in KeygenIds : (pending'[j] = pending[j] /\ j # k) \/ pending'[j] = NoKeygen
  BY <1>1, <1>2
<1>4. \A j \in KeygenIds : Unsent(j)' => Unsent(j) /\ pending'[j] = pending[j]
  <2> SUFFICES ASSUME NEW j \in KeygenIds, Unsent(j)' PROVE Unsent(j) /\ pending'[j] = pending[j]
    OBVIOUS
  <2>1. Unsent(j)
    BY <1>1 DEF Unsent
  <2>2. pending[j].state = "responses"
    BY <2>1 DEF OrderInvariant, Fresh
  <2> QED BY <1>1, <1>2, <2>1, <2>2
<1>5. \A j \in KeygenIds \ broken : pending'[j].state # "none" => ui' = ui /\ members[j] \subseteq form'
  <2>1. NoKeygen.state = "none"
    BY DEF NoKeygen
  <2> QED BY <1>1, <1>3, <2>1 DEF OrderInvariant, Active
<1>6. OnStack'
  BY <1>1 DEF OrderInvariant, OnStack
<1>7. \A d \in Devices, calm \in BOOLEAN : Extends(Line(d), Line(d)', calm)
  BY <1>1, LineStays
<1>8. \A j \in KeygenIds \ broken : \A d \in members[j] : d \in Devices
  BY PairFacts
<1>9. broken \subseteq KeygenIds
  BY DEF OrderInvariant
<1> QED BY <1>1, <1>3, <1>4, <1>5, <1>6, <1>7, <1>8, <1>9, AppKeeps

\* Nothing but the key generation on the stack is pending, or it is broken.
LEMMA CancelProtocolKeeps ==
  ASSUME OrderInvariant, KeyGenInvariant', CancelProtocol
  PROVE  OrderInvariant'
<1>1. /\ ui # None /\ ui' = None /\ down' = down /\ outbox' = outbox /\ form' = form
      /\ UNCHANGED <<members, keys, seen, up, phase, prompt, shares, panicked, broken>>
      /\ \/ ui.finished /\ pending' = pending
         \/ ~ui.finished /\ pending' = [pending EXCEPT ![ui.id] = NoKeygen]
  BY DEF CancelProtocol, linkVars, deviceVars
<1>2. pending \in [KeygenIds -> Entries] /\ ui.id \in KeygenIds
  BY <1>1, AppFacts DEF OrderInvariant
<1>3. \A j \in KeygenIds : pending'[j] = pending[j] \/ pending'[j] = NoKeygen
  BY <1>1, <1>2
<1>4. \A j \in KeygenIds : ~ Unsent(j)'
  BY <1>1 DEF Unsent
<1>5. \A j \in KeygenIds \ broken : pending'[j].state = "none"
  <2>1. NoKeygen.state = "none"
    BY DEF NoKeygen
  <2>2. ASSUME NEW j \in KeygenIds \ broken,
               pending[j].state # "none" PROVE j = ui.id /\ j \notin keys
    BY <2>2 DEF OrderInvariant, Active
  <2>3. ui.finished => ui.id \in keys
    BY <1>1 DEF OrderInvariant, OnStack
  <2> QED BY <1>1, <1>2, <1>3, <2>1, <2>2, <2>3
<1>6. OnStack'
  BY <1>1 DEF OnStack
<1>7. \A d \in Devices : Extends(Line(d), Line(d)', FALSE)
  BY <1>1, LineStays
<1>8. broken \subseteq KeygenIds
  BY DEF OrderInvariant
<1> QED BY <1>1, <1>3, <1>4, <1>5, <1>6, <1>7, <1>8, AppKeeps

\* A Cancel that is sent after the locks were dropped breaks the key generation
\* that began in between, and finds no other: what is pending and not broken is
\* still to be sent.
LEMMA SendCancelAllKeeps ==
  ASSUME OrderInvariant, KeyGenInvariant', SendCancelAll
  PROVE  OrderInvariant'
<1>1. /\ ui' = ui /\ form' = form /\ pending' = pending /\ down' = down
      /\ outbox' = Append(outbox, Cancel) /\ broken' = broken \cup Begun
      /\ UNCHANGED <<members, keys, seen, up, phase, prompt, shares, panicked>>
  BY DEF SendCancelAll, coordVars, pageVars, linkVars, deviceVars
<1>2. broken' \subseteq KeygenIds /\ broken \subseteq broken'
  BY <1>1 DEF OrderInvariant, Begun
<1>3. \A k \in KeygenIds : Unsent(k)' = Unsent(k)
  BY <1>1 DEF Unsent
<1>4. OnStack'
  BY <1>1 DEF OrderInvariant, OnStack
<1>5. Cancel \in Orders /\ Cancel.id = None
  BY DEF Cancel, Message, Orders
<1>6. \A d \in Devices : Extends(Line(d), Line(d)', FALSE)
  BY <1>1, <1>5, LineGrows
<1>7. ASSUME NEW k \in KeygenIds \ broken', pending[k].state # "none"
      PROVE  members[k] \subseteq form /\ Unsent(k)
  <2>1. ui # None /\ ui.id = k /\ k \notin keys /\ members[k] \subseteq form
    BY <1>2, <1>7 DEF OrderInvariant, Active
  <2>2. ~ui.finished
    BY <2>1 DEF OrderInvariant, OnStack
  <2>3. ui.send
    BY <1>1, <1>7, <2>1, <2>2 DEF Begun
  <2> QED BY <2>1, <2>3 DEF Unsent
<1> QED BY <1>1, <1>2, <1>3, <1>4, <1>6, <1>7, AppKeeps

\* The wallet page sends names, and a Cancel to devices without one, which no
\* pending key generation has.
LEMMA PageKeeps ==
  ASSUME OrderInvariant, KeyGenInvariant',
         ResetDeviceNames \/ \E d \in Devices : SetDeviceName(d) \/ ClearDeviceName(d)
  PROVE  OrderInvariant'
<1>1. /\ down' = down /\ ui' = ui
      /\ UNCHANGED <<pending, members, keys, seen, up, phase, prompt, shares, panicked, broken>>
  BY DEF ResetDeviceNames, SetDeviceName, ClearDeviceName, coordVars, linkVars, deviceVars,
     historyVars
<1>2. \A j \in KeygenIds : Unsent(j)' => Unsent(j) /\ pending'[j] = pending[j]
  BY <1>1 DEF Unsent
<1>3. ASSUME NEW j \in KeygenIds \ broken, pending[j].state # "none"
      PROVE  ui # None /\ members[j] \subseteq form
  BY <1>3 DEF OrderInvariant, Active
<1>4. OnStack'
  BY <1>1 DEF OrderInvariant, OnStack
<1>5. \A j \in KeygenIds \ broken : \A d \in members[j] : d \in Devices
  BY PairFacts
<1>8. broken \subseteq KeygenIds
  BY DEF OrderInvariant
<1>6. CASE ResetDeviceNames
  <2>1. outbox' = outbox \o Names /\ form' = form
    BY <1>6 DEF ResetDeviceNames
  <2>2. ASSUME NEW d \in Devices, NEW calm \in BOOLEAN, ~ (calm /\ d \notin form)
        PROVE  Extends(Line(d), Line(d)', calm)
    <3>1. /\ Line(d) \in Seq(Orders) /\ down[d] \in Seq(Orders) /\ outbox \in Seq(Orders)
      BY LineType, DeviceFacts, AppFacts DEF OrderInvariant
    <3>2. Extends(Line(d), down[d] \o Sent(d, outbox), calm)
      BY <3>1, ExtendsSelf DEF Line
    <3>3. Extends(Line(d), down[d] \o Sent(d, outbox \o Names), calm)
      BY <2>2, <3>1, <3>2, NamesGrow
    <3>4. Line(d)' = down[d] \o Sent(d, outbox')
      BY <1>1 DEF Line
    <3> QED BY <2>1, <3>3, <3>4
  <2>3. \A j \in KeygenIds \ broken : pending'[j].state # "none" => ui' = ui /\ members[j] \subseteq form'
    BY <1>1, <1>3, <2>1
  <2>4. \A d \in Devices : Extends(Line(d), Line(d)', FALSE)
    BY <2>2
  <2>5. ASSUME NEW j \in KeygenIds \ broken, NEW d \in members[j], pending'[j].state # "none"
        PROVE  Extends(Line(d), Line(d)', TRUE)
    BY <1>1, <1>3, <1>5, <2>2, <2>5
  <2> QED BY <1>1, <1>2, <1>4, <1>8, <2>3, <2>4, <2>5, AppKeeps
<1>7. ASSUME NEW x \in Devices, SetDeviceName(x) \/ ClearDeviceName(x)
      PROVE  OrderInvariant'
  <2>1. PICK m \in Orders : /\ m.id = None /\ outbox' = Append(outbox, m)
                            /\ \/ m.type = "Preview" /\ form' = form \cup {x}
                               \/ ui = None
    <3>1. /\ Preview({x}) \in Orders /\ Preview({x}).id = None /\ Preview({x}).type = "Preview"
          /\ Message("Cancel", None, {x}) \in Orders /\ Message("Cancel", None, {x}).id = None
      BY DEF Preview, Message, Orders
    <3> QED BY <1>7, <3>1 DEF SetDeviceName, ClearDeviceName
  <2>2. ASSUME NEW d \in Devices, NEW calm \in BOOLEAN, calm => m.type = "Preview"
        PROVE  Extends(Line(d), Line(d)', calm)
    BY <1>1, <2>1, <2>2, LineGrows
  <2>3. \A j \in KeygenIds \ broken : pending'[j].state # "none" =>
          /\ m.type = "Preview" /\ ui' = ui /\ members[j] \subseteq form'
    BY <1>1, <1>3, <2>1
  <2>4. \A d \in Devices : Extends(Line(d), Line(d)', FALSE)
    BY <2>2
  <2>5. ASSUME NEW j \in KeygenIds \ broken, NEW d \in members[j], pending'[j].state # "none"
        PROVE  Extends(Line(d), Line(d)', TRUE)
    BY <1>5, <2>2, <2>3, <2>5
  <2> QED BY <1>1, <1>2, <1>4, <1>8, <2>3, <2>4, <2>5, AppKeeps
<1> QED BY <1>6, <1>7

\* A key generation begins: nothing is under way of it, and its devices have names
\* and no finalized key.
LEMMA GenerateKeeps ==
  ASSUME OrderInvariant, KeyGenInvariant', NEW k \in KeygenIds, NEW S \in MemberSets,
         GenerateNewKey(k, S)
  PROVE  OrderInvariant'
<1>1. /\ ui = None /\ members[k] = {} /\ S \subseteq form /\ \A j \in keys : members[j] \cap S = {}
      /\ pending' = [pending EXCEPT ![k] = [state |-> "responses", from |-> {}]]
      /\ members' = [members EXCEPT ![k] = S]
      /\ ui' = [id |-> k, send |-> TRUE, finished |-> FALSE, aborted |-> ~(S \subseteq seen)]
      /\ broken' = IF ~(S \subseteq seen) THEN broken \cup {k} ELSE broken
      /\ down' = down /\ outbox' = outbox
      /\ UNCHANGED <<keys, form, seen, up, phase, prompt, shares, panicked>>
  BY DEF GenerateNewKey, Selectable, linkVars, deviceVars
<1>2. /\ pending \in [KeygenIds -> Entries] /\ members \in [KeygenIds -> SUBSET Devices]
      /\ S \subseteq Devices /\ keys \subseteq KeygenIds
  BY KeyGenAssumption DEF OrderInvariant, KeyGenInvariant, CoordType
<1>3. k \notin keys
  BY <1>1 DEF OrderInvariant, KeyGenInvariant, KeysBegan
<1>4. ui' # None
  <2>1. PICK aborted \in BOOLEAN : aborted = ~(S \subseteq seen)
    OBVIOUS
  <2>2. [id |-> k, send |-> TRUE, finished |-> FALSE, aborted |-> aborted] \in Protocols
    BY DEF Protocols
  <2>3. ui' \in Protocols
    BY <1>1, <2>1, <2>2
  <2> QED BY <2>3, KeyGenAssumption
<1>5. /\ Unsent(k)'
      /\ \A j \in KeygenIds : j # k => ~Unsent(j)' /\ pending'[j] = pending[j] /\ members'[j] = members[j]
      /\ \A j \in KeygenIds : ~Unsent(j)
      /\ pending'[k].state = "responses" /\ pending'[k].from = {} /\ members'[k] = S
  BY <1>1, <1>2, <1>4 DEF Unsent
<1>6. \A d \in Devices : Line(d)' = Line(d)
  BY <1>1 DEF Line
<1>7. ASSUME NEW d \in Devices
      PROVE  /\ Muted(k, Line(d), 0, up[d], <<>>, prompt[d])
             /\ \A i \in DOMAIN Line(d) : Line(d)[i].id # None => Line(d)[i].id # k
             /\ \A i \in DOMAIN up[d] : up[d][i].id # k
  <2>1. /\ \A i \in DOMAIN Line(d) : Line(d)[i].id # None => Line(d)[i].id # k
        /\ \A i \in DOMAIN up[d] : up[d][i].id # k
        /\ prompt[d] # None => prompt[d] # k
    BY <1>1 DEF OrderInvariant, Known
  <2>2. Rest(Line(d), 0, k) = {} /\ At(up[d], k) = {}
    BY <2>1, KeyGenAssumption DEF Rest, At
  <2>3. At(<<>>, k) = {}
    BY DEF At
  <2> QED BY <2>1, <2>2, <2>3, KeyGenAssumption DEF Muted
<1>8. AllHold'
  <2> SUFFICES ASSUME NEW j \in KeygenIds \ broken', NEW d \in members'[j]
               PROVE  /\ panicked[d] = "no" =>
                           Holds(j, d, pending'[j], Unsent(j)', Line(d)', 0, up[d], <<>>, prompt[d],
                                 phase[d][j], j \notin keys \/ j \in shares[d])
                      /\ panicked[d] = "name" => (j \in keys => j \in shares[d])
    BY <1>1 DEF AllHold
  <2>1. CASE j = k
    <3>1. d \in Devices
      BY <1>2, <1>5, <2>1
    <3>2. PICK L \in Seq(Orders), e \in Entries, U \in Seq(Answers) :
            L = Line(d) /\ e = pending'[k] /\ U = up[d]
      <4>1. Line(d) \in Seq(Orders)
        BY <3>1, LineType DEF OrderInvariant
      <4>2. pending'[k] \in Entries
        BY <1>2, <1>1 DEF Entries
      <4>3. up[d] \in Seq(Answers)
        BY <3>1, DeviceFacts DEF OrderInvariant
      <4> QED BY <4>1, <4>2, <4>3
    <3>3. Muted(k, L, 0, U, <<>>, prompt[d])
      BY <1>7, <3>1, <3>2
    <3>4. e.state = "responses" /\ e.from = {}
      BY <1>5, <3>2
    <3>5. Holds(k, d, e, TRUE, L, 0, U, <<>>, prompt[d], phase[d][k], TRUE)
      BY <3>3, <3>4 DEF Holds, Lone, Met, Agrees, Kept, Muted
    <3>6. (k \notin keys \/ k \in shares[d]) = TRUE
      BY <1>3
    <3>7. Unsent(k)' = TRUE
      BY <1>5 DEF Unsent
    <3>8. Line(d)' = L
      BY <1>6, <3>1, <3>2
    <3> QED BY <1>3, <2>1, <3>2, <3>5, <3>6, <3>7, <3>8
  <2>2. CASE j # k
    <3>1. j \in KeygenIds \ broken /\ d \in members[j]
      BY <1>1, <1>5, <2>2
    <3>2. d \in Devices
      BY <3>1, PairFacts
    <3>3. Unsent(j)' = Unsent(j)
      BY <1>5, <2>2 DEF Unsent
    <3>4. pending'[j] = pending[j] /\ Line(d)' = Line(d)
      BY <1>5, <1>6, <2>2, <3>2
    <3> QED BY <3>1, <3>3, <3>4, PairFacts
  <2> QED BY <2>1, <2>2
<1>9. Fresh'
  BY <1>1, <1>5, <1>6, <1>7 DEF Fresh, Muted
<1>10. Active'
  <2> SUFFICES ASSUME NEW j \in KeygenIds \ broken', pending'[j].state # "none"
               PROVE  ui' # None /\ ui'.id = j /\ j \notin keys /\ members'[j] \subseteq form
    BY <1>1 DEF Active
  <2>1. j = k
    BY <1>1, <1>5 DEF OrderInvariant, Active
  <2> QED BY <1>1, <1>3, <1>4, <1>5, <2>1
<1>11. OnStack'
  <2>1. /\ ui'.id = k /\ ~ui'.finished /\ (ui'.aborted => k \in broken')
        /\ \A j \in keys : j # k => members'[j] \cap members'[k] = {}
    BY <1>1, <1>2, <1>5
  <2> QED BY <1>1, <2>1 DEF OnStack
<1>12. Apart'
  <2>1. \A j \in keys : members'[j] = members[j]
    BY <1>2, <1>3, <1>5
  <2> QED BY <1>1, <2>1 DEF OrderInvariant, Apart
<1>13. Attached'
  <2>1. broken \subseteq broken' /\ (k \notin broken' => S \subseteq seen)
    BY <1>1
  <2> QED BY <1>1, <1>5, <2>1 DEF OrderInvariant, Attached
<1>14. Known'
  <2> SUFFICES ASSUME NEW d \in Devices
               PROVE  /\ \A i \in DOMAIN Line(d)' : Line(d)'[i].id # None => d \in members'[Line(d)'[i].id]
                      /\ \A i \in DOMAIN up[d] : d \in members'[up[d][i].id]
                      /\ prompt[d] # None => d \in members'[prompt[d]]
    BY <1>1 DEF Known
  <2>1. /\ \A i \in DOMAIN Line(d) : Line(d)[i].id # None => d \in members[Line(d)[i].id]
        /\ \A i \in DOMAIN up[d] : d \in members[up[d][i].id]
        /\ prompt[d] # None => d \in members[prompt[d]]
    BY DEF OrderInvariant, Known
  <2>2. Line(d)' = Line(d)
    BY <1>6
  <2>3. \A x : d \in members[x] => x # k
    BY <1>1
  <2>4. ASSUME NEW x, x \in KeygenIds, d \in members[x] PROVE d \in members'[x]
    BY <1>5, <2>3, <2>4
  <2>5. PICK L \in Seq(Orders) : L = Line(d)
    BY LineType DEF OrderInvariant
  <2>6. ASSUME NEW i \in DOMAIN L, L[i].id # None PROVE L[i].id \in KeygenIds
    <3>1. L[i] \in Orders
      OBVIOUS
    <3> QED BY <2>6, <3>1 DEF Orders
  <2>7. ASSUME NEW i \in DOMAIN up[d] PROVE up[d][i].id \in KeygenIds
    <3>1. up[d][i] \in Answers
      BY DeviceFacts DEF OrderInvariant
    <3> QED BY <3>1 DEF Answers
  <2>8. prompt[d] # None => prompt[d] \in KeygenIds
    BY DeviceFacts DEF OrderInvariant
  <2> QED BY <2>1, <2>2, <2>4, <2>5, <2>6, <2>7, <2>8
<1>15. Panics'
  <2>1. ASSUME NEW j \in KeygenIds, NEW d, d \in members[j] PROVE d \in members'[j]
    BY <1>1, <1>5, <2>1
  <2>2. keys \subseteq KeygenIds /\ broken \subseteq KeygenIds /\ broken \subseteq broken'
    BY <1>1, <1>2 DEF OrderInvariant
  <2> QED BY <1>1, <2>1, <2>2 DEF OrderInvariant, Panics
<1>16. (broken \subseteq KeygenIds)'
  BY <1>1 DEF OrderInvariant
<1> QED BY <1>8, <1>9, <1>10, <1>11, <1>12, <1>13, <1>14, <1>15, <1>16 DEF OrderInvariant

\* Every member has answered the check, so Finalize will find it where it expects it.
LEMMA FinalizeKeeps ==
  ASSUME OrderInvariant, KeyGenInvariant', NEW k \in KeygenIds, FinalizeKeygen(k)
  PROVE  OrderInvariant'
<1> DEFINE S == members[k]
<1>1. /\ ui # None /\ ui.id = k /\ pending[k].state = "finalize"
      /\ pending' = [pending EXCEPT ![k] = NoKeygen]
      /\ keys' = keys \cup {k}
      /\ outbox' = Append(outbox, Message("Finalize", k, S))
      /\ ui' = [ui EXCEPT !.finished = TRUE]
      /\ down' = down
      /\ UNCHANGED <<members, form, seen, up, phase, prompt, shares, panicked, broken>>
  BY DEF FinalizeKeygen, Finalizable, linkVars, deviceVars, historyVars
<1>2. /\ pending \in [KeygenIds -> Entries] /\ members \in [KeygenIds -> SUBSET Devices]
      /\ ui \in [id : KeygenIds, send : BOOLEAN, finished : BOOLEAN, aborted : BOOLEAN]
      /\ outbox \in Seq(Orders)
  BY <1>1, AppFacts DEF OrderInvariant
<1>3. ui'.id = k /\ ui'.finished /\ ui'.send = ui.send
  BY <1>1, <1>2
<1>4. \A j \in KeygenIds : ~Unsent(j) /\ ~Unsent(j)'
  <2>1. \A j \in KeygenIds : Unsent(j) => j = k /\ pending[j].state = "responses"
    BY <1>1 DEF OrderInvariant, Fresh, Unsent
  <2>2. \A j \in KeygenIds : ~Unsent(j)
    BY <1>1, <2>1
  <2>3. \A j \in KeygenIds : Unsent(j)' => Unsent(j)
    BY <1>1, <1>3 DEF Unsent
  <2> QED BY <2>2, <2>3
<1>5. PICK m \in Orders : m = Message("Finalize", k, S) /\ m.id = k /\ m.type = "Finalize" /\ m.to = S
  <2>1. S \in SUBSET Devices
    BY <1>2
  <2> HIDE DEF S
  <2>2. Message("Finalize", k, S) = [type |-> "Finalize", id |-> k, to |-> S]
    BY DEF Message
  <2>3. [type |-> "Finalize", id |-> k, to |-> S] \in Orders
    BY <2>1 DEF Orders
  <2> QED BY <2>2, <2>3
<1> HIDE DEF S
<1>6. ASSUME NEW d \in Devices
      PROVE  \E L \in Seq(Orders) :
               L = Line(d) /\ Line(d)' = IF d \in S THEN Append(L, m) ELSE L
  <2>1. PICK a \in Seq(Orders), b \in Seq(Orders) : a = down[d] /\ b = Sent(d, outbox)
    BY <1>2, SentType, DeviceFacts DEF OrderInvariant
  <2>2. Sent(d, outbox') = IF d \in S THEN Append(b, m) ELSE b
    BY <1>1, <1>2, <1>5, <2>1, SentAppend
  <2>3. Line(d) = a \o b /\ Line(d)' = IF d \in S THEN a \o Append(b, m) ELSE a \o b
    BY <1>1, <2>1, <2>2 DEF Line
  <2>4. a \o Append(b, m) = Append(a \o b, m) /\ a \o b \in Seq(Orders)
    OBVIOUS
  <2> QED BY <2>3, <2>4
<1>7. AllHold'
  <2> SUFFICES ASSUME NEW j \in KeygenIds \ broken, NEW d \in members[j]
               PROVE  /\ panicked[d] = "no" =>
                           Holds(j, d, pending'[j], Unsent(j)', Line(d)', 0, up[d], <<>>, prompt[d],
                                 phase[d][j], j \notin keys' \/ j \in shares[d])
                      /\ panicked[d] = "name" => (j \in keys' => j \in shares[d])
    BY <1>1 DEF AllHold
  <2>0. d \in Devices
    BY PairFacts
  <2>1. PICK L \in Seq(Orders) : L = Line(d) /\ Line(d)' = IF d \in S THEN Append(L, m) ELSE L
    BY <1>6, <2>0
  <2>2. PICK e \in Entries : e = pending[j]
    BY <1>2
  <2>3. 0 <= Len(L) /\ Len(L) \in Nat
    OBVIOUS
  <2>4. PICK U : U = up[d]
    OBVIOUS
  <2>5. Unsent(j)' = FALSE /\ Unsent(j) = FALSE
    <3>1. Unsent(j)' \in BOOLEAN /\ Unsent(j) \in BOOLEAN
      BY DEF Unsent
    <3> QED BY <1>4, <3>1
  <2>6. PICK safe \in BOOLEAN : safe = (j \notin keys \/ j \in shares[d])
    OBVIOUS
  <2>7. panicked[d] = "no" => Holds(j, d, e, FALSE, L, 0, U, <<>>, prompt[d], phase[d][j], safe)
    BY <2>1, <2>2, <2>4, <2>5, <2>6, PairFacts
  <2>8. CASE j = k
    <3>1. e.state = "finalize"
      BY <1>1, <2>2, <2>8
    <3>2. ASSUME panicked[d] = "no"
          PROVE  Holds(j, d, pending'[j], Unsent(j)', Line(d)', 0, up[d], <<>>, prompt[d],
                       phase[d][j], j \notin keys' \/ j \in shares[d])
      <4>1. Agrees(j, d, e, FALSE, L, 0, U, <<>>, prompt[d], phase[d][j])
        BY <2>7, <3>2 DEF Holds
      <4>2. Rest(L, 0, k) = {} /\ At(U, k) = {} /\ prompt[d] # k /\ phase[d][k] = "4"
        BY <2>8, <3>1, <4>1 DEF Agrees, Stage, Reaches
      <4>3. \A i \in DOMAIN L : i > 0 => L[i].type # "Cancel"
        BY <2>8, <3>1, <4>1, <4>2 DEF Agrees
      <4>4. phase[d][k] = Meets[m.type]
        BY <1>5, <4>2 DEF Meets
      <4>5. NoKeygen \in Entries /\ NoKeygen.state = "none" /\ pending'[j] = NoKeygen
        BY <1>1, <1>2, <2>8 DEF NoKeygen, Entries
      <4>6. PICK after \in BOOLEAN : after = (j \notin keys' \/ j \in shares[d])
        OBVIOUS
      <4>7. Line(d)' = Append(L, m)
        BY <2>1, <2>8 DEF S
      <4>8. Holds(k, d, NoKeygen, FALSE, Append(L, m), 0, U, <<>>, prompt[d], phase[d][k], after)
        BY <1>5, <2>3, <4>2, <4>3, <4>4, <4>5, OwnMessage
      <4> QED BY <2>4, <2>5, <2>8, <4>5, <4>6, <4>7, <4>8
    <3>3. panicked[d] # "name"
      <4>1. k \notin keys
        BY <1>1, <2>8 DEF OrderInvariant, Active
      <4>2. \A i \in keys : d \notin members[i]
        BY <1>1, <2>8, <4>1 DEF OrderInvariant, OnStack
      <4> QED BY <2>0, <4>2 DEF OrderInvariant, Panics
    <3> QED BY <3>2, <3>3
  <2>9. CASE j # k
    <3>1. pending'[j] = e /\ (j \notin keys' \/ j \in shares[d]) = safe /\ (j \in keys' <=> j \in keys)
      BY <1>1, <1>2, <2>2, <2>6, <2>9
    <3>2. m.id # j /\ m.type # "Cancel"
      BY <1>5, <2>9
    <3>3. panicked[d] = "no" => Holds(j, d, e, FALSE, Append(L, m), 0, U, <<>>, prompt[d], phase[d][j], safe)
      BY <2>3, <2>7, <3>2, OtherMessage
    <3>4. panicked[d] = "no" =>
            Holds(j, d, pending'[j], Unsent(j)', Line(d)', 0, up[d], <<>>, prompt[d],
                  phase[d][j], j \notin keys' \/ j \in shares[d])
      BY <2>1, <2>4, <2>5, <2>7, <3>1, <3>3
    <3> QED BY <3>1, <3>4, PairFacts
  <2> QED BY <2>8, <2>9
<1>8. Fresh'
  BY <1>4 DEF Fresh
<1>9. Active'
  <2>1. NoKeygen.state = "none"
    BY DEF NoKeygen
  <2>2. \A j \in KeygenIds \ broken : pending'[j].state = "none"
    BY <1>1, <1>2, <2>1 DEF OrderInvariant, Active
  <2> QED BY <1>1, <2>2 DEF Active
<1>10. OnStack' /\ Apart'
  <2>1. \A j \in keys : j # k => members[j] \cap members[k] = {}
    BY <1>1 DEF OrderInvariant, OnStack
  <2>2. OnStack'
    BY <1>1, <1>3, <2>1 DEF OnStack
  <2> QED BY <1>1, <2>1, <2>2 DEF OrderInvariant, Apart
<1>11. Attached' /\ Panics' /\ (broken \subseteq KeygenIds)'
  BY <1>1 DEF OrderInvariant, Attached, Panics
<1>12. Known'
  <2> SUFFICES ASSUME NEW d \in Devices
               PROVE  /\ \A i \in DOMAIN Line(d)' : Line(d)'[i].id # None => d \in members[Line(d)'[i].id]
                      /\ \A i \in DOMAIN up[d] : d \in members[up[d][i].id]
                      /\ prompt[d] # None => d \in members[prompt[d]]
    BY <1>1 DEF Known
  <2>1. PICK L \in Seq(Orders) : L = Line(d) /\ Line(d)' = IF d \in S THEN Append(L, m) ELSE L
    BY <1>6
  <2>2. /\ \A i \in DOMAIN L : L[i].id # None => d \in members[L[i].id]
        /\ \A i \in DOMAIN up[d] : d \in members[up[d][i].id]
        /\ prompt[d] # None => d \in members[prompt[d]]
    BY <2>1 DEF OrderInvariant, Known
  <2>3. PICK M : M = Append(L, m)
    OBVIOUS
  <2>4. \A i \in DOMAIN M : (i \in DOMAIN L /\ M[i] = L[i]) \/ M[i] = m
    BY <2>3
  <2>5. d \in S => \A i \in DOMAIN M : M[i].id # None => d \in members[M[i].id]
    BY <1>5, <2>2, <2>4 DEF S
  <2> QED BY <2>1, <2>2, <2>3, <2>5
<1> QED BY <1>7, <1>8, <1>9, <1>10, <1>11, <1>12 DEF OrderInvariant

----------------------------------------------------------------------------
(* The devices *)

\* A poll that failed on its inbox sends nothing.
LEMMA OutboxFails ==
  ASSUME NEW w \in Polls(KeygenIds, Tasks), w.failed
  PROVE  AfterOutbox(w).failed
<1>1. w.out \in Seq(Tasks) /\ Len(w.out) \in Nat
  BY DEF Polls
<1>2. PICK v : /\ v[0] = [w EXCEPT !.out = <<>>]
               /\ \A i \in 1 .. Len(w.out) : v[i] = Emit(v[i - 1], w.out[i])
               /\ AfterOutbox(w) = v[Len(w.out)]
  BY <1>1, AfterOutboxUnfolds
<1> DEFINE n == Len(w.out)
           G == {i \in 0 .. n : v[i].failed}
<1>3. 0 \in G
  BY <1>1, <1>2 DEF Polls
<1>4. ASSUME NEW i \in 1 .. n, i - 1 \in G
      PROVE  i \in G
  <2>1. v[i] = v[i - 1]
    BY <1>2, <1>4 DEF Emit
  <2>2. i \in 0 .. n
    BY <1>1
  <2> QED BY <1>4, <2>1, <2>2
<1>5. n \in G
  <2>1. n \in 0 .. n
    BY <1>1
  <2> HIDE DEF G, n
  <2> QED BY <1>1, <1>3, <1>4, <2>1, UpTo DEF n
<1> QED BY <1>2, <1>5

\* The line of a device that has read n messages.
LEMMA LineDrops ==
  ASSUME KeyGenInvariant, NEW d \in Devices, NEW n \in 1 .. Len(down[d]),
         down' = [down EXCEPT ![d] = SubSeq(@, n + 1, Len(@))], outbox' = outbox
  PROVE  /\ Dropped(Line(d), n, Line(d)')
         /\ n \in Nat /\ n <= Len(Line(d))
         /\ \A e \in Devices : e # d => Line(e)' = Line(e)
<1>1. PICK a \in Seq(Orders) : a = down[d]
  BY DeviceFacts
<1>2. PICK b \in Seq(Orders) : b = Sent(d, outbox)
  BY AppFacts, SentType
<1>3. Len(a) \in Nat /\ n \in 1 .. Len(a)
  BY <1>1
<1>4. PICK c : c = a \o b
  OBVIOUS
<1>5. PICK t : t = SubSeq(a, n + 1, Len(a))
  OBVIOUS
<1>6. PICK u : u = t \o b
  OBVIOUS
<1>7. PICK r : r = SubSeq(c, n + 1, Len(c))
  OBVIOUS
<1>8. /\ c \in Seq(Orders) /\ Len(c) = Len(a) + Len(b) /\ Len(b) \in Nat
      /\ \A i \in 1 .. Len(a) + Len(b) : c[i] = IF i <= Len(a) THEN a[i] ELSE b[i - Len(a)]
  BY <1>4
<1>9. /\ t \in Seq(Orders) /\ Len(t) = Len(a) - n
      /\ \A i \in 1 .. Len(a) - n : t[i] = a[i + n]
  BY <1>3, <1>5
<1>10. /\ u \in Seq(Orders) /\ Len(u) = Len(a) - n + Len(b)
       /\ \A i \in 1 .. Len(a) - n + Len(b) : u[i] = IF i <= Len(a) - n THEN t[i] ELSE b[i - (Len(a) - n)]
  <2>0. Len(a) - n \in Nat
    BY <1>3
  <2>1. PICK l \in Nat : l = Len(a) - n
    BY <2>0
  <2>3. t \in Seq(Orders) /\ b \in Seq(Orders) /\ Len(t) = l
    BY <1>9, <2>1
  <2>2. /\ u \in Seq(Orders) /\ Len(u) = l + Len(b)
        /\ \A i \in 1 .. l + Len(b) : u[i] = IF i <= l THEN t[i] ELSE b[i - l]
    BY <1>6, <2>3
  <2> QED BY <2>1, <2>2
<1>11. /\ r \in Seq(Orders) /\ Len(r) = Len(a) + Len(b) - n
       /\ \A i \in 1 .. Len(a) + Len(b) - n : r[i] = c[i + n]
  BY <1>3, <1>7, <1>8
<1>12. Len(u) = Len(r) /\ \A i \in 1 .. Len(u) : u[i] = r[i]
  <2> SUFFICES ASSUME NEW i \in 1 .. Len(u) PROVE u[i] = r[i]
    BY <1>3, <1>8, <1>10, <1>11
  <2>1. i \in Nat /\ i >= 1 /\ i <= Len(a) - n + Len(b) /\ i + n \in 1 .. Len(a) + Len(b)
    BY <1>3, <1>8, <1>10
  <2>2. CASE i <= Len(a) - n
    <3>1. u[i] = a[i + n]
      BY <1>3, <1>8, <1>9, <1>10, <2>1, <2>2
    <3>2. c[i + n] = a[i + n]
      BY <1>3, <1>8, <2>1, <2>2
    <3> QED BY <1>3, <1>8, <1>11, <2>1, <3>1, <3>2
  <2>3. CASE ~ (i <= Len(a) - n)
    <3>1. u[i] = b[i - (Len(a) - n)]
      BY <1>3, <1>8, <1>10, <2>1, <2>3
    <3>2. c[i + n] = b[(i + n) - Len(a)]
      BY <1>3, <1>8, <2>1, <2>3
    <3>3. (i + n) - Len(a) = i - (Len(a) - n)
      BY <1>3, <2>1
    <3> QED BY <1>3, <1>8, <1>11, <2>1, <3>1, <3>2, <3>3
  <2> QED BY <2>2, <2>3
<1>13. u = r
  <2>1. Len(u) \in Nat /\ DOMAIN u = 1 .. Len(u) /\ DOMAIN r = 1 .. Len(r)
    BY <1>10, <1>11
  <2> QED BY <1>10, <1>11, <1>12, <2>1, SeqEqual
<1>14. Line(d) = c /\ Line(d)' = u
  <2>1. down'[d] = t
    BY <1>1, <1>5, DeviceFacts
  <2> QED BY <1>1, <1>2, <1>4, <1>6, <2>1 DEF Line
<1>15. \A e \in Devices : e # d => Line(e)' = Line(e)
  BY DeviceFacts DEF Line
<1> QED BY <1>3, <1>7, <1>8, <1>13, <1>14, <1>15 DEF Dropped

\* What a poll finds and leaves.
LEMMA PollOutcome ==
  ASSUME OrderInvariant, NEW d \in Devices, panicked[d] = "no", NEW n \in 1 .. Len(down[d]),
         NEW w, w = AfterInbox(d, n), NEW v, v = AfterOutbox(w),
         n \in Nat, n <= Len(Line(d)),
         NEW M, Dropped(Line(d), n, M)
  PROVE  /\ w.failed => v.failed /\ \E k \in broken : d \in members[k]
         /\ ~w.failed /\ v.failed => w.saved # {}
         /\ \A k \in KeygenIds : Unsent(k) => Muted(k, M, 0, up[d], <<>>, None)
         /\ ~v.failed =>
              /\ v.out \in Seq(Answers)
              /\ \A k \in KeygenIds \ broken : d \in members[k] =>
                   Holds(k, d, pending[k], Unsent(k), M, 0, up[d] \o v.out, <<>>, v.prompt, v.phase[k],
                         k \notin keys \/ k \in shares[d] \cup w.saved)
              /\ \A k \in KeygenIds : Unsent(k) => Muted(k, M, 0, up[d] \o v.out, <<>>, v.prompt)
              /\ \A i \in DOMAIN v.out : d \in members[v.out[i].id]
              /\ v.prompt # None => d \in members[v.prompt]
<1> DEFINE K == {k \in KeygenIds \ broken : d \in members[k]}
<1>1. KeyGenInvariant
  BY DEF OrderInvariant
<1>2. PICK L \in Seq(Orders) : L = Line(d)
  BY <1>1, LineType
<1>3. PICK U \in Seq(Answers) : U = up[d]
  BY <1>1, DeviceFacts
<1>4. \A k \in K : Poised(k, d, 0, Working(d))
  <2> SUFFICES ASSUME NEW k \in K PROVE Poised(k, d, 0, Working(d))
    OBVIOUS
  <2>1. Holds(k, d, pending[k], Unsent(k), Line(d), 0, up[d], <<>>, prompt[d], phase[d][k],
              k \notin keys \/ k \in shares[d])
    BY PairFacts
  <2>2. PICK before \in BOOLEAN : before = (k \notin keys \/ k \in shares[d])
    OBVIOUS
  <2>3. (k \notin keys \/ k \in shares[d] \cup Working(d).saved) = before
    BY <2>2 DEF Working
  <2>4. Working(d).out = <<>> /\ Working(d).prompt = prompt[d] /\ Working(d).phase = phase[d]
    BY DEF Working
  <2> QED BY <2>1, <2>2, <2>3, <2>4 DEF Poised
<1>5. \A k \in KeygenIds : FreshAt(k, d, 0, Working(d))
  <2>1. Working(d).out = <<>> /\ Working(d).prompt = prompt[d]
    BY DEF Working
  <2> QED BY <2>1 DEF OrderInvariant, Fresh, FreshAt
<1>6. /\ w \in Polls(KeygenIds, Tasks)
      /\ ~w.failed => /\ \A k \in K : Poised(k, d, n, w)
                      /\ \A k \in KeygenIds : FreshAt(k, d, n, w)
      /\ w.failed => \E i \in 1 .. n : down[d][i].id \in KeygenIds \ K
  <2>1. K \in SUBSET KeygenIds
    OBVIOUS
  <2> HIDE DEF K
  <2>2. \E x : /\ x = AfterInbox(d, n)
               /\ x \in Polls(KeygenIds, Tasks)
               /\ ~x.failed => /\ \A k \in K : Poised(k, d, n, x)
                               /\ \A k \in KeygenIds : FreshAt(k, d, n, x)
               /\ x.failed => \E i \in 1 .. n : down[d][i].id \in KeygenIds \ K
    BY <1>1, <1>4, <1>5, <2>1, InboxHolds
  <2> QED BY <2>2
<1>7. \A i \in 1 .. n : down[d][i].id # None => d \in members[down[d][i].id]
  <2>1. \A i \in 1 .. n : i \in DOMAIN Line(d) /\ Line(d)[i] = down[d][i]
    BY <1>1, LineType
  <2> QED BY <2>1 DEF OrderInvariant, Known
<1>8. w.failed => v.failed /\ \E k \in broken : d \in members[k]
  <2> SUFFICES ASSUME w.failed PROVE v.failed /\ \E k \in broken : d \in members[k]
    OBVIOUS
  <2>1. v.failed
    BY <1>6, OutboxFails
  <2>2. PICK i \in 1 .. n : down[d][i].id \in KeygenIds \ K
    BY <1>6
  <2>3. d \in members[down[d][i].id]
    BY <1>7, <2>2, KeyGenAssumption
  <2> QED BY <2>1, <2>2, <2>3
<1>9. ~w.failed => Sends(w, v) /\ v \in Polls(KeygenIds, Replies)
  BY <1>6, OutboxSends
<1>10. /\ \A o \in DOMAIN w.out :
            /\ \E i \in 1 .. n : w.out[o].id = down[d][i].id
            /\ w.out[o].type = "FinalizeKeyGen" => w.out[o].id \in w.saved
       /\ w.prompt \in {prompt[d], None}
  BY <1>1, InboxTasks
<1>11. ~w.failed /\ v.failed => w.saved # {}
  BY <1>9, <1>10 DEF Sends
<1>12. ASSUME NEW k \in KeygenIds, Unsent(k)
       PROVE  Muted(k, M, 0, up[d], <<>>, None)
  <2>1. Muted(k, Line(d), 0, up[d], <<>>, prompt[d])
    BY <1>12 DEF OrderInvariant, Fresh
  <2>2. Rest(Line(d), n, k) = {}
    BY <2>1 DEF Muted, Rest
  <2>3. Muted(k, L, n, U, <<>>, None)
    BY <1>2, <1>3, <2>1, <2>2, KeyGenAssumption DEF Muted
  <2> QED BY <1>2, <1>3, <2>3, DropMuted
<1>13. ASSUME ~v.failed
       PROVE  /\ v.out \in Seq(Answers)
              /\ \A k \in KeygenIds \ broken : d \in members[k] =>
                   Holds(k, d, pending[k], Unsent(k), M, 0, up[d] \o v.out, <<>>, v.prompt, v.phase[k],
                         k \notin keys \/ k \in shares[d] \cup w.saved)
              /\ \A k \in KeygenIds : Unsent(k) => Muted(k, M, 0, up[d] \o v.out, <<>>, v.prompt)
              /\ \A i \in DOMAIN v.out : d \in members[v.out[i].id]
              /\ v.prompt # None => d \in members[v.prompt]
  <2>1. ~w.failed /\ Sends(w, v) /\ v \in Polls(KeygenIds, Replies)
    BY <1>8, <1>9, <1>13
  <2>2. PICK V \in Seq(Answers) : V = v.out
    <3>1. v.out \in Seq(Replies) /\ Replies \subseteq Answers
      BY <2>1 DEF Polls, Replies, Answers
    <3>2. v.out \in Seq(Answers)
      BY <3>1
    <3> QED BY <3>2
  <2>3. ASSUME NEW k \in KeygenIds \ broken, d \in members[k]
        PROVE  Holds(k, d, pending[k], Unsent(k), M, 0, U \o V, <<>>, v.prompt, v.phase[k],
                     k \notin keys \/ k \in shares[d] \cup w.saved)
    <3>1. PICK e \in Entries, un \in BOOLEAN, safe \in BOOLEAN :
            /\ e = pending[k] /\ un = Unsent(k)
            /\ safe = (k \notin keys \/ k \in shares[d] \cup w.saved)
      BY <1>1, AppFacts DEF Unsent
    <3>2. Holds(k, d, e, un, L, n, U, w.out, w.prompt, w.phase[k], safe)
      BY <1>2, <1>3, <1>6, <2>1, <2>3, <3>1 DEF Poised
    <3>3. Holds(k, d, e, un, L, n, U \o v.out, <<>>, v.prompt, v.phase[k], safe)
      BY <1>6, <2>1, <3>2, OutboxHolds
    <3>4. Holds(k, d, e, un, M, 0, U \o v.out, <<>>, v.prompt, v.phase[k], safe)
      BY <1>2, <3>3, DropHolds
    <3> QED BY <2>2, <3>1, <3>4
  <2>4. ASSUME NEW k \in KeygenIds, Unsent(k)
        PROVE  Muted(k, M, 0, U \o V, <<>>, v.prompt)
    <3>1. Muted(k, L, n, U, w.out, w.prompt)
      BY <1>2, <1>3, <1>6, <2>1, <2>4 DEF FreshAt
    <3>2. At(V, k) = {}
      BY <2>1, <2>2, <3>1 DEF Sends, Muted, At
    <3>3. At(U \o V, k) = {}
      BY <3>1, <3>2, AtJoin DEF Muted
    <3>4. v.prompt # k
      BY <2>1, <3>1, KeyGenAssumption DEF Sends, Muted, At
    <3>5. Muted(k, L, n, U \o V, <<>>, v.prompt)
      <4>1. At(<<>>, k) = {}
        BY DEF At
      <4> QED BY <3>1, <3>3, <3>4, <4>1 DEF Muted
    <3> QED BY <1>2, <3>5, DropMuted
  <2>5. ASSUME NEW o \in DOMAIN w.out PROVE d \in members[w.out[o].id]
    <3>1. w.out[o].id \in KeygenIds
      <4>1. w.out \in Seq(Tasks)
        BY <1>6 DEF Polls
      <4>2. w.out[o] \in Tasks
        BY <4>1
      <4> QED BY <4>2 DEF Tasks
    <3> QED BY <1>7, <1>10, <3>1, KeyGenAssumption
  <2>6. \A i \in DOMAIN v.out : d \in members[v.out[i].id]
    BY <2>1, <2>5 DEF Sends
  <2>7. v.prompt # None => d \in members[v.prompt]
    <3>1. prompt[d] # None => d \in members[prompt[d]]
      BY DEF OrderInvariant, Known
    <3> QED BY <1>10, <2>1, <2>5, <3>1 DEF Sends
  <2> QED BY <1>3, <2>2, <2>3, <2>4, <2>6, <2>7
<1> QED BY <1>8, <1>11, <1>12, <1>13

\* A device's poll.
LEMMA DevicePollKeeps ==
  ASSUME OrderInvariant, KeyGenInvariant', NEW d \in Devices, NEW n \in 1 .. MaxInbox,
         DevicePoll(d, n)
  PROVE  OrderInvariant'
<1>1. PICK w, v : w = AfterInbox(d, n) /\ v = AfterOutbox(w)
  OBVIOUS
<1>2. /\ panicked[d] = "no" /\ n \in 1 .. Len(down[d])
      /\ down' = [down EXCEPT ![d] = SubSeq(@, n + 1, Len(@))]
      /\ shares' = [shares EXCEPT ![d] = IF w.failed THEN @ ELSE @ \cup w.saved]
      /\ panicked' = [panicked EXCEPT ![d] = CASE w.failed -> "message"
                                               [] ~w.failed /\ v.failed -> "name"
                                               [] OTHER -> "no"]
      /\ phase' = [phase EXCEPT ![d] = IF v.failed THEN Idle ELSE v.phase]
      /\ prompt' = [prompt EXCEPT ![d] = IF v.failed THEN None ELSE v.prompt]
      /\ up' = [up EXCEPT ![d] = IF v.failed THEN @ ELSE @ \o v.out]
      /\ UNCHANGED <<pending, members, keys, ui, form, outbox, seen, broken>>
  BY <1>1 DEF DevicePoll, coordVars, pageVars, historyVars
<1>3. KeyGenInvariant
  BY DEF OrderInvariant
<1>4. PICK M : M = Line(d)' /\ Dropped(Line(d), n, M)
  BY <1>2, <1>3, LineDrops
<1>5. /\ n \in Nat /\ n <= Len(Line(d))
      /\ \A e \in Devices : e # d => Line(e)' = Line(e)
  BY <1>2, <1>3, LineDrops
<1>6. /\ w.failed => v.failed /\ \E k \in broken : d \in members[k]
      /\ ~w.failed /\ v.failed => w.saved # {}
      /\ \A k \in KeygenIds : Unsent(k) => Muted(k, M, 0, up[d], <<>>, None)
      /\ ~v.failed =>
           /\ v.out \in Seq(Answers)
           /\ \A k \in KeygenIds \ broken : d \in members[k] =>
                Holds(k, d, pending[k], Unsent(k), M, 0, up[d] \o v.out, <<>>, v.prompt, v.phase[k],
                      k \notin keys \/ k \in shares[d] \cup w.saved)
           /\ \A k \in KeygenIds : Unsent(k) => Muted(k, M, 0, up[d] \o v.out, <<>>, v.prompt)
           /\ \A i \in DOMAIN v.out : d \in members[v.out[i].id]
           /\ v.prompt # None => d \in members[v.prompt]
  BY <1>1, <1>2, <1>4, <1>5, PollOutcome
<1>7. /\ \A e \in Devices : e # d => /\ up'[e] = up[e] /\ prompt'[e] = prompt[e] /\ phase'[e] = phase[e]
                                     /\ shares'[e] = shares[e]
      /\ up'[d] = IF v.failed THEN up[d] ELSE up[d] \o v.out
      /\ prompt'[d] = IF v.failed THEN None ELSE v.prompt
      /\ ~v.failed => phase'[d] = v.phase
      /\ shares'[d] = IF w.failed THEN shares[d] ELSE shares[d] \cup w.saved
  BY <1>2, <1>3 DEF KeyGenInvariant, CoordType, DeviceType
<1>8. /\ \A e \in Devices : e # d => panicked'[e] = panicked[e]
      /\ panicked' \in [Devices -> {"no", "message", "name"}]
      /\ w.failed => panicked'[d] = "message"
      /\ ~w.failed /\ v.failed => panicked'[d] = "name"
      /\ ~v.failed => panicked'[d] = "no"
  <2>0. panicked \in [Devices -> {"no", "message", "name"}]
    BY DEF OrderInvariant, Panics
  <2>1. CASE w.failed
    BY <1>2, <1>6, <2>0, <2>1
  <2>2. CASE ~w.failed /\ v.failed
    BY <1>2, <2>0, <2>2
  <2>3. CASE ~w.failed /\ ~v.failed
    BY <1>2, <2>0, <2>3
  <2> QED BY <1>6, <2>1, <2>2, <2>3
<1>10. \A k : Unsent(k)' = Unsent(k)
  BY <1>2 DEF Unsent
<1>11. \A k \in keys : d \in members[k] => \A j \in keys : d \in members[j] => j = k
  BY DEF OrderInvariant, Apart
<1>12. ~w.failed /\ v.failed => \E k \in keys : d \in members[k] /\ k \in shares'[d]
  <2>1. \A k \in shares'[d] : k \in keys /\ d \in members[k]
    BY <1>2 DEF KeyGenInvariant, NoOrphanShare
  <2> QED BY <1>6, <1>7, <2>1
<1>13. AllHold'
  <2> SUFFICES ASSUME NEW k \in KeygenIds \ broken, NEW e \in members[k]
               PROVE  /\ panicked'[e] = "no" =>
                           Holds(k, e, pending[k], Unsent(k)', Line(e)', 0, up'[e], <<>>, prompt'[e],
                                 phase'[e][k], k \notin keys \/ k \in shares'[e])
                      /\ panicked'[e] = "name" => (k \in keys => k \in shares'[e])
    BY <1>2 DEF AllHold
  <2>1. e \in Devices
    BY PairFacts
  <2>2. CASE e # d
    <3>1. PICK un : un = Unsent(k) /\ un = Unsent(k)'
      BY <1>10
    <3>2. panicked'[e] = panicked[e] /\ Line(e)' = Line(e)
      BY <1>5, <1>8, <2>1, <2>2
    <3> QED BY <1>7, <2>1, <2>2, <3>1, <3>2, PairFacts
  <2>3. CASE e = d
    <3>1. CASE w.failed
      BY <1>8, <2>3, <3>1
    <3>2. CASE ~w.failed /\ v.failed
      BY <1>8, <1>11, <1>12, <2>3, <3>2
    <3>3. CASE ~v.failed
      <4>1. Holds(k, d, pending[k], Unsent(k), M, 0, up[d] \o v.out, <<>>, v.prompt, v.phase[k],
                  k \notin keys \/ k \in shares[d] \cup w.saved)
        BY <1>6, <2>3, <3>3
      <4>2. shares'[d] = shares[d] \cup w.saved
        BY <1>6, <1>7, <3>3
      <4>3. PICK un : un = Unsent(k) /\ un = Unsent(k)'
        BY <1>10
      <4> QED BY <1>4, <1>7, <1>8, <2>3, <3>3, <4>1, <4>2, <4>3
    <3> QED BY <3>1, <3>2, <3>3
  <2> QED BY <2>2, <2>3
<1>14. Fresh'
  <2> SUFFICES ASSUME NEW k \in KeygenIds, Unsent(k)
               PROVE  /\ pending[k].state = "responses" /\ pending[k].from = {}
                      /\ \A e \in Devices : Muted(k, Line(e)', 0, up'[e], <<>>, prompt'[e])
    BY <1>2, <1>10 DEF Fresh, Muted
  <2>1. /\ pending[k].state = "responses" /\ pending[k].from = {}
        /\ \A e \in Devices : Muted(k, Line(e), 0, up[e], <<>>, prompt[e])
    BY DEF OrderInvariant, Fresh
  <2>2. Muted(k, Line(d)', 0, up'[d], <<>>, prompt'[d])
    BY <1>4, <1>6, <1>7
  <2> QED BY <1>5, <1>7, <2>1, <2>2
<1>15. Active' /\ OnStack' /\ Apart' /\ Attached' /\ (broken \subseteq KeygenIds)'
  BY <1>2 DEF OrderInvariant, Active, OnStack, Apart, Attached
<1>16. Panics'
  <2>1. \A e \in Devices : e # d => /\ panicked'[e] = "name" => \E k \in keys : e \in members[k]
                                    /\ panicked'[e] = "message" => \E k \in broken : e \in members[k]
    BY <1>8 DEF OrderInvariant, Panics
  <2>2. /\ panicked'[d] = "name" => \E k \in keys : d \in members[k]
        /\ panicked'[d] = "message" => \E k \in broken : d \in members[k]
    BY <1>6, <1>8, <1>12
  <2>3. \A e \in Devices : /\ panicked'[e] = "name" => \E k \in keys : e \in members[k]
                           /\ panicked'[e] = "message" => \E k \in broken : e \in members[k]
    <3> TAKE e \in Devices
    <3>1. CASE e = d
      BY <2>2, <3>1
    <3>2. CASE e # d
      BY <2>1, <3>2
    <3> QED BY <3>1, <3>2
  <2>4. members' = members /\ keys' = keys /\ broken' = broken
    BY <1>2
  <2> QED BY <1>8, <2>3, <2>4 DEF Panics
<1>17. Known'
  <2> SUFFICES ASSUME NEW e \in Devices
               PROVE  /\ \A i \in DOMAIN Line(e)' : Line(e)'[i].id # None => e \in members[Line(e)'[i].id]
                      /\ \A i \in DOMAIN up'[e] : e \in members[up'[e][i].id]
                      /\ prompt'[e] # None => e \in members[prompt'[e]]
    BY <1>2 DEF Known
  <2>1. /\ \A i \in DOMAIN Line(e) : Line(e)[i].id # None => e \in members[Line(e)[i].id]
        /\ \A i \in DOMAIN up[e] : e \in members[up[e][i].id]
        /\ prompt[e] # None => e \in members[prompt[e]]
    BY DEF OrderInvariant, Known
  <2>2. CASE e # d
    BY <1>5, <1>7, <2>1, <2>2
  <2>3. CASE e = d
    <3>1. \A i \in DOMAIN M : M[i].id # None => d \in members[M[i].id]
      <4>1. Line(d) \in Seq(Orders)
        BY <1>3, LineType
      <4>2. \A i \in DOMAIN M : \E j \in DOMAIN Line(d) : M[i] = Line(d)[j]
        <5>1. PICK L \in Seq(Orders) : L = Line(d) /\ n <= Len(L) /\ M = SubSeq(L, n + 1, Len(L))
          BY <1>4, <1>5, <4>1 DEF Dropped
        <5>2. \A i \in DOMAIN M : i + n \in DOMAIN L /\ M[i] = L[i + n]
          BY <1>5, <5>1
        <5> QED BY <5>1, <5>2
      <4> QED BY <2>1, <2>3, <4>2
    <3>2. \A i \in DOMAIN up'[d] : d \in members[up'[d][i].id]
      <4>1. CASE v.failed
        BY <1>7, <2>1, <2>3, <4>1
      <4>2. CASE ~v.failed
        <5>1. up'[d] = up[d] \o v.out /\ \A i \in DOMAIN v.out : d \in members[v.out[i].id]
          BY <1>6, <1>7, <4>2
        <5>3. PICK a \in Seq(Answers) : a = up[d]
          BY <1>3, DeviceFacts
        <5>4. PICK b \in Seq(Answers) : b = v.out
          BY <1>6, <4>2
        <5>5. PICK c : c = a \o b
          OBVIOUS
        <5>6. \A i \in DOMAIN c : (i \in DOMAIN a /\ c[i] = a[i]) \/ \E j \in DOMAIN b : c[i] = b[j]
          BY <5>5, TogetherElements
        <5>7. up'[d] = c /\ \A j \in DOMAIN b : d \in members[b[j].id]
          BY <5>1, <5>3, <5>4, <5>5
        <5>8. \A i \in DOMAIN a : d \in members[a[i].id]
          BY <2>1, <2>3, <5>3
        <5>9. \A i \in DOMAIN c : d \in members[c[i].id]
          BY <5>6, <5>7, <5>8
        <5> QED BY <5>7, <5>9
      <4> QED BY <4>1, <4>2
    <3>3. prompt'[d] # None => d \in members[prompt'[d]]
      BY <1>6, <1>7
    <3> QED BY <1>4, <2>3, <3>1, <3>2, <3>3
  <2> QED BY <2>2, <2>3
<1> QED BY <1>13, <1>14, <1>15, <1>16, <1>17 DEF OrderInvariant

\* The user's answer takes the place of the prompt.
LEMMA ConfirmHolds ==
  ASSUME NEW k \in KeygenIds, NEW d, NEW e \in Entries, NEW unsent, NEW L \in Seq(Orders),
         NEW U \in Seq(Answers), NEW p \in KeygenIds, NEW ph, NEW safe,
         Holds(k, d, e, unsent, L, 0, U, <<>>, p, ph, safe),
         NEW ph2, ph2 = IF p = k THEN "4" ELSE ph
  PROVE  Holds(k, d, e, unsent, L, 0, Append(U, Answer("Ack", p)), <<>>, None, ph2, safe)
<1>1. PICK m \in Answers : m = Answer("Ack", p) /\ m.id = p /\ m.type = "Ack"
  <2>1. Answer("Ack", p) = [type |-> "Ack", id |-> p]
    BY DEF Answer
  <2>2. [type |-> "Ack", id |-> p] \in Answers
    BY DEF Answers
  <2> QED BY <2>1, <2>2
<1>2. PICK V : V = Append(U, m)
  OBVIOUS
<1>3. /\ At(V, k) = IF p = k THEN At(U, k) \cup {Len(U) + 1} ELSE At(U, k)
      /\ V[Len(U) + 1] = m
      /\ \A i \in At(U, k) : V[i] = U[i]
  <2>1. At(V, k) = IF m.id = k THEN At(U, k) \cup {Len(U) + 1} ELSE At(U, k)
    BY <1>2, AtAppend
  <2>2. V[Len(U) + 1] = m
    BY <1>2
  <2>3. \A i \in At(U, k) : V[i] = U[i]
    BY <1>2 DEF At
  <2> QED BY <1>1, <2>1, <2>2, <2>3
<1>4. /\ Lone(k, L, 0, U, <<>>, p) /\ Met(k, L, 0, ph) /\ Kept(k, L, 0, safe)
      /\ Agrees(k, d, e, unsent, L, 0, U, <<>>, p, ph)
  BY DEF Holds
<1>5. At(<<>>, k) = {} /\ None # k
  BY KeyGenAssumption DEF At
<1>6. CASE p # k
  <2>1. Lone(k, L, 0, V, <<>>, None)
    BY <1>3, <1>4, <1>5, <1>6 DEF Lone
  <2>2. Agrees(k, d, e, unsent, L, 0, V, <<>>, None, ph)
    BY <1>3, <1>4, <1>5, <1>6 DEF Agrees
  <2> QED BY <1>1, <1>2, <1>4, <1>6, <2>1, <2>2 DEF Holds
<1>7. CASE p = k
  <2>1. Rest(L, 0, k) = {} /\ At(U, k) = {}
    BY <1>4, <1>7 DEF Lone
  <2>2. At(V, k) = {Len(U) + 1}
    BY <1>3, <1>7, <2>1
  <2>3. Lone(k, L, 0, V, <<>>, None) /\ Met(k, L, 0, "4")
    BY <1>5, <2>1, <2>2 DEF Lone, Met
  <2>4. Agrees(k, d, e, unsent, L, 0, V, <<>>, None, "4")
    <3> SUFFICES ASSUME e.state # "none"
                 PROVE  Agrees(k, d, e, unsent, L, 0, V, <<>>, None, "4")
      BY DEF Agrees
    <3>1. d \notin e.from /\ e.state = "acks"
      BY <1>4, <1>7 DEF Agrees
    <3>2. \A i \in At(V, k) : V[i].type \in Stage[e.state] /\ "4" = Leaves[V[i].type]
      BY <1>1, <1>3, <2>2, <3>1 DEF Stage, Leaves
    <3>3. \A i \in DOMAIN L : i > 0 /\ L[i].type = "Cancel" =>
            unsent \/ \E j \in Rest(L, 0, k) : j > i /\ L[j].type = "Begin"
      BY <1>4, <3>1 DEF Agrees
    <3> QED BY <1>5, <2>1, <3>1, <3>2, <3>3 DEF Agrees
  <2> QED BY <1>1, <1>2, <1>4, <1>7, <2>3, <2>4 DEF Holds
<1> QED BY <1>6, <1>7

\* The user confirms.
LEMMA ConfirmKeeps ==
  ASSUME OrderInvariant, KeyGenInvariant', NEW d \in Devices, KeyGenConfirm(d)
  PROVE  OrderInvariant'
<1>1. PICK p : p = prompt[d]
  OBVIOUS
<1>2. /\ p # None
      /\ phase' = [phase EXCEPT ![d][p] = "4"]
      /\ up' = [up EXCEPT ![d] = Append(@, Answer("Ack", p))]
      /\ prompt' = [prompt EXCEPT ![d] = None]
      /\ UNCHANGED <<pending, members, keys, ui, form, outbox, seen, down, shares, panicked, broken>>
  BY <1>1 DEF KeyGenConfirm, coordVars, pageVars
<1>3. KeyGenInvariant
  BY DEF OrderInvariant
<1>4. p \in KeygenIds
  BY <1>1, <1>2, <1>3, DeviceFacts
<1>5. PICK U \in Seq(Answers) : U = up[d]
  BY <1>3, DeviceFacts
<1>6. PICK m \in Answers : m = Answer("Ack", p) /\ m.id = p
  <2>1. Answer("Ack", p) = [type |-> "Ack", id |-> p]
    BY DEF Answer
  <2>2. [type |-> "Ack", id |-> p] \in Answers
    BY <1>4 DEF Answers
  <2> QED BY <2>1, <2>2
<1>7. /\ up'[d] = Append(U, m) /\ prompt'[d] = None
      /\ \A e \in Devices : e # d => up'[e] = up[e] /\ prompt'[e] = prompt[e] /\ phase'[e] = phase[e]
      /\ \A k \in KeygenIds : phase'[d][k] = IF p = k THEN "4" ELSE phase[d][k]
  <2>1. phase[d] \in Phases
    BY <1>3, DeviceFacts
  <2>2. phase' = [phase EXCEPT ![d] = [phase[d] EXCEPT ![p] = "4"]]
    BY <1>2
  <2>3. \A k \in KeygenIds : [phase[d] EXCEPT ![p] = "4"][k] = IF p = k THEN "4" ELSE phase[d][k]
    BY <2>1 DEF Phases
  <2> QED BY <1>2, <1>3, <1>5, <1>6, <2>2, <2>3 DEF KeyGenInvariant, CoordType, DeviceType
<1>8. /\ \A e \in Devices : Line(e)' = Line(e)
      /\ \A k : Unsent(k)' = Unsent(k)
  BY <1>2 DEF Line, Unsent
<1>9. AllHold'
  <2> SUFFICES ASSUME NEW k \in KeygenIds \ broken, NEW e \in members[k]
               PROVE  /\ panicked[e] = "no" =>
                           Holds(k, e, pending[k], Unsent(k)', Line(e)', 0, up'[e], <<>>, prompt'[e],
                                 phase'[e][k], k \notin keys \/ k \in shares[e])
                      /\ panicked[e] = "name" => (k \in keys => k \in shares[e])
    BY <1>2 DEF AllHold
  <2>1. e \in Devices /\ Line(e)' = Line(e)
    BY <1>8, PairFacts
  <2>2. PICK un : un = Unsent(k) /\ un = Unsent(k)'
    BY <1>8
  <2>3. CASE e # d
    BY <1>7, <2>1, <2>2, <2>3, PairFacts
  <2>4. CASE e = d
    <3>0. PICK x \in Entries, L \in Seq(Orders) : x = pending[k] /\ L = Line(d)
      BY <2>4, PairFacts
    <3>1. PICK safe \in BOOLEAN : safe = (k \notin keys \/ k \in shares[d])
      OBVIOUS
    <3>2. PICK ph : ph = phase[d][k]
      OBVIOUS
    <3>3. panicked[d] = "no" => Holds(k, d, x, un, L, 0, U, <<>>, p, ph, safe)
      BY <1>1, <1>5, <2>2, <2>4, <3>0, <3>1, <3>2, PairFacts
    <3>4. PICK ph2 : ph2 = phase'[d][k] /\ ph2 = IF p = k THEN "4" ELSE ph
      BY <1>7, <3>2
    <3>5. panicked[d] = "no" => Holds(k, d, x, un, L, 0, Append(U, Answer("Ack", p)), <<>>, None, ph2, safe)
      BY <1>4, <3>3, <3>4, ConfirmHolds
    <3> QED BY <1>6, <1>7, <2>1, <2>2, <2>4, <3>0, <3>1, <3>4, <3>5, PairFacts
  <2> QED BY <2>3, <2>4
<1>10. Fresh'
  <2> SUFFICES ASSUME NEW k \in KeygenIds, Unsent(k)
               PROVE  /\ pending[k].state = "responses" /\ pending[k].from = {}
                      /\ \A e \in Devices : Muted(k, Line(e)', 0, up'[e], <<>>, prompt'[e])
    BY <1>2, <1>8 DEF Fresh, Muted
  <2>1. /\ pending[k].state = "responses" /\ pending[k].from = {}
        /\ \A e \in Devices : Muted(k, Line(e), 0, up[e], <<>>, prompt[e])
    BY DEF OrderInvariant, Fresh
  <2>2. Muted(k, Line(d), 0, Append(U, m), <<>>, None)
    <3>1. Muted(k, Line(d), 0, U, <<>>, p)
      BY <1>1, <1>5, <2>1
    <3>2. At(Append(U, m), k) = At(U, k)
      BY <1>6, <3>1, AtAppend DEF Muted
    <3> QED BY <3>1, <3>2, KeyGenAssumption DEF Muted
  <2> QED BY <1>7, <1>8, <2>1, <2>2
<1>11. Active' /\ OnStack' /\ Apart' /\ Attached' /\ Panics' /\ (broken \subseteq KeygenIds)'
  BY <1>2 DEF OrderInvariant, Active, OnStack, Apart, Attached, Panics
<1>12. Known'
  <2> SUFFICES ASSUME NEW e \in Devices
               PROVE  /\ \A i \in DOMAIN Line(e)' : Line(e)'[i].id # None => e \in members[Line(e)'[i].id]
                      /\ \A i \in DOMAIN up'[e] : e \in members[up'[e][i].id]
                      /\ prompt'[e] # None => e \in members[prompt'[e]]
    BY <1>2 DEF Known
  <2>1. /\ \A i \in DOMAIN Line(e) : Line(e)[i].id # None => e \in members[Line(e)[i].id]
        /\ \A i \in DOMAIN up[e] : e \in members[up[e][i].id]
        /\ prompt[e] # None => e \in members[prompt[e]]
    BY DEF OrderInvariant, Known
  <2>2. CASE e # d
    BY <1>7, <1>8, <2>1, <2>2
  <2>3. CASE e = d
    <3>1. PICK V : V = Append(U, m)
      OBVIOUS
    <3>2. \A i \in DOMAIN V : (i \in DOMAIN U /\ V[i] = U[i]) \/ V[i] = m
      BY <3>1
    <3>3. \A i \in DOMAIN V : d \in members[V[i].id]
      BY <1>1, <1>2, <1>5, <1>6, <2>1, <2>3, <3>2
    <3> QED BY SMTT(30), <1>7, <1>8, <2>1, <2>3, <3>1, <3>3
  <2> QED BY <2>2, <2>3
<1> QED BY <1>9, <1>10, <1>11, <1>12 DEF OrderInvariant

----------------------------------------------------------------------------
(* Failures *)

\* The line of a device, with D in its link and q in the outbox.
Behind(D, d, q) == D \o Sent(d, q)

\* When the link of a device is cleared, or the outbox, what is left of its line
\* was on it.
LEMMA LineShortens ==
  ASSUME KeyGenInvariant, NEW d \in Devices,
         NEW D \in {<<>>, down[d]}, NEW q \in {<<>>, outbox}
  PROVE  /\ Behind(D, d, q) \in Seq(Orders) /\ D \in Seq(Orders) /\ q \in Seq(Orders)
         /\ \A i \in DOMAIN Behind(D, d, q) :
              \E j \in DOMAIN Line(d) : Behind(D, d, q)[i] = Line(d)[j]
<1>1. PICK a \in Seq(Orders), b \in Seq(Orders) : a = down[d] /\ b = Sent(d, outbox)
  BY DeviceFacts, AppFacts, SentType
<1>2. PICK s \in Seq(Orders) : s = Sent(d, q) /\ (s = <<>> \/ s = b)
  <2>1. <<>> \in Seq(Orders)
    OBVIOUS
  <2>2. Sent(d, q) = <<>> \/ Sent(d, q) = b
    BY <1>1, SentEmpty
  <2> QED BY <2>1, <2>2
<1>3. PICK t \in Seq(Orders) : t = D /\ (t = <<>> \/ t = a)
  <2>1. <<>> \in Seq(Orders)
    OBVIOUS
  <2> QED BY <1>1, <2>1
<1>4. PICK c : c = a \o b
  OBVIOUS
<1>5. PICK u : u = t \o s
  OBVIOUS
<1>6. u \in Seq(Orders) /\ \A i \in DOMAIN u : (i \in DOMAIN t /\ u[i] = t[i]) \/ \E j \in DOMAIN s : u[i] = s[j]
  BY <1>5, TogetherElements
<1>7. DOMAIN <<>> = {}
  OBVIOUS
<1>8. /\ \A i \in DOMAIN a : i \in DOMAIN c /\ c[i] = a[i]
      /\ \A i \in DOMAIN b : Len(a) + i \in DOMAIN c /\ c[Len(a) + i] = b[i]
  BY <1>4
<1>9. \A i \in DOMAIN u : \E j \in DOMAIN c : u[i] = c[j]
  <2> SUFFICES ASSUME NEW i \in DOMAIN u PROVE \E j \in DOMAIN c : u[i] = c[j]
    OBVIOUS
  <2>1. CASE i \in DOMAIN t /\ u[i] = t[i]
    <3>1. t = a
      BY <1>3, <1>7, <2>1
    <3> QED BY <1>8, <2>1, <3>1
  <2>2. CASE \E j \in DOMAIN s : u[i] = s[j]
    <3>1. s = b
      BY <1>2, <1>7, <2>2
    <3> QED BY <1>8, <2>2, <3>1
  <2> QED BY <1>6, <2>1, <2>2
<1>10. Line(d) = c
  BY <1>1, <1>4 DEF Line
<1>11. q \in Seq(Orders)
  <2>1. <<>> \in Seq(Orders)
    OBVIOUS
  <2> QED BY <2>1, AppFacts
<1>12. Behind(D, d, q) = u
  BY <1>2, <1>3, <1>5 DEF Behind
<1> QED BY <1>3, <1>6, <1>9, <1>10, <1>11, <1>12

\* A device loses its link and its memory, and what it is a member of is broken.
LEMMA RebootKeeps ==
  ASSUME OrderInvariant, KeyGenInvariant', NEW d \in Devices, Rebooted({d}),
         down' = [down EXCEPT ![d] = <<>>], up' = [up EXCEPT ![d] = <<>>],
         UNCHANGED <<pending, members, keys, ui, form>>,
         broken \subseteq broken', broken' \subseteq KeygenIds,
         \A k \in KeygenIds \ broken' : d \notin members[k] /\ members[k] \subseteq seen',
         outbox' = outbox \/ outbox' = Append(outbox, Preview({d}))
  PROVE  OrderInvariant'
<1>1. KeyGenInvariant /\ panicked \in [Devices -> {"no", "message", "name"}]
  BY DEF OrderInvariant, Panics
<1>2. /\ up'[d] = <<>> /\ prompt'[d] = None /\ panicked'[d] = "no" /\ down'[d] = <<>>
      /\ \A e \in Devices : e # d =>
           /\ up'[e] = up[e] /\ prompt'[e] = prompt[e] /\ phase'[e] = phase[e]
           /\ panicked'[e] = panicked[e] /\ down'[e] = down[e]
      /\ panicked' \in [Devices -> {"no", "message", "name"}]
      /\ shares' = shares
  BY <1>1, DeviceFacts DEF Rebooted
<1>3. PICK m \in Orders : m = Preview({d}) /\ m.id = None /\ m.type = "Preview" /\ m.to = {d}
  <2>1. Preview({d}) = [type |-> "Preview", id |-> None, to |-> {d}]
    BY DEF Preview, Message
  <2>2. [type |-> "Preview", id |-> None, to |-> {d}] \in Orders
    BY DEF Orders
  <2> QED BY <2>1, <2>2
<1>4. ASSUME NEW e \in Devices, e # d PROVE Line(e)' = Line(e)
  <2>1. Sent(e, outbox') = Sent(e, outbox)
    <3>1. PICK q \in Seq(Orders) : q = outbox
      BY <1>1, AppFacts
    <3>2. Sent(e, Append(q, m)) = Sent(e, q)
      BY <1>3, <1>4, SentAppend
    <3> QED BY <1>3, <3>1, <3>2
  <2> QED BY <1>2, <1>4, <2>1 DEF Line
<1>5. \A i \in DOMAIN Line(d)' : Line(d)'[i].id = None \/ \E j \in DOMAIN Line(d) : Line(d)'[i] = Line(d)[j]
  <2>1. PICK M : M = <<>> \o Sent(d, outbox)
    OBVIOUS
  <2>2. /\ M \in Seq(Orders) /\ <<>> \in Seq(Orders) /\ outbox \in Seq(Orders)
        /\ \A i \in DOMAIN M : \E j \in DOMAIN Line(d) : M[i] = Line(d)[j]
    <3>1. PICK D \in {<<>>, down[d]} : D = <<>>
      OBVIOUS
    <3>2. PICK q \in {<<>>, outbox} : q = outbox
      OBVIOUS
    <3>3. M = Behind(D, d, q)
      BY <2>1, <3>1, <3>2 DEF Behind
    <3>4. /\ M \in Seq(Orders) /\ D \in Seq(Orders) /\ q \in Seq(Orders)
          /\ \A i \in DOMAIN M : \E j \in DOMAIN Line(d) : M[i] = Line(d)[j]
      <4>1. Behind(D, d, q) \in Seq(Orders)
        BY <1>1, LineShortens
      <4>2. D \in Seq(Orders) /\ q \in Seq(Orders)
        BY <1>1, <4>1, LineShortens
      <4>3. \A i \in DOMAIN Behind(D, d, q) :
              \E j \in DOMAIN Line(d) : Behind(D, d, q)[i] = Line(d)[j]
        BY <1>1, LineShortens
      <4> QED BY SMTT(30), <3>3, <4>1, <4>2, <4>3
    <3> QED BY <3>1, <3>2, <3>4
  <2>3. Line(d)' = <<>> \o Sent(d, outbox')
    BY <1>2 DEF Line
  <2>4. Extends(M, <<>> \o Sent(d, outbox), FALSE)
    BY <2>1, <2>2, ExtendsSelf
  <2>5. Extends(M, Line(d)', FALSE)
    <3>1. PICK D \in Seq(Orders) : D = <<>>
      BY <2>2
    <3>2. Extends(M, D \o Sent(d, outbox), FALSE)
      BY <2>4, <3>1
    <3>3. Extends(M, D \o Sent(d, Append(outbox, m)), FALSE)
      BY <1>3, <2>2, <3>2, LineExtends
    <3> QED BY <1>3, <2>3, <3>1, <3>2, <3>3
  <2>6. \A i \in DOMAIN Line(d)' : Line(d)'[i].id = None \/ (i \in DOMAIN M /\ Line(d)'[i] = M[i])
    BY <2>2, <2>5 DEF Extends
  <2> QED BY <2>2, <2>6
<1>6. \A k : Unsent(k)' = Unsent(k)
  BY DEF Unsent
<1>7. AllHold'
  <2> SUFFICES ASSUME NEW k \in KeygenIds \ broken', NEW e \in members[k]
               PROVE  /\ panicked'[e] = "no" =>
                           Holds(k, e, pending[k], Unsent(k)', Line(e)', 0, up'[e], <<>>, prompt'[e],
                                 phase'[e][k], k \notin keys \/ k \in shares'[e])
                      /\ panicked'[e] = "name" => (k \in keys => k \in shares'[e])
    BY DEF AllHold
  <2>1. k \in KeygenIds \ broken /\ e # d /\ e \in Devices
    BY PairFacts
  <2>2. PICK un : un = Unsent(k) /\ un = Unsent(k)'
    BY <1>6
  <2>3. PICK L : L = Line(e) /\ L = Line(e)'
    BY <1>4, <2>1
  <2>4. panicked'[e] = panicked[e] /\ up'[e] = up[e] /\ prompt'[e] = prompt[e] /\ phase'[e] = phase[e]
    BY <1>2, <2>1
  <2>5. shares'[e] = shares[e]
    BY <1>2
  <2> QED BY <2>1, <2>2, <2>3, <2>4, <2>5, PairFacts
<1>8. Fresh'
  <2> SUFFICES ASSUME NEW k \in KeygenIds, Unsent(k)
               PROVE  /\ pending[k].state = "responses" /\ pending[k].from = {}
                      /\ \A e \in Devices : Muted(k, Line(e)', 0, up'[e], <<>>, prompt'[e])
    BY <1>6 DEF Fresh, Muted
  <2>1. /\ pending[k].state = "responses" /\ pending[k].from = {}
        /\ \A e \in Devices : Muted(k, Line(e), 0, up[e], <<>>, prompt[e])
    BY DEF OrderInvariant, Fresh
  <2>2. Muted(k, Line(d)', 0, up'[d], <<>>, prompt'[d])
    <3>1. Muted(k, Line(d), 0, up[d], <<>>, prompt[d])
      BY <2>1
    <3>2. \A j \in DOMAIN Line(d) : Line(d)[j].id # k
      <4>1. Line(d) \in Seq(Orders)
        BY <1>1, LineType
      <4>2. \A j \in DOMAIN Line(d) : j > 0
        BY <4>1
      <4> QED BY <3>1, <4>2 DEF Muted, Rest
    <3>3. Rest(Line(d)', 0, k) = {}
      BY <1>5, <3>2, KeyGenAssumption DEF Rest
    <3>4. At(<<>>, k) = {}
      BY DEF At
    <3> QED BY <1>2, <3>3, <3>4, KeyGenAssumption DEF Muted
  <2> QED BY <1>2, <1>4, <2>1, <2>2
<1>9. Active' /\ OnStack' /\ Apart' /\ Attached' /\ (broken \subseteq KeygenIds)'
  BY DEF OrderInvariant, Active, OnStack, Apart, Attached
<1>10. Panics'
  <2>1. ASSUME NEW e \in Devices
        PROVE  /\ panicked'[e] = "name" => \E k \in keys : e \in members[k]
               /\ panicked'[e] = "message" => \E k \in broken : e \in members[k]
    BY <1>2 DEF OrderInvariant, Panics
  <2>2. members' = members /\ keys' = keys
    OBVIOUS
  <2> QED BY <1>2, <2>1, <2>2 DEF Panics
<1>11. Known'
  <2> SUFFICES ASSUME NEW e \in Devices
               PROVE  /\ \A i \in DOMAIN Line(e)' : Line(e)'[i].id # None => e \in members[Line(e)'[i].id]
                      /\ \A i \in DOMAIN up'[e] : e \in members[up'[e][i].id]
                      /\ prompt'[e] # None => e \in members[prompt'[e]]
    BY DEF Known
  <2>1. /\ \A i \in DOMAIN Line(e) : Line(e)[i].id # None => e \in members[Line(e)[i].id]
        /\ \A i \in DOMAIN up[e] : e \in members[up[e][i].id]
        /\ prompt[e] # None => e \in members[prompt[e]]
    BY DEF OrderInvariant, Known
  <2>2. DOMAIN <<>> = {}
    OBVIOUS
  <2> QED BY <1>2, <1>4, <1>5, <2>1, <2>2
<1> QED BY <1>7, <1>8, <1>9, <1>10, <1>11 DEF OrderInvariant

\* What fails breaks the key generations of the devices it concerns.
LEMMA FailuresKeep ==
  ASSUME OrderInvariant, KeyGenInvariant', (\E d \in Devices : Unplug(d) \/ Connect(d)) \/ AppCrash
  PROVE  OrderInvariant'
<1>0. KeyGenInvariant /\ broken \subseteq KeygenIds
  BY DEF OrderInvariant
<1>1. ASSUME NEW d \in Devices, Unplug(d)
      PROVE  OrderInvariant'
  <2>1. /\ Rebooted({d}) /\ down' = [down EXCEPT ![d] = <<>>] /\ up' = [up EXCEPT ![d] = <<>>]
        /\ broken' = broken \cup Joined({d}) /\ outbox' = outbox /\ seen' = seen
        /\ UNCHANGED <<pending, members, keys, ui, form>>
    BY <1>1 DEF Unplug, coordVars, pageVars
  <2>2. broken' \subseteq KeygenIds /\ \A k \in KeygenIds \ broken' : k \notin broken /\ d \notin members[k]
    BY <1>0, <2>1 DEF Joined
  <2>3. \A k \in KeygenIds \ broken' : members[k] \subseteq seen'
    BY <2>1, <2>2 DEF OrderInvariant, Attached
  <2> QED BY <2>1, <2>2, <2>3, RebootKeeps
<1>2. ASSUME NEW d \in Devices, Connect(d)
      PROVE  OrderInvariant'
  <2>1. /\ Rebooted({d}) /\ down' = [down EXCEPT ![d] = <<>>] /\ up' = [up EXCEPT ![d] = <<>>]
        /\ broken' = broken /\ d \notin seen /\ seen' = seen \cup {d}
        /\ outbox' = outbox \/ outbox' = Append(outbox, Preview({d}))
        /\ UNCHANGED <<pending, members, keys, ui, form>>
    BY <1>2 DEF Connect, coordVars, pageVars, historyVars
  <2>2. \A k \in KeygenIds \ broken' : d \notin members[k] /\ members[k] \subseteq seen'
    BY <2>1 DEF OrderInvariant, Attached
  <2> QED BY <1>0, <2>1, <2>2, RebootKeeps
<1>3. CASE AppCrash
  <2>1. /\ pending' = [k \in KeygenIds |-> NoKeygen]
        /\ ui' = None /\ outbox' = <<>> /\ down' = down
        /\ up' = [d \in Devices |-> <<>>]
        /\ broken' = broken \cup Joined(Devices)
        /\ UNCHANGED <<members, keys, phase, prompt, shares, panicked>>
    BY <1>3 DEF AppCrash, deviceVars
  <2>2. \A k \in KeygenIds \ broken' : members[k] = {}
    BY <1>0, <2>1, AppFacts DEF Joined
  <2>3. AllHold' /\ Attached'
    BY <2>1, <2>2 DEF AllHold, Attached
  <2>4. Fresh' /\ OnStack'
    BY <2>1 DEF Fresh, Unsent, OnStack
  <2>5. Active'
    BY <2>1 DEF Active, NoKeygen
  <2>6. Apart' /\ Panics' /\ (broken \subseteq KeygenIds)'
    BY <2>1 DEF OrderInvariant, Apart, Panics, Joined
  <2>7. Known'
    <3> SUFFICES ASSUME NEW e \in Devices
                 PROVE  /\ \A i \in DOMAIN Line(e)' : Line(e)'[i].id # None => e \in members[Line(e)'[i].id]
                        /\ \A i \in DOMAIN up'[e] : e \in members[up'[e][i].id]
                        /\ prompt[e] # None => e \in members[prompt[e]]
      BY <2>1 DEF Known
    <3>1. /\ \A i \in DOMAIN Line(e) : Line(e)[i].id # None => e \in members[Line(e)[i].id]
          /\ prompt[e] # None => e \in members[prompt[e]]
      BY DEF OrderInvariant, Known
    <3>2. Line(e)' = down[e] \o Sent(e, <<>>)
      BY <2>1 DEF Line
    <3>3. PICK M : M = down[e] \o Sent(e, <<>>)
      OBVIOUS
    <3>4. \A i \in DOMAIN M : \E j \in DOMAIN Line(e) : M[i] = Line(e)[j]
      <4>1. M = Behind(down[e], e, <<>>)
        BY <3>3 DEF Behind
      <4> QED BY <1>0, <4>1, LineShortens
    <3>5. DOMAIN <<>> = {} /\ up'[e] = <<>>
      BY <2>1
    <3> QED BY <3>1, <3>2, <3>3, <3>4, <3>5
  <2> QED BY <2>3, <2>4, <2>5, <2>6, <2>7 DEF OrderInvariant
<1> QED BY <1>1, <1>2, <1>3

----------------------------------------------------------------------------
(* The answers of an iteration *)

\* What is about k behind the first answer.
Behindhand(U, V) == V = Tail(U)

LEMMA AtTail ==
  ASSUME NEW U \in Seq(Answers), U # <<>>, NEW V, Behindhand(U, V), NEW k
  PROVE  /\ V \in Seq(Answers)
         /\ \A x \in At(V, k) : x + 1 \in At(U, k) /\ V[x] = U[x + 1] /\ x \in Nat /\ x + 1 # 1
<1>1. /\ Len(U) \in Nat /\ Len(U) >= 1 /\ DOMAIN U = 1 .. Len(U)
      /\ V \in Seq(Answers) /\ Len(V) = Len(U) - 1
      /\ \A i \in 1 .. Len(V) : V[i] = U[i + 1]
  BY DEF Behindhand
<1>2. DOMAIN V = 1 .. Len(V) /\ \A i \in 1 .. Len(V) : i + 1 \in 1 .. Len(U) /\ i + 1 # 1 /\ i \in Nat
  BY <1>1
<1>3. \A x \in At(V, k) : x + 1 \in At(U, k) /\ V[x] = U[x + 1] /\ x \in Nat /\ x + 1 # 1
  BY <1>1, <1>2 DEF At
<1> QED BY <1>1, <1>3

\* The answer that is taken.
LEMMA FirstAnswer ==
  ASSUME NEW U \in Seq(Answers), U # <<>>
  PROVE  1 \in DOMAIN U /\ Head(U) = U[1] /\ Head(U) \in Answers
OBVIOUS

\* The app takes an answer that is about another key generation, or k is given up.
LEMMA TailHolds ==
  ASSUME NEW k, NEW d, NEW e, NEW unsent, NEW L, NEW n,
         NEW U \in Seq(Answers), U # <<>>, NEW p, NEW ph, NEW safe,
         Holds(k, d, e, unsent, L, n, U, <<>>, p, ph, safe),
         NEW f, f = e \/ f.state = "none"
  PROVE  Holds(k, d, f, unsent, L, n, Tail(U), <<>>, p, ph, safe)
<1>1. PICK V : V = Tail(U)
  OBVIOUS
<1>2. \A x \in At(V, k) : x + 1 \in At(U, k) /\ V[x] = U[x + 1] /\ x \in Nat
  <2>1. Behindhand(U, V)
    BY <1>1 DEF Behindhand
  <2> QED BY <2>1, AtTail
<1>3. Lone(k, L, n, U, <<>>, p) /\ Met(k, L, n, ph) /\ Kept(k, L, n, safe)
      /\ Agrees(k, d, e, unsent, L, n, U, <<>>, p, ph)
  BY DEF Holds
<1>4. Lone(k, L, n, V, <<>>, p)
  <2>1. At(U, k) = {} => At(V, k) = {}
    BY <1>2
  <2>2. \A i, j \in At(V, k) : i = j
    <3> SUFFICES ASSUME NEW i \in At(V, k), NEW j \in At(V, k) PROVE i = j
      OBVIOUS
    <3>1. i + 1 = j + 1
      BY <1>2, <1>3 DEF Lone
    <3> QED BY <1>2, <3>1
  <2> QED BY <1>3, <2>1, <2>2 DEF Lone
<1>5. Agrees(k, d, f, unsent, L, n, V, <<>>, p, ph)
  <2> SUFFICES ASSUME f.state # "none", f = e PROVE Agrees(k, d, e, unsent, L, n, V, <<>>, p, ph)
    BY DEF Agrees
  <2>1. \A i \in At(V, k) : d \notin e.from /\ V[i].type \in Stage[e.state] /\ ph = Leaves[V[i].type]
    BY <1>2, <1>3 DEF Agrees
  <2> QED BY <1>3, <2>1 DEF Agrees
<1> QED BY <1>1, <1>3, <1>4, <1>5 DEF Holds

\* The entry changes for other devices, or is dropped.
LEMMA EntryHolds ==
  ASSUME NEW k, NEW d, NEW e, NEW unsent, NEW L, NEW n, NEW U, NEW O, NEW p, NEW ph, NEW safe,
         Holds(k, d, e, unsent, L, n, U, O, p, ph, safe),
         NEW f, (f.state = e.state /\ (d \in f.from <=> d \in e.from)) \/ f.state = "none"
  PROVE  Holds(k, d, f, unsent, L, n, U, O, p, ph, safe)
<1>1. Agrees(k, d, e, unsent, L, n, U, O, p, ph)
  BY DEF Holds
<1>2. Agrees(k, d, f, unsent, L, n, U, O, p, ph)
  <2>1. CASE f.state = "none"
    BY <2>1 DEF Agrees
  <2>2. CASE f.state = e.state /\ (d \in f.from <=> d \in e.from)
    BY <1>1, <2>2 DEF Agrees
  <2> QED BY <2>1, <2>2
<1> QED BY <1>2 DEF Holds

\* A member that has answered: nothing of k is under way for it, and no Cancel.
Quiet(k, L, U, p, ph, safe, stage) ==
  /\ safe /\ ph = Reaches[stage]
  /\ Rest(L, 0, k) = {} /\ At(U, k) = {} /\ p # k
  /\ \A i \in DOMAIN L : i > 0 => L[i].type # "Cancel"

\* The member whose answer is taken is one.
LEMMA QuietAnswer ==
  ASSUME NEW k, NEW d, NEW e \in Entries, NEW L, NEW U \in Seq(Answers), U # <<>>, NEW p, NEW ph,
         NEW safe,
         Holds(k, d, e, FALSE, L, 0, U, <<>>, p, ph, safe),
         Head(U).id = k, e.state = Expects[Head(U).type]
  PROVE  Quiet(k, L, Tail(U), p, ph, safe, e.state)
<1>1. PICK V : V = Tail(U)
  OBVIOUS
<1>2. /\ 1 \in DOMAIN U /\ Head(U) = U[1]
      /\ \A x \in At(V, k) : x + 1 \in At(U, k) /\ x + 1 # 1
  <2>1. Behindhand(U, V)
    BY <1>1 DEF Behindhand
  <2>2. \A x \in At(V, k) : x + 1 \in At(U, k) /\ x + 1 # 1
    BY <2>1, AtTail
  <2> QED BY <2>2, FirstAnswer
<1>3. Lone(k, L, 0, U, <<>>, p) /\ Agrees(k, d, e, FALSE, L, 0, U, <<>>, p, ph) /\ Kept(k, L, 0, safe)
  BY DEF Holds
<1>4. 1 \in At(U, k)
  BY <1>2 DEF At
<1>5. At(V, k) = {} /\ Rest(L, 0, k) = {} /\ p # k
  BY <1>2, <1>3, <1>4 DEF Lone
<1>6. U[1].type \in {"Response", "Certify", "Ack"}
  <2>1. U[1] \in Answers
    BY <1>2
  <2> QED BY <2>1 DEF Answers
<1>7. e.state # "none" /\ ph = Leaves[U[1].type]
  BY <1>2, <1>3, <1>4, <1>6 DEF Agrees, Expects
<1>8. ph = Reaches[e.state]
  BY <1>2, <1>6, <1>7 DEF Leaves, Reaches, Expects
<1>9. \A i \in DOMAIN L : i > 0 => L[i].type # "Cancel"
  BY <1>3, <1>5, <1>7 DEF Agrees
<1>10. safe
  BY <1>3, <1>5 DEF Kept
<1> QED BY <1>1, <1>5, <1>8, <1>9, <1>10 DEF Quiet

\* So is a member that is counted.
LEMMA QuietFrom ==
  ASSUME NEW k, NEW d, NEW e \in Entries, NEW L, NEW U, NEW p, NEW ph, NEW safe,
         Holds(k, d, e, FALSE, L, 0, U, <<>>, p, ph, safe),
         e.state # "none", d \in e.from
  PROVE  Quiet(k, L, U, p, ph, safe, e.state)
<1>1. Agrees(k, d, e, FALSE, L, 0, U, <<>>, p, ph) /\ Kept(k, L, 0, safe)
  BY DEF Holds
<1>2. Rest(L, 0, k) = {} /\ At(U, k) = {} /\ p # k /\ ph = Reaches[e.state]
  BY <1>1 DEF Agrees
<1> QED BY <1>1, <1>2 DEF Quiet, Agrees, Kept

\* It stays one when the app waits for others.
LEMMA QuietHolds ==
  ASSUME NEW k, NEW d, NEW f, NEW L, NEW U, NEW p, NEW ph, NEW safe,
         NEW stage, Quiet(k, L, U, p, ph, safe, stage),
         f.state # "none" => Reaches[f.state] = Reaches[stage]
  PROVE  Holds(k, d, f, FALSE, L, 0, U, <<>>, p, ph, safe)
<1>1. At(<<>>, k) = {}
  BY DEF At
<1> QED BY <1>1 DEF Quiet, Holds, Lone, Met, Agrees, Kept

\* The app asks for the next answer.
LEMMA QuietAsks ==
  ASSUME NEW k \in KeygenIds, NEW d, NEW f \in Entries, NEW L \in Seq(Orders), NEW U, NEW p,
         NEW ph, NEW safe,
         NEW stage, Quiet(k, L, U, p, ph, safe, stage), f.from = {},
         NEW m \in Orders, m.id = k,
         \/ f.state = "certificates" /\ m.type = "CertifyPlease" /\ stage = "responses"
         \/ f.state = "acks" /\ m.type = "Check" /\ stage = "certificates"
  PROVE  Holds(k, d, f, FALSE, Append(L, m), 0, U, <<>>, p, ph, safe)
<1>1. 0 <= Len(L) /\ 0 \in Nat
  OBVIOUS
<1>2. /\ ph = Meets[m.type] /\ m.type \in Stage[f.state] /\ d \notin f.from
      /\ Rest(L, 0, k) = {} /\ At(U, k) = {} /\ p # k
      /\ \A j \in DOMAIN L : j > 0 => L[j].type # "Cancel"
  BY DEF Quiet, Meets, Stage, Reaches
<1>3. safe \/ m.type = "Finalize"
  BY DEF Quiet
<1> QED BY <1>1, <1>2, <1>3, OwnMessage

\* What is left of a device's answers when those of S have been polled.
Polled(S, d) == IF d \in S THEN Tail(up[d]) ELSE up[d]

\* Two of the states of the coordinator between which it takes the first message
\* m of d: it is the last that was missing, one of them, or it is refused.
Takes(d, m, s, t) ==
  /\ t \in [pending : [KeygenIds -> Entries], out : Seq(FollowUps)]
  /\ \A j \in KeygenIds : j # m.id => t.pending[j] = s.pending[j]
  /\ \/ /\ s.pending[m.id].state = Expects[m.type]
        /\ members[m.id] = s.pending[m.id].from \cup {d}
        /\ t.pending[m.id] = [state |-> Advances[m.type], from |-> {}]
        /\ \/ m.type = "Response" /\ t.out = Append(s.out, Message("CertifyPlease", m.id, members[m.id]))
           \/ m.type = "Certify" /\ t.out = Append(s.out, Message("Check", m.id, members[m.id]))
           \/ m.type = "Ack" /\ t.out = s.out
     \/ /\ s.pending[m.id].state = Expects[m.type]
        /\ t.pending[m.id].state = s.pending[m.id].state
        /\ t.pending[m.id].from = s.pending[m.id].from \cup {d}
        /\ t.out = s.out
     \/ /\ t.pending[m.id] = s.pending[m.id] \/ t.pending[m.id].state = "none"
        /\ t.out = s.out

\* recv_device_message is one of the three.
LEMMA RecvTakes ==
  ASSUME KeyGenInvariant, NEW d \in Readable,
         NEW s \in [pending : [KeygenIds -> Entries], out : Seq(FollowUps)]
  PROVE  Takes(d, Head(up[d]), s, RecvDeviceMessage(d, s))
<1>0. d \in Devices /\ up[d] \in Seq(Answers) /\ up[d] # <<>>
  BY DEF Readable, KeyGenInvariant, CoordType
<1>1. PICK m \in Answers : m = Head(up[d])
  BY <1>0, FirstAnswer
<1>2. PICK k \in KeygenIds : k = m.id
  BY DEF Answers
<1>3. PICK type \in {"Response", "Certify", "Ack"} : type = m.type
  BY DEF Answers
<1>4. s.pending \in [KeygenIds -> Entries] /\ s.out \in Seq(FollowUps) /\ s.pending[k] \in Entries
      /\ members[k] \in SUBSET Devices
  BY AppFacts
<1> DEFINE from == s.pending[k].from \cup {d}
           accepted == Accepts(s.pending[k], d, members[k], type)
<1>5. accepted => s.pending[k].state = Expects[type]
  BY DEF Accepts
<1>6. PICK t : t = RecvDeviceMessage(d, s)
  OBVIOUS
<1>7. CASE accepted /\ from = members[k]
  <2> DEFINE e == [state |-> Advances[type], from |-> {}]
             more == [n \in DOMAIN FollowUp[type] |-> Message(FollowUp[type][n], k, members[k])]
             p == [s.pending EXCEPT ![k] = e]
  <2>1. t = [pending |-> p, out |-> s.out \o more]
    BY <1>1, <1>2, <1>3, <1>6, <1>7 DEF RecvDeviceMessage
  <2>2. e \in Entries
    BY DEF Advances, Entries
  <2>3. p \in [KeygenIds -> Entries] /\ p[k] = e /\ \A j \in KeygenIds : j # k => p[j] = s.pending[j]
    BY <1>4, <2>2
  <2>4. \/ type = "Response" /\ s.out \o more = Append(s.out, Message("CertifyPlease", k, members[k]))
        \/ type = "Certify" /\ s.out \o more = Append(s.out, Message("Check", k, members[k]))
        \/ type = "Ack" /\ s.out \o more = s.out
    <3>1. CASE type = "Ack"
      <4>1. more = <<>>
        BY <3>1 DEF FollowUp
      <4> HIDE DEF more
      <4> QED BY <1>4, <3>1, <4>1
    <3>2. CASE type = "Response"
      <4>1. FollowUp[type] = <<"CertifyPlease">>
        BY <3>2 DEF FollowUp
      <4>2. more = <<Message("CertifyPlease", k, members[k])>>
        BY <4>1
      <4>3. PICK x : x = Message("CertifyPlease", k, members[k])
        OBVIOUS
      <4>4. s.out \o <<x>> = Append(s.out, x)
        BY <1>4
      <4> HIDE DEF more
      <4> QED BY <3>2, <4>2, <4>3, <4>4
    <3>3. CASE type = "Certify"
      <4>1. FollowUp[type] = <<"Check">>
        BY <3>3 DEF FollowUp
      <4>2. more = <<Message("Check", k, members[k])>>
        BY <4>1
      <4>3. PICK x : x = Message("Check", k, members[k])
        OBVIOUS
      <4>4. s.out \o <<x>> = Append(s.out, x)
        BY <1>4
      <4> HIDE DEF more
      <4> QED BY <3>3, <4>2, <4>3, <4>4
    <3> QED BY <3>1, <3>2, <3>3
  <2>5. t.pending = p /\ t.out = s.out \o more
    BY <2>1
  <2>8. s.out \o more \in Seq(FollowUps)
    <3>1. \A x \in {"CertifyPlease", "Check"} : Message(x, k, members[k]) \in FollowUps
      BY <1>4 DEF Message, FollowUps
    <3>2. \A r \in FollowUps : Append(s.out, r) \in Seq(FollowUps)
      BY <1>4
    <3> HIDE DEF more
    <3> QED BY <1>4, <2>4, <3>1, <3>2
  <2>9. t \in [pending : [KeygenIds -> Entries], out : Seq(FollowUps)]
    <3> HIDE DEF p, more
    <3> QED BY <2>1, <2>3, <2>8
  <2>6. s.pending[k].state = Expects[type] /\ members[k] = s.pending[k].from \cup {d}
    BY <1>5, <1>7
  <2> HIDE DEF p, more
  <2>7. Takes(d, m, s, t)
    BY <1>2, <1>3, <2>3, <2>4, <2>5, <2>6, <2>9 DEF Takes
  <2> QED BY <1>1, <1>6, <2>7
<1>8. CASE accepted /\ from # members[k]
  <2> DEFINE e == [s.pending[k] EXCEPT !.from = from]
             p == [s.pending EXCEPT ![k] = e]
  <2>1. t = [s EXCEPT !.pending = p]
    BY <1>1, <1>2, <1>3, <1>6, <1>8 DEF RecvDeviceMessage
  <2>2. e \in Entries /\ e.state = s.pending[k].state /\ e.from = from
    BY <1>0, <1>4 DEF Entries
  <2>3. p \in [KeygenIds -> Entries] /\ p[k] = e /\ \A j \in KeygenIds : j # k => p[j] = s.pending[j]
    BY <1>4, <2>2
  <2>4. t.pending = p /\ t.out = s.out
    BY <2>1
  <2>6. t \in [pending : [KeygenIds -> Entries], out : Seq(FollowUps)]
    <3> HIDE DEF p
    <3> QED BY <2>1, <2>3
  <2> HIDE DEF p, e
  <2>5. Takes(d, m, s, t)
    BY <1>2, <1>3, <1>5, <1>8, <2>2, <2>3, <2>4, <2>6 DEF Takes
  <2> QED BY <1>1, <1>6, <2>5
<1>9. CASE ~accepted
  <2> DEFINE e == IF type = "Ack" /\ s.pending[k].state = "acks" THEN s.pending[k] ELSE NoKeygen
             p == [s.pending EXCEPT ![k] = e]
  <2>1. t = [s EXCEPT !.pending = p]
    BY <1>1, <1>2, <1>3, <1>6, <1>9 DEF RecvDeviceMessage
  <2>2. e \in Entries /\ (e = s.pending[k] \/ e.state = "none")
    BY <1>4 DEF Entries, NoKeygen
  <2>3. p \in [KeygenIds -> Entries] /\ p[k] = e /\ \A j \in KeygenIds : j # k => p[j] = s.pending[j]
    BY <1>4, <2>2
  <2>4. t.pending = p /\ t.out = s.out
    BY <2>1
  <2>6. t \in [pending : [KeygenIds -> Entries], out : Seq(FollowUps)]
    <3> HIDE DEF p
    <3> QED BY <2>1, <2>3
  <2> HIDE DEF p, e
  <2>5. Takes(d, m, s, t)
    BY <1>2, <1>3, <2>2, <2>3, <2>4, <2>6 DEF Takes
  <2> QED BY <1>1, <1>6, <2>5
<1> QED BY <1>7, <1>8, <1>9

\* The member whose answer is taken, when others are missing.
LEMMA AnswerHolds ==
  ASSUME NEW k, NEW d, NEW e \in Entries, NEW L, NEW U \in Seq(Answers), U # <<>>, NEW p, NEW ph,
         NEW safe,
         Holds(k, d, e, FALSE, L, 0, U, <<>>, p, ph, safe),
         Head(U).id = k, e.state = Expects[Head(U).type], NEW f, f.state = e.state
  PROVE  Holds(k, d, f, FALSE, L, 0, Tail(U), <<>>, p, ph, safe)
<1>1. Quiet(k, L, Tail(U), p, ph, safe, e.state)
  BY QuietAnswer
<1> QED BY <1>1, QuietHolds

\* A member when the last answer is taken: it has answered, and is asked for the
\* next answer.
LEMMA AllAnswered ==
  ASSUME NEW k \in KeygenIds, NEW d, NEW L \in Seq(Orders), NEW U, NEW p, NEW ph, NEW safe,
         NEW type \in {"Response", "Certify", "Ack"}, Quiet(k, L, U, p, ph, safe, Expects[type]),
         NEW f \in Entries, f.state = Advances[type], f.from = {},
         NEW m, m \in FollowUps, m.id = k,
         type = "Response" => m.type = "CertifyPlease", type = "Certify" => m.type = "Check"
  PROVE  Holds(k, d, f, FALSE, IF type = "Ack" THEN L ELSE Append(L, m), 0, U, <<>>, p, ph, safe)
<1>1. m \in Orders
  BY DEF FollowUps, Orders
<1>2. CASE type = "Ack"
  <2>1. Reaches[f.state] = Reaches[Expects[type]]
    BY <1>2 DEF Reaches, Expects, Advances
  <2> QED BY <1>2, <2>1, QuietHolds
<1>3. CASE type = "Response"
  <2>1. f.state = "certificates" /\ Expects[type] = "responses" /\ m.type = "CertifyPlease"
    BY <1>3 DEF Reaches, Expects, Advances
  <2> QED BY <1>1, <1>3, <2>1, QuietAsks
<1>4. CASE type = "Certify"
  <2>1. f.state = "acks" /\ Expects[type] = "certificates" /\ m.type = "Check"
    BY <1>4 DEF Reaches, Expects, Advances
  <2> QED BY <1>1, <1>4, <2>1, QuietAsks
<1> QED BY <1>2, <1>3, <1>4

\* The coordinator when the answers of S are taken: the app agrees with the
\* members, and what it will send is behind what is sent.
Taken(S, s) ==
  /\ s \in [pending : [KeygenIds -> Entries], out : Seq(FollowUps)]
  /\ \A i \in DOMAIN s.out : s.out[i].to = members[s.out[i].id]
  /\ \A k \in KeygenIds : s.pending[k].state # "none" => pending[k].state # "none"
  /\ \A k \in KeygenIds : Unsent(k) =>
       s.pending[k] = pending[k] /\ \A i \in DOMAIN s.out : s.out[i].id # k
  /\ \A k \in KeygenIds \ broken : \A d \in members[k] : panicked[d] = "no" =>
       Holds(k, d, s.pending[k], Unsent(k), Line(d) \o Sent(d, s.out), 0, Polled(S, d), <<>>, prompt[d],
             phase[d][k], k \notin keys \/ k \in shares[d])

\* The line of a device when more is sent.
LEMMA LineAppend ==
  ASSUME NEW D \in Seq(Orders), NEW d, NEW q \in Seq(Orders), NEW m \in Orders
  PROVE  D \o Sent(d, Append(q, m)) = IF d \in m.to THEN Append(D \o Sent(d, q), m) ELSE D \o Sent(d, q)
<1>1. PICK s \in Seq(Orders) : s = Sent(d, q)
  BY SentType
<1>2. D \o Append(s, m) = Append(D \o s, m)
  OBVIOUS
<1> QED BY <1>1, <1>2, SentAppend

\* What the taking of c's answer m leaves of d and k.
LEMMA TakesHolds ==
  ASSUME OrderInvariant, NEW T \in SUBSET Devices, NEW c \in Readable, c \notin T,
         NEW s, Taken(T, s), NEW m, m = Head(up[c]), ~Unsent(m.id),
         NEW t, Takes(c, m, s, t),
         NEW k \in KeygenIds \ broken, NEW d \in members[k], panicked[d] = "no"
  PROVE  Holds(k, d, t.pending[k], Unsent(k), Line(d) \o Sent(d, t.out), 0, Polled(T \cup {c}, d), <<>>,
               prompt[d], phase[d][k], k \notin keys \/ k \in shares[d])
<1>1. PICK unsent \in BOOLEAN : unsent = Unsent(k)
  BY DEF Unsent
<1>2. PICK safe \in BOOLEAN : safe = (k \notin keys \/ k \in shares[d])
  OBVIOUS
<1>3. PICK p, ph : p = prompt[d] /\ ph = phase[d][k]
  OBVIOUS
<1>4. /\ s.pending[k] \in Entries /\ t.pending[k] \in Entries /\ s.out \in Seq(FollowUps)
      /\ s.out \in Seq(Orders) /\ t.out \in Seq(Orders)
  <2>1. FollowUps \subseteq Orders
    BY DEF FollowUps, Orders
  <2>2. s.pending \in [KeygenIds -> Entries] /\ s.out \in Seq(FollowUps)
    BY DEF Taken
  <2>3. t.pending \in [KeygenIds -> Entries] /\ t.out \in Seq(FollowUps)
    BY DEF Takes
  <2>4. s.out \in Seq(Orders)
    BY <2>1, <2>2
  <2>5. t.out \in Seq(Orders)
    BY <2>1, <2>3
  <2> QED BY <2>2, <2>3, <2>4, <2>5
<1>5. PICK e, f : e = s.pending[k] /\ f = t.pending[k] /\ e \in Entries /\ f \in Entries
  BY <1>4
<1>6. Line(d) \in Seq(Orders) /\ d \in Devices /\ up[d] \in Seq(Answers)
  BY PairFacts
<1>7. PICK L : L = Line(d) \o Sent(d, s.out) /\ L \in Seq(Orders)
  <2>1. PICK q \in Seq(Orders) : q = Sent(d, s.out)
    BY <1>4, SentType
  <2>2. Line(d) \o q \in Seq(Orders)
    BY <1>6
  <2> QED BY <2>1, <2>2
<1>8. PICK M : M = Line(d) \o Sent(d, t.out)
  OBVIOUS
<1>9. PICK U, V : U = Polled(T, d) /\ V = Polled(T \cup {c}, d)
  OBVIOUS
<1>10. Holds(k, d, e, unsent, L, 0, U, <<>>, p, ph, safe)
  BY <1>1, <1>2, <1>3, <1>5, <1>7, <1>9 DEF Taken
<1>11. /\ d = c => U \in Seq(Answers) /\ U # <<>> /\ m = Head(U) /\ V = Tail(U)
       /\ d # c => V = U
  BY <1>6, <1>9 DEF Polled, Readable
<1>12. m \in Answers
  <2>1. c \in Devices /\ up[c] \in Seq(Answers) /\ up[c] # <<>>
    BY DeviceFacts, AppFacts DEF Readable, OrderInvariant
  <2> QED BY <2>1, FirstAnswer
\* An answer that changes nothing of k.
<1>13. ASSUME f = e \/ f.state = "none", M = L
       PROVE  Holds(k, d, f, unsent, M, 0, V, <<>>, p, ph, safe)
  <2>1. CASE d = c
    <3>1. Holds(k, d, f, unsent, L, 0, Tail(U), <<>>, p, ph, safe)
      BY <1>10, <1>11, <1>13, <2>1, TailHolds
    <3> QED BY <1>11, <1>13, <2>1, <3>1
  <2>2. CASE d # c
    BY <1>10, <1>11, <1>13, <2>2, EntryHolds
  <2> QED BY <2>1, <2>2
<1>14. CASE t.out = s.out /\ (f = e \/ f.state = "none")
  BY <1>1, <1>2, <1>3, <1>5, <1>7, <1>8, <1>9, <1>13, <1>14
<1>15. CASE /\ k = m.id /\ t.out = s.out /\ e.state = Expects[m.type]
            /\ f.state = e.state /\ f.from = e.from \cup {c}
  <2>1. unsent = FALSE
    BY <1>1, <1>15
  <2>2. Holds(k, d, e, FALSE, L, 0, U, <<>>, p, ph, safe)
    BY <1>10, <2>1
  <2>3. Holds(k, d, f, FALSE, L, 0, V, <<>>, p, ph, safe)
    <3>1. CASE d = c
      <4>1. Holds(k, d, f, FALSE, L, 0, Tail(U), <<>>, p, ph, safe)
        BY <1>5, <1>11, <1>15, <2>2, <3>1, AnswerHolds, ZenonT(40)
      <4> QED BY <1>11, <3>1, <4>1
    <3>2. CASE d # c
      <4>1. d \in f.from <=> d \in e.from
        BY <1>15, <3>2
      <4>2. Holds(k, d, f, FALSE, L, 0, U, <<>>, p, ph, safe)
        BY <1>15, <2>2, <4>1, EntryHolds
      <4> QED BY <1>11, <3>2, <4>2
    <3> QED BY <3>1, <3>2
  <2> QED BY <1>1, <1>2, <1>3, <1>5, <1>7, <1>8, <1>9, <1>15, <2>1, <2>3
<1>16. ASSUME NEW r, r \in FollowUps, r.to = members[m.id], r.id = m.id, t.out = Append(s.out, r)
       PROVE  M = IF k = m.id \/ d \in members[m.id] THEN Append(L, r) ELSE L
  <2>1. r \in Orders
    BY <1>16 DEF FollowUps, Orders
  <2>2. M = IF d \in r.to THEN Append(L, r) ELSE L
    <3>1. PICK q \in Seq(Orders) : q = s.out
      BY <1>4
    <3>2. Line(d) \o Sent(d, Append(q, r)) = IF d \in r.to THEN Append(Line(d) \o Sent(d, q), r)
                                             ELSE Line(d) \o Sent(d, q)
      BY <1>6, <2>1, LineAppend
    <3> QED BY <1>7, <1>8, <1>16, <3>1, <3>2
  <2> QED BY <1>16, <2>2
<1>17. CASE k # m.id /\ t.out # s.out
  <2>1. /\ f = e
        /\ \/ t.out = Append(s.out, Message("CertifyPlease", m.id, members[m.id]))
           \/ t.out = Append(s.out, Message("Check", m.id, members[m.id]))
    BY <1>5, <1>17 DEF Takes
  <2>2. PICK r : /\ r = Message("CertifyPlease", m.id, members[m.id]) \/ r = Message("Check", m.id, members[m.id])
                 /\ t.out = Append(s.out, r)
    BY <2>1
  <2>3. m.id \in KeygenIds /\ members[m.id] \subseteq Devices
    BY <1>12, AppFacts DEF Answers, OrderInvariant
  <2>4. r \in FollowUps /\ r.to = members[m.id] /\ r.id = m.id /\ r.type # "Cancel"
    BY <2>2, <2>3 DEF Message, FollowUps
  <2>5. M = Append(L, r) \/ M = L
    BY <1>16, <2>2, <2>4
  <2>6. Holds(k, d, f, unsent, L, 0, V, <<>>, p, ph, safe)
    <3>1. CASE d = c
      BY <1>10, <1>11, <2>1, <3>1, TailHolds
    <3>2. CASE d # c
      BY <1>10, <1>11, <2>1, <3>2
    <3> QED BY <3>1, <3>2
  <2>7. Holds(k, d, f, unsent, Append(L, r), 0, V, <<>>, p, ph, safe)
    <3>1. r \in Orders /\ r.id # k
      BY <1>17, <2>4 DEF FollowUps, Orders
    <3>2. 0 \in Nat /\ 0 <= Len(L)
      BY <1>7
    <3> QED BY <1>5, <1>7, <2>4, <2>6, <3>1, <3>2, OtherMessage
  <2> QED BY <1>1, <1>2, <1>3, <1>5, <1>8, <1>9, <2>5, <2>6, <2>7
<1>18. CASE /\ k = m.id /\ e.state = Expects[m.type] /\ members[k] = e.from \cup {c}
            /\ f = [state |-> Advances[m.type], from |-> {}]
            /\ \/ m.type = "Response" /\ t.out = Append(s.out, Message("CertifyPlease", m.id, members[m.id]))
               \/ m.type = "Certify" /\ t.out = Append(s.out, Message("Check", m.id, members[m.id]))
               \/ m.type = "Ack" /\ t.out = s.out
  <2>1. unsent = FALSE
    BY <1>1, <1>18
  <2>2. Holds(k, d, e, FALSE, L, 0, U, <<>>, p, ph, safe)
    BY <1>10, <2>1
  <2>3. PICK type \in {"Response", "Certify", "Ack"} : type = m.type
    BY <1>12 DEF Answers
  <2>4. Quiet(k, L, V, p, ph, safe, e.state)
    <3>1. CASE d = c
      <4>0. U \in Seq(Answers) /\ U # <<>> /\ Head(U).id = k /\ e.state = Expects[Head(U).type]
        BY <1>11, <1>18, <3>1
      <4>1. Quiet(k, L, Tail(U), p, ph, safe, e.state)
        BY <1>5, <2>2, <4>0, QuietAnswer
      <4> QED BY <1>11, <3>1, <4>1
    <3>2. CASE d # c
      <4>1. d \in e.from /\ e.state # "none"
        BY <1>18, <2>3, <3>2 DEF Expects
      <4>2. Quiet(k, L, U, p, ph, safe, e.state)
        BY <1>5, <2>2, <4>1, QuietFrom
      <4> QED BY <1>11, <3>2, <4>2
    <3> QED BY <3>1, <3>2
  <2>5. PICK r : r = Message(IF type = "Response" THEN "CertifyPlease" ELSE "Check", k, members[k])
    OBVIOUS
  <2>6. members[k] \subseteq Devices
    BY AppFacts DEF OrderInvariant
  <2>7. /\ r \in FollowUps /\ r.id = k /\ r.to = members[k]
        /\ type = "Response" => r.type = "CertifyPlease"
        /\ type = "Certify" => r.type = "Check"
    BY <2>5, <2>6 DEF Message, FollowUps
  <2>8. f.state = Advances[type] /\ f.from = {} /\ Quiet(k, L, V, p, ph, safe, Expects[type])
    BY <1>18, <2>3, <2>4
  <2>9. Holds(k, d, f, FALSE, IF type = "Ack" THEN L ELSE Append(L, r), 0, V, <<>>, p, ph, safe)
    BY <1>5, <1>7, <2>7, <2>8, AllAnswered
  <2>10. M = IF type = "Ack" THEN L ELSE Append(L, r)
    <3>1. CASE type = "Ack"
      BY <1>7, <1>8, <1>18, <2>3, <3>1
    <3>2. CASE type # "Ack"
      <4>1. t.out = Append(s.out, r)
        BY <1>18, <2>3, <2>5, <3>2
      <4> QED BY <1>16, <1>18, <2>7, <3>2, <4>1
    <3> QED BY <3>1, <3>2
  <2>11. Holds(k, d, f, unsent, M, 0, V, <<>>, p, ph, safe)
    BY <2>1, <2>9, <2>10
  <2> QED BY <1>1, <1>2, <1>3, <1>5, <1>8, <1>9, <2>11
<1> QED BY <1>5, <1>14, <1>15, <1>17, <1>18 DEF Takes

\* An answer that is taken is of a key generation that has begun on the devices.
LEMMA AnswersBegan ==
  ASSUME OrderInvariant, NEW c \in Readable, NEW m, m = Head(up[c])
  PROVE  ~Unsent(m.id)
<1>1. c \in Devices /\ up[c] \in Seq(Answers) /\ up[c] # <<>>
  BY DeviceFacts, AppFacts DEF Readable, OrderInvariant
<1>2. 1 \in DOMAIN up[c] /\ m = up[c][1] /\ m \in Answers
  BY <1>1, FirstAnswer
<1>3. m.id \in KeygenIds
  BY <1>2 DEF Answers
<1> SUFFICES ASSUME Unsent(m.id) PROVE FALSE
  OBVIOUS
<1>4. Muted(m.id, Line(c), 0, up[c], <<>>, prompt[c])
  BY <1>1, <1>3 DEF OrderInvariant, Fresh
<1>5. At(up[c], m.id) = {}
  BY <1>4 DEF Muted
<1> QED BY <1>2, <1>5 DEF At

\* So the app and the members agree after each answer.
LEMMA TakesKeep ==
  ASSUME OrderInvariant, NEW T \in SUBSET Devices, NEW c \in Readable, c \notin T, NEW s,
         Taken(T, s)
  PROVE  Taken(T \cup {c}, RecvDeviceMessage(c, s))
<1>1. PICK t : t = RecvDeviceMessage(c, s)
  OBVIOUS
<1>2. KeyGenInvariant /\ s \in [pending : [KeygenIds -> Entries], out : Seq(FollowUps)]
  BY DEF OrderInvariant, Taken
<1>3. PICK m : m = Head(up[c])
  OBVIOUS
<1>4. Takes(c, m, s, t)
  BY <1>1, <1>2, <1>3, RecvTakes
<1>5. ~Unsent(m.id)
  BY <1>3, AnswersBegan
<1>6. m \in Answers /\ m.id \in KeygenIds
  <2>1. c \in Devices /\ up[c] \in Seq(Answers) /\ up[c] # <<>>
    BY DeviceFacts, AppFacts DEF Readable, OrderInvariant
  <2>2. m \in Answers
    BY <1>3, <2>1, FirstAnswer
  <2> QED BY <2>2 DEF Answers
<1>7. t \in [pending : [KeygenIds -> Entries], out : Seq(FollowUps)]
  BY <1>4 DEF Takes
<1>8. \/ t.out = s.out
      \/ \E r \in FollowUps : r.id = m.id /\ r.to = members[m.id] /\ t.out = Append(s.out, r)
  <2>1. members[m.id] \subseteq Devices
    BY <1>2, <1>6, AppFacts
  <2>2. \A type \in {"CertifyPlease", "Check"} :
          /\ Message(type, m.id, members[m.id]) \in FollowUps
          /\ Message(type, m.id, members[m.id]).id = m.id
          /\ Message(type, m.id, members[m.id]).to = members[m.id]
    BY <1>6, <2>1 DEF Message, FollowUps
  <2> QED BY <1>4, <2>2 DEF Takes
<1>9. \A i \in DOMAIN t.out : \/ i \in DOMAIN s.out /\ t.out[i] = s.out[i]
                              \/ t.out[i].id = m.id /\ t.out[i].to = members[m.id]
  <2>1. PICK q \in Seq(FollowUps) : q = s.out
    BY <1>2
  <2>2. \A r \in FollowUps : \A i \in DOMAIN Append(q, r) :
          (i \in DOMAIN q /\ Append(q, r)[i] = q[i]) \/ Append(q, r)[i] = r
    OBVIOUS
  <2>3. CASE t.out = s.out
    BY <2>3
  <2>4. ASSUME NEW r \in FollowUps, r.id = m.id, r.to = members[m.id], t.out = Append(s.out, r)
        PROVE  \A i \in DOMAIN t.out : \/ i \in DOMAIN s.out /\ t.out[i] = s.out[i]
                                       \/ t.out[i].id = m.id /\ t.out[i].to = members[m.id]
    BY <2>1, <2>2, <2>4
  <2> QED BY <1>8, <2>3, <2>4
<1>10. \A i \in DOMAIN t.out : t.out[i].to = members[t.out[i].id]
  BY <1>9 DEF Taken
<1>11. s.pending[m.id].state # "none" \/ t.pending[m.id] = s.pending[m.id] \/ t.pending[m.id].state = "none"
  <2>1. m.type \in {"Response", "Certify", "Ack"}
    BY <1>6 DEF Answers
  <2>2. Expects[m.type] # "none"
    BY <2>1 DEF Expects
  <2> QED BY <1>4, <2>2 DEF Takes
<1>12. \A k \in KeygenIds : t.pending[k].state # "none" => pending[k].state # "none"
  BY <1>4, <1>11 DEF Taken, Takes
<1>13. \A k \in KeygenIds : Unsent(k) =>
         t.pending[k] = pending[k] /\ \A i \in DOMAIN t.out : t.out[i].id # k
  BY <1>4, <1>5, <1>9 DEF Taken, Takes
<1>15. \A k \in KeygenIds \ broken : \A d \in members[k] : panicked[d] = "no" =>
         Holds(k, d, t.pending[k], Unsent(k), Line(d) \o Sent(d, t.out), 0, Polled(T \cup {c}, d), <<>>,
               prompt[d], phase[d][k], k \notin keys \/ k \in shares[d])
  <2> SUFFICES ASSUME NEW k \in KeygenIds \ broken, NEW d \in members[k], panicked[d] = "no"
               PROVE  Holds(k, d, t.pending[k], Unsent(k), Line(d) \o Sent(d, t.out), 0,
                            Polled(T \cup {c}, d), <<>>, prompt[d], phase[d][k],
                            k \notin keys \/ k \in shares[d])
    OBVIOUS
  <2> QED BY <1>3, <1>4, <1>5, TakesHolds
<1>16. Taken(T \cup {c}, t)
  BY <1>7, <1>10, <1>12, <1>13, <1>15 DEF Taken
<1> QED BY <1>1, <1>16

\* After all of them.
LEMMA ReceivedTaken ==
  ASSUME OrderInvariant, NEW R \in SUBSET Readable
  PROVE  Taken(R, Received(R))
<1>1. R \subseteq Devices /\ IsFiniteSet(R)
  <2>1. R \subseteq Devices
    BY DEF Readable, OrderInvariant, KeyGenInvariant, CoordType
  <2> QED BY <2>1, KeyGenAssumption, FS_Subset
<1>2. PICK g : /\ g[{}] = [pending |-> pending, out |-> <<>>]
               /\ \A s \in SUBSET R : s # {} =>
                    g[s] = RecvDeviceMessage(Chosen(s), g[s \ {Chosen(s)}])
               /\ Received(R) = g[R]
  BY <1>1, ReceivedUnfolds
<1> DEFINE G == {s \in SUBSET R : Taken(s, g[s])}
<1>3. {} \in G
  <2>1. PICK b : b = [pending |-> pending, out |-> <<>>]
    OBVIOUS
  <2>2. b.pending = pending /\ b.out = <<>> /\ b \in [pending : [KeygenIds -> Entries], out : Seq(FollowUps)]
    BY <2>1, AppFacts DEF OrderInvariant
  <2>3. ASSUME NEW k \in KeygenIds \ broken, NEW d \in members[k], panicked[d] = "no"
        PROVE  Holds(k, d, b.pending[k], Unsent(k), Line(d) \o Sent(d, b.out), 0, Polled({}, d), <<>>,
                     prompt[d], phase[d][k], k \notin keys \/ k \in shares[d])
    <3>1. Line(d) \in Seq(Orders)
      BY PairFacts
    <3>2. Line(d) \o Sent(d, b.out) = Line(d)
      <4>1. Sent(d, b.out) = <<>>
        BY <2>2, SentEmpty
      <4>2. Line(d) \o <<>> = Line(d)
        BY <3>1
      <4> QED BY <4>1, <4>2
    <3>3. Holds(k, d, pending[k], Unsent(k), Line(d), 0, up[d], <<>>, prompt[d], phase[d][k],
                k \notin keys \/ k \in shares[d])
      BY <2>3, PairFacts
    <3> QED BY <2>2, <3>2, <3>3 DEF Polled
  <2>4. Taken({}, b)
    BY <2>2, <2>3 DEF Taken
  <2> QED BY <1>2, <2>1, <2>4
<1>4. ASSUME NEW s \in SUBSET R, s # {}, s \ {CHOOSE x \in s : TRUE} \in G
      PROVE  s \in G
  <2>1. PICK c : c = Chosen(s)
    OBVIOUS
  <2>2. c \in s /\ c \in Readable
    BY <1>4, <2>1 DEF Chosen
  <2>3. PICK T : T = s \ {c}
    OBVIOUS
  <2>4. Taken(T, g[T]) /\ T \in SUBSET Devices /\ c \notin T
    BY <1>1, <1>4, <2>1, <2>3 DEF Chosen
  <2>5. Taken(T \cup {c}, RecvDeviceMessage(c, g[T]))
    BY <2>2, <2>4, TakesKeep
  <2>6. T \cup {c} = s /\ RecvDeviceMessage(c, g[T]) = g[s]
    BY <1>2, <1>4, <2>1, <2>2, <2>3
  <2> QED BY <2>5, <2>6
<1>5. R \in G
  <2> HIDE DEF G
  <2> QED BY <1>1, <1>3, <1>4, OnSubsets
<1> QED BY <1>2, <1>5

\* Begin, which is sent when the protocol is on the stack and has not sent it.
Begins(first) ==
  \/ ui # None /\ ui.send /\ first = <<Message("Begin", ui.id, members[ui.id])>>
  \/ ~ (ui # None /\ ui.send) /\ first = <<>>

\* It is for the key generation on the stack, which is the only one not sent.
LEMMA BeginType ==
  ASSUME OrderInvariant, NEW first, Begins(first)
  PROVE  \/ first = <<>> /\ \A k \in KeygenIds : ~Unsent(k)
         \/ \E m \in Orders : /\ first = <<m>> /\ m.type = "Begin" /\ m.to = members[m.id] /\ m.id = ui.id
                              /\ Unsent(m.id) /\ \A k \in KeygenIds : k # m.id => ~Unsent(k)
<1>1. CASE ui # None /\ ui.send /\ first = <<Message("Begin", ui.id, members[ui.id])>>
  <2>1. ui.id \in KeygenIds
    BY <1>1, AppFacts DEF OrderInvariant
  <2>2. members[ui.id] \in SUBSET Devices
    BY <2>1, AppFacts DEF OrderInvariant
  <2>3. PICK m : m = Message("Begin", ui.id, members[ui.id])
    OBVIOUS
  <2>4. m \in Orders /\ m.type = "Begin" /\ m.to = members[m.id] /\ m.id = ui.id
    BY <2>1, <2>2, <2>3 DEF Message, Orders
  <2>5. Unsent(m.id) /\ \A k \in KeygenIds : k # m.id => ~Unsent(k)
    BY <1>1, <2>4 DEF Unsent
  <2>6. first = <<m>>
    BY <1>1, <2>3
  <2> QED BY <2>4, <2>5, <2>6
<1>2. CASE ~ (ui # None /\ ui.send) /\ first = <<>>
  BY <1>2 DEF Unsent
<1> QED BY <1>1, <1>2 DEF Begins

\* The app and the members still agree when Begin is sent.
LEMMA BeginHolds ==
  ASSUME OrderInvariant, NEW R \in SUBSET Readable, NEW s, Taken(R, s), NEW first, Begins(first),
         NEW k \in KeygenIds \ broken, NEW d \in members[k], panicked[d] = "no"
  PROVE  Holds(k, d, s.pending[k], FALSE, Line(d) \o Sent(d, s.out \o first), 0, Polled(R, d), <<>>,
               prompt[d], phase[d][k], k \notin keys \/ k \in shares[d])
<1>1. PICK unsent \in BOOLEAN : unsent = Unsent(k)
  BY DEF Unsent
<1>2. PICK safe \in BOOLEAN : safe = (k \notin keys \/ k \in shares[d])
  OBVIOUS
<1>3. PICK p, ph, U, e : p = prompt[d] /\ ph = phase[d][k] /\ U = Polled(R, d) /\ e = s.pending[k]
  OBVIOUS
<1>4. e \in Entries /\ s.out \in Seq(FollowUps)
  BY <1>3 DEF Taken
<1>5. PICK q \in Seq(Orders) : q = s.out
  <2>1. FollowUps \subseteq Orders
    BY DEF FollowUps, Orders
  <2> QED BY <1>4, <2>1
<1>6. Line(d) \in Seq(Orders) /\ d \in Devices /\ up[d] \in Seq(Answers)
  BY PairFacts
<1>7. PICK L : L = Line(d) \o Sent(d, q) /\ L \in Seq(Orders)
  <2>1. PICK r \in Seq(Orders) : r = Sent(d, q)
    BY SentType
  <2>2. Line(d) \o r \in Seq(Orders)
    BY <1>6
  <2> QED BY <2>1, <2>2
<1>8. PICK M : M = Line(d) \o Sent(d, q \o first)
  OBVIOUS
<1>9. Holds(k, d, e, unsent, L, 0, U, <<>>, p, ph, safe)
  BY <1>1, <1>2, <1>3, <1>5, <1>7 DEF Taken
<1>10. 0 \in Nat /\ 0 <= Len(L)
  BY <1>7
<1>11. ASSUME NEW m \in Orders, first = <<m>>
       PROVE  M = IF d \in m.to THEN Append(L, m) ELSE L
  <2>1. q \o first = Append(q, m)
    BY <1>11
  <2>2. Line(d) \o Sent(d, Append(q, m)) = IF d \in m.to THEN Append(Line(d) \o Sent(d, q), m)
                                           ELSE Line(d) \o Sent(d, q)
    BY <1>6, LineAppend, SMTT(30)
  <2> QED BY <1>7, <1>8, <2>1, <2>2
<1>12. CASE first = <<>> /\ ~unsent
  <2>1. q \o first = q /\ unsent = FALSE
    BY <1>12
  <2>2. M = L
    BY <1>7, <1>8, <2>1
  <2>3. Holds(k, d, e, FALSE, M, 0, U, <<>>, p, ph, safe)
    BY <1>9, <2>1, <2>2
  <2> QED BY <1>2, <1>3, <1>5, <1>8, <2>3
<1>13. ASSUME NEW m \in Orders, first = <<m>>, m.type = "Begin", m.id # k, ~unsent
       PROVE  Holds(k, d, e, FALSE, M, 0, U, <<>>, p, ph, safe)
  <2>1. unsent = FALSE
    BY <1>13
  <2>2. Holds(k, d, e, FALSE, L, 0, U, <<>>, p, ph, safe)
    BY <1>9, <2>1
  <2>3. m.type # "Cancel"
    BY <1>13
  <2>4. Holds(k, d, e, FALSE, Append(L, m), 0, U, <<>>, p, ph, safe)
    BY <1>4, <1>7, <1>10, <1>13, <2>2, <2>3, OtherMessage
  <2> QED BY <1>11, <1>13, <2>2, <2>4
<1>14. ASSUME NEW m \in Orders, first = <<m>>, m.type = "Begin", m.id = k, m.to = members[k],
              Unsent(k)
       PROVE  Holds(k, d, e, FALSE, M, 0, U, <<>>, p, ph, safe)
  <2>1. /\ e = pending[k] /\ e.state = "responses" /\ e.from = {}
        /\ Muted(k, Line(d), 0, up[d], <<>>, p)
        /\ \A i \in DOMAIN q : q[i].id # k
    BY <1>3, <1>5, <1>6, <1>14 DEF OrderInvariant, Fresh, Taken
  <2>2. k \notin keys
    BY <2>1 DEF OrderInvariant, Active
  <2>3. Rest(L, 0, k) = {}
    <3>1. PICK r \in Seq(Orders) : r = Sent(d, q) /\ \A j \in DOMAIN r : r[j].id # k
      BY <2>1, SentType
    <3>2. PICK D \in Seq(Orders) : D = Line(d) /\ \A j \in DOMAIN D : D[j].id # k
      <4>1. Rest(Line(d), 0, k) = {}
        BY <2>1 DEF Muted
      <4>2. \A j \in DOMAIN Line(d) : j > 0
        BY <1>6
      <4> QED BY <1>6, <4>1, <4>2 DEF Rest
    <3>3. \A i \in DOMAIN (D \o r) : \/ i \in DOMAIN D /\ (D \o r)[i] = D[i]
                                     \/ \E j \in DOMAIN r : (D \o r)[i] = r[j]
      BY TogetherElements
    <3>4. \A i \in DOMAIN L : L[i].id # k
      BY <1>7, <3>1, <3>2, <3>3
    <3> QED BY <3>4 DEF Rest
  <2>4. At(U, k) = {} /\ p # k
    <3>1. At(up[d], k) = {} /\ p # k
      BY <2>1 DEF Muted
    <3>2. CASE d \in R
      <4>1. up[d] # <<>> /\ U = Tail(up[d])
        BY <1>3, <3>2 DEF Polled, Readable
      <4>2. Behindhand(up[d], U)
        BY <4>1 DEF Behindhand
      <4>3. \A x \in At(U, k) : x + 1 \in At(up[d], k)
        BY <1>6, <4>1, <4>2, AtTail
      <4> QED BY <3>1, <4>3
    <3>3. CASE d \notin R
      BY <1>3, <3>1, <3>3 DEF Polled
    <3> QED BY <3>1, <3>2, <3>3
  <2>5. d \notin e.from /\ m.type \in Stage[e.state]
    BY <1>14, <2>1 DEF Stage
  <2>6. safe \/ m.type = "Finalize"
    BY <1>2, <2>2
  <2>7. Holds(k, d, e, FALSE, Append(L, m), 0, U, <<>>, p, ph, safe)
    BY <1>4, <1>7, <1>10, <1>14, <2>3, <2>4, <2>5, <2>6, OwnMessage
  <2> QED BY <1>11, <1>14, <2>7
<1>15. CASE first # <<>> \/ unsent
  <2>1. PICK m \in Orders : /\ first = <<m>> /\ m.type = "Begin" /\ m.to = members[m.id]
                            /\ Unsent(m.id) /\ \A j \in KeygenIds : j # m.id => ~Unsent(j)
    BY <1>1, <1>15, BeginType
  <2>2. Holds(k, d, e, FALSE, M, 0, U, <<>>, p, ph, safe)
    BY <1>1, <1>13, <1>14, <2>1
  <2> QED BY <1>2, <1>3, <1>5, <1>8, <2>2
<1> QED BY <1>12, <1>15

\* What an iteration makes of the stack, and of what it sends.
Iterates(R, early, gone, stack, s, first, last, sends) ==
  /\ gone = seen \ plugged /\ s = Received(R) /\ Taken(R, s) /\ Begins(first)
  /\ stack = Disconnected(gone) /\ (stack = None <=> ui = None)
  /\ stack # None => /\ stack \in Protocols /\ stack.id = ui.id
                     /\ stack.finished = ui.finished
                     /\ stack.aborted => ui.aborted \/ ui.id \in Joined(gone)
  /\ sends = (stack # None /\ stack.aborted /\ ~stack.finished)
  /\ last = IF sends THEN CancelAll(early) ELSE <<>>
  /\ seen' = seen \ gone /\ up' = [d \in Devices |-> Polled(R, d)]
  /\ down' = [d \in Devices |-> IF d \in seen \ gone THEN Line(d) ELSE down[d]]
  /\ pending' = s.pending /\ outbox' = (s.out \o first) \o last
  /\ ui' = IF stack = None \/ stack.aborted \/ stack.finished THEN None
           ELSE [stack EXCEPT !.send = FALSE]
  /\ broken' = broken \cup Joined(gone)
  /\ UNCHANGED <<members, keys, form, phase, prompt, shares, panicked>>

\* An iteration does just that.
LEMMA Iterated ==
  ASSUME OrderInvariant, NEW R \in SUBSET Readable, NEW early \in BOOLEAN, Iterate(R, early)
  PROVE  \E gone, stack, s, first, last : \E sends \in BOOLEAN :
           Iterates(R, early, gone, stack, s, first, last, sends)
<1> DEFINE gone == seen \ plugged
           stack == Disconnected(gone)
           s == Received(R)
           begins == stack # None /\ stack.send
           sends == stack # None /\ stack.aborted /\ ~stack.finished
           completes == stack # None /\ (stack.aborted \/ stack.finished)
           first == IF begins THEN <<Message("Begin", stack.id, members[stack.id])>> ELSE <<>>
           last == IF sends THEN CancelAll(early) ELSE <<>>
<1>1. /\ seen' = seen \ gone
      /\ up' = [d \in Devices |-> IF d \in R THEN Tail(up[d]) ELSE up[d]]
      /\ down' = [d \in Devices |->
                    IF d \in seen \ gone THEN down[d] \o Addressed(d) ELSE down[d]]
      /\ pending' = s.pending
      /\ outbox' = (s.out \o first) \o last
      /\ ui' = IF stack = None \/ completes THEN None ELSE [stack EXCEPT !.send = FALSE]
      /\ broken' = broken \cup Joined(gone)
      /\ UNCHANGED <<members, keys, form, deviceVars>>
  BY ZenonT(40) DEF Iterate
<1>2. Taken(R, s)
  BY ReceivedTaken
<1>3. ui # None => ui \in Protocols /\ ui.id \in KeygenIds
  BY AppFacts DEF OrderInvariant, Protocols
<1>4. /\ stack = None <=> ui = None
      /\ stack # None => /\ stack \in Protocols /\ stack.id = ui.id /\ stack.send = ui.send
                         /\ stack.finished = ui.finished
                         /\ stack.aborted => ui.aborted \/ ui.id \in Joined(gone)
  <2>1. CASE ui = None
    BY <2>1 DEF Disconnected
  <2>2. CASE ui # None /\ gone \cap members[ui.id] # {}
    <3>1. stack = [ui EXCEPT !.aborted = TRUE]
      BY <2>2 DEF Disconnected
    <3>2. stack \in Protocols /\ stack.id = ui.id /\ stack.send = ui.send /\ stack.finished = ui.finished
      BY <1>3, <2>2, <3>1 DEF Protocols
    <3>3. stack # None
      BY <3>2, KeyGenAssumption
    <3>4. ui.id \in Joined(gone)
      BY <1>3, <2>2 DEF Joined
    <3> QED BY <2>2, <3>2, <3>3, <3>4
  <2>3. CASE ui # None /\ gone \cap members[ui.id] = {}
    <3>1. stack = ui
      BY <2>3 DEF Disconnected
    <3> QED BY <1>3, <2>3, <3>1
  <2> QED BY <2>1, <2>2, <2>3
<1>5. Begins(first)
  <2> HIDE DEF stack
  <2> QED BY <1>4 DEF Begins
<1>6. /\ up' = [d \in Devices |-> Polled(R, d)]
      /\ down' = [d \in Devices |-> IF d \in seen \ gone THEN Line(d) ELSE down[d]]
  BY <1>1, AddressedIsSent DEF Polled, Line
<1>7. UNCHANGED <<phase, prompt, shares, panicked>>
  BY <1>1 DEF deviceVars
<1>8. ui' = IF stack = None \/ stack.aborted \/ stack.finished THEN None ELSE [stack EXCEPT !.send = FALSE]
  <2> HIDE DEF stack
  <2> QED BY <1>1, <1>4 DEF Protocols
<1>9. PICK b \in BOOLEAN : b = sends
  OBVIOUS
<1>10. last = IF b THEN CancelAll(early) ELSE <<>>
  BY <1>9
<1> HIDE DEF s, first, last, sends, completes, stack, gone
<1>11. gone = seen \ plugged /\ s = Received(R) /\ stack = Disconnected(gone)
  BY DEF gone, s, stack
<1>12. b = (stack # None /\ stack.aborted /\ ~stack.finished)
  BY <1>9 DEF sends
<1>13. Iterates(R, early, gone, stack, s, first, last, b)
  BY <1>1, <1>2, <1>4, <1>5, <1>6, <1>7, <1>8, <1>10, <1>11, <1>12 DEF Iterates
<1> QED BY <1>9, <1>13

\* An iteration of the app's loop.
LEMMA IterateKeeps ==
  ASSUME OrderInvariant, KeyGenInvariant', NEW R \in SUBSET Readable, NEW early \in BOOLEAN,
         Iterate(R, early)
  PROVE  OrderInvariant'
<1>00. PICK gone, stack, s, first, last : \E sends \in BOOLEAN :
         Iterates(R, early, gone, stack, s, first, last, sends)
  BY Iterated
<1>0. PICK sends \in BOOLEAN : Iterates(R, early, gone, stack, s, first, last, sends)
  BY <1>00
<1>1. /\ gone = seen \ plugged /\ s = Received(R) /\ Taken(R, s) /\ Begins(first)
      /\ stack = None <=> ui = None
      /\ stack # None => /\ stack \in Protocols /\ stack.id = ui.id /\ stack.finished = ui.finished
                         /\ stack.aborted => ui.aborted \/ ui.id \in Joined(gone)
      /\ sends = (stack # None /\ stack.aborted /\ ~stack.finished)
      /\ last = IF sends THEN CancelAll(early) ELSE <<>>
  BY <1>0 DEF Iterates
<1>2. /\ seen' = seen \ gone /\ up' = [d \in Devices |-> Polled(R, d)]
      /\ down' = [d \in Devices |-> IF d \in seen \ gone THEN Line(d) ELSE down[d]]
      /\ pending' = s.pending /\ outbox' = (s.out \o first) \o last
      /\ broken' = broken \cup Joined(gone)
      /\ UNCHANGED <<members, keys, form, phase, prompt, shares, panicked>>
  BY <1>0 DEF Iterates
<1>3. ui' = IF stack = None \/ stack.aborted \/ stack.finished THEN None ELSE [stack EXCEPT !.send = FALSE]
  BY <1>0 DEF Iterates
<1>4. \A k \in KeygenIds \ broken' : k \in KeygenIds \ broken /\ members[k] \subseteq seen \ gone
  <2>1. \A k \in KeygenIds \ broken' : k \notin broken /\ members[k] \cap gone = {}
    BY <1>2 DEF Joined
  <2> QED BY <2>1 DEF OrderInvariant, Attached
<1>5. ui' # None => /\ stack # None /\ ui # None /\ ui'.id = ui.id /\ ~ui'.send
                    /\ ~ui'.aborted /\ ~ui'.finished
  BY <1>1, <1>3 DEF Protocols
<1>6. \A k \in KeygenIds : ~Unsent(k)'
  BY <1>5 DEF Unsent
<1>7. stack # None /\ stack.finished => ui.id \in keys
  BY <1>1 DEF OrderInvariant, OnStack
<1>8. sends => ui # None /\ ui.id \in broken'
  BY <1>1, <1>2 DEF OrderInvariant, OnStack
<1>9. \A k \in KeygenIds \ broken' : pending'[k].state # "none" =>
        /\ ui # None /\ ui.id = k /\ k \notin keys /\ members[k] \subseteq form /\ ~sends
  <2> SUFFICES ASSUME NEW k \in KeygenIds \ broken', pending'[k].state # "none"
               PROVE  ui # None /\ ui.id = k /\ k \notin keys /\ members[k] \subseteq form /\ ~sends
    OBVIOUS
  <2>1. pending[k].state # "none"
    BY <1>1, <1>2 DEF Taken
  <2>2. ui # None /\ ui.id = k /\ k \notin keys /\ members[k] \subseteq form
    BY <1>4, <2>1 DEF OrderInvariant, Active
  <2> QED BY <1>8, <2>2
<1>10. PICK q \in Seq(Orders) : q = s.out \o first /\ \A i \in DOMAIN q : q[i].to = members[q[i].id]
  <2>1. PICK o \in Seq(Orders) : o = s.out /\ \A i \in DOMAIN o : o[i].to = members[o[i].id]
    <3>1. FollowUps \subseteq Orders
      BY DEF FollowUps, Orders
    <3>2. s.out \in Seq(FollowUps)
      BY <1>1 DEF Taken
    <3>3. s.out \in Seq(Orders)
      BY <3>1, <3>2
    <3> QED BY <1>1, <3>3 DEF Taken
  <2>2. first \in Seq(Orders) /\ \A i \in DOMAIN first : first[i].to = members[first[i].id]
    <3>1. CASE first = <<>>
      <4>1. <<>> \in Seq(Orders) /\ DOMAIN <<>> = {}
        OBVIOUS
      <4> QED BY <3>1, <4>1
    <3>2. CASE first # <<>>
      <4>1. PICK m \in Orders : first = <<m>> /\ m.to = members[m.id]
        BY <1>1, <3>2, BeginType
      <4>2. <<m>> \in Seq(Orders) /\ DOMAIN <<m>> = {1} /\ <<m>>[1] = m
        OBVIOUS
      <4> QED BY <4>1, <4>2
    <3> QED BY <3>1, <3>2
  <2>3. PICK b \in Seq(Orders) : b = first
    BY <2>2
  <2>4. \A i \in DOMAIN (o \o b) : \/ i \in DOMAIN o /\ (o \o b)[i] = o[i]
                                   \/ \E j \in DOMAIN b : (o \o b)[i] = b[j]
    BY TogetherElements
  <2>5. PICK q : q = o \o b
    OBVIOUS
  <2>6. q \in Seq(Orders)
    BY <2>5
  <2>7. q = s.out \o first
    BY <2>1, <2>3, <2>5
  <2>8. \A i \in DOMAIN q : q[i].to = members[q[i].id]
    BY <2>1, <2>2, <2>3, <2>4, <2>5
  <2> QED BY <2>6, <2>7, <2>8
<1>11. \A d \in seen \ gone : Line(d)' = Line(d) \o Sent(d, outbox') /\ d \in Devices
  <2>1. seen \subseteq Devices
    BY AppFacts DEF OrderInvariant
  <2>2. \A d \in seen \ gone : down'[d] = Line(d)
    BY <1>2, <2>1
  <2>3. ASSUME NEW d \in seen \ gone PROVE Line(d)' = Line(d) \o Sent(d, outbox')
    <3>1. Line(d)' = down'[d] \o Sent(d, outbox')
      BY DEF Line, Sent
    <3> QED BY <2>2, <3>1
  <2> QED BY <2>1, <2>3
<1>12. AllHold'
  <2> SUFFICES ASSUME NEW k \in KeygenIds \ broken', NEW d \in members[k]
               PROVE  /\ panicked[d] = "no" =>
                           Holds(k, d, pending'[k], Unsent(k)', Line(d)', 0, up'[d], <<>>, prompt[d],
                                 phase[d][k], k \notin keys \/ k \in shares[d])
                      /\ panicked[d] = "name" => (k \in keys => k \in shares[d])
    BY <1>2 DEF AllHold
  <2>1. k \in KeygenIds \ broken /\ d \in seen \ gone /\ d \in Devices
    BY <1>4, <1>11
  <2>2. ASSUME panicked[d] = "no"
        PROVE  Holds(k, d, pending'[k], Unsent(k)', Line(d)', 0, up'[d], <<>>, prompt[d],
                     phase[d][k], k \notin keys \/ k \in shares[d])
    <3>1. PICK safe \in BOOLEAN : safe = (k \notin keys \/ k \in shares[d])
      OBVIOUS
    <3>2. PICK p, ph, U, e : p = prompt[d] /\ ph = phase[d][k] /\ U = Polled(R, d) /\ e = s.pending[k]
      OBVIOUS
    <3>3. e = pending'[k] /\ U = up'[d] /\ e \in Entries
      BY <1>1, <1>2, <2>1, <3>2 DEF Taken
    <3>4. PICK L : L = Line(d) \o Sent(d, q)
      OBVIOUS
    <3>5. Line(d) \in Seq(Orders) /\ L \in Seq(Orders)
      <4>1. PICK r \in Seq(Orders) : r = Sent(d, q)
        BY SentType
      <4>2. Line(d) \in Seq(Orders)
        BY <2>1, PairFacts
      <4>3. Line(d) \o r \in Seq(Orders)
        BY <4>2
      <4> QED BY <3>4, <4>1, <4>2, <4>3
    <3>6. Holds(k, d, e, FALSE, L, 0, U, <<>>, p, ph, safe)
      <4>1. Holds(k, d, s.pending[k], FALSE, Line(d) \o Sent(d, s.out \o first), 0, Polled(R, d), <<>>,
                  prompt[d], phase[d][k], k \notin keys \/ k \in shares[d])
        BY <1>1, <2>1, <2>2, BeginHolds
      <4> QED BY <1>10, <3>1, <3>2, <3>4, <4>1
    <3>7. Holds(k, d, e, FALSE, Line(d)', 0, U, <<>>, p, ph, safe)
      <4>1. CASE ~sends
        <5>1. outbox' = q
          <6>1. last = <<>> /\ outbox' = q \o last
            BY <1>1, <1>2, <1>10, <4>1
          <6> QED BY <6>1
        <5> QED BY <1>11, <2>1, <3>4, <3>6, <5>1
      <4>2. CASE sends
        <5>1. e.state = "none"
          BY <1>9, <3>3, <4>2
        <5>2. outbox' = q \o CancelAll(early)
          BY <1>1, <1>2, <1>10, <4>2
        <5>3. Extends(L, Line(d) \o Sent(d, q), FALSE)
          BY <3>4, <3>5, ExtendsSelf
        <5>4. Extends(L, Line(d) \o Sent(d, q \o CancelAll(early)), FALSE)
          BY <2>1, <3>5, <5>3, NamesGrow
        <5>5. PICK M : M = Line(d)'
          OBVIOUS
        <5>6. Extends(L, M, FALSE)
          BY <1>11, <2>1, <5>2, <5>4, <5>5
        <5>7. (e.state # "none") = FALSE
          BY <5>1
        <5>8. Extends(L, M, e.state # "none")
          BY <5>6, <5>7
        <5>9. Holds(k, d, e, FALSE, M, 0, U, <<>>, p, ph, safe)
          BY <2>1, <3>3, <3>5, <3>6, <5>8, HoldsExtends
        <5> QED BY <5>5, <5>9
      <4> QED BY <4>1, <4>2
    <3>8. Unsent(k)' = FALSE
      BY <1>6, <2>1
    <3> QED BY <3>1, <3>2, <3>3, <3>7, <3>8
  <2> QED BY <2>1, <2>2, PairFacts
<1>13. Fresh'
  BY <1>6 DEF Fresh
<1>14. Active'
  <2> SUFFICES ASSUME NEW k \in KeygenIds \ broken', pending'[k].state # "none"
               PROVE  ui' # None /\ ui'.id = k /\ k \notin keys /\ members[k] \subseteq form
    BY <1>2 DEF Active
  <2>1. ui # None /\ ui.id = k /\ k \notin keys /\ members[k] \subseteq form /\ ~sends
    BY <1>9
  <2>2. stack # None /\ ~stack.finished /\ ~stack.aborted
    BY <1>1, <1>7, <2>1
  <2>3. ui' = [stack EXCEPT !.send = FALSE] /\ stack \in Protocols
    BY <1>1, <1>3, <2>2
  <2>4. ui' \in Protocols
    BY <2>3 DEF Protocols
  <2>5. ui' # None
    BY <2>4, KeyGenAssumption
  <2> QED BY <1>5, <2>1, <2>5
<1>15. OnStack'
  BY <1>2, <1>5 DEF OrderInvariant, OnStack
<1>16. Apart' /\ (broken \subseteq KeygenIds)'
  BY <1>2 DEF OrderInvariant, Apart, Joined
<1>17. Attached'
  BY <1>2, <1>4 DEF Attached
<1>18. Known'
  <2> SUFFICES ASSUME NEW d \in Devices
               PROVE  /\ \A i \in DOMAIN Line(d)' : Line(d)'[i].id # None => d \in members[Line(d)'[i].id]
                      /\ \A i \in DOMAIN up'[d] : d \in members[up'[d][i].id]
                      /\ prompt[d] # None => d \in members[prompt[d]]
    BY <1>2 DEF Known
  <2>1. KeyGenInvariant
    BY DEF OrderInvariant
  <2>2. /\ \A i \in DOMAIN Line(d) : Line(d)[i].id # None => d \in members[Line(d)[i].id]
        /\ \A i \in DOMAIN up[d] : d \in members[up[d][i].id]
        /\ prompt[d] # None => d \in members[prompt[d]]
    BY DEF OrderInvariant, Known
  <2>3. PICK D \in Seq(Orders) : D = down'[d] /\ \A i \in DOMAIN D : D[i].id # None => d \in members[D[i].id]
    <3>1. CASE d \in seen \ gone
      BY <1>2, <2>1, <2>2, <3>1, LineType
    <3>2. CASE d \notin seen \ gone
      <4>1. down'[d] = down[d] /\ down[d] \in Seq(Orders)
        BY <1>2, <2>1, <3>2, DeviceFacts
      <4>2. \A i \in DOMAIN down[d] : i \in DOMAIN Line(d) /\ Line(d)[i] = down[d][i]
        BY <2>1, <4>1, LineType
      <4> QED BY <2>2, <4>1, <4>2
    <3> QED BY <3>1, <3>2
  <2>4. last \in Seq(Orders) /\ \A i \in DOMAIN last : last[i].id = None
    <3>1. form \subseteq Devices /\ seen \subseteq Devices
      BY <2>1, AppFacts
    <3>2. /\ Preview(form) \in Orders /\ Message("Cancel", None, seen \ form) \in Orders /\ Cancel \in Orders
          /\ Preview(form).id = None /\ Message("Cancel", None, seen \ form).id = None /\ Cancel.id = None
      BY <3>1 DEF Preview, Message, Cancel, Orders
    <3>3. PICK a, b, c \in Orders : /\ a = Preview(form) /\ b = Message("Cancel", None, seen \ form) /\ c = Cancel
                                  /\ a.id = None /\ b.id = None /\ c.id = None
      BY <3>2
    <3>4. PICK u \in Seq(Orders) : u = <<a, b>> /\ \A i \in DOMAIN u : u[i].id = None
      <4>1. <<a, b>> \in Seq(Orders) /\ DOMAIN <<a, b>> = {1, 2} /\ <<a, b>>[1] = a /\ <<a, b>>[2] = b
        OBVIOUS
      <4> QED BY <3>3, <4>1
    <3>5. PICK v \in Seq(Orders) : v = <<c>> /\ \A i \in DOMAIN v : v[i].id = None
      <4>1. <<c>> \in Seq(Orders) /\ DOMAIN <<c>> = {1} /\ <<c>>[1] = c
        OBVIOUS
      <4> QED BY <3>3, <4>1
    <3>6. u \o v \in Seq(Orders)
      OBVIOUS
    <3>7. \A i \in DOMAIN (u \o v) : \/ i \in DOMAIN u /\ (u \o v)[i] = u[i]
                                     \/ \E j \in DOMAIN v : (u \o v)[i] = v[j]
      BY TogetherElements
    <3>8. \A i \in DOMAIN (u \o v) : (u \o v)[i].id = None
      BY <3>4, <3>5, <3>7
    <3>9. last = u \o v \/ last = v \/ last = <<>>
      BY <1>1, <3>3, <3>4, <3>5 DEF CancelAll, Names
    <3>10. <<>> \in Seq(Orders) /\ DOMAIN <<>> = {}
      OBVIOUS
    <3>11. CASE last = u \o v
      BY <3>6, <3>8, <3>11
    <3>12. CASE last = v
      BY <3>5, <3>12
    <3>13. CASE last = <<>>
      BY <3>10, <3>13
    <3> QED BY <3>9, <3>11, <3>12, <3>13
  <2>5. PICK w \in Seq(Orders) : w = outbox' /\ \A i \in DOMAIN w : w[i].id # None => w[i].to = members[w[i].id]
    <3>1. PICK x \in Seq(Orders) : x = last /\ \A i \in DOMAIN x : x[i].id = None
      BY <2>4
    <3>2. \A i \in DOMAIN (q \o x) : \/ i \in DOMAIN q /\ (q \o x)[i] = q[i]
                                     \/ \E j \in DOMAIN x : (q \o x)[i] = x[j]
      BY TogetherElements
    <3>3. PICK z : z = q \o x
      OBVIOUS
    <3>4. z \in Seq(Orders) /\ z = outbox'
      BY <1>2, <1>10, <3>1, <3>3
    <3>5. \A i \in DOMAIN z : z[i].id # None => z[i].to = members[z[i].id]
      BY <1>10, <3>1, <3>2, <3>3
    <3> QED BY <3>4, <3>5
  <2>6. PICK y \in Seq(Orders) : y = Sent(d, w) /\ \A i \in DOMAIN y : y[i].id # None => d \in members[y[i].id]
    <3>1. /\ Sent(d, w) \in Seq(Orders)
          /\ \A j \in DOMAIN Sent(d, w) : d \in Sent(d, w)[j].to /\ \E i \in DOMAIN w : Sent(d, w)[j] = w[i]
      BY SentType
    <3> QED BY <2>5, <3>1
  <2>7. \A i \in DOMAIN (D \o y) : \/ i \in DOMAIN D /\ (D \o y)[i] = D[i]
                                   \/ \E j \in DOMAIN y : (D \o y)[i] = y[j]
    BY TogetherElements
  <2>8. Line(d)' = D \o y
    <3>1. Line(d)' = down'[d] \o Sent(d, outbox')
      BY DEF Line, Sent
    <3> QED BY <2>3, <2>5, <2>6, <3>1
  <2>9. \A i \in DOMAIN Line(d)' : Line(d)'[i].id # None => d \in members[Line(d)'[i].id]
    BY <2>3, <2>6, <2>7, <2>8
  <2>10. \A i \in DOMAIN up'[d] : d \in members[up'[d][i].id]
    <3>1. CASE d \in R
      <4>1. up[d] # <<>> /\ up'[d] = Tail(up[d]) /\ up[d] \in Seq(Answers)
        BY <1>2, <2>1, <3>1, DeviceFacts DEF Polled, Readable
      <4>2. \A i \in DOMAIN up'[d] : i + 1 \in DOMAIN up[d] /\ up'[d][i] = up[d][i + 1]
        BY <4>1
      <4> QED BY <2>2, <4>2
    <3>2. CASE d \notin R
      BY <1>2, <2>2, <3>2 DEF Polled
    <3> QED BY <3>1, <3>2
  <2> QED BY <2>2, <2>9, <2>10
<1>19. Panics'
  BY <1>2 DEF OrderInvariant, Panics
<1> QED BY <1>12, <1>13, <1>14, <1>15, <1>16, <1>17, <1>18, <1>19 DEF OrderInvariant

----------------------------------------------------------------------------
(* The theorems *)

\* A step that changes nothing.
LEMMA OrderStutters ==
  ASSUME OrderInvariant, KeyGenInvariant', UNCHANGED vars
  PROVE  OrderInvariant'
<1>1. UNCHANGED <<pending, members, keys, ui, form, outbox, seen, down, up, phase, prompt, shares, panicked, broken>>
  BY DEF vars, coordVars, pageVars, linkVars, deviceVars, historyVars
<1>2. \A d \in Devices : Line(d)' = Line(d)
  BY <1>1 DEF Line, Sent
<1>3. \A k \in KeygenIds : Unsent(k)' = Unsent(k)
  BY <1>1 DEF Unsent
<1>4. members \in [KeygenIds -> SUBSET Devices]
  BY AppFacts DEF OrderInvariant
<1>5. AllHold'
  <2> SUFFICES ASSUME NEW k \in KeygenIds \ broken, NEW d \in members[k]
               PROVE  /\ panicked[d] = "no" =>
                           Holds(k, d, pending[k], Unsent(k)', Line(d)', 0, up[d], <<>>, prompt[d],
                                 phase[d][k], k \notin keys \/ k \in shares[d])
                      /\ panicked[d] = "name" => (k \in keys => k \in shares[d])
    BY <1>1 DEF AllHold
  <2>1. d \in Devices
    BY <1>4
  <2>2. Line(d)' = Line(d) /\ Unsent(k)' = Unsent(k)
    BY <1>2, <1>3, <2>1
  <2> QED BY <2>2 DEF OrderInvariant, AllHold
<1>6. Fresh'
  <2> SUFFICES ASSUME NEW k \in KeygenIds, Unsent(k)'
               PROVE  /\ pending[k].state = "responses" /\ pending[k].from = {}
                      /\ \A d \in Devices : Muted(k, Line(d)', 0, up[d], <<>>, prompt[d])
    BY <1>1 DEF Fresh
  <2> QED BY <1>2, <1>3 DEF OrderInvariant, Fresh
<1>7. Known'
  <2> SUFFICES ASSUME NEW d \in Devices
               PROVE  /\ \A i \in DOMAIN Line(d)' : Line(d)'[i].id # None => d \in members[Line(d)'[i].id]
                      /\ \A i \in DOMAIN up[d] : d \in members[up[d][i].id]
                      /\ prompt[d] # None => d \in members[prompt[d]]
    BY <1>1 DEF Known
  <2> QED BY <1>2 DEF OrderInvariant, Known
<1>8. Active' /\ OnStack' /\ Apart' /\ Attached' /\ Panics' /\ (broken \subseteq KeygenIds)'
  BY <1>1 DEF OrderInvariant, Active, OnStack, Apart, Attached, Panics
<1> QED BY <1>5, <1>6, <1>7, <1>8 DEF OrderInvariant

\* Every step keeps the invariant.
LEMMA OrderStep == OrderInvariant /\ [Next]_vars => OrderInvariant'
<1> SUFFICES ASSUME OrderInvariant, [Next]_vars PROVE OrderInvariant'
  OBVIOUS
<1>0. KeyGenInvariant'
  BY KeyGenStep DEF OrderInvariant
<1>1. CASE \E k \in KeygenIds, S \in MemberSets : GenerateNewKey(k, S)
  BY <1>0, <1>1, GenerateKeeps
<1>2. CASE \E k \in KeygenIds : FinalizeKeygen(k)
  BY <1>0, <1>2, FinalizeKeeps
<1>3. CASE \E k \in KeygenIds : FinalizeFails(k)
  BY <1>0, <1>3, FinalizeFailsKeeps
<1>4. CASE CancelProtocol
  BY <1>0, <1>4, CancelProtocolKeeps
<1>11. CASE SendCancelAll
  BY <1>0, <1>11, SendCancelAllKeeps
<1>5. CASE ResetDeviceNames \/ \E d \in Devices : SetDeviceName(d) \/ ClearDeviceName(d)
  BY <1>0, <1>5, PageKeeps
<1>6. CASE \E R \in SUBSET Readable, early \in BOOLEAN : Iterate(R, early)
  BY <1>0, <1>6, IterateKeeps
<1>7. CASE \E d \in Devices : KeyGenConfirm(d)
  BY <1>0, <1>7, ConfirmKeeps
<1>8. CASE \E d \in Devices : \E n \in 1 .. MaxInbox : DevicePoll(d, n)
  BY <1>0, <1>8, DevicePollKeeps
<1>9. CASE (\E d \in Devices : Unplug(d) \/ Connect(d)) \/ AppCrash
  BY <1>0, <1>9, FailuresKeep
<1>10. CASE UNCHANGED vars
  BY <1>0, <1>10, OrderStutters
<1> QED BY <1>1, <1>2, <1>3, <1>4, <1>5, <1>6, <1>7, <1>8, <1>9, <1>10, <1>11 DEF Next

\* So it holds in every state.
LEMMA OrderAlways == Spec => []OrderInvariant
<1> QED BY OrderInit, OrderStep, PTL DEF Spec

\* A device panics on a message only after a disconnection, or a crash of the app,
\* during a key generation it was a member of, or when the Cancel of an earlier one
\* came behind the Begin of one: cancel_protocol clears pending_keygens before it
\* sends Cancel, so every other follow-up of the coordinator finds the device where
\* it expects it.
THEOREM CancelsAreSafe == Spec => []CancelIsSafe
<1>1. OrderInvariant => CancelIsSafe
  BY DEF OrderInvariant, Panics, CancelIsSafe
<1> QED BY <1>1, OrderAlways, PTL

\* A device of a finalized key has its share, or Finalize is on its way and finds
\* what it needs, whatever is cancelled and whenever, unless the key generation was
\* broken by a disconnection, a crash or the late Cancel of an earlier one, or the
\* device panicked on a message of one that was.
THEOREM FinalizesArrive == Spec => []FinalizeArrives
<1>1. ASSUME OrderInvariant PROVE FinalizeArrives
  <2> SUFFICES ASSUME NEW k \in keys \ broken, NEW d \in members[k], k \notin shares[d],
                      panicked[d] # "message"
               PROVE  InFlight(d, k)
    BY DEF FinalizeArrives
  <2>1. k \in KeygenIds \ broken
    BY <1>1 DEF OrderInvariant, KeyGenInvariant, CoordType
  <2>2. KeyGenInvariant /\ d \in Devices
    BY <1>1, <2>1, PairFacts DEF OrderInvariant
  <2>3. panicked[d] \in {"no", "message", "name"}
    BY <1>1, <2>2 DEF OrderInvariant, Panics
  <2>4. panicked[d] # "name"
    BY <1>1, <2>1 DEF OrderInvariant, AllHold
  <2>5. Holds(k, d, pending[k], Unsent(k), Line(d), 0, up[d], <<>>, prompt[d], phase[d][k],
              k \notin keys \/ k \in shares[d])
    BY <1>1, <2>1, <2>3, <2>4, PairFacts
  <2>6. PICK L : L = Line(d)
    OBVIOUS
  <2>7. Kept(k, L, 0, k \notin keys \/ k \in shares[d]) /\ Met(k, L, 0, phase[d][k])
    BY <2>5, <2>6 DEF Holds
  <2>8. PICK i \in Rest(L, 0, k) : L[i].type = "Finalize"
    BY <2>7 DEF Kept
  <2>9. phase[d][k] = "4"
    BY <2>7, <2>8 DEF Met, Meets
  <2>10. L[i].id = k /\ i \in DOMAIN L
    BY <2>8 DEF Rest
  <2>11. L[i] \in Range(outbox) \cup Range(down[d])
    <3>1. PICK D \in Seq(Orders) : D = down[d]
      BY <2>2, DeviceFacts
    <3>2. outbox \in Seq(Orders)
      BY <2>2, AppFacts
    <3>3. PICK y \in Seq(Orders) : /\ y = Sent(d, outbox)
                                   /\ \A j \in DOMAIN y : \E x \in DOMAIN outbox : y[j] = outbox[x]
      BY <3>2, SentType
    <3>4. \/ i \in DOMAIN D /\ (D \o y)[i] = D[i]
          \/ \E j \in DOMAIN y : (D \o y)[i] = y[j]
      BY <2>6, <2>10, <3>1, <3>3, TogetherElements DEF Line
    <3>5. L = D \o y
      BY <2>6, <3>1, <3>3 DEF Line
    <3> QED BY <3>1, <3>3, <3>4, <3>5 DEF Range
  <2> QED BY <2>8, <2>9, <2>10, <2>11 DEF InFlight
<1> QED BY <1>1, OrderAlways, PTL

=============================================================================
