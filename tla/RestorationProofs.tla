-------------------------- MODULE RestorationProofs --------------------------
(* Proofs about restorations and consolidations, for any devices, keys and   *)
(* thresholds, any number of restorations, pages and failures: every share   *)
(* that a wallet or a restoration counts on is on its device, and what is    *)
(* pending for a registered device is worked on.                             *)
EXTENDS Restoration, SequenceTheorems, FiniteSetTheorems, WellFoundedInduction, TLAPS

----------------------------------------------------------------------------
(* Recursion and lists *)


\* A non-empty set of naturals has a least element.
LEMMA LeastNatural ==
  ASSUME NEW S, S \subseteq Nat, S # {}
  PROVE  \E m \in S : \A k \in S : m <= k
<1>1. PICK m \in S : \A k \in S : ~ (<<k, m>> \in OpToRel(<, Nat))
  BY WFMin, NatLessThanWellFounded
<1>2. \A k \in S : ~ (k < m)
  BY <1>1 DEF OpToRel
<1> QED BY <1>2

\* A set of positions that has the first, and the next of each it has, has all.
LEMMA UpTo ==
  ASSUME NEW n \in Nat, NEW G, 0 \in G,
         \A i \in 1 .. n : i - 1 \in G => i \in G
  PROVE  \A i \in 0 .. n : i \in G
<1> DEFINE bad == {i \in 0 .. n : i \notin G}
<1>1. SUFFICES ASSUME NEW j \in 0 .. n, j \notin G PROVE FALSE
  OBVIOUS
<1>2. j \in bad /\ bad \subseteq Nat
  BY <1>1
<1>3. PICK m \in bad : \A k \in bad : m <= k
  <2> HIDE DEF bad
  <2> QED BY <1>2, LeastNatural
<1>4. m \in 1 .. n /\ m \notin G
  BY <1>3
<1>5. m - 1 \in G
  <2>1. m - 1 \in 0 .. n /\ ~ (m <= m - 1)
    BY <1>4
  <2> QED BY <2>1, <1>3
<1> QED BY <1>4, <1>5
\* retain goes through a sequence from its front.
LEMMA RetainUnfolds ==
  ASSUME NEW s, Len(s) \in Nat, NEW drop
  PROVE  \E w : /\ w[0] = <<>>
                /\ \A i \in 1 .. Len(s) :
                     w[i] = IF s[i] \in drop THEN w[i - 1] ELSE Append(w[i - 1], s[i])
                /\ Retain(s, drop) = w[Len(s)]
<1> DEFINE n == Len(s)
           Next1(w, i) == IF s[i] \in drop THEN w[i - 1] ELSE Append(w[i - 1], s[i])
           Runs(w, j) == w[0] = <<>> /\ \A i \in 1 .. j : w[i] = Next1(w, i)
           G == {j \in 0 .. n : \E w : Runs(w, j)}
           Step(g) == [i \in 0 .. n |-> IF i = 0 THEN <<>> ELSE Next1(g, i)]
<1>0. n \in Nat /\ Retain(s, drop) = (CHOOSE f : f = Step(f))[n]
  BY DEF Retain
<1> HIDE DEF n
<1>1. 0 \in G
  <2> DEFINE w == [i \in {0} |-> <<>>]
  <2>1. Runs(w, 0)
    OBVIOUS
  <2> HIDE DEF w
  <2>2. 0 \in 0 .. n /\ \E f : Runs(f, 0)
    BY <1>0, <2>1
  <2> QED BY <2>2
<1>2. ASSUME NEW j \in 1 .. n, j - 1 \in G
      PROVE  j \in G
  <2>1. PICK w : Runs(w, j - 1)
    BY <1>2
  <2> DEFINE v == [i \in 0 .. j |-> IF i = j THEN Next1(w, j) ELSE w[i]]
  <2>2. v[0] = w[0] /\ v[j] = Next1(w, j)
    BY <1>0
  <2>3. \A i \in 1 .. j - 1 : v[i] = w[i] /\ v[i - 1] = w[i - 1]
    BY <1>0
  <2>4. v[j - 1] = w[j - 1]
    BY <1>0
  <2> HIDE DEF v
  <2>5. \A i \in 1 .. j : i # j => i \in 1 .. j - 1
    BY <1>0
  <2>6. Runs(v, j)
    BY <2>1, <2>2, <2>3, <2>4, <2>5
  <2> QED BY <2>6
<1>3. n \in G
  <2> HIDE DEF G
  <2>1. \A i \in 0 .. n : i \in G
    BY <1>0, <1>1, <1>2, UpTo
  <2>2. n \in 0 .. n
    BY <1>0
  <2> QED BY <2>1, <2>2
<1>4. PICK w : Runs(w, n)
  BY <1>3
<1> DEFINE h == [i \in 0 .. n |-> w[i]]
<1>5. /\ \A i \in 1 .. n : h[i - 1] = w[i - 1] /\ h[i] = w[i]
      /\ h[0] = w[0]
  BY <1>0
<1>6. h = Step(h)
  <2>1. \A i \in 0 .. n : h[i] = IF i = 0 THEN <<>> ELSE Next1(h, i)
    <3>1. \A i \in 0 .. n : i # 0 => i \in 1 .. n
      BY <1>0
    <3> HIDE DEF h
    <3> QED BY <1>4, <1>5, <3>1
  <2>2. h = [i \in 0 .. n |-> h[i]]
    OBVIOUS
  <2> HIDE DEF h, Next1
  <2> QED BY <2>1, <2>2
<1> HIDE DEF h
<1>7. PICK g : g = (CHOOSE f : f = Step(f)) /\ g = Step(g)
  <2> HIDE DEF Step
  <2> QED BY <1>6
<1>8. Retain(s, drop) = g[n]
  BY <1>0, <1>7
<1>9. g[0] = <<>> /\ \A i \in 1 .. n : g[i] = Next1(g, i)
  <2>1. g = Step(g)
    BY <1>7
  <2>2. \A i \in 0 .. n : Step(g)[i] = IF i = 0 THEN <<>> ELSE Next1(g, i)
    OBVIOUS
  <2>3. \A i \in 0 .. n : g[i] = IF i = 0 THEN <<>> ELSE Next1(g, i)
    <3> HIDE DEF Step, Next1
    <3> QED BY <2>1, <2>2
  <2>4. 0 \in 0 .. n /\ \A i \in 1 .. n : i \in 0 .. n /\ i # 0
    BY <1>0
  <2> HIDE DEF Step, Next1
  <2> QED BY <2>3, <2>4
<1> QED BY <1>8, <1>9 DEF n
\* A sequence, of whatever it has.
IsList(s) == s \in Seq(Range(s))

LEMMA ListAt ==
  ASSUME NEW s, IsList(s)
  PROVE  /\ Len(s) \in Nat /\ DOMAIN s = 1 .. Len(s)
         /\ \A i \in 1 .. Len(s) : s[i] \in Range(s)
         /\ \A x \in Range(s) : \E i \in 1 .. Len(s) : s[i] = x
<1>1. Len(s) \in Nat /\ DOMAIN s = 1 .. Len(s)
  BY LenProperties DEF IsList
<1> QED BY <1>1 DEF Range

LEMMA EmptyList == IsList(<<>>) /\ Range(<<>>) = {}
BY DEF IsList, Range

\* A sequence of elements of some set is a list, of elements of that set.
LEMMA SeqIsList ==
  ASSUME NEW S, NEW s \in Seq(S)
  PROVE  IsList(s) /\ Range(s) \subseteq S
<1>1. Len(s) \in Nat /\ DOMAIN s = 1 .. Len(s) /\ \A i \in 1 .. Len(s) : s[i] \in S
  BY LenProperties, ElementOfSeq
<1>2. s \in [1 .. Len(s) -> Range(s)]
  <2>1. s = [i \in 1 .. Len(s) |-> s[i]]
    BY <1>1
  <2>2. \A i \in 1 .. Len(s) : s[i] \in Range(s)
    BY <1>1 DEF Range
  <2> HIDE DEF Range
  <2> QED BY <2>1, <2>2
<1> QED BY <1>1, <1>2, SMTT(30) DEF IsList, Range

LEMMA ListAppend ==
  ASSUME NEW s, IsList(s), NEW x
  PROVE  IsList(Append(s, x)) /\ Range(Append(s, x)) = Range(s) \cup {x}
<1>1. s \in Seq(Range(s) \cup {x})
  BY DEF IsList
<1>2. Append(s, x) \in Seq(Range(s) \cup {x})
  BY <1>1
<1>3. Len(s) \in Nat /\ Len(Append(s, x)) = Len(s) + 1 /\ Append(s, x)[Len(s) + 1] = x
      /\ \A i \in 1 .. Len(s) : Append(s, x)[i] = s[i]
  BY <1>1, AppendProperties
<1>4. DOMAIN Append(s, x) = 1 .. Len(s) + 1 /\ DOMAIN s = 1 .. Len(s)
  BY <1>1, <1>2, <1>3, LenProperties
<1>5. Range(Append(s, x)) = Range(s) \cup {x}
  BY <1>3, <1>4 DEF Range
<1> QED BY <1>2, <1>5 DEF IsList

LEMMA ListSub ==
  ASSUME NEW s, IsList(s), NEW m \in 1 .. Len(s) + 1, NEW n \in 0 .. Len(s)
  PROVE  IsList(SubSeq(s, m, n)) /\ Range(SubSeq(s, m, n)) \subseteq Range(s)
<1>1. s \in Seq(Range(s)) /\ Len(s) \in Nat
  BY LenProperties DEF IsList
<1>2. SubSeq(s, m, n) \in Seq(Range(s))
  BY <1>1, SubSeqProperties
<1> QED BY <1>2, SeqIsList

LEMMA ListTail ==
  ASSUME NEW s, IsList(s), s # <<>>
  PROVE  /\ IsList(Tail(s)) /\ Range(Tail(s)) \subseteq Range(s)
         /\ Head(s) \in Range(s)
<1>1. s \in Seq(Range(s)) /\ Tail(s) \in Seq(Range(s)) /\ Head(s) \in Range(s)
  BY DEF IsList
<1> QED BY <1>1, SeqIsList

LEMMA ListConcat ==
  ASSUME NEW s, IsList(s), NEW t, IsList(t)
  PROVE  IsList(s \o t) /\ Range(s \o t) \subseteq Range(s) \cup Range(t)
<1>1. s \in Seq(Range(s) \cup Range(t)) /\ t \in Seq(Range(s) \cup Range(t))
  BY DEF IsList
<1>2. s \o t \in Seq(Range(s) \cup Range(t))
  BY <1>1
<1> QED BY <1>2, SeqIsList

LEMMA ListRemoveAt ==
  ASSUME NEW s, IsList(s), NEW n \in 1 .. Len(s)
  PROVE  IsList(RemoveAt(s, n)) /\ Range(RemoveAt(s, n)) \subseteq Range(s)
<1>1. Len(s) \in Nat
  BY ListAt
<1> DEFINE t == SubSeq(s, 1, n - 1)
           u == SubSeq(s, n + 1, Len(s))
<1>2. 1 \in 1 .. Len(s) + 1 /\ n - 1 \in 0 .. Len(s) /\ n + 1 \in 1 .. Len(s) + 1
      /\ Len(s) \in 0 .. Len(s)
  BY <1>1
<1>3. IsList(t) /\ IsList(u) /\ Range(t) \subseteq Range(s) /\ Range(u) \subseteq Range(s)
  BY <1>2, ListSub
<1>4. RemoveAt(s, n) = t \o u
  BY DEF RemoveAt
<1> HIDE DEF t, u
<1> QED BY <1>3, <1>4, ListConcat

\* retain drops elements and adds none.
LEMMA ListRetain ==
  ASSUME NEW s, IsList(s), NEW drop
  PROVE  /\ IsList(Retain(s, drop))
         /\ Range(Retain(s, drop)) = Range(s) \ drop
<1> DEFINE n == Len(s)
           S == Range(s)
<1>1. n \in Nat /\ (\A i \in 1 .. n : s[i] \in S) /\ \A x \in S : \E i \in 1 .. n : s[i] = x
  BY ListAt
<1>2. PICK w : /\ w[0] = <<>>
               /\ \A i \in 1 .. n :
                    w[i] = IF s[i] \in drop THEN w[i - 1] ELSE Append(w[i - 1], s[i])
               /\ Retain(s, drop) = w[n]
  BY <1>1, RetainUnfolds
<1> DEFINE Has1(i) == \A j \in 1 .. i : s[j] \notin drop => s[j] \in Range(w[i])
           G == {i \in 0 .. n : IsList(w[i]) /\ Range(w[i]) \subseteq S \ drop /\ Has1(i)}
<1> HIDE DEF n, S
<1>3. 0 \in G
  BY <1>1, <1>2, EmptyList
<1>4. ASSUME NEW i \in 1 .. n, i - 1 \in G
      PROVE  i \in G
  <2>1. /\ IsList(w[i - 1]) /\ Range(w[i - 1]) \subseteq S \ drop /\ Has1(i - 1)
        /\ s[i] \in S /\ i \in 0 .. n
    BY <1>1, <1>4
  <2>2. CASE s[i] \in drop
    <3>1. w[i] = w[i - 1]
      BY <1>2, <2>2
    <3>2. \A j \in 1 .. i : j # i => j \in 1 .. i - 1
      BY <1>1
    <3> QED BY <2>1, <2>2, <3>1, <3>2
  <2>3. CASE s[i] \notin drop
    <3>1. w[i] = Append(w[i - 1], s[i])
      BY <1>2, <2>3
    <3>2. IsList(w[i]) /\ Range(w[i]) = Range(w[i - 1]) \cup {s[i]}
      BY <2>1, <3>1, ListAppend
    <3>3. \A j \in 1 .. i : j # i => j \in 1 .. i - 1
      BY <1>1
    <3> QED BY <2>1, <2>3, <3>2, <3>3
  <2> QED BY <2>2, <2>3
<1>5. n \in G
  <2> HIDE DEF G
  <2>1. \A i \in 0 .. n : i \in G
    BY <1>1, <1>3, <1>4, UpTo
  <2> QED BY <1>1, <2>1
<1>6. \A x \in S : x \notin drop => x \in Range(w[n])
  BY <1>1, <1>5
<1> QED BY <1>2, <1>5, <1>6 DEF S

\* The position of an element that is chosen by a property is none, or one with
\* the property.
LEMMA LastPosition ==
  ASSUME NEW n \in Nat, NEW I, I \subseteq 1 .. n, I # {}
  PROVE  Max(I) \in I
<1> DEFINE T == {n - i : i \in I}
<1>1. T \subseteq Nat /\ T # {}
  <2>1. \A i \in I : n - i \in Nat
    OBVIOUS
  <2>2. PICK i \in I : TRUE
    OBVIOUS
  <2>3. n - i \in T
    BY <2>2
  <2> QED BY <2>1, <2>3
<1>2. PICK m \in T : \A k \in T : m <= k
  <2> HIDE DEF T
  <2> QED BY <1>1, LeastNatural
<1>3. PICK i \in I : m = n - i
  BY <1>2
<1>4. ASSUME NEW j \in I PROVE i >= j
  <2>1. n - j \in T /\ i \in 1 .. n /\ j \in 1 .. n
    BY <1>3
  <2>2. n - i <= n - j
    BY <1>2, <1>3, <2>1
  <2> QED BY <2>1, <2>2
<1> QED BY <1>3, <1>4 DEF Max

LEMMA LastIsPosition ==
  ASSUME NEW n \in Nat, NEW I, I \subseteq 1 .. n, I # {}
  PROVE  Max(I) \in Nat \ {0}
<1>1. Max(I) \in 1 .. n
  BY LastPosition
<1> DEFINE m == Max(I)
<1> HIDE DEF m
<1>2. m \in 1 .. n
  BY <1>1 DEF m
<1>3. m \in Nat \ {0}
  BY <1>2
<1> QED BY <1>3 DEF m

----------------------------------------------------------------------------
(* The inductive invariant *)

\* A device without shares at first gets its own from papers.
Fresh(d) == Holds[d] = {}
Own(d) == IF Fresh(d) THEN Papers ELSE Holds[d]

Images(backups) == {b.image : b \in backups}

\* What a device has not lost, and will not: its complete shares, with those it
\* has told of and writes next, and its saved backups.  Nothing is said of a
\* device that lost what it had told of.
Stored ==
  [d \in Devices |->
     IF d \in torn THEN Own(d) ELSE shares[d] \cup (IF sent[d] THEN staged[d] ELSE {})]
Kept == [d \in Devices |-> Stored[d] \cup Images(saved[d])]

\* A share that a device has, complete or to be consolidated.
Rests(s, stored, kept) ==
  s.cons \in BOOLEAN /\ s.image \in (IF s.cons THEN kept ELSE stored)
BackedBy(s, stored, kept) == s.dev \in Devices /\ Rests(s, stored[s.dev], kept[s.dev])
Backed(s) == BackedBy(s, Stored, Kept)

\* A share that names its access structure is complete.
Claims(s) == s.ref # None => ~s.cons

\* A message of a device that tells of a share is true.
Tells(m, d, stored, kept) ==
  /\ m.type = "Held" /\ m.arg # None =>
       m.arg.dev = d /\ Claims(m.arg) /\ Rests(m.arg, stored, kept)
  /\ m.type = "Saved" => m.arg \in kept
  /\ m.type = "Finished" => m.arg \in stored

\* A device's memory at work.
Now(w) == w.shares \cup w.staged
NowKept(w) == Now(w) \cup Images(w.saved)

Fields == {"shares", "saved", "staged", "loaded", "name", "named", "screen", "queue", "out",
           "failed"}
MemoryOf(w) == w = [f \in Fields |-> w[f]]

\* Its shares are its own, and what it queues and has to do is about them.
Task(o, d, w) ==
  /\ Tells(o, d, Now(w), NowKept(w))
  /\ o.type = "ConsolidateBackup" => o.arg \in Own(d)
  /\ o.type = "EnterBackup" => Fresh(d)

Holder(d, w) ==
  /\ MemoryOf(w)
  /\ Now(w) \cup w.loaded \cup Images(w.saved) \subseteq Own(d)
  /\ ~Fresh(d) => w.name = TRUE /\ w.screen = None
  /\ IsList(w.queue) /\ \A m \in Range(w.queue) : Tells(m, d, Now(w), NowKept(w))
  /\ IsList(w.out) /\ \A o \in Range(w.out) : Task(o, d, w)

\* Every device's memory between two polls, and what it has.
DevicesHold == \A d \in Devices : Holder(d, Working(d))

\* What a device is asked.
Asks == {"Cancel", "Preview", "Enter", "Request", "Save", "Consolidate"}

\* A device that had a share is known by name and never asked for a paper.
FreshOnly ==
  \A d \in Devices :
    /\ IsList(down[d]) /\ \A m \in Range(down[d]) : m.type \in Asks
    /\ ~Fresh(d) => /\ d \in seen => d \in registered
                    /\ \A m \in Range(down[d]) : m.type # "Enter"

\* What a device has told is so.
UpTrue ==
  \A d \in Devices : IsList(up[d]) /\ \A m \in Range(up[d]) : Tells(m, d, Stored[d], Kept[d])

\* The recovery page, and what looks for its device.
IsPage(p) == p = [f \in {"ctx", "stage", "dev", "share"} |-> p[f]]

FinderTrue ==
  finder # None =>
    /\ finder = [f \in {"devs", "asked", "held"} |-> finder[f]]
    /\ IsList(finder.devs)
    /\ \A e \in Range(finder.devs) :
         e.dev \in Devices /\ e.blank \in BOOLEAN /\ (e.blank => Fresh(e.dev))
    /\ finder.held = [d \in Devices |-> finder.held[d]]
    /\ \A d \in Devices : finder.held[d] # None => Claims(finder.held[d]) /\ Backed(finder.held[d])
    /\ IsPage(page) /\ page.stage = "finding"
    /\ finish # None => finish.id < pages

PageTrue ==
  page # None =>
    /\ IsPage(page)
    /\ page.stage \in {"naming", "nonces", "entry"} => Fresh(page.dev)
    /\ page.stage = "candidate" => Claims(page.share) /\ Backed(page.share)

EntryTrue == entry # None => entry = [f \in {"dev", "id"} |-> entry[f]] /\ entry.id \in 0 .. pages

FinishTrue ==
  finish # None =>
    /\ finish = [f \in {"ctx", "dev", "image", "id", "checked"} |-> finish[f]]
    /\ finish.id \in 0 .. pages
    /\ finish.id = pages /\ page # None => Fresh(page.dev)

\* A call that has asked a device, and waits or is about to, names it.
IsCall(c) ==
  c = [f \in {"kind", "dev", "what", "index", "more", "stage", "late"} |-> c[f]]
CallTrue(c) == IsCall(c) /\ (c.kind = "exit" /\ c.stage # "next" => c.dev \in Devices)
Waits(c) == IsCall(c) /\ (c.kind = "exit" => c.dev \in Devices)
CallsTrue ==
  /\ \A c \in calls : CallTrue(c)
  /\ IsList(stack) /\ \A c \in Range(stack) : Waits(c)

\* A restoration with its list of shares.
IsRestoration(a) == a = [f \in {"starting", "held", "key"} |-> a[f]] /\ IsList(a.held)

\* The database counts on what devices have.
RestorationsBacked(rs) ==
  /\ rs = [r \in RestorationIds |-> rs[r]]
  /\ \A r \in RestorationIds : rs[r] # None =>
       IsRestoration(rs[r]) /\ \A s \in Range(rs[r].held) : Backed(s)
RestorationsTrue == RestorationsBacked(restorations)

WalletsTrue ==
  \A k \in Keys, d \in Devices : wallets[k][d] # 0 =>
    \/ <<k, wallets[k][d]>> \in Stored[d]
    \/ <<k, wallets[k][d]>> \in Kept[d] /\ Pending(d, k, wallets[k][d]) \in pending

SavesConsolidate == \A w \in waitSave : w.share.cons = TRUE

DbShape ==
  /\ wallets = [k \in Keys |-> wallets[k]]
  /\ \A k \in Keys : wallets[k] = [d \in Devices |-> wallets[k][d]]
  /\ pages \in Nat /\ drawn \in Nat

LinkShape ==
  /\ down = [d \in Devices |-> down[d]] /\ up = [d \in Devices |-> up[d]]
  /\ registered \subseteq seen /\ seen \subseteq Devices

DeviceShape ==
  /\ shares = [d \in Devices |-> shares[d]] /\ saved = [d \in Devices |-> saved[d]]
  /\ staged = [d \in Devices |-> staged[d]] /\ loaded = [d \in Devices |-> loaded[d]]
  /\ name = [d \in Devices |-> name[d]] /\ named = [d \in Devices |-> named[d]]
  /\ screen = [d \in Devices |-> screen[d]] /\ queue = [d \in Devices |-> queue[d]]
  /\ sent \in [Devices -> BOOLEAN]

RestorationInvariant ==
  /\ DbShape /\ LinkShape /\ DeviceShape
  /\ DevicesHold /\ FreshOnly /\ UpTrue
  /\ FinderTrue /\ PageTrue /\ EntryTrue /\ FinishTrue /\ CallsTrue
  /\ SavesConsolidate /\ RestorationsTrue /\ WalletsTrue

USE RestorationAssumption

----------------------------------------------------------------------------
(* A device at work *)

\* A device's own shares are of different keys.
LEMMA OwnImages ==
  ASSUME OnePaper, NEW d \in Devices
  PROVE  /\ Own(d) \subseteq Keys \X (Nat \ {0})
         /\ \A im, other \in Own(d) : im[1] = other[1] => im = other
BY DEF OnePaper, Own, Fresh

\* What is true of fewer shares is true of more.
LEMMA TellsMore ==
  ASSUME NEW m, NEW d, NEW stored, NEW kept, NEW stored1, NEW kept1,
         Tells(m, d, stored, kept), stored \subseteq stored1, kept \subseteq kept1
  PROVE  Tells(m, d, stored1, kept1)
BY DEF Tells, Rests

\* What is complete before and after the staged mutations are written.
LEMMA CompleteIsNow ==
  ASSUME OnePaper, NEW d \in Devices, NEW w, Now(w) \subseteq Own(d)
  PROVE  Complete(w) = Now(w)
<1>1. \A im \in w.shares : im \notin w.staged => \A new \in w.staged : new[1] # im[1]
  BY OwnImages DEF Now
<1> QED BY <1>1 DEF Complete, Now

LEMMA BackupImages ==
  ASSUME NEW w
  PROVE  /\ Images(Backups(w)) \subseteq Images(w.saved)
         /\ Images(w.saved) \subseteq Images(Backups(w)) \cup w.staged
BY DEF Images, Backups

\* A device's memory in which only the queue, the outbox or less has changed.
LEMMA HolderMore ==
  ASSUME NEW d, NEW w, Holder(d, w), NEW v, MemoryOf(v),
         Now(w) \subseteq Now(v), NowKept(w) \subseteq NowKept(v),
         Now(v) \cup v.loaded \cup Images(v.saved) \subseteq Own(d),
         ~Fresh(d) => v.name = TRUE /\ v.screen = None,
         IsList(v.queue),
         \A m \in Range(v.queue) : m \in Range(w.queue) \/ Tells(m, d, Now(v), NowKept(v)),
         IsList(v.out),
         \A o \in Range(v.out) : o \in Range(w.out) \/ Task(o, d, v)
  PROVE  Holder(d, v)
<1>1. \A m \in Range(v.queue) : Tells(m, d, Now(v), NowKept(v))
  BY TellsMore DEF Holder
<1>2. \A o \in Range(v.out) : Task(o, d, v)
  BY TellsMore DEF Holder, Task
<1> QED BY <1>1, <1>2 DEF Holder

\* Something is said.
LEMMA SayHolds ==
  ASSUME NEW d, NEW w, Holder(d, w), NEW type, NEW arg, Task(Message(type, arg), d, w)
  PROVE  Holder(d, Say(w, type, arg)) /\ Say(w, type, arg) = [w EXCEPT !.out = Append(@, Message(type, arg))]
<1> DEFINE v == Say(w, type, arg)
           o == Message(type, arg)
<1>1. v = [w EXCEPT !.out = Append(@, o)]
  BY DEF Say
<1>2. MemoryOf(w) /\ IsList(w.out)
  BY DEF Holder
<1> HIDE DEF o
<1>3. IsList(Append(w.out, o)) /\ Range(Append(w.out, o)) = Range(w.out) \cup {o}
  BY <1>2, ListAppend
<1>4. /\ MemoryOf(v) /\ v.out = Append(w.out, o) /\ v.queue = w.queue
      /\ v.shares = w.shares /\ v.staged = w.staged /\ v.saved = w.saved /\ v.loaded = w.loaded
      /\ v.name = w.name /\ v.screen = w.screen
  BY <1>1, <1>2 DEF MemoryOf, Fields
<1> HIDE DEF v
<1>5. Now(v) = Now(w) /\ NowKept(v) = NowKept(w)
  BY <1>4 DEF Now, NowKept
<1>6. Task(o, d, v)
  BY <1>5 DEF Task, o
<1>7. Now(v) \cup v.loaded \cup Images(v.saved) \subseteq Own(d)
      /\ (~Fresh(d) => v.name = TRUE /\ v.screen = None) /\ IsList(v.queue)
  BY <1>4, <1>5 DEF Holder
<1>8. \A m \in Range(v.queue) : m \in Range(w.queue)
  BY <1>4
<1>9. \A x \in Range(v.out) : x \in Range(w.out) \/ Task(x, d, v)
  BY <1>3, <1>4, <1>6
<1>10. Holder(d, v)
  BY <1>3, <1>4, <1>5, <1>7, <1>8, <1>9, HolderMore
<1> QED BY <1>1, <1>10 DEF o, v

\* A step of the inbox: the shares are the same, the backups no fewer.
Progress(d, w, v) ==
  /\ Holder(d, v) /\ v.shares = w.shares /\ v.staged = w.staged
  /\ Images(w.saved) \subseteq Images(v.saved)

\* A message of the coordinator is processed.
LEMMA ProcessHolds ==
  ASSUME OnePaper, NEW d \in Devices, NEW w, Holder(d, w), NEW m,
         m.type \in Asks, m.type = "Enter" => Fresh(d)
  PROVE  Progress(d, w, Process(d, w, m))
<1>1. MemoryOf(w) /\ IsList(w.out) /\ Now(w) \cup w.loaded \cup Images(w.saved) \subseteq Own(d)
  BY DEF Holder
<1>2. Complete(w) = Now(w)
  BY <1>1, CompleteIsNow
<1>3. Progress(d, w, w)
  BY DEF Progress
<1>4. ASSUME NEW type, NEW arg, Task(Message(type, arg), d, w)
      PROVE  Progress(d, w, Say(w, type, arg))
  <2>1. Say(w, type, arg) = [w EXCEPT !.out = Append(@, Message(type, arg))]
    BY DEF Say
  <2>2. Say(w, type, arg).shares = w.shares /\ Say(w, type, arg).staged = w.staged
        /\ Say(w, type, arg).saved = w.saved
    BY <1>1, <2>1 DEF MemoryOf, Fields
  <2> QED BY <1>4, <2>2, SayHolds DEF Progress
<1>5. ASSUME ~w.failed PROVE Progress(d, w, [w EXCEPT !.failed = TRUE])
  <2> DEFINE u == [w EXCEPT !.failed = TRUE]
  <2>1. /\ MemoryOf(u) /\ u.shares = w.shares /\ u.staged = w.staged /\ u.saved = w.saved
        /\ u.loaded = w.loaded /\ u.name = w.name /\ u.screen = w.screen /\ u.queue = w.queue
        /\ u.out = w.out
    BY <1>1 DEF MemoryOf, Fields
  <2> HIDE DEF u
  <2>2. Now(u) = Now(w) /\ NowKept(u) = NowKept(w)
    BY <2>1 DEF Now, NowKept
  <2>3. Holder(d, u)
    BY <2>1, <2>2 DEF Holder, Task
  <2> QED BY <2>1, <2>3 DEF u, Progress
<1> HIDE DEF Progress
<1>6. CASE w.failed
  BY <1>3, <1>6 DEF Process
<1>7. CASE ~w.failed /\ m.type \in {"Cancel", "Preview"}
  <2> DEFINE c == [w EXCEPT !.loaded = {}, !.named = FALSE, !.screen = None]
             p == [w EXCEPT !.named = TRUE, !.screen = None]
  <2>1. ASSUME NEW u, MemoryOf(u), u.shares = w.shares, u.staged = w.staged, u.saved = w.saved,
               u.loaded \subseteq w.loaded, u.name = w.name, u.screen = None, u.queue = w.queue,
               u.out = w.out
        PROVE  Progress(d, w, u)
    <3>1. Now(u) = Now(w) /\ NowKept(u) = NowKept(w)
      BY <2>1 DEF Now, NowKept
    <3>2. Holder(d, u)
      BY <2>1, <3>1 DEF Holder, Task
    <3> QED BY <2>1, <3>2 DEF Progress
  <2>2. Progress(d, w, c)
    <3>1. MemoryOf(c) /\ c.shares = w.shares /\ c.staged = w.staged /\ c.saved = w.saved
          /\ c.loaded = {} /\ c.name = w.name /\ c.screen = None /\ c.queue = w.queue
          /\ c.out = w.out
      BY <1>1 DEF MemoryOf, Fields
    <3> HIDE DEF c
    <3> QED BY <2>1, <3>1
  <2>3. Progress(d, w, p)
    <3>1. MemoryOf(p) /\ p.shares = w.shares /\ p.staged = w.staged /\ p.saved = w.saved
          /\ p.loaded = w.loaded /\ p.name = w.name /\ p.screen = None /\ p.queue = w.queue
          /\ p.out = w.out
      BY <1>1 DEF MemoryOf, Fields
    <3> HIDE DEF p
    <3> QED BY <2>1, <3>1
  <2>4. Process(d, w, m) = c \/ Process(d, w, m) = p
    BY <1>7 DEF Process
  <2> HIDE DEF c, p
  <2> QED BY <2>2, <2>3, <2>4
<1>8. CASE ~w.failed /\ m.type = "Enter"
  <2>1. Task(Message("EnterBackup", m.arg), d, w)
    BY <1>8 DEF Task, Message, Tells
  <2>2. Process(d, w, m) = Say(w, "EnterBackup", m.arg)
    BY <1>8 DEF Process
  <2> QED BY <1>4, <2>1, <2>2
<1>9. CASE ~w.failed /\ m.type = "Request"
  <2> DEFINE s == HeldShare(d, w)
  <2>1. s # None => s.dev = d /\ Claims(s) /\ Rests(s, Now(w), NowKept(w))
    <3>1. CASE Complete(w) # {}
      <4>1. PICK im \in Complete(w) : s = Share(d, im, im[1], Threshold[im[1]], FALSE)
        BY <3>1 DEF HeldShare
      <4> QED BY <4>1, <1>2 DEF Share, Claims, Rests
    <3>2. CASE Complete(w) = {} /\ Backups(w) # {}
      <4>1. PICK b \in Backups(w) : s = Share(d, b.image, None, b.thr, TRUE)
        BY <3>2 DEF HeldShare
      <4>2. b.image \in NowKept(w)
        BY <4>1 DEF Backups, NowKept, Images
      <4> QED BY <4>1, <4>2 DEF Share, Claims, Rests
    <3>3. CASE Complete(w) = {} /\ Backups(w) = {}
      BY <3>3 DEF HeldShare
    <3> QED BY <3>1, <3>2, <3>3
  <2> HIDE DEF s
  <2>2. Task(Message("Held", s), d, w)
    BY <2>1 DEF Task, Message, Tells
  <2>3. Process(d, w, m) = Say(w, "Held", s)
    BY <1>9 DEF Process, s
  <2> QED BY <1>4, <2>2, <2>3
<1>10. CASE ~w.failed /\ m.type = "Save"
  <2>1. CASE m.arg.image \notin w.loaded
    <3>1. Process(d, w, m) = [w EXCEPT !.failed = TRUE]
      BY <1>10, <2>1 DEF Process, Saves
    <3> QED BY <1>5, <1>10, <3>1
  <2>2. CASE m.arg.image \in w.loaded
    <3> DEFINE b == [image |-> m.arg.image, thr |-> m.arg.thr]
               u == [w EXCEPT !.loaded = @ \ {m.arg.image}, !.saved = @ \cup {b}]
    <3>1. /\ MemoryOf(u) /\ u.shares = w.shares /\ u.staged = w.staged /\ u.saved = w.saved \cup {b}
          /\ u.loaded = w.loaded \ {m.arg.image} /\ u.name = w.name /\ u.screen = w.screen
          /\ u.queue = w.queue /\ u.out = w.out
      BY <1>1 DEF MemoryOf, Fields
    <3> HIDE DEF u
    <3>2. Images(u.saved) = Images(w.saved) \cup {m.arg.image}
      <4>1. b.image = m.arg.image
        OBVIOUS
      <4> HIDE DEF b
      <4> QED BY <3>1, <4>1 DEF Images
    <3>3. Now(u) = Now(w) /\ NowKept(u) = NowKept(w) \cup {m.arg.image}
      BY <3>1, <3>2 DEF Now, NowKept
    <3>4. Now(u) \cup u.loaded \cup Images(u.saved) \subseteq Own(d)
      BY <1>1, <2>2, <3>1, <3>2, <3>3
    <3>5. (~Fresh(d) => u.name = TRUE /\ u.screen = None) /\ IsList(u.queue) /\ IsList(u.out)
      BY <3>1 DEF Holder
    <3>6. Now(w) \subseteq Now(u) /\ NowKept(w) \subseteq NowKept(u)
      BY <3>3
    <3>7. \A x : (x \in Range(u.queue) => x \in Range(w.queue)) /\ (x \in Range(u.out) => x \in Range(w.out))
      BY <3>1
    <3>8. Holder(d, u)
      BY <3>1, <3>4, <3>5, <3>6, <3>7, HolderMore
    <3>9. Task(Message("BackupSaved", None), d, u)
      BY DEF Task, Message, Tells
    <3>10. Holder(d, Say(u, "BackupSaved", None))
           /\ Say(u, "BackupSaved", None) = [u EXCEPT !.out = Append(@, Message("BackupSaved", None))]
      BY <3>8, <3>9, SayHolds
    <3> DEFINE t == Say(u, "BackupSaved", None)
    <3>11. t.shares = u.shares /\ t.staged = u.staged /\ t.saved = u.saved
      BY <3>1, <3>10 DEF MemoryOf, Fields
    <3>11a. Holder(d, t)
      BY <3>10
    <3> HIDE DEF t
    <3>12. Now(t) = Now(u) /\ NowKept(t) = NowKept(u)
      BY <3>11 DEF Now, NowKept
    <3>13. Task(Message("Saved", m.arg.image), d, t)
      BY <3>3, <3>12 DEF Task, Message, Tells
    <3>14. Holder(d, Say(t, "Saved", m.arg.image))
           /\ Say(t, "Saved", m.arg.image) = [t EXCEPT !.out = Append(@, Message("Saved", m.arg.image))]
      BY <3>11a, <3>13, SayHolds, SMTT(30)
    <3>15. Process(d, w, m) = Say(t, "Saved", m.arg.image)
      BY <1>10, <2>2 DEF Process, Saves, t, u
    <3>16. MemoryOf(t)
      BY <3>11a DEF Holder
    <3>17. Process(d, w, m).shares = t.shares /\ Process(d, w, m).staged = t.staged
           /\ Process(d, w, m).saved = t.saved
      BY <3>14, <3>15, <3>16 DEF MemoryOf, Fields
    <3> QED BY <3>1, <3>2, <3>11, <3>14, <3>15, <3>17 DEF Progress
  <2> QED BY <2>1, <2>2
<1>11. CASE ~w.failed /\ m.type = "Consolidate"
  <2>1. Process(d, w, m) = Consolidates(w, m.arg)
    BY <1>11 DEF Process
  <2>2. CASE m.arg \in w.loaded \cup {b.image : b \in Backups(w)}
    <3>1. m.arg \in Own(d)
      BY <1>1, <2>2, BackupImages DEF Images
    <3>2. Task(Message("ConsolidateBackup", m.arg), d, w)
      BY <3>1 DEF Task, Message, Tells
    <3>3. Process(d, w, m) = Say(w, "ConsolidateBackup", m.arg)
      BY <2>1, <2>2 DEF Consolidates
    <3> QED BY <1>4, <3>2, <3>3
  <2>3. CASE m.arg \notin w.loaded \cup {b.image : b \in Backups(w)} /\ m.arg \in Complete(w)
    <3>1. Task(Message("Finished", m.arg), d, w)
      BY <1>2, <2>3 DEF Task, Message, Tells
    <3>2. Process(d, w, m) = Say(w, "Finished", m.arg)
      BY <2>1, <2>3 DEF Consolidates
    <3> QED BY <1>4, <3>1, <3>2
  <2>4. CASE m.arg \notin w.loaded \cup {b.image : b \in Backups(w)} /\ m.arg \notin Complete(w)
    <3>1. Process(d, w, m) = [w EXCEPT !.failed = TRUE]
      BY <2>1, <2>4 DEF Consolidates
    <3> QED BY <1>5, <1>11, <3>1
  <2> QED BY <2>2, <2>3, <2>4
<1> QED BY <1>6, <1>7, <1>8, <1>9, <1>10, <1>11 DEF Asks

\* The pending name is saved and queued.
LEMMA SaveNameHolds ==
  ASSUME NEW d, NEW w, Holder(d, w)
  PROVE  LET u == SaveName(w)
         IN  /\ Holder(d, u)
             /\ u.shares = w.shares /\ u.saved = w.saved /\ u.staged = w.staged
             /\ u.loaded = w.loaded /\ u.out = w.out /\ u.screen = w.screen
<1> DEFINE u == SaveName(w)
           o == Message("SetName", None)
<1>1. MemoryOf(w) /\ IsList(w.queue) /\ IsList(w.out)
  BY DEF Holder
<1>2. CASE ~w.named
  BY <1>2 DEF SaveName
<1>3. CASE w.named
  <2>1. u = [w EXCEPT !.named = FALSE, !.name = TRUE, !.queue = Append(@, o)]
    BY <1>3 DEF SaveName
  <2> HIDE DEF u, o
  <2>2. MemoryOf(u)
    BY <1>1, <2>1 DEF MemoryOf, Fields
  <2>3. /\ u.shares = w.shares /\ u.saved = w.saved /\ u.staged = w.staged /\ u.loaded = w.loaded
        /\ u.out = w.out /\ u.screen = w.screen /\ u.name = TRUE /\ u.queue = Append(w.queue, o)
    BY <1>1, <2>1 DEF MemoryOf, Fields
  <2>4. IsList(u.queue) /\ Range(u.queue) = Range(w.queue) \cup {o}
    BY <1>1, <2>3, ListAppend
  <2>5. Now(u) = Now(w) /\ NowKept(u) = NowKept(w)
    BY <2>3 DEF Now, NowKept
  <2>6. Tells(o, d, Now(u), NowKept(u))
    BY DEF Tells, Message, o
  <2>7. /\ Now(u) \cup u.loaded \cup Images(u.saved) \subseteq Own(d)
        /\ ~Fresh(d) => u.name = TRUE /\ u.screen = None
        /\ \A x \in Range(u.out) : x \in Range(w.out)
    BY <2>3, <2>5 DEF Holder
  <2>8. \A m \in Range(u.queue) : m \in Range(w.queue) \/ Tells(m, d, Now(u), NowKept(u))
    BY <2>4, <2>6
  <2>9. Holder(d, u)
    BY <1>1, <2>2, <2>3, <2>4, <2>5, <2>7, <2>8, HolderMore
  <2> QED BY <2>3, <2>9 DEF u
<1> QED BY <1>2, <1>3

\* A step of the outbox: the shares and the backups are the same, and what is
\* staged is no less.
Carries(d, w, v) ==
  Holder(d, v) /\ v.shares = w.shares /\ v.saved = w.saved /\ w.staged \subseteq v.staged

\* An entry of the outbox is worked off.
LEMMA EmitHolds ==
  ASSUME NEW d, NEW w, Holder(d, w), NEW o, Task(o, d, w)
  PROVE  Carries(d, w, Emit(w, o))
<1>1. MemoryOf(w) /\ IsList(w.queue) /\ IsList(w.out) /\ Now(w) \cup w.loaded \cup Images(w.saved) \subseteq Own(d)
      /\ (~Fresh(d) => w.name = TRUE /\ w.screen = None)
  BY DEF Holder
<1>2. CASE w.failed
  BY <1>2 DEF Emit, Carries
<1>3. CASE ~w.failed /\ o.type = "EnterBackup"
  <2> DEFINE v == [w EXCEPT !.screen = o.arg]
  <2>1. Emit(w, o) = v
    BY <1>3 DEF Emit
  <2>2. /\ MemoryOf(v) /\ v.shares = w.shares /\ v.saved = w.saved /\ v.staged = w.staged
        /\ v.loaded = w.loaded /\ v.out = w.out /\ v.name = w.name /\ v.queue = w.queue
    BY <1>1 DEF MemoryOf, Fields
  <2>3. Fresh(d)
    BY <1>3 DEF Task
  <2> HIDE DEF v
  <2>4. Now(v) = Now(w) /\ NowKept(v) = NowKept(w)
    BY <2>2 DEF Now, NowKept
  <2>5. Holder(d, v)
    BY <2>2, <2>3, <2>4 DEF Holder, Task
  <2> QED BY <2>1, <2>2, <2>5 DEF Carries
<1>4. CASE ~w.failed /\ o.type = "BackupSaved"
  <2> DEFINE s == SaveName(w)
  <2>1. Holder(d, s) /\ s.shares = w.shares /\ s.saved = w.saved /\ s.staged = w.staged
    BY SaveNameHolds
  <2> HIDE DEF s
  <2> DEFINE v == [s EXCEPT !.failed = ~w.named, !.screen = None]
  <2>2. Emit(w, o) = v
    BY <1>4 DEF Emit, s
  <2>3. MemoryOf(s)
    BY <2>1 DEF Holder
  <2>4. /\ MemoryOf(v) /\ v.shares = s.shares /\ v.saved = s.saved /\ v.staged = s.staged
        /\ v.loaded = s.loaded /\ v.out = s.out /\ v.name = s.name /\ v.queue = s.queue
        /\ v.screen = None
    BY <2>3 DEF MemoryOf, Fields
  <2> HIDE DEF v
  <2>5. Now(v) = Now(s) /\ NowKept(v) = NowKept(s)
    BY <2>4 DEF Now, NowKept
  <2>6. Holder(d, v)
    BY <2>1, <2>4, <2>5 DEF Holder, Task
  <2> QED BY <2>1, <2>2, <2>4, <2>6 DEF Carries
<1>5. CASE ~w.failed /\ o.type = "ConsolidateBackup"
  <2> DEFINE s == SaveName(w)
  <2>1. Holder(d, s) /\ s.shares = w.shares /\ s.saved = w.saved /\ s.staged = w.staged
    BY SaveNameHolds
  <2> HIDE DEF s
  <2> DEFINE u == [s EXCEPT !.staged = @ \cup {o.arg}, !.loaded = @ \ {o.arg}, !.screen = None]
  <2>2. MemoryOf(s) /\ o.arg \in Own(d)
    BY <1>5, <2>1 DEF Holder, Task
  <2>3. Emit(w, o) = Say(u, "Finished", o.arg)
    BY <1>5 DEF Emit, s
  <2>4. /\ MemoryOf(u) /\ u.shares = s.shares /\ u.saved = s.saved
        /\ u.staged = s.staged \cup {o.arg} /\ u.loaded = s.loaded \ {o.arg}
        /\ u.out = s.out /\ u.name = s.name /\ u.queue = s.queue /\ u.screen = None
    BY <2>2 DEF MemoryOf, Fields
  <2> HIDE DEF u
  <2>5. Now(u) = Now(s) \cup {o.arg} /\ NowKept(u) = NowKept(s) \cup {o.arg}
    BY <2>4 DEF Now, NowKept
  <2>6. /\ Now(u) \cup u.loaded \cup Images(u.saved) \subseteq Own(d)
        /\ ~Fresh(d) => u.name = TRUE /\ u.screen = None
        /\ IsList(u.queue) /\ IsList(u.out)
        /\ Now(s) \subseteq Now(u) /\ NowKept(s) \subseteq NowKept(u)
        /\ \A x : (x \in Range(u.queue) => x \in Range(s.queue)) /\ (x \in Range(u.out) => x \in Range(s.out))
    BY <2>1, <2>2, <2>4, <2>5 DEF Holder
  <2>7. Holder(d, u)
    BY <2>1, <2>4, <2>6, HolderMore
  <2>8. Task(Message("Finished", o.arg), d, u)
    BY <2>5 DEF Task, Message, Tells
  <2>9. Holder(d, Say(u, "Finished", o.arg))
    BY <2>7, <2>8, SayHolds
  <2>10. Say(u, "Finished", o.arg) = [u EXCEPT !.out = Append(@, Message("Finished", o.arg))]
    BY DEF Say
  <2>11. Say(u, "Finished", o.arg).shares = u.shares /\ Say(u, "Finished", o.arg).saved = u.saved
         /\ Say(u, "Finished", o.arg).staged = u.staged
    BY <2>4, <2>10 DEF MemoryOf, Fields
  <2> QED BY <2>1, <2>3, <2>4, <2>9, <2>11 DEF Carries
<1>6. CASE ~w.failed /\ o.type \notin {"EnterBackup", "BackupSaved", "ConsolidateBackup"}
  <2> DEFINE v == [w EXCEPT !.queue = Append(@, o)]
  <2>1. Emit(w, o) = v
    BY <1>6 DEF Emit
  <2>2. /\ MemoryOf(v) /\ v.shares = w.shares /\ v.saved = w.saved /\ v.staged = w.staged
        /\ v.loaded = w.loaded /\ v.out = w.out /\ v.name = w.name /\ v.screen = w.screen
        /\ v.queue = Append(w.queue, o)
    BY <1>1 DEF MemoryOf, Fields
  <2> HIDE DEF v
  <2>3. IsList(v.queue) /\ Range(v.queue) = Range(w.queue) \cup {o}
    BY <1>1, <2>2, ListAppend
  <2>4. Now(v) = Now(w) /\ NowKept(v) = NowKept(w)
    BY <2>2 DEF Now, NowKept
  <2>5. Tells(o, d, Now(v), NowKept(v))
    BY <2>4 DEF Task
  <2>6. \A m \in Range(v.queue) : m \in Range(w.queue) \/ Tells(m, d, Now(v), NowKept(v))
    BY <2>3, <2>5
  <2>7. Holder(d, v)
    BY <1>1, <2>2, <2>3, <2>4, <2>6, HolderMore
  <2> QED BY <2>1, <2>2, <2>7 DEF Carries
<1> QED BY <1>2, <1>3, <1>4, <1>5, <1>6

\* The first entry leaves the outbox.
LEMMA PopHolds ==
  ASSUME NEW d, NEW w, Holder(d, w), w.out # <<>>
  PROVE  LET v == [w EXCEPT !.out = Tail(@)]
         IN  Carries(d, w, v) /\ Task(Head(w.out), d, v)
<1> DEFINE v == [w EXCEPT !.out = Tail(@)]
<1>1. MemoryOf(w) /\ IsList(w.out)
  BY DEF Holder
<1>2. /\ MemoryOf(v) /\ v.shares = w.shares /\ v.saved = w.saved /\ v.staged = w.staged
      /\ v.loaded = w.loaded /\ v.queue = w.queue /\ v.name = w.name /\ v.screen = w.screen
      /\ v.out = Tail(w.out)
  BY <1>1 DEF MemoryOf, Fields
<1> HIDE DEF v
<1>3. IsList(v.out) /\ Range(v.out) \subseteq Range(w.out) /\ Head(w.out) \in Range(w.out)
  BY <1>1, <1>2, ListTail
<1>4. Now(v) = Now(w) /\ NowKept(v) = NowKept(w)
  BY <1>2 DEF Now, NowKept
<1>5. Holder(d, v) /\ Task(Head(w.out), d, v)
  BY <1>2, <1>3, <1>4 DEF Holder, Task
<1> QED BY <1>2, <1>5 DEF Carries, v

\* The staged mutations are written.
LEMMA WrittenHolds ==
  ASSUME OnePaper, NEW d \in Devices, NEW w, Holder(d, w)
  PROVE  LET f == Written(w)
         IN  /\ Holder(d, f) /\ f.shares = Now(w) /\ f.staged = {}
             /\ NowKept(w) \subseteq NowKept(f)
<1> DEFINE f == Written(w)
<1>1. MemoryOf(w) /\ Now(w) \subseteq Own(d)
  BY DEF Holder
<1>2. Complete(w) = Now(w)
  BY <1>1, CompleteIsNow
<1>3. f = [w EXCEPT !.shares = Now(w), !.saved = Backups(w), !.staged = {}]
  BY <1>2 DEF Written
<1> HIDE DEF f
<1>4. /\ MemoryOf(f) /\ f.shares = Now(w) /\ f.saved = Backups(w) /\ f.staged = {}
      /\ f.loaded = w.loaded /\ f.queue = w.queue /\ f.name = w.name /\ f.screen = w.screen
      /\ f.out = w.out
  BY <1>1, <1>3 DEF MemoryOf, Fields
<1>5. Now(f) = Now(w)
  BY <1>4 DEF Now
<1>6. NowKept(f) = NowKept(w)
  BY <1>4, <1>5, BackupImages DEF NowKept, Now
<1>7. /\ Now(f) \cup f.loaded \cup Images(f.saved) \subseteq Own(d)
      /\ ~Fresh(d) => f.name = TRUE /\ f.screen = None
      /\ IsList(f.queue) /\ IsList(f.out)
      /\ \A x : (x \in Range(f.queue) => x \in Range(w.queue)) /\ (x \in Range(f.out) => x \in Range(w.out))
  BY <1>4, <1>5, BackupImages DEF Holder
<1>8. Holder(d, f)
  BY <1>4, <1>5, <1>6, <1>7, HolderMore
<1> QED BY <1>4, <1>6, <1>8 DEF f

\* The inbox is worked off message by message.
LEMMA AfterInboxUnfolds ==
  ASSUME NEW d, NEW n \in Nat
  PROVE  \E w : /\ w[0] = Working(d)
                /\ \A i \in 1 .. n : w[i] = Process(d, w[i - 1], down[d][i])
                /\ AfterInbox(d, n) = w[n]
<1> DEFINE Runs(w, j) == /\ w[0] = Working(d)
                         /\ \A i \in 1 .. j : w[i] = Process(d, w[i - 1], down[d][i])
           G == {j \in 0 .. n : \E w : Runs(w, j)}
<1>1. 0 \in G
  <2> DEFINE w == [i \in {0} |-> Working(d)]
  <2>1. Runs(w, 0)
    OBVIOUS
  <2> HIDE DEF w
  <2>2. 0 \in 0 .. n /\ \E f : Runs(f, 0)
    BY <2>1
  <2> QED BY <2>2
<1>2. ASSUME NEW j \in 1 .. n, j - 1 \in G
      PROVE  j \in G
  <2>1. PICK w : Runs(w, j - 1)
    BY <1>2
  <2> DEFINE v == [i \in 0 .. j |-> IF i = j THEN Process(d, w[j - 1], down[d][j]) ELSE w[i]]
  <2>2. v[0] = w[0] /\ v[j] = Process(d, w[j - 1], down[d][j])
    OBVIOUS
  <2>3. \A i \in 1 .. j - 1 : v[i] = w[i] /\ v[i - 1] = w[i - 1]
    OBVIOUS
  <2>4. v[j - 1] = w[j - 1]
    OBVIOUS
  <2> HIDE DEF v
  <2>5. \A i \in 1 .. j : i # j => i \in 1 .. j - 1
    OBVIOUS
  <2>6. Runs(v, j)
    BY <2>1, <2>2, <2>3, <2>4, <2>5
  <2> QED BY <2>6
<1>3. n \in G
  <2> HIDE DEF G
  <2> QED BY <1>1, <1>2, UpTo
<1>4. PICK w : Runs(w, n)
  BY <1>3
<1> DEFINE Step(g) == [i \in 0 .. n |-> IF i = 0 THEN Working(d) ELSE Process(d, g[i - 1], down[d][i])]
           h == [i \in 0 .. n |-> w[i]]
<1>5. \A i \in 1 .. n : h[i - 1] = w[i - 1] /\ h[i] = w[i]
  OBVIOUS
<1>6. h = Step(h)
  BY <1>4, <1>5
<1> HIDE DEF h
<1>7. PICK g : g = (CHOOSE f : f = Step(f)) /\ g = Step(g)
  <2> HIDE DEF Step
  <2> QED BY <1>6
<1>8. AfterInbox(d, n) = g[n]
  BY <1>7 DEF AfterInbox
<1>9. \A i \in 0 .. n : g[i] = IF i = 0 THEN Working(d) ELSE Process(d, g[i - 1], down[d][i])
  <2>1. g = Step(g)
    BY <1>7
  <2>2. \A i \in 0 .. n : Step(g)[i] =
                            IF i = 0 THEN Working(d) ELSE Process(d, g[i - 1], down[d][i])
    OBVIOUS
  <2> HIDE DEF Step
  <2> QED BY <2>1, <2>2
<1>10. g[0] = Working(d) /\ \A i \in 1 .. n : g[i] = Process(d, g[i - 1], down[d][i])
  BY <1>9
<1> QED BY <1>8, <1>10

\* The outbox is worked off entry by entry.
NextEntry(x) ==
  IF x.out = <<>> THEN x ELSE Emit([x EXCEPT !.out = Tail(@)], Head(x.out))

LEMMA AfterOutboxUnfolds ==
  ASSUME NEW w, Len(w.out) \in Nat
  PROVE  \E v : /\ v[0] = w
                /\ \A i \in 1 .. 2 * Len(w.out) : v[i] = NextEntry(v[i - 1])
                /\ AfterOutbox(w) = v[2 * Len(w.out)]
<1> DEFINE n == 2 * Len(w.out)
           Runs(v, j) == v[0] = w /\ \A i \in 1 .. j : v[i] = NextEntry(v[i - 1])
           G == {j \in 0 .. n : \E v : Runs(v, j)}
           Coded(g) == [i \in 0 .. n |->
              CASE i = 0 -> w
                [] i > 0 /\ g[i - 1].out = <<>> -> g[i - 1]
                [] OTHER -> Emit([g[i - 1] EXCEPT !.out = Tail(@)], Head(g[i - 1].out))]
           Step(g) == [i \in 0 .. n |-> IF i = 0 THEN w ELSE NextEntry(g[i - 1])]
<1>0. n \in Nat /\ AfterOutbox(w) = (CHOOSE f : f = Coded(f))[n]
  BY DEF AfterOutbox
<1> HIDE DEF n
<1>a. \A g : Coded(g) = Step(g)
  <2> SUFFICES ASSUME NEW g PROVE Coded(g) = Step(g)
    OBVIOUS
  <2>1. ASSUME NEW i \in 0 .. n
        PROVE  (CASE i = 0 -> w
                  [] i > 0 /\ g[i - 1].out = <<>> -> g[i - 1]
                  [] OTHER -> Emit([g[i - 1] EXCEPT !.out = Tail(@)], Head(g[i - 1].out)))
               = IF i = 0 THEN w ELSE NextEntry(g[i - 1])
    <3>1. CASE i = 0
      BY <3>1
    <3>2. CASE i > 0
      BY <1>0, <3>2 DEF NextEntry
    <3> QED BY <1>0, <3>1, <3>2
  <2> QED BY <2>1
<1>b. AfterOutbox(w) = (CHOOSE f : f = Step(f))[n]
  <2> HIDE DEF Coded, Step
  <2>1. \A f : (f = Coded(f)) <=> (f = Step(f))
    BY <1>a
  <2>2. (CHOOSE f : f = Coded(f)) = (CHOOSE f : f = Step(f))
    BY <2>1
  <2> QED BY <1>0, <2>2
<1> HIDE DEF Coded
<1>1. 0 \in G
  <2> DEFINE v == [i \in {0} |-> w]
  <2>1. Runs(v, 0)
    OBVIOUS
  <2> HIDE DEF v
  <2>2. 0 \in 0 .. n /\ \E f : Runs(f, 0)
    BY <1>0, <2>1
  <2> QED BY <2>2
<1>2. ASSUME NEW j \in 1 .. n, j - 1 \in G
      PROVE  j \in G
  <2>1. PICK v : Runs(v, j - 1)
    BY <1>2
  <2> DEFINE u == [i \in 0 .. j |-> IF i = j THEN NextEntry(v[j - 1]) ELSE v[i]]
  <2>2. u[0] = v[0] /\ u[j] = NextEntry(v[j - 1])
    BY <1>0
  <2>3. \A i \in 1 .. j - 1 : u[i] = v[i] /\ u[i - 1] = v[i - 1]
    BY <1>0
  <2>4. u[j - 1] = v[j - 1]
    BY <1>0
  <2> HIDE DEF u
  <2>5. \A i \in 1 .. j : i # j => i \in 1 .. j - 1
    BY <1>0
  <2>6. Runs(u, j)
    BY <2>1, <2>2, <2>3, <2>4, <2>5
  <2> QED BY <2>6
<1>3. n \in G
  <2>1. n \in 0 .. n
    BY <1>0
  <2> HIDE DEF G
  <2> QED BY <1>0, <1>1, <1>2, <2>1, UpTo
<1>4. PICK v : Runs(v, n)
  BY <1>3
<1> DEFINE h == [i \in 0 .. n |-> v[i]]
<1>5. \A i \in 1 .. n : h[i - 1] = v[i - 1] /\ h[i] = v[i]
  BY <1>0
<1>6. h = Step(h)
  BY <1>4, <1>5
<1> HIDE DEF h
<1>7. PICK g : g = (CHOOSE f : f = Step(f)) /\ g = Step(g)
  <2> HIDE DEF Step
  <2> QED BY <1>6
<1>8. AfterOutbox(w) = g[n]
  BY <1>b, <1>7
<1>9. \A i \in 0 .. n : g[i] = IF i = 0 THEN w ELSE NextEntry(g[i - 1])
  <2>1. g = Step(g)
    BY <1>7
  <2>2. \A i \in 0 .. n : Step(g)[i] = IF i = 0 THEN w ELSE NextEntry(g[i - 1])
    OBVIOUS
  <2> HIDE DEF Step
  <2> QED BY <2>1, <2>2
<1>10. g[0] = w /\ \A i \in 1 .. n : g[i] = NextEntry(g[i - 1])
  BY <1>0, <1>9
<1> QED BY <1>8, <1>10 DEF n

\* What a device is after the n first messages of its inbox.
LEMMA AfterInboxHolds ==
  ASSUME OnePaper, NEW d \in Devices, Holder(d, Working(d)),
         NEW n \in 0 .. Len(down[d]), Len(down[d]) \in Nat,
         \A i \in 1 .. Len(down[d]) :
           down[d][i].type \in Asks /\ (down[d][i].type = "Enter" => Fresh(d))
  PROVE  Progress(d, Working(d), AfterInbox(d, n))
<1>1. PICK w : /\ w[0] = Working(d)
               /\ \A i \in 1 .. n : w[i] = Process(d, w[i - 1], down[d][i])
               /\ AfterInbox(d, n) = w[n]
  BY AfterInboxUnfolds
<1> DEFINE G == {i \in 0 .. n : Progress(d, Working(d), w[i])}
<1>2. 0 \in G
  BY <1>1 DEF Progress
<1>3. ASSUME NEW i \in 1 .. n, i - 1 \in G
      PROVE  i \in G
  <2>1. Progress(d, Working(d), w[i - 1])
    BY <1>3
  <2>2. Progress(d, w[i - 1], Process(d, w[i - 1], down[d][i]))
    <3>1. Holder(d, w[i - 1]) /\ i \in 1 .. Len(down[d])
      BY <2>1 DEF Progress
    <3> QED BY <3>1, ProcessHolds
  <2>3. Progress(d, Working(d), w[i])
    <3>1. w[i] = Process(d, w[i - 1], down[d][i])
      BY <1>1
    <3> QED BY <2>1, <2>2, <3>1 DEF Progress
  <2> QED BY <2>3
<1>4. n \in G
  <2> HIDE DEF G
  <2>1. n \in Nat /\ n \in 0 .. n
    OBVIOUS
  <2> QED BY <1>2, <1>3, <2>1, UpTo
<1> QED BY <1>1, <1>4

LEMMA AfterOutboxHolds ==
  ASSUME NEW d, NEW w, Holder(d, w)
  PROVE  Carries(d, w, AfterOutbox(w))
<1>1. IsList(w.out) /\ Len(w.out) \in Nat
  BY ListAt DEF Holder
<1>2. PICK v : /\ v[0] = w
               /\ \A i \in 1 .. 2 * Len(w.out) : v[i] = NextEntry(v[i - 1])
               /\ AfterOutbox(w) = v[2 * Len(w.out)]
  BY <1>1, AfterOutboxUnfolds
<1> DEFINE n == 2 * Len(w.out)
           G == {i \in 0 .. n : Carries(d, w, v[i])}
<1>3. n \in Nat /\ n \in 0 .. n /\ 0 \in 0 .. n
  BY <1>1
<1>4. 0 \in G
  BY <1>2, <1>3 DEF Carries
<1>5. ASSUME NEW i \in 1 .. n, i - 1 \in G
      PROVE  i \in G
  <2> DEFINE x == v[i - 1]
  <2>1. Carries(d, w, x) /\ v[i] = NextEntry(x) /\ i \in 0 .. n
    BY <1>2, <1>3, <1>5
  <2> HIDE DEF x
  <2>2. Holder(d, x)
    BY <2>1 DEF Carries
  <2>3. Carries(d, x, NextEntry(x))
    <3>1. CASE x.out = <<>>
      BY <2>2, <3>1 DEF NextEntry, Carries
    <3>2. CASE x.out # <<>>
      <4> DEFINE y == [x EXCEPT !.out = Tail(@)]
      <4>1. Carries(d, x, y) /\ Task(Head(x.out), d, y)
        BY <2>2, <3>2, PopHolds
      <4>2. NextEntry(x) = Emit(y, Head(x.out))
        BY <3>2 DEF NextEntry
      <4> HIDE DEF y
      <4>3. Carries(d, y, Emit(y, Head(x.out)))
        BY <4>1, EmitHolds DEF Carries
      <4> QED BY <4>1, <4>2, <4>3 DEF Carries
    <3> QED BY <3>1, <3>2
  <2>4. Carries(d, w, v[i])
    BY <2>1, <2>3 DEF Carries
  <2> QED BY <2>1, <2>4
<1>6. n \in G
  <2> HIDE DEF G, n
  <2> QED BY <1>3, <1>4, <1>5, UpTo
<1> QED BY <1>2, <1>6

----------------------------------------------------------------------------
(* What a step leaves alone *)

\* No device has less than before.
Grows == \A d \in Devices : Stored[d] \subseteq Stored'[d] /\ Kept[d] \subseteq Kept'[d]

LEMMA BackedMore ==
  ASSUME Grows, NEW s, Backed(s)
  PROVE  BackedBy(s, Stored', Kept')
BY DEF Grows, Backed, BackedBy, Rests

\* Nothing happens on the devices.
Quiet == UNCHANGED <<flashVars, memVars, torn>>

LEMMA QuietDevices ==
  ASSUME RestorationInvariant, Quiet
  PROVE  /\ Stored' = Stored /\ Kept' = Kept /\ Grows
         /\ DeviceShape' /\ DevicesHold'
<1>1. UNCHANGED <<shares, saved, name, staged, loaded, named, screen, queue, sent, torn>>
  BY DEF Quiet, flashVars, memVars
<1>2. Stored' = Stored
  BY <1>1 DEF Stored
<1>3. Kept' = Kept
  BY <1>1, <1>2 DEF Kept
<1>4. DeviceShape'
  BY <1>1 DEF RestorationInvariant, DeviceShape
<1>5. ASSUME NEW d \in Devices PROVE Holder(d, Working(d)')
  <2>1. Working(d)' = Working(d)
    BY <1>1 DEF Working
  <2> QED BY <2>1 DEF RestorationInvariant, DevicesHold
<1>6. DevicesHold'
  BY <1>5 DEF DevicesHold
<1> QED BY <1>2, <1>3, <1>4, <1>6 DEF Grows

LEMMA UpStays ==
  ASSUME RestorationInvariant, Grows, up' = up
  PROVE  UpTrue'
<1>1. ASSUME NEW d \in Devices, NEW m \in Range(up[d]) PROVE Tells(m, d, Stored'[d], Kept'[d])
  BY <1>1, TellsMore DEF RestorationInvariant, UpTrue, Grows
<1> QED BY <1>1 DEF RestorationInvariant, UpTrue

LEMMA PageStays ==
  ASSUME RestorationInvariant, Grows, UNCHANGED page
  PROVE  PageTrue'
<1>1. PageTrue
  BY DEF RestorationInvariant
<1>2. page # None /\ page.stage = "candidate" => BackedBy(page.share, Stored', Kept')
  BY <1>1, BackedMore DEF PageTrue
<1> QED BY <1>1, <1>2 DEF PageTrue, Backed

\* An entry's result is worked on, or is dropped.
LEMMA UiFollows ==
  ASSUME RestorationInvariant, Grows, UNCHANGED <<page, finder, entry, pages>>,
         finish' # None => /\ finish # None /\ finish'.id = finish.id
                           /\ finish' = [f \in {"ctx", "dev", "image", "id", "checked"} |-> finish'[f]]
  PROVE  FinderTrue' /\ PageTrue' /\ EntryTrue' /\ FinishTrue'
<1>1. FinderTrue /\ EntryTrue /\ FinishTrue
  BY DEF RestorationInvariant
<1>2. FinderTrue'
  <2>1. ASSUME finder # None, NEW d \in Devices, finder.held[d] # None
        PROVE  BackedBy(finder.held[d], Stored', Kept')
    BY <1>1, <2>1, BackedMore DEF FinderTrue
  <2> QED BY <1>1, <2>1 DEF FinderTrue, Backed
<1>3. EntryTrue' /\ FinishTrue'
  BY <1>1 DEF EntryTrue, FinishTrue
<1> QED BY <1>2, <1>3, PageStays

LEMMA UiStays ==
  ASSUME RestorationInvariant, Grows, UNCHANGED <<page, finder, entry, finish, pages>>
  PROVE  FinderTrue' /\ PageTrue' /\ EntryTrue' /\ FinishTrue'
<1>1. finish' # None => /\ finish # None /\ finish'.id = finish.id
                        /\ finish' = [f \in {"ctx", "dev", "image", "id", "checked"} |-> finish'[f]]
  BY DEF RestorationInvariant, FinishTrue
<1> QED BY <1>1, UiFollows

LEMMA RestorationsStay ==
  ASSUME RestorationInvariant, Grows, UNCHANGED restorations
  PROVE  RestorationsTrue'
<1>1. ASSUME NEW r \in RestorationIds, restorations[r] # None, NEW s \in Range(restorations[r].held)
      PROVE  BackedBy(s, Stored', Kept')
  BY <1>1, BackedMore DEF RestorationInvariant, RestorationsTrue, RestorationsBacked
<1> QED BY <1>1 DEF RestorationInvariant, RestorationsTrue, RestorationsBacked, Backed

LEMMA WalletsStay ==
  ASSUME RestorationInvariant, Grows, UNCHANGED <<wallets, pending>>
  PROVE  WalletsTrue'
BY DEF RestorationInvariant, WalletsTrue, Grows

LEMMA CallsStay ==
  ASSUME RestorationInvariant, UNCHANGED <<calls, stack>>
  PROVE  CallsTrue'
BY DEF RestorationInvariant, CallsTrue

LEMMA DownStays ==
  ASSUME RestorationInvariant, UNCHANGED <<down, seen, registered>>
  PROVE  FreshOnly'
BY DEF RestorationInvariant, FreshOnly

LEMMA ShapesStay ==
  ASSUME RestorationInvariant
  PROVE  /\ UNCHANGED <<wallets, pages, drawn>> => DbShape'
         /\ UNCHANGED <<down, up, seen, registered>> => LinkShape'
         /\ UNCHANGED waitSave => SavesConsolidate'
BY DEF RestorationInvariant, DbShape, LinkShape, SavesConsolidate

\* Messages to the devices that are there.
LEMMA SendFresh ==
  ASSUME RestorationInvariant, UNCHANGED <<up, seen, registered>>, NEW S, NEW m,
         m.type \in Asks, \A d \in S : m.type = "Enter" => Fresh(d),
         down' = Send(S, <<m>>)
  PROVE  FreshOnly' /\ LinkShape'
<1>1. FreshOnly /\ LinkShape
  BY DEF RestorationInvariant
<1>2. LinkShape'
  BY <1>1 DEF LinkShape, Send
<1>3. IsList(<<m>>) /\ Range(<<m>>) = {m}
  <2> DEFINE t == <<m>>
  <2>1. t \in Seq({m}) /\ DOMAIN t = {1} /\ t[1] = m
    OBVIOUS
  <2> HIDE DEF t
  <2>2. IsList(t) /\ Range(t) \subseteq {m}
    BY <2>1, SeqIsList
  <2>3. m \in Range(t)
    BY <2>1 DEF Range
  <2> QED BY <2>2, <2>3 DEF t
<1>4. ASSUME NEW d \in Devices
      PROVE  IsList(down'[d]) /\ \A x \in Range(down'[d]) : x \in Range(down[d]) \/ (d \in S /\ x = m)
  <2>1. CASE d \in S \cap seen
    <3>1. down'[d] = down[d] \o <<m>>
      BY <2>1 DEF Send
    <3>2. IsList(down[d])
      BY <1>1 DEF FreshOnly
    <3> DEFINE t == <<m>>
    <3>3. IsList(t) /\ Range(t) = {m} /\ down'[d] = down[d] \o t
      BY <1>3, <3>1
    <3> HIDE DEF t
    <3>4. IsList(down'[d]) /\ Range(down'[d]) \subseteq Range(down[d]) \cup {m}
      <4>1. IsList(t) /\ IsList(down[d])
        BY <3>2, <3>3
      <4>2. IsList(down[d] \o t) /\ Range(down[d] \o t) \subseteq Range(down[d]) \cup Range(t)
        BY <4>1, ListConcat
      <4> QED BY <3>3, <4>2
    <3> QED BY <2>1, <3>4
  <2>2. CASE d \notin S \cap seen
    <3>1. down'[d] = down[d]
      BY <2>2 DEF Send
    <3> QED BY <1>1, <3>1 DEF FreshOnly
  <2> QED BY <2>1, <2>2
<1>5. FreshOnly'
  BY <1>1, <1>4 DEF FreshOnly
<1> QED BY <1>2, <1>5

\* A function on the positions of a list is a list.
LEMMA ListMap ==
  ASSUME NEW n \in Nat, NEW f, f = [i \in 1 .. n |-> f[i]]
  PROVE  IsList(f) /\ Len(f) = n /\ Range(f) = {f[i] : i \in 1 .. n}
<1> DEFINE S == {f[i] : i \in 1 .. n}
<1>1. f \in [1 .. n -> S]
  OBVIOUS
<1>2. f \in Seq(S)
  <2> HIDE DEF S
  <2> QED BY <1>1, SeqDef
<1>2a. Len(f) = n
  <2>1. Len(f) \in Nat /\ DOMAIN f = 1 .. Len(f) /\ DOMAIN f = 1 .. n
    BY <1>2, LenProperties
  <2> QED BY <2>1
<1>3. Range(f) = S
  <2>1. DOMAIN f = 1 .. n
    OBVIOUS
  <2> QED BY <2>1 DEF Range
<1> QED BY <1>2, <1>2a, <1>3, SeqIsList

----------------------------------------------------------------------------
(* Calls *)

\* An answer that was missed leaves a call what it was.
LEMMA LateCall ==
  ASSUME NEW c
  PROVE  /\ CallTrue(c) => CallTrue(Late(c))
         /\ Waits(c) => Waits(Late(c))
BY DEF CallTrue, Waits, IsCall, Late

LEMMA ExitIsCall ==
  ASSUME NEW todo
  PROVE  CallTrue(Exit(todo))
BY DEF CallTrue, IsCall, Exit

LEMMA GoOnIsCall ==
  ASSUME NEW c, NEW x \in GoOn(c)
  PROVE  CallTrue(x)
BY ExitIsCall DEF GoOn

LEMMA SaveIsCall ==
  ASSUME NEW d, NEW r, NEW i
  PROVE  /\ CallTrue(Save(d, r, i)) /\ CallTrue(Late(Save(d, r, i))) /\ CallTrue(Asked(Save(d, r, i)))
         /\ CallTrue(Asked(Consolidate(d, r, i)))
<1>1. CallTrue(Save(d, r, i))
  BY DEF CallTrue, IsCall, Save
<1>2. CallTrue(Consolidate(d, r, i))
  <2> DEFINE s == Save(d, r, i)
  <2>1. IsCall(s) /\ Consolidate(d, r, i) = [s EXCEPT !.kind = "consolidate"]
    BY <1>1 DEF CallTrue, Consolidate
  <2> HIDE DEF s
  <2> QED BY <2>1 DEF CallTrue, IsCall
<1> QED BY <1>1, <1>2, LateCall DEF Asked

LEMMA SucceedIsCall ==
  ASSUME NEW c, Waits(c), NEW x \in Succeed(c)
  PROVE  CallTrue(x)
BY DEF Waits, CallTrue, IsCall, Succeed

\* What an answer does to those who wait.
Missed(c, user) == IF c.stage = "sent" /\ Answers(c, user) THEN Late(c) ELSE c

LEMMA MissedCalls ==
  ASSUME CallsTrue, NEW user
  PROVE  /\ \A c \in {Missed(x, user) : x \in calls} : CallTrue(c)
         /\ IsList([n \in DOMAIN stack |-> Missed(stack[n], user)])
         /\ Len([n \in DOMAIN stack |-> Missed(stack[n], user)]) = Len(stack)
         /\ \A c \in Range([n \in DOMAIN stack |-> Missed(stack[n], user)]) : Waits(c)
<1> DEFINE f == [n \in DOMAIN stack |-> Missed(stack[n], user)]
<1>1. \A c \in {Missed(x, user) : x \in calls} : CallTrue(c)
  BY LateCall DEF CallsTrue, Missed
<1>2. IsList(stack) /\ Len(stack) \in Nat /\ DOMAIN stack = 1 .. Len(stack)
      /\ \A n \in 1 .. Len(stack) : Waits(stack[n])
  BY ListAt DEF CallsTrue
<1>3. \A n \in 1 .. Len(stack) : Waits(f[n])
  BY <1>2, LateCall DEF Missed
<1>4. f = [n \in 1 .. Len(stack) |-> f[n]]
  BY <1>2
<1> HIDE DEF f
<1> DEFINE n == Len(stack)
<1>4a. n \in Nat /\ f = [i \in 1 .. n |-> f[i]]
  BY <1>2, <1>4
<1> HIDE DEF n
<1>4b. IsList(f) /\ Len(f) = n /\ Range(f) = {f[i] : i \in 1 .. n}
  BY <1>4a, ListMap
<1>5. IsList(f) /\ Len(f) = Len(stack) /\ Range(f) = {f[i] : i \in 1 .. Len(stack)}
  BY <1>4b DEF n
<1>6. \A c \in Range(f) : Waits(c)
  BY <1>3, <1>5
<1> QED BY <1>1, <1>5, <1>6 DEF f

LEMMA ProcessToUserHolds ==
  ASSUME CallsTrue, NEW user, ProcessToUser(user)
  PROVE  CallsTrue' /\ (entry' = entry \/ entry' = None)
<1> DEFINE matching == {n \in DOMAIN stack : Answers(stack[n], user)}
           top == Max(matching)
           f == [n \in DOMAIN stack |-> Missed(stack[n], user)]
<1>1. /\ \A c \in {Missed(x, user) : x \in calls} : CallTrue(c)
      /\ IsList(f) /\ Len(f) = Len(stack)
      /\ \A c \in Range(f) : Waits(c)
  BY MissedCalls
<1>2. /\ IsList(stack) /\ Len(stack) \in Nat /\ DOMAIN stack = 1 .. Len(stack)
      /\ \A n \in 1 .. Len(stack) : Waits(stack[n])
  BY ListAt DEF CallsTrue
<1>3. CASE matching = {}
  <2>1. /\ calls' = {Missed(x, user) : x \in calls} /\ stack' = stack
        /\ entry' = entry \/ entry' = None
    BY <1>3 DEF ProcessToUser, Missed
  <2> QED BY <1>1, <2>1 DEF CallsTrue
<1>4. CASE matching # {}
  <2>1. /\ calls' = {Missed(x, user) : x \in calls} \cup Succeed(stack[top])
        /\ stack' = RemoveAt(f, top) /\ entry' = entry
    BY <1>4 DEF ProcessToUser, Missed
  <2>2. top \in matching
    <3>1. matching \subseteq 1 .. Len(stack)
      BY <1>2
    <3> HIDE DEF matching
    <3> QED BY <1>2, <1>4, <3>1, LastPosition
  <2>3. top \in 1 .. Len(f) /\ Waits(stack[top])
    BY <1>1, <1>2, <2>2
  <2> HIDE DEF f, top, matching
  <2>4. IsList(RemoveAt(f, top)) /\ Range(RemoveAt(f, top)) \subseteq Range(f)
    BY <1>1, <2>3, ListRemoveAt
  <2>5. \A c \in calls' : CallTrue(c)
    BY <1>1, <2>1, <2>3, SucceedIsCall
  <2> QED BY <1>1, <2>1, <2>4, <2>5 DEF CallsTrue
<1> QED BY <1>3, <1>4

LEMMA RefuseHolds ==
  ASSUME CallsTrue, NEW user, Refuse(user)
  PROVE  CallsTrue'
<1>1. /\ calls' = {Missed(x, user) : x \in calls}
      /\ stack' = [n \in DOMAIN stack |-> Missed(stack[n], user)]
  BY DEF Refuse, Missed
<1> QED BY <1>1, MissedCalls DEF CallsTrue

LEMMA PushWaiterHolds ==
  ASSUME RestorationInvariant, NEW c \in calls, PushWaiter(c)
  PROVE  RestorationInvariant'
<1>1. Quiet /\ UNCHANGED <<page, finder, entry, finish, restorations, wallets, pending, pages, drawn,
                          waitSave, down, up, seen, registered>>
  BY DEF PushWaiter, Quiet, dbVars, tmpVars, linkVars, disturbVars, boundVars, countVars
<1>2. CallsTrue'
  <2>1. IsList(Append(stack, c)) /\ Range(Append(stack, c)) = Range(stack) \cup {c}
    BY ListAppend DEF RestorationInvariant, CallsTrue
  <2>2. CallTrue(c) /\ c.stage = "sent"
    BY DEF RestorationInvariant, CallsTrue, PushWaiter
  <2>3. calls' \subseteq calls /\ stack' = Append(stack, c)
    BY DEF PushWaiter
  <2> QED BY <2>1, <2>2, <2>3 DEF RestorationInvariant, CallsTrue, CallTrue, Waits
<1> QED BY <1>1, <1>2, QuietDevices, UiStays, UpStays, RestorationsStay, WalletsStay, DownStays,
           ShapesStay DEF RestorationInvariant

LEMMA ExitNextHolds ==
  ASSUME RestorationInvariant, NEW c \in calls, ExitNext(c)
  PROVE  RestorationInvariant'
<1>1. Quiet /\ UNCHANGED <<page, finder, entry, finish, restorations, wallets, pending, pages, drawn,
                          waitSave, up, seen, registered, stack>>
  BY DEF ExitNext, Quiet, dbVars, tmpVars, linkVars, disturbVars, boundVars, countVars
<1> DEFINE d == Head(c.more)[1]
           k == Head(c.more)[2]
           asked == {p \in pending : p.dev = d /\ p.key = k}
<1>2. CASE d \in seen /\ k \in known /\ asked # {}
  <2>1. PICK p \in asked :
          /\ calls' = (calls \ {c}) \cup
               {[c EXCEPT !.dev = d, !.what = k, !.more = Tail(c.more), !.stage = "sent"]}
          /\ down' = Send({d}, <<Message("Consolidate", <<k, p.index>>)>>)
    BY <1>2 DEF ExitNext
  <2>2. d \in Devices
    BY <1>2 DEF RestorationInvariant, LinkShape
  <2> HIDE DEF d, k
  <2>3. CallTrue(c)
    BY DEF RestorationInvariant, CallsTrue
  <2>4. CallTrue([c EXCEPT !.dev = d, !.what = k, !.more = Tail(c.more), !.stage = "sent"])
    BY <2>2, <2>3 DEF CallTrue, IsCall
  <2>5. CallsTrue'
    BY <1>1, <2>1, <2>4 DEF RestorationInvariant, CallsTrue
  <2> DEFINE m == Message("Consolidate", <<k, p.index>>)
  <2>6. m.type \in Asks /\ m.type # "Enter" /\ down' = Send({d}, <<m>>)
    BY <2>1 DEF Message, Asks
  <2> HIDE DEF m
  <2>7. FreshOnly' /\ LinkShape'
    BY <1>1, <2>6, SendFresh
  <2> QED BY <1>1, <2>5, <2>7, QuietDevices, UiStays, UpStays, RestorationsStay, WalletsStay,
             ShapesStay DEF RestorationInvariant
<1>3. CASE ~(d \in seen /\ k \in known /\ asked # {})
  <2>1. calls' = (calls \ {c}) \cup GoOn([c EXCEPT !.more = Tail(c.more)]) /\ down' = down
    BY <1>3 DEF ExitNext
  <2>2. CallsTrue'
    BY <1>1, <2>1, GoOnIsCall DEF RestorationInvariant, CallsTrue
  <2> QED BY <1>1, <2>1, <2>2, QuietDevices, UiStays, UpStays, RestorationsStay, WalletsStay,
             DownStays, ShapesStay DEF RestorationInvariant
<1> QED BY <1>2, <1>3

----------------------------------------------------------------------------
(* The recovery page *)

\* A device is reported to what looks for one.
LEMMA ConnectedHolds ==
  ASSUME RestorationInvariant, Grows, UNCHANGED <<page, finish, pages>>,
         NEW d \in Devices, NEW blank \in BOOLEAN, blank => Fresh(d),
         finder' = Connected(finder, d, blank)
  PROVE  FinderTrue'
<1>1. FinderTrue
  BY DEF RestorationInvariant
<1>2. CASE finder = None
  BY <1>2 DEF Connected, FinderTrue
<1>3. CASE finder # None
  <2> DEFINE e == [dev |-> d, blank |-> blank]
  <2>1. finder' = [finder EXCEPT !.devs = Append(@, e)]
    BY <1>3 DEF Connected
  <2>2. e.dev = d /\ e.blank = blank
    OBVIOUS
  <2> HIDE DEF e
  <2>3. finder = [f \in {"devs", "asked", "held"} |-> finder[f]] /\ IsList(finder.devs)
    BY <1>1, <1>3 DEF FinderTrue
  <2>4. /\ finder' = [f \in {"devs", "asked", "held"} |-> finder'[f]]
        /\ finder'.devs = Append(finder.devs, e) /\ finder'.held = finder.held
    BY <2>1, <2>3
  <2>5. IsList(finder'.devs) /\ Range(finder'.devs) = Range(finder.devs) \cup {e}
    <3>1. IsList(Append(finder.devs, e)) /\ Range(Append(finder.devs, e)) = Range(finder.devs) \cup {e}
      BY <2>3, ListAppend
    <3> QED BY <2>4, <3>1
  <2>6. ASSUME NEW x \in Devices, finder.held[x] # None
        PROVE  BackedBy(finder.held[x], Stored', Kept')
    BY <1>1, <1>3, <2>6, BackedMore DEF FinderTrue
  <2> QED BY <1>1, <1>3, <2>2, <2>4, <2>5, <2>6 DEF FinderTrue, Backed
<1> QED BY <1>2, <1>3

LEMMA ExitDoneHolds ==
  ASSUME RestorationInvariant, NEW c \in calls, ExitDone(c)
  PROVE  RestorationInvariant'
<1>1. Quiet /\ UNCHANGED <<page, entry, finish, restorations, wallets, pending, pages, drawn,
                          waitSave, down, up, seen, registered, stack>>
  BY DEF ExitDone, Quiet, dbVars, tmpVars, linkVars, disturbVars, boundVars, countVars
<1>2. CallsTrue'
  BY <1>1, GoOnIsCall DEF RestorationInvariant, CallsTrue, ExitDone
<1>3. c.dev \in Devices
  BY DEF RestorationInvariant, CallsTrue, CallTrue, ExitDone
<1>4. Grows
  BY <1>1, QuietDevices
<1>5. PageTrue' /\ EntryTrue' /\ FinishTrue'
  BY <1>1, <1>4, PageStays DEF RestorationInvariant, EntryTrue, FinishTrue
<1>6. FinderTrue'
  <2>1. CASE finder' = finder
    BY <1>1, <1>4, <2>1, UiStays
  <2>2. CASE finder' = Connected(finder, c.dev, FALSE)
    <3> DEFINE blank == FALSE
    <3>1. blank \in BOOLEAN /\ ~blank /\ finder' = Connected(finder, c.dev, blank)
      BY <2>2
    <3> HIDE DEF blank
    <3> QED BY <1>1, <1>3, <1>4, <3>1, ConnectedHolds
  <2> QED BY <2>1, <2>2 DEF ExitDone
<1> QED BY <1>1, <1>2, <1>5, <1>6, QuietDevices, UpStays, RestorationsStay, WalletsStay, DownStays,
           ShapesStay DEF RestorationInvariant

LEMMA OpenPageHolds ==
  ASSUME RestorationInvariant, NEW ctx, OpenPage(ctx)
  PROVE  RestorationInvariant'
<1>1. Quiet /\ UNCHANGED <<entry, finish, restorations, wallets, pending, drawn,
                          waitSave, down, up, seen, registered, stack, calls>>
  BY DEF OpenPage, Quiet, dbVars, tmpVars, linkVars, disturbVars
<1> DEFINE S == {[dev |-> d, blank |-> d \notin registered] : d \in seen}
           held == [d \in Devices |-> None]
<1>2. PICK order \in SetToSeqs(S) : finder' = [devs |-> order, asked |-> {}, held |-> held]
  BY DEF OpenPage
<1>3. IsFiniteSet(S)
  <2>1. IsFiniteSet(seen)
    BY FS_Subset DEF RestorationInvariant, LinkShape
  <2> DEFINE f == [d \in seen |-> [dev |-> d, blank |-> d \notin registered]]
  <2>2. f \in Surjection(seen, S)
    BY DEF Surjection
  <2> HIDE DEF f, S
  <2> QED BY <2>1, <2>2, FS_Surjection
<1>4. \A e \in S : e.dev \in Devices /\ e.blank \in BOOLEAN /\ (e.blank => Fresh(e.dev))
  <2>1. ASSUME NEW e \in S
        PROVE  \E d \in seen : e.dev = d /\ e.blank = (d \notin registered)
    OBVIOUS
  <2>2. ASSUME NEW d \in seen
        PROVE  d \in Devices /\ (d \notin registered) \in BOOLEAN /\ (d \notin registered => Fresh(d))
    BY DEF RestorationInvariant, LinkShape, FreshOnly
  <2> HIDE DEF S
  <2> QED BY <2>1, <2>2
<1>5. \A d \in Devices : held[d] = None
  OBVIOUS
<1>6. held = [d \in Devices |-> held[d]]
  OBVIOUS
<1> HIDE DEF S, held
<1>7. IsList(order) /\ Range(order) \subseteq S
  <2>1. Cardinality(S) \in Nat
    BY <1>3, FS_CardinalityType
  <2>2. order \in [1 .. Cardinality(S) -> S]
    BY DEF SetToSeqs
  <2>3. order \in Seq(S)
    BY <2>1, <2>2
  <2> QED BY <2>3, SeqIsList
<1>8. /\ pages' = pages + 1 /\ pages \in Nat
      /\ page' = [ctx |-> ctx, stage |-> "finding", dev |-> None, share |-> None]
  BY DEF OpenPage, RestorationInvariant, DbShape
<1>9. FinderTrue'
  <2>1. /\ finder'.devs = order /\ finder'.held = held
        /\ finder' = [f \in {"devs", "asked", "held"} |-> finder'[f]]
    BY <1>2
  <2>2. IsPage(page') /\ page'.stage = "finding"
    BY <1>8 DEF IsPage
  <2> QED BY <1>1, <1>4, <1>5, <1>6, <1>7, <1>8, <2>1, <2>2 DEF FinderTrue, RestorationInvariant, FinishTrue
<1>10. PageTrue' /\ EntryTrue' /\ FinishTrue'
  BY <1>1, <1>8 DEF PageTrue, IsPage, EntryTrue, FinishTrue, RestorationInvariant
<1>11. DbShape'
  BY <1>1, <1>8 DEF RestorationInvariant, DbShape
<1> QED BY <1>1, <1>9, <1>10, <1>11, QuietDevices, UpStays, RestorationsStay, WalletsStay,
           DownStays, CallsStay, ShapesStay DEF RestorationInvariant

LEMMA AskHeldSharesHolds ==
  ASSUME RestorationInvariant, AskHeldShares
  PROVE  RestorationInvariant'
<1>1. Quiet /\ UNCHANGED <<page, entry, finish, restorations, wallets, pending, pages, drawn,
                          waitSave, up, seen, registered, stack, calls>>
  BY DEF AskHeldShares, Quiet, dbVars, tmpVars, disturbVars, boundVars, countVars
<1> DEFINE ask == {e.dev : e \in {x \in Range(finder.devs) : ~x.blank}} \ finder.asked
           m == Message("Request", None)
<1>2. finder # None /\ finder' = [finder EXCEPT !.asked = @ \cup ask] /\ down' = Send(ask, <<m>>)
  BY DEF AskHeldShares
<1>3. m.type \in Asks /\ m.type # "Enter"
  BY DEF Message, Asks
<1> HIDE DEF m, ask
<1>4. FreshOnly' /\ LinkShape'
  BY <1>1, <1>2, <1>3, SendFresh
<1>5. Grows
  BY <1>1, QuietDevices
<1>6. PageTrue' /\ EntryTrue' /\ FinishTrue'
  BY <1>1, <1>5, PageStays DEF RestorationInvariant, EntryTrue, FinishTrue
<1>7. FinderTrue'
  <2>1. FinderTrue
    BY DEF RestorationInvariant
  <2>2. /\ finder' = [f \in {"devs", "asked", "held"} |-> finder'[f]]
        /\ finder'.devs = finder.devs /\ finder'.held = finder.held
    BY <1>2, <2>1 DEF FinderTrue
  <2>3. ASSUME NEW d \in Devices, finder.held[d] # None
        PROVE  BackedBy(finder.held[d], Stored', Kept')
    BY <1>2, <1>5, <2>1, <2>3, BackedMore DEF FinderTrue
  <2> QED BY <1>1, <1>2, <2>1, <2>2, <2>3 DEF FinderTrue, Backed
<1> QED BY <1>1, <1>4, <1>6, <1>7, QuietDevices, UpStays, RestorationsStay, WalletsStay, CallsStay,
           ShapesStay DEF RestorationInvariant

LEMMA DeviceFoundHolds ==
  ASSUME RestorationInvariant, DeviceFound
  PROVE  RestorationInvariant'
<1>1. Quiet /\ UNCHANGED <<entry, finish, restorations, wallets, pending, pages, drawn,
                          waitSave, down, up, seen, registered, stack, calls>>
  BY DEF DeviceFound, Quiet, dbVars, tmpVars, linkVars, disturbVars, boundVars, countVars
<1> DEFINE one == finder.devs[1]
           share == finder.held[one.dev]
<1>2. finder # None /\ finder' = None /\ Len(finder.devs) = 1 /\ (one.blank \/ share # None)
  BY DEF DeviceFound
<1>3. one.dev \in Devices /\ one.blank \in BOOLEAN /\ (one.blank => Fresh(one.dev))
  <2>1. one \in Range(finder.devs)
    BY <1>2, ListAt, SMTT(30) DEF RestorationInvariant, FinderTrue
  <2> QED BY <1>2, <2>1 DEF RestorationInvariant, FinderTrue
<1>4. share # None => Claims(share) /\ Backed(share)
  BY <1>2, <1>3 DEF RestorationInvariant, FinderTrue
<1>5. IsPage(page)
  BY <1>2 DEF RestorationInvariant, FinderTrue
<1>6. CASE one.blank
  <2>1. page' = [page EXCEPT !.dev = one.dev, !.share = None, !.stage = "naming"]
    BY <1>6 DEF DeviceFound
  <2> HIDE DEF one, share
  <2>2. IsPage(page') /\ page'.stage = "naming" /\ page'.dev = one.dev
    BY <1>5, <2>1 DEF IsPage
  <2> QED BY <1>1, <1>2, <1>3, <1>6, <2>2, QuietDevices, UpStays, RestorationsStay, WalletsStay,
             CallsStay, DownStays, ShapesStay
          DEF RestorationInvariant, FinderTrue, PageTrue, EntryTrue, FinishTrue
<1>7. CASE ~one.blank
  <2>1. \E stage \in {"candidate", "error"} :
          page' = [page EXCEPT !.dev = one.dev, !.share = share, !.stage = stage]
    BY <1>7 DEF DeviceFound
  <2> HIDE DEF one, share
  <2>2. IsPage(page') /\ page'.stage \in {"candidate", "error"} /\ page'.share = share
    BY <1>5, <2>1 DEF IsPage
  <2>3. share # None => BackedBy(share, Stored', Kept')
    BY <1>1, <1>4, QuietDevices, BackedMore
  <2>4. PageTrue'
    BY <1>2, <1>4, <1>7, <2>2, <2>3 DEF PageTrue, Backed
  <2>5. FinderTrue' /\ EntryTrue' /\ FinishTrue'
    BY <1>1, <1>2 DEF RestorationInvariant, FinderTrue, EntryTrue, FinishTrue
  <2> QED BY <1>1, <2>4, <2>5, QuietDevices, UpStays, RestorationsStay, WalletsStay,
             CallsStay, DownStays, ShapesStay DEF RestorationInvariant
<1> QED BY <1>3, <1>6, <1>7

\* The page goes on with the device it has.
LEMMA PageFollows ==
  ASSUME RestorationInvariant, UNCHANGED <<finder, pages>>, page # None,
         page.stage # "finding", NEW stage, stage # "candidate",
         page' = [page EXCEPT !.stage = stage],
         stage \in {"naming", "nonces", "entry"} => Fresh(page.dev),
         UNCHANGED finish \/ finish' = None
  PROVE  FinderTrue' /\ PageTrue' /\ FinishTrue'
<1>1. IsPage(page) /\ finder = None /\ FinishTrue
  BY DEF RestorationInvariant, PageTrue, FinderTrue
<1>2. IsPage(page') /\ page'.stage = stage /\ page'.dev = page.dev
  BY <1>1 DEF IsPage
<1> QED BY <1>1, <1>2 DEF PageTrue, FinderTrue, FinishTrue

LEMMA NameDeviceHolds ==
  ASSUME RestorationInvariant, NameDevice
  PROVE  RestorationInvariant'
<1>1. Quiet /\ UNCHANGED <<finder, entry, finish, restorations, wallets, pending, pages, drawn,
                          waitSave, up, seen, registered, stack, calls>>
  BY DEF NameDevice, Quiet, dbVars, tmpVars, boundVars, countVars
<1> DEFINE m == Message("Preview", None)
           stage == "nonces"
<1>2. /\ page # None /\ page.stage = "naming" /\ page' = [page EXCEPT !.stage = stage]
      /\ down' = Send({page.dev}, <<m>>)
  BY DEF NameDevice
<1>3. m.type \in Asks /\ m.type # "Enter" /\ stage # "candidate"
  BY DEF Message, Asks
<1> HIDE DEF m, stage
<1>4. FreshOnly' /\ LinkShape'
  BY <1>1, <1>2, <1>3, SendFresh
<1>5. Fresh(page.dev)
  BY <1>2 DEF RestorationInvariant, PageTrue
<1>6. FinderTrue' /\ PageTrue' /\ FinishTrue'
  BY <1>1, <1>2, <1>3, <1>5, PageFollows
<1>7. EntryTrue'
  BY <1>1 DEF RestorationInvariant, EntryTrue
<1> QED BY <1>1, <1>4, <1>6, <1>7, QuietDevices, UpStays, RestorationsStay, WalletsStay, CallsStay,
           ShapesStay DEF RestorationInvariant

LEMMA EnterPhysicalBackupHolds ==
  ASSUME RestorationInvariant, EnterPhysicalBackup
  PROVE  RestorationInvariant'
<1>1. Quiet /\ UNCHANGED <<finder, finish, restorations, wallets, pending, pages, drawn,
                          waitSave, up, seen, registered, stack, calls>>
  BY DEF EnterPhysicalBackup, Quiet, dbVars, tmpVars, disturbVars, boundVars, countVars
<1> DEFINE m == Message("Enter", pages)
           stage == "entry"
<1>2. /\ page # None /\ page.stage = "nonces" /\ page' = [page EXCEPT !.stage = stage]
      /\ down' = Send({page.dev}, <<m>>) /\ entry' = [dev |-> page.dev, id |-> pages]
  BY DEF EnterPhysicalBackup
<1>3. m.type \in Asks /\ stage # "candidate"
  BY DEF Message, Asks
<1> HIDE DEF m, stage
<1>4. Fresh(page.dev)
  BY <1>2 DEF RestorationInvariant, PageTrue
<1>5. FreshOnly' /\ LinkShape'
  BY <1>1, <1>2, <1>3, <1>4, SendFresh
<1>6. FinderTrue' /\ PageTrue' /\ FinishTrue'
  BY <1>1, <1>2, <1>3, <1>4, PageFollows
<1>7. EntryTrue'
  BY <1>1, <1>2 DEF RestorationInvariant, EntryTrue, DbShape
<1> QED BY <1>1, <1>5, <1>6, <1>7, QuietDevices, UpStays, RestorationsStay, WalletsStay, CallsStay,
           ShapesStay DEF RestorationInvariant

\* Back to the name of the device: it was fresh when it was chosen.
LEMMA BackToNamingHolds ==
  ASSUME RestorationInvariant, Grows, UNCHANGED <<finder, entry, pages>>,
         finish # None, BackToNaming(finish.id), finish' = None
  PROVE  FinderTrue' /\ PageTrue' /\ EntryTrue' /\ FinishTrue'
<1>1. CASE page # None /\ pages = finish.id
  <2> DEFINE stage == "naming"
  <2>1. page' = [page EXCEPT !.stage = stage] /\ stage # "candidate"
    BY <1>1 DEF BackToNaming
  <2> HIDE DEF stage
  <2>2. page.stage # "finding" \/ finder = None
    <3>1. finder # None => finish.id < pages /\ pages \in Nat
      BY DEF RestorationInvariant, FinderTrue, DbShape
    <3> QED BY <1>1, <3>1
  <2>3. Fresh(page.dev) /\ finder = None /\ IsPage(page)
    <3>1. finder # None => finish.id < pages /\ pages \in Nat
      BY DEF RestorationInvariant, FinderTrue, DbShape
    <3> QED BY <1>1, <3>1 DEF RestorationInvariant, FinishTrue, PageTrue
  <2>4. IsPage(page') /\ page'.stage = stage /\ page'.dev = page.dev
    BY <2>1, <2>3 DEF IsPage
  <2> QED BY <2>1, <2>3, <2>4
          DEF RestorationInvariant, PageTrue, FinderTrue, FinishTrue, EntryTrue
<1>2. CASE ~(page # None /\ pages = finish.id)
  <2>1. page' = page
    BY <1>2 DEF BackToNaming
  <2> QED BY <2>1, UiFollows
<1> QED BY <1>1, <1>2

----------------------------------------------------------------------------
(* Restorations *)

LEMMA AddShareHolds ==
  ASSUME NEW a, IsRestoration(a), \A s \in Range(a.held) : Backed(s), NEW s, Backed(s)
  PROVE  IsRestoration(AddShare(a, s)) /\ \A x \in Range(AddShare(a, s).held) : Backed(x)
<1> DEFINE b == [a EXCEPT !.held = Append(@, s)]
           c == [b EXCEPT !.key = TryFuzzyRecovery(b)]
<1>1. AddShare(a, s) = c
  BY DEF AddShare
<1>2. IsList(Append(a.held, s)) /\ Range(Append(a.held, s)) = Range(a.held) \cup {s}
  BY ListAppend DEF IsRestoration
<1>3. b = [f \in {"starting", "held", "key"} |-> b[f]] /\ b.held = Append(a.held, s)
  BY DEF IsRestoration
<1> HIDE DEF b
<1>4. c = [f \in {"starting", "held", "key"} |-> c[f]] /\ c.held = b.held
  BY <1>3
<1> HIDE DEF c
<1> QED BY <1>1, <1>2, <1>3, <1>4 DEF IsRestoration

LEMMA RestorationProgressHolds ==
  ASSUME NEW rs, RestorationsBacked(rs), NEW r, NEW s, Backed(s)
  PROVE  RestorationsBacked(RestorationProgress(rs, r, s))
<1> DEFINE out == [rs EXCEPT ![r] = AddShare(@, s)]
<1>1. RestorationProgress(rs, r, s) = rs \/ (rs[r] # None /\ RestorationProgress(rs, r, s) = out)
  BY DEF RestorationProgress
<1>2. ASSUME rs[r] # None PROVE RestorationsBacked(out)
  <2>1. \A q \in RestorationIds : out[q] = IF q = r THEN AddShare(rs[r], s) ELSE rs[q]
    BY DEF RestorationsBacked
  <2>2. out = [q \in RestorationIds |-> out[q]]
    BY DEF RestorationsBacked
  <2> HIDE DEF out
  <2>3. ASSUME NEW q \in RestorationIds, out[q] # None
        PROVE  IsRestoration(out[q]) /\ \A x \in Range(out[q].held) : Backed(x)
    <3>1. CASE q = r
      <4>1. IsRestoration(rs[r]) /\ \A x \in Range(rs[r].held) : Backed(x)
        BY <1>2, <3>1 DEF RestorationsBacked
      <4> QED BY <2>1, <3>1, <4>1, AddShareHolds
    <3>2. CASE q # r
      BY <2>1, <2>3, <3>2 DEF RestorationsBacked
    <3> QED BY <3>1, <3>2
  <2> QED BY <2>2, <2>3 DEF RestorationsBacked
<1> HIDE DEF out
<1> QED BY <1>1, <1>2

\* One restoration is made, or taken away.
LEMMA RestorationSet ==
  ASSUME NEW rs, RestorationsBacked(rs), NEW r, NEW a,
         a # None => IsRestoration(a) /\ \A s \in Range(a.held) : Backed(s)
  PROVE  RestorationsBacked([rs EXCEPT ![r] = a])
BY DEF RestorationsBacked

LEMMA NewRestorationHolds ==
  ASSUME NEW starting
  PROVE  /\ IsRestoration(NewRestoration(starting))
         /\ \A s \in Range(NewRestoration(starting).held) : Backed(s)
BY EmptyList DEF IsRestoration, NewRestoration

LEMMA RestorationsNow ==
  ASSUME RestorationInvariant, Quiet, RestorationsBacked(restorations')
  PROVE  RestorationsTrue'
<1>1. Stored' = Stored /\ Kept' = Kept
  BY QuietDevices
<1> QED BY <1>1 DEF RestorationsBacked, RestorationsTrue, Backed

LEMMA CheckEnteredHolds ==
  ASSUME RestorationInvariant, CheckEntered
  PROVE  RestorationInvariant'
<1>1. Quiet /\ UNCHANGED <<wallets, pending, waitSave, finder, entry, stack, calls, down, up, seen,
                          registered, pages>>
  BY DEF CheckEntered, Quiet, tmpVars, linkVars, disturbVars, countVars
<1>2. finish # None /\ drawn' \in Nat
  BY DEF CheckEntered, RestorationInvariant, DbShape
<1>3. RestorationsTrue'
  <2>1. RestorationsBacked(restorations)
    BY DEF RestorationInvariant, RestorationsTrue
  <2>2. RestorationsBacked([restorations EXCEPT ![drawn + 1] = NewRestoration(finish.ctx.thr)])
    BY <2>1, RestorationSet, NewRestorationHolds
  <2>3. RestorationsBacked(restorations')
    BY <2>1, <2>2 DEF CheckEntered
  <2> QED BY <1>1, <2>3, RestorationsNow
<1>4. Grows
  BY <1>1, QuietDevices
<1>5. FinderTrue' /\ PageTrue' /\ EntryTrue' /\ FinishTrue'
  <2>1. CASE EnteredFits(finish.ctx, finish.dev, finish.image)
    <3>1. \E n : finish' = [finish EXCEPT !.checked = TRUE, !.ctx.r = n]
      BY <2>1 DEF CheckEntered
    <3>2. page' = page
      BY <2>1 DEF CheckEntered
    <3>3. finish = [f \in {"ctx", "dev", "image", "id", "checked"} |-> finish[f]]
      BY <1>2 DEF RestorationInvariant, FinishTrue
    <3>4. /\ finish'.id = finish.id
          /\ finish' = [f \in {"ctx", "dev", "image", "id", "checked"} |-> finish'[f]]
      BY <3>1, <3>3
    <3> QED BY <1>1, <1>2, <1>4, <3>2, <3>4, UiFollows
  <2>2. CASE ~EnteredFits(finish.ctx, finish.dev, finish.image)
    <3>1. finish' = None /\ BackToNaming(finish.id)
      BY <2>2 DEF CheckEntered
    <3> QED BY <1>1, <1>2, <1>4, <3>1, BackToNamingHolds
  <2> QED BY <2>1, <2>2
<1>6. DbShape'
  BY <1>1, <1>2 DEF RestorationInvariant, DbShape
<1> QED BY <1>1, <1>3, <1>5, <1>6, QuietDevices, UpStays, WalletsStay, CallsStay, DownStays,
           ShapesStay DEF RestorationInvariant

LEMMA CallAdded ==
  ASSUME CallsTrue, stack' = stack, NEW c, CallTrue(c), calls' \subseteq calls \cup {c}
  PROVE  CallsTrue'
BY DEF CallsTrue

LEMMA TellSaveHolds ==
  ASSUME RestorationInvariant, TellSave
  PROVE  RestorationInvariant'
<1>1. Quiet /\ UNCHANGED <<restorations, wallets, pending, page, finder, entry, stack, up, seen,
                          registered, pages, drawn>>
  BY DEF TellSave, Quiet, dbVars, disturbVars, boundVars, countVars
<1> DEFINE d == finish.dev
           r == finish.ctx.r
           image == finish.image
           call == Save(d, r, image[2])
           s == PrepareSave(restorations[r], d, image)
           m == Message("Save", s)
<1>2. finish' = None
  BY DEF TellSave
<1>3. /\ calls' \subseteq calls \cup {Late(call)} \/ calls' \subseteq calls \cup {Asked(call)}
      /\ down' = down \/ down' = Send({d}, <<m>>)
      /\ waitSave' \subseteq waitSave \cup {[r |-> r, share |-> s]}
  <2>1. CASE restorations[r] = None
    BY <2>1 DEF TellSave
  <2>2. CASE restorations[r] # None
    BY <2>2 DEF TellSave
  <2> QED BY <2>1, <2>2
<1>4. CallsTrue'
  <2>1. CallTrue(Late(call)) /\ CallTrue(Asked(call))
    BY SaveIsCall
  <2> HIDE DEF call
  <2> QED BY <1>1, <1>3, <2>1, CallAdded DEF RestorationInvariant
<1>5. FreshOnly' /\ LinkShape'
  <2>1. CASE down' = down
    BY <1>1, <2>1, DownStays, ShapesStay
  <2>2. CASE down' = Send({d}, <<m>>)
    <3>1. m.type \in Asks /\ m.type # "Enter"
      BY DEF Message, Asks
    <3> HIDE DEF m, d
    <3> QED BY <1>1, <2>2, <3>1, SendFresh
  <2> QED BY <1>3, <2>1, <2>2
<1>6. SavesConsolidate'
  <2>1. s.cons = TRUE
    BY DEF PrepareSave, Share
  <2> HIDE DEF s
  <2>2. [r |-> r, share |-> s].share = s
    OBVIOUS
  <2> QED BY <1>3, <2>1, <2>2 DEF RestorationInvariant, SavesConsolidate
<1>7. FinderTrue' /\ PageTrue' /\ EntryTrue' /\ FinishTrue'
  BY <1>1, <1>2, QuietDevices, UiFollows
<1> QED BY <1>1, <1>4, <1>5, <1>6, <1>7, QuietDevices, UpStays, RestorationsStay, WalletsStay,
           ShapesStay DEF RestorationInvariant

LEMMA TellConsolidateHolds ==
  ASSUME RestorationInvariant, TellConsolidate
  PROVE  RestorationInvariant'
<1>1. Quiet /\ UNCHANGED <<restorations, wallets, pending, waitSave, finder, entry, stack, up, seen,
                          registered, pages, drawn>>
  BY DEF TellConsolidate, Quiet, dbVars, disturbVars, boundVars, countVars
<1> DEFINE d == finish.dev
           k == finish.ctx.k
           i == finish.image[2]
           call == Asked(Consolidate(d, k, i))
           m == Message("Consolidate", <<k, i>>)
<1>2. finish # None /\ finish' = None
  BY DEF TellConsolidate
<1>3. Grows
  BY <1>1, QuietDevices
<1>4. CASE k \notin known
  <2>1. BackToNaming(finish.id) /\ UNCHANGED <<calls, down>>
    BY <1>4 DEF TellConsolidate
  <2>2. FinderTrue' /\ PageTrue' /\ EntryTrue' /\ FinishTrue'
    BY <1>1, <1>2, <1>3, <2>1, BackToNamingHolds
  <2> QED BY <1>1, <2>1, <2>2, QuietDevices, UpStays, RestorationsStay, WalletsStay, CallsStay,
             DownStays, ShapesStay DEF RestorationInvariant
<1>5. CASE k \in known
  <2>1. /\ down' = Send({d}, <<m>>) /\ calls' = calls \cup {call} /\ page' = page
    BY <1>5 DEF TellConsolidate
  <2>2. FinderTrue' /\ PageTrue' /\ EntryTrue' /\ FinishTrue'
    BY <1>1, <1>2, <1>3, <2>1, UiFollows
  <2>3. CallTrue(call)
    BY SaveIsCall
  <2>4. m.type \in Asks /\ m.type # "Enter"
    BY DEF Message, Asks
  <2> HIDE DEF m, call, d
  <2>5. FreshOnly' /\ LinkShape'
    BY <1>1, <2>1, <2>4, SendFresh
  <2>6. CallsTrue'
    BY <1>1, <2>1, <2>3, CallAdded DEF RestorationInvariant
  <2> QED BY <1>1, <2>2, <2>5, <2>6, QuietDevices, UpStays, RestorationsStay, WalletsStay,
             ShapesStay DEF RestorationInvariant
<1> QED BY <1>4, <1>5

LEMMA ClosePageHolds ==
  ASSUME RestorationInvariant, ClosePage
  PROVE  RestorationInvariant'
<1>1. Quiet /\ UNCHANGED <<restorations, wallets, pending, waitSave, finish, stack, calls, down, up, seen,
                          registered, pages, drawn>>
  BY DEF ClosePage, Quiet, dbVars, tmpVars, linkVars, boundVars, countVars
<1>2. page' = None /\ finder' = None /\ entry' = None
  BY DEF ClosePage, CancelEntry
<1>3. FinderTrue' /\ PageTrue' /\ EntryTrue' /\ FinishTrue'
  BY <1>1, <1>2 DEF RestorationInvariant, FinderTrue, PageTrue, EntryTrue, FinishTrue
<1> QED BY <1>1, <1>3, QuietDevices, UpStays, DownStays, RestorationsStay, WalletsStay, CallsStay,
           ShapesStay DEF RestorationInvariant

LEMMA SendCancelAllHolds ==
  ASSUME RestorationInvariant, SendCancelAll
  PROVE  RestorationInvariant'
<1>1. Quiet /\ UNCHANGED <<restorations, wallets, pending, waitSave, page, finder, entry, finish, stack,
                          calls, up, seen, registered, pages, drawn>>
  BY DEF SendCancelAll, Quiet, dbVars, tmpVars, uiVars, boundVars, countVars
<1> DEFINE m == Message("Cancel", None)
<1>2. down' = Send(Devices, <<m>>)
  BY DEF SendCancelAll
<1>3. m.type \in Asks /\ m.type # "Enter"
  BY DEF Message, Asks
<1> HIDE DEF m
<1>4. FreshOnly' /\ LinkShape'
  BY <1>1, <1>2, <1>3, SendFresh
<1> QED BY <1>1, <1>4, QuietDevices, UiStays, UpStays, RestorationsStay, WalletsStay, CallsStay,
           ShapesStay DEF RestorationInvariant

\* What devices have is theirs, and a share is a key and an index.
LEMMA StoredIsOwn ==
  ASSUME RestorationInvariant, OnePaper, NEW d \in Devices
  PROVE  /\ Stored[d] \subseteq Kept[d] /\ Kept[d] \subseteq Own(d)
         /\ \A im \in Kept[d] : im = <<im[1], im[2]>>
<1>1. Now(Working(d)) \cup Images(Working(d).saved) \subseteq Own(d)
  BY DEF RestorationInvariant, DevicesHold, Holder
<1>2. Working(d).shares = shares[d] /\ Working(d).staged = staged[d] /\ Working(d).saved = saved[d]
  BY DEF Working
<1>3. Stored[d] \subseteq Own(d)
  BY <1>1, <1>2 DEF Stored, Now
<1>4. Kept[d] = Stored[d] \cup Images(saved[d])
  BY DEF Kept
<1>5. Own(d) \subseteq Keys \X (Nat \ {0})
  BY OwnImages
<1>6. \A im \in Keys \X (Nat \ {0}) : im = <<im[1], im[2]>>
  OBVIOUS
<1> QED BY <1>1, <1>2, <1>3, <1>4, <1>5, <1>6

LEMMA EnrollShareHolds ==
  ASSUME RestorationInvariant, OnePaper, EnrollShare
  PROVE  RestorationInvariant'
<1>1. Quiet /\ UNCHANGED <<waitSave, finder, entry, finish, stack, down, up, seen,
                          registered, pages>>
  BY DEF EnrollShare, Quiet, tmpVars, linkVars, disturbVars, countVars
<1> DEFINE s == page.share
           ctx == page.ctx
           stage == "error"
<1>2. page # None /\ page.stage = "candidate" /\ page' = [page EXCEPT !.stage = stage]
  BY DEF EnrollShare
<1>3. Claims(s) /\ Backed(s)
  BY <1>2 DEF RestorationInvariant, PageTrue
<1>4. FinderTrue' /\ PageTrue' /\ EntryTrue' /\ FinishTrue'
  <2>1. stage # "candidate" /\ stage \notin {"naming", "nonces", "entry"}
    OBVIOUS
  <2> HIDE DEF stage
  <2> QED BY <1>1, <1>2, <2>1, PageFollows DEF RestorationInvariant, EntryTrue
<1>5. RestorationsBacked(restorations) /\ drawn \in Nat
  BY DEF RestorationInvariant, RestorationsTrue, DbShape
<1>6. SUFFICES RestorationsBacked(restorations') /\ drawn' \in Nat /\ CallsTrue' /\ WalletsTrue'
               /\ wallets' = [k \in Keys |-> wallets'[k]]
               /\ \A k \in Keys : wallets'[k] = [d \in Devices |-> wallets'[k][d]]
  <2>1. DbShape'
    BY <1>1, <1>6 DEF RestorationInvariant, DbShape
  <2> QED BY <1>1, <1>4, <1>6, <2>1, RestorationsNow, QuietDevices, UpStays, DownStays,
             ShapesStay DEF RestorationInvariant
<1>7. ASSUME UNCHANGED <<wallets, pending, calls>>
      PROVE  /\ CallsTrue' /\ WalletsTrue'
             /\ wallets' = [k \in Keys |-> wallets'[k]]
             /\ \A k \in Keys : wallets'[k] = [d \in Devices |-> wallets'[k][d]]
  BY <1>1, <1>7, QuietDevices, WalletsStay, CallsStay DEF RestorationInvariant, DbShape
<1>8. CASE ctx.type = "new" /\ drawn < MaxDraws /\ UNCHANGED <<wallets, pending, calls>>
           /\ IF s.ref \in known
                THEN UNCHANGED <<restorations, drawn>>
                ELSE /\ drawn' = drawn + 1
                     /\ restorations' = RestorationProgress(
                          [restorations EXCEPT ![drawn + 1] = NewRestoration(s.thr)], drawn + 1, s)
  <2>1. CASE s.ref \in known
    BY <1>5, <1>7, <1>8, <2>1
  <2>2. CASE s.ref \notin known
    <3> DEFINE rs == [restorations EXCEPT ![drawn + 1] = NewRestoration(s.thr)]
    <3>1. restorations' = RestorationProgress(rs, drawn + 1, s) /\ drawn' = drawn + 1
      BY <1>8, <2>2
    <3>2. RestorationsBacked(rs)
      BY <1>5, RestorationSet, NewRestorationHolds
    <3> HIDE DEF rs
    <3>3. RestorationsBacked(RestorationProgress(rs, drawn + 1, s))
      BY <1>3, <3>2, RestorationProgressHolds
    <3> QED BY <1>5, <1>7, <1>8, <3>1, <3>3
  <2> QED BY <2>1, <2>2
<1>9. CASE /\ restorations' = IF FitsRestorationByRef(ctx.r, s)
                                THEN RestorationProgress(restorations, ctx.r, s) ELSE restorations
           /\ UNCHANGED <<wallets, pending, calls, drawn>>
  BY <1>3, <1>5, <1>7, <1>9, RestorationProgressHolds
<1>10. CASE /\ IF ~FitsKey(ctx.k, s)
                 THEN UNCHANGED <<wallets, pending, calls>>
                 ELSE /\ wallets' = [wallets EXCEPT ![ctx.k][s.dev] = s.image[2]]
                      /\ pending' = IF s.ref = None
                                      THEN pending \cup {Pending(s.dev, ctx.k, s.image[2])}
                                      ELSE pending
                      /\ calls' = calls \cup {Exit(<<<<s.dev, ctx.k>>>>)}
            /\ UNCHANGED <<restorations, drawn>>
  <2>1. CASE ~FitsKey(ctx.k, s)
    BY <1>5, <1>7, <1>10, <2>1
  <2>2. CASE FitsKey(ctx.k, s)
    <3> DEFINE call == Exit(<<<<s.dev, ctx.k>>>>)
               d == s.dev
               k == ctx.k
    <3>1. /\ wallets' = [wallets EXCEPT ![k][d] = s.image[2]]
          /\ pending' = IF s.ref = None THEN pending \cup {Pending(d, k, s.image[2])} ELSE pending
          /\ calls' = calls \cup {call}
      BY <1>10, <2>2
    <3>2. s.image[1] = k
      BY <2>2 DEF FitsKey
    <3>3. CallTrue(call)
      BY ExitIsCall
    <3> HIDE DEF call
    <3>4. CallsTrue'
      BY <1>1, <3>1, <3>3, CallAdded DEF RestorationInvariant
    <3>5. /\ wallets = [x \in Keys |-> wallets[x]]
          /\ \A x \in Keys : wallets[x] = [e \in Devices |-> wallets[x][e]]
      BY DEF RestorationInvariant, DbShape
    <3>6. d \in Devices /\ s.image \in Kept[d] /\ (s.ref # None => s.image \in Stored[d])
          /\ s.image = <<s.image[1], s.image[2]>>
      <4>1. d \in Devices /\ s.image \in Kept[d] /\ (s.ref # None => s.image \in Stored[d])
        BY <1>3, StoredIsOwn DEF Backed, BackedBy, Rests, Claims
      <4> QED BY <4>1, StoredIsOwn
    <3> DEFINE i == s.image[2]
    <3>6a. <<k, i>> \in Kept[d] /\ (s.ref # None => <<k, i>> \in Stored[d])
           /\ (s.ref = None => Pending(d, k, i) \in pending') /\ pending \subseteq pending'
      BY <3>1, <3>2, <3>6
    <3> HIDE DEF d, k, i, s, ctx
    <3>7. \A x \in Keys, e \in Devices :
            wallets'[x][e] = IF x = k /\ e = d THEN i ELSE wallets[x][e]
      BY <3>1, <3>5 DEF i, s
    <3>8. /\ wallets' = [x \in Keys |-> wallets'[x]]
          /\ \A x \in Keys : wallets'[x] = [e \in Devices |-> wallets'[x][e]]
      <4>1. wallets' = [x \in Keys |-> wallets'[x]]
        BY <3>1, <3>5
      <4>2. ASSUME NEW x \in Keys
            PROVE  wallets'[x] = [e \in Devices |-> wallets'[x][e]]
        <5>1. wallets'[x] = IF x = k THEN [wallets[k] EXCEPT ![d] = s.image[2]] ELSE wallets[x]
          BY <3>1, <3>5
        <5>2. wallets[x] = [e \in Devices |-> wallets[x][e]]
          BY <3>5
        <5> QED BY <5>1, <5>2
      <4> QED BY <4>1, <4>2
    <3>9. Stored' = Stored /\ Kept' = Kept
      BY <1>1, QuietDevices
    <3>10. ASSUME NEW x \in Keys, NEW e \in Devices, wallets'[x][e] # 0
           PROVE  \/ <<x, wallets'[x][e]>> \in Stored[e]
                  \/ <<x, wallets'[x][e]>> \in Kept[e] /\ Pending(e, x, wallets'[x][e]) \in pending'
      <4>1. CASE x = k /\ e = d
        BY <3>6a, <3>7, <4>1
      <4>2. CASE ~(x = k /\ e = d)
        BY <3>6a, <3>7, <3>10, <4>2 DEF RestorationInvariant, WalletsTrue
      <4> QED BY <4>1, <4>2
    <3>11. WalletsTrue'
      BY <3>9, <3>10 DEF WalletsTrue
    <3> QED BY <1>5, <1>10, <3>4, <3>8, <3>11
  <2> QED BY <2>1, <2>2
<1> QED BY <1>8, <1>9, <1>10 DEF EnrollShare

\* The share that stands for a device in a finished restoration.
LEMMA CompatibleHolds ==
  ASSUME NEW a, IsRestoration(a), NEW d, CompatibleShare(a, d) # 0
  PROVE  LET s == a.held[CompatibleShare(a, d)]
         IN  s \in Range(a.held) /\ s.dev = d /\ s.image[1] = a.key
<1> DEFINE I == {i \in 1 .. Len(a.held) : a.held[i].dev = d /\ a.held[i].image[1] = a.key}
<1>1. CompatibleShare(a, d) = IF I # {} THEN Max(I) ELSE 0
  BY DEF CompatibleShare, SelectLastInSeq
<1>2. IsList(a.held) /\ Len(a.held) \in Nat /\ \A i \in 1 .. Len(a.held) : a.held[i] \in Range(a.held)
  BY ListAt DEF IsRestoration
<1>3. Max(I) \in I
  <2>1. I # {} /\ I \subseteq 1 .. Len(a.held)
    BY <1>1
  <2> HIDE DEF I
  <2> QED BY <1>2, <2>1, LastPosition
<1> QED BY <1>1, <1>2, <1>3

LEMMA FinishRestoringHolds ==
  ASSUME RestorationInvariant, OnePaper, NEW r \in RestorationIds, FinishRestoring(r)
  PROVE  RestorationInvariant'
<1>1. Quiet /\ UNCHANGED <<waitSave, page, finder, entry, finish, stack, down, up, seen,
                          registered, pages, drawn>>
  BY DEF FinishRestoring, Quiet, tmpVars, linkVars, disturbVars, boundVars, countVars
<1> DEFINE a == restorations[r]
           k == a.key
           n(d) == CompatibleShare(a, d)
           index(d) == IF n(d) = 0 THEN wallets[k][d] ELSE a.held[n(d)].image[2]
           todo == NeedsToConsolidate(a)
           call == Exit([m \in DOMAIN todo |-> <<todo[m].dev, k>>])
<1>2. /\ a # None
      /\ wallets' = [wallets EXCEPT ![k] = [d \in Devices |-> index(d)]]
      /\ pending' = pending \cup {Pending(s.dev, k, index(s.dev)) : s \in Range(todo)}
      /\ restorations' = [restorations EXCEPT ![r] = None]
      /\ calls' \subseteq calls \cup {call}
  BY DEF FinishRestoring
<1>3. IsRestoration(a) /\ \A s \in Range(a.held) : Backed(s)
  BY <1>2 DEF RestorationInvariant, RestorationsTrue, RestorationsBacked
<1>4. RestorationsTrue'
  <2> DEFINE none == None
  <2>1. restorations' = [restorations EXCEPT ![r] = none] /\ (none # None => FALSE)
    BY <1>2
  <2> HIDE DEF none
  <2>2. RestorationsBacked(restorations')
    BY <2>1, RestorationSet DEF RestorationInvariant, RestorationsTrue
  <2> QED BY <1>1, <2>2, RestorationsNow
<1>5. CallsTrue'
  <2>1. CallTrue(call)
    BY ExitIsCall
  <2> HIDE DEF call
  <2> QED BY <1>1, <1>2, <2>1, CallAdded DEF RestorationInvariant
<1>6. \A s \in Range(a.held) : s.cons /\ s.image[1] = k => s \in Range(todo)
  <2> DEFINE drop == {s \in Range(a.held) : ~s.cons \/ s.image[1] # k}
  <2>1. todo = Retain(a.held, drop)
    BY DEF NeedsToConsolidate
  <2>2. \A s \in Range(a.held) : s.cons /\ s.image[1] = k => s \notin drop
    OBVIOUS
  <2> HIDE DEF drop, todo, a, k
  <2> QED BY <1>3, <2>1, <2>2, ListRetain DEF IsRestoration
<1>7. ASSUME NEW d \in Devices, n(d) # 0
      PROVE  \/ <<k, index(d)>> \in Stored[d]
             \/ <<k, index(d)>> \in Kept[d] /\ Pending(d, k, index(d)) \in pending'
  <2> DEFINE s == a.held[n(d)]
  <2>1. s \in Range(a.held) /\ s.dev = d /\ s.image[1] = k
    BY <1>3, <1>7, CompatibleHolds
  <2>2. index(d) = s.image[2]
    BY <1>7
  <2> HIDE DEF s, index, n, a
  <2>3. Backed(s)
    BY <1>3, <2>1
  <2>4. s.image \in Kept[d] /\ (~s.cons => s.image \in Stored[d]) /\ s.cons \in BOOLEAN
    BY <2>1, <2>3, StoredIsOwn DEF Backed, BackedBy, Rests
  <2>5. s.image = <<k, index(d)>>
    BY <2>1, <2>2, <2>4, StoredIsOwn
  <2>6. s.cons => Pending(d, k, index(d)) \in pending'
    BY <1>2, <1>6, <2>1
  <2> QED BY <2>4, <2>5, <2>6
<1>8. /\ wallets = [x \in Keys |-> wallets[x]]
      /\ \A x \in Keys : wallets[x] = [e \in Devices |-> wallets[x][e]]
  BY DEF RestorationInvariant, DbShape
<1>9. pending \subseteq pending'
  BY <1>2
<1>10. \A d \in Devices : n(d) = 0 => index(d) = wallets[k][d]
  OBVIOUS
<1> DEFINE line == [d \in Devices |-> index(d)]
<1>11. wallets' = [wallets EXCEPT ![k] = line] /\ line = [d \in Devices |-> line[d]]
       /\ \A d \in Devices : line[d] = index(d)
  BY <1>2
<1> HIDE DEF line, index, n, k, a, todo
<1>12. \A x \in Keys : wallets'[x] = IF x = k THEN line ELSE wallets[x]
  BY <1>8, <1>11
<1>13. wallets' = [x \in Keys |-> wallets'[x]]
  BY <1>8, <1>11
<1>14. DbShape'
  <2>1. \A x \in Keys : wallets'[x] = [e \in Devices |-> wallets'[x][e]]
    BY <1>8, <1>11, <1>12
  <2> QED BY <1>1, <1>13, <2>1 DEF RestorationInvariant, DbShape
<1>15. ASSUME NEW x \in Keys, NEW d \in Devices, wallets'[x][d] # 0
       PROVE  \/ <<x, wallets'[x][d]>> \in Stored[d]
              \/ <<x, wallets'[x][d]>> \in Kept[d] /\ Pending(d, x, wallets'[x][d]) \in pending'
  <2>1. CASE x = k /\ n(d) # 0
    <3>1. wallets'[x][d] = index(d)
      BY <1>11, <1>12, <2>1
    <3> QED BY <1>7, <2>1, <3>1
  <2>2. CASE x # k \/ n(d) = 0
    <3>1. wallets'[x][d] = wallets[x][d]
      BY <1>10, <1>11, <1>12, <2>2
    <3> QED BY <1>9, <1>15, <3>1 DEF RestorationInvariant, WalletsTrue
  <2> QED BY <2>1, <2>2
<1>16. WalletsTrue'
  <2>1. Stored' = Stored /\ Kept' = Kept
    BY <1>1, QuietDevices
  <2> QED BY <1>15, <2>1 DEF WalletsTrue
<1> QED BY <1>1, <1>4, <1>5, <1>14, <1>16, QuietDevices, UiStays, UpStays, DownStays,
           ShapesStay DEF RestorationInvariant

LEMMA CancelRestorationHolds ==
  ASSUME RestorationInvariant, NEW r, CancelRestoration(r)
  PROVE  RestorationInvariant'
<1>1. Quiet /\ UNCHANGED <<wallets, pending, waitSave, page, finder, entry, finish, stack, calls,
                          down, up, seen, registered, pages, drawn>>
  BY DEF CancelRestoration, Quiet, tmpVars, uiVars, linkVars, disturbVars
<1> DEFINE none == None
<1>2. restorations' = [restorations EXCEPT ![r] = none] /\ (none # None => FALSE)
  BY DEF CancelRestoration
<1> HIDE DEF none
<1>3. RestorationsBacked(restorations')
  BY <1>2, RestorationSet DEF RestorationInvariant, RestorationsTrue
<1> QED BY <1>1, <1>3, RestorationsNow, QuietDevices, UiStays, UpStays, WalletsStay, CallsStay,
           DownStays, ShapesStay DEF RestorationInvariant

LEMMA RemoveShareHolds ==
  ASSUME NEW a, IsRestoration(a), \A s \in Range(a.held) : Backed(s), NEW n \in 1 .. Len(a.held)
  PROVE  IsRestoration(RemoveShare(a, n)) /\ \A x \in Range(RemoveShare(a, n).held) : Backed(x)
<1> DEFINE b == [a EXCEPT !.held = RemoveAt(@, n)]
           c == [b EXCEPT !.key = TryFuzzyRecovery(b)]
<1>1. RemoveShare(a, n) = c
  BY DEF RemoveShare
<1>2. IsList(RemoveAt(a.held, n)) /\ Range(RemoveAt(a.held, n)) \subseteq Range(a.held)
  BY ListRemoveAt DEF IsRestoration
<1>3. b = [f \in {"starting", "held", "key"} |-> b[f]] /\ b.held = RemoveAt(a.held, n)
  BY DEF IsRestoration
<1> HIDE DEF b
<1>4. c = [f \in {"starting", "held", "key"} |-> c[f]] /\ c.held = b.held
  BY <1>3
<1> HIDE DEF c
<1> QED BY <1>1, <1>2, <1>3, <1>4 DEF IsRestoration

LEMMA DeleteRestorationShareHolds ==
  ASSUME RestorationInvariant, NEW r \in RestorationIds, NEW d, DeleteRestorationShare(r, d)
  PROVE  RestorationInvariant'
<1>1. Quiet /\ UNCHANGED <<wallets, pending, waitSave, page, finder, entry, finish, stack, calls,
                          down, up, seen, registered, pages, drawn>>
  BY DEF DeleteRestorationShare, Quiet, tmpVars, uiVars, linkVars, disturbVars
<1> DEFINE a == restorations[r]
           I == {i \in 1 .. Len(a.held) : a.held[i].dev = d}
           n == SelectInSeq(a.held, LAMBDA s : s.dev = d)
<1>2. /\ a # None /\ n # 0
      /\ restorations' = [restorations EXCEPT ![r] = RemoveShare(a, n)]
  BY DEF DeleteRestorationShare, RestorationInvariant, RestorationsTrue, RestorationsBacked
<1>3. n = IF I # {} THEN Min(I) ELSE 0
  BY DEF SelectInSeq
<1>4. RestorationsBacked(restorations)
  BY DEF RestorationInvariant, RestorationsTrue
<1>5. IsRestoration(a) /\ \A s \in Range(a.held) : Backed(s)
  BY <1>2, <1>4 DEF RestorationsBacked
<1>6. n \in 1 .. Len(a.held)
  <2>1. I # {} /\ I \subseteq 1 .. Len(a.held) /\ n = Min(I)
    BY <1>2, <1>3
  <2> HIDE DEF I
  <2>2. I \subseteq Nat
    BY <2>1
  <2>3. PICK m \in I : \A j \in I : m <= j
    BY <2>1, <2>2, LeastNatural
  <2> QED BY <2>1, <2>3 DEF Min
<1> DEFINE b == RemoveShare(a, n)
<1>7. restorations' = [restorations EXCEPT ![r] = b]
  BY <1>2
<1> HIDE DEF n, a
<1>8. IsRestoration(b) /\ \A s \in Range(b.held) : Backed(s)
  BY <1>5, <1>6, RemoveShareHolds
<1> HIDE DEF b
<1>9. RestorationsBacked(restorations')
  BY <1>4, <1>7, <1>8, RestorationSet
<1> QED BY <1>1, <1>9, RestorationsNow, QuietDevices, UiStays, UpStays, WalletsStay, CallsStay,
           DownStays, ShapesStay DEF RestorationInvariant

LEMMA DeleteKeyHolds ==
  ASSUME RestorationInvariant, NEW k \in Keys, DeleteKey(k)
  PROVE  RestorationInvariant'
<1>1. Quiet /\ UNCHANGED <<restorations, waitSave, page, finder, entry, finish, stack, calls,
                          down, up, seen, registered, pages, drawn>>
  BY DEF DeleteKey, Quiet, uiVars, linkVars, disturbVars
<1>2. /\ wallets' = [wallets EXCEPT ![k] = [d \in Devices |-> 0]]
      /\ pending' = {p \in pending : p.key # k}
  BY DEF DeleteKey
<1>3. /\ wallets = [x \in Keys |-> wallets[x]]
      /\ \A x \in Keys : wallets[x] = [e \in Devices |-> wallets[x][e]]
  BY DEF RestorationInvariant, DbShape
<1>4. \A x \in Keys : wallets'[x] = IF x = k THEN [d \in Devices |-> 0] ELSE wallets[x]
  BY <1>2, <1>3
<1>5. DbShape'
  <2>1. wallets' = [x \in Keys |-> wallets'[x]]
    BY <1>2, <1>3
  <2>2. \A x \in Keys : wallets'[x] = [e \in Devices |-> wallets'[x][e]]
    BY <1>3, <1>4
  <2> QED BY <1>1, <2>1, <2>2 DEF RestorationInvariant, DbShape
<1>6. WalletsTrue'
  <2>1. Stored' = Stored /\ Kept' = Kept
    BY <1>1, QuietDevices
  <2>2. ASSUME NEW x \in Keys, NEW e \in Devices, wallets'[x][e] # 0
        PROVE  \/ <<x, wallets'[x][e]>> \in Stored[e]
               \/ <<x, wallets'[x][e]>> \in Kept[e] /\ Pending(e, x, wallets'[x][e]) \in pending'
    <3>1. x # k /\ wallets'[x][e] = wallets[x][e]
      BY <1>4, <2>2
    <3>2. Pending(e, x, wallets[x][e]).key = x
      BY DEF Pending
    <3> QED BY <1>2, <2>2, <3>1, <3>2 DEF RestorationInvariant, WalletsTrue
  <2> QED BY <2>1, <2>2 DEF WalletsTrue
<1> QED BY <1>1, <1>5, <1>6, QuietDevices, UiStays, UpStays, RestorationsStay, CallsStay,
           DownStays, ShapesStay DEF RestorationInvariant

LEMMA DeleteShareHolds ==
  ASSUME RestorationInvariant, NEW k \in Keys, NEW d \in Devices, DeleteShare(k, d)
  PROVE  RestorationInvariant'
<1>1. Quiet /\ UNCHANGED <<restorations, pending, waitSave, page, finder, entry, finish, stack, calls,
                          down, up, seen, registered, pages, drawn>>
  BY DEF DeleteShare, Quiet, tmpVars, uiVars, linkVars, disturbVars
<1>2. wallets' = [wallets EXCEPT ![k][d] = 0]
  BY DEF DeleteShare
<1>3. /\ wallets = [x \in Keys |-> wallets[x]]
      /\ \A x \in Keys : wallets[x] = [e \in Devices |-> wallets[x][e]]
  BY DEF RestorationInvariant, DbShape
<1>4. \A x \in Keys : wallets'[x] = IF x = k THEN [wallets[k] EXCEPT ![d] = 0] ELSE wallets[x]
  BY <1>2, <1>3
<1>5. DbShape'
  <2>1. wallets' = [x \in Keys |-> wallets'[x]]
    BY <1>2, <1>3
  <2>2. \A x \in Keys : wallets'[x] = [e \in Devices |-> wallets'[x][e]]
    BY <1>3, <1>4
  <2> QED BY <1>1, <2>1, <2>2 DEF RestorationInvariant, DbShape
<1>6. WalletsTrue'
  <2>1. Stored' = Stored /\ Kept' = Kept
    BY <1>1, QuietDevices
  <2>2. \A x \in Keys, e \in Devices : wallets'[x][e] = wallets[x][e] \/ wallets'[x][e] = 0
    BY <1>3, <1>4
  <2> QED BY <1>1, <2>1, <2>2 DEF RestorationInvariant, WalletsTrue
<1> QED BY <1>1, <1>5, <1>6, QuietDevices, UiStays, UpStays, RestorationsStay, CallsStay,
           DownStays, ShapesStay DEF RestorationInvariant

----------------------------------------------------------------------------
(* The app's loop *)

\* A message of a device is taken, and was true when it is.
LEMMA ReceiveTakes ==
  ASSUME RestorationInvariant, NEW d \in Devices, Receive(d)
  PROVE  /\ Quiet /\ UNCHANGED <<seen, down, pages, drawn>>
         /\ up' = [e \in Devices |-> up'[e]] /\ UpTrue'
         /\ Tells(Head(up[d]), d, Stored[d], Kept[d]) /\ d \in seen
<1>1. Quiet /\ UNCHANGED <<seen, down, pages, drawn>> /\ d \in seen
  BY DEF Receive, Quiet, disturbVars, boundVars, countVars
<1>2. up[d] # <<>> /\ up' = [up EXCEPT ![d] = Tail(@)] /\ up = [e \in Devices |-> up[e]]
  BY DEF Receive, RestorationInvariant, LinkShape
<1>3. IsList(up[d]) /\ \A m \in Range(up[d]) : Tells(m, d, Stored[d], Kept[d])
  BY DEF RestorationInvariant, UpTrue
<1>4. IsList(Tail(up[d])) /\ Range(Tail(up[d])) \subseteq Range(up[d]) /\ Head(up[d]) \in Range(up[d])
  BY <1>2, <1>3, ListTail
<1>5. \A e \in Devices : up'[e] = IF e = d THEN Tail(up[d]) ELSE up[e]
  BY <1>2
<1>6. UpTrue'
  <2>1. Stored' = Stored /\ Kept' = Kept
    BY <1>1, QuietDevices
  <2>2. ASSUME NEW e \in Devices
        PROVE  IsList(up'[e]) /\ \A m \in Range(up'[e]) : Tells(m, e, Stored[e], Kept[e])
    <3>1. CASE e = d
      BY <1>3, <1>4, <1>5, <3>1
    <3>2. CASE e # d
      BY <1>5, <3>2 DEF RestorationInvariant, UpTrue
    <3> QED BY <3>1, <3>2
  <2> QED BY <2>1, <2>2 DEF UpTrue
<1> QED BY <1>1, <1>2, <1>3, <1>4, <1>6

\* The app goes on after a message.
LEMMA ReceiveRest ==
  ASSUME RestorationInvariant, NEW d \in Devices, Receive(d),
         registered \subseteq registered', registered' \subseteq registered \cup {d},
         FinderTrue', PageTrue', EntryTrue', FinishTrue', CallsTrue', SavesConsolidate',
         RestorationsTrue', WalletsTrue',
         wallets' = [k \in Keys |-> wallets'[k]],
         \A k \in Keys : wallets'[k] = [e \in Devices |-> wallets'[k][e]]
  PROVE  RestorationInvariant'
<1>1. /\ Quiet /\ UNCHANGED <<seen, down, pages, drawn>> /\ d \in seen
      /\ up' = [e \in Devices |-> up'[e]] /\ UpTrue'
  BY ReceiveTakes
<1>2. DbShape' /\ LinkShape'
  BY <1>1 DEF RestorationInvariant, DbShape, LinkShape
<1>3. FreshOnly'
  BY <1>1 DEF RestorationInvariant, FreshOnly
<1> QED BY <1>1, <1>2, <1>3, QuietDevices DEF RestorationInvariant

LEMMA ExitCallsHold ==
  ASSUME CallsTrue, UNCHANGED stack, NEW d, calls' = calls \cup ExitCalls(d)
  PROVE  CallsTrue'
<1>1. \A c \in ExitCalls(d) : CallTrue(c)
  BY ExitIsCall DEF ExitCalls
<1> QED BY <1>1 DEF CallsTrue

LEMMA ReceiveNameHolds ==
  ASSUME RestorationInvariant, NEW d \in Devices, Receive(d), ReceiveName(d)
  PROVE  RestorationInvariant'
<1>1. /\ Quiet /\ UNCHANGED <<seen, pages, drawn>>
  BY ReceiveTakes
<1>2. UNCHANGED <<restorations, wallets, pending, waitSave, page, finish, stack, entry>>
  BY DEF ReceiveName, dbVars, tmpVars
<1>3. Grows
  BY <1>1, QuietDevices
<1>4. CASE d \in registered
  <2>1. UNCHANGED <<registered, finder, calls>>
    BY <1>4 DEF ReceiveName
  <2>2. FinderTrue' /\ PageTrue' /\ EntryTrue' /\ FinishTrue' /\ CallsTrue'
    BY <1>1, <1>2, <1>3, <2>1, UiStays, CallsStay
  <2> QED BY <1>1, <1>2, <1>3, <2>1, <2>2, ReceiveRest, RestorationsStay, WalletsStay, ShapesStay
          DEF DbShape
<1>5. CASE d \notin registered
  <2> DEFINE blank == FALSE
  <2>1. /\ registered' = registered \cup {d} /\ finder' = Connected(finder, d, blank)
        /\ calls' = calls \cup ExitCalls(d) /\ blank \in BOOLEAN /\ ~blank
    BY <1>5 DEF ReceiveName
  <2> HIDE DEF blank
  <2>2. FinderTrue'
    BY <1>1, <1>2, <1>3, <2>1, ConnectedHolds
  <2>3. CallsTrue'
    BY <1>2, <2>1, ExitCallsHold DEF RestorationInvariant
  <2>4. PageTrue' /\ EntryTrue' /\ FinishTrue'
    BY <1>1, <1>2, <1>3, PageStays DEF RestorationInvariant, EntryTrue, FinishTrue
  <2> QED BY <1>1, <1>2, <1>3, <2>1, <2>2, <2>3, <2>4, ReceiveRest, RestorationsStay, WalletsStay,
             ShapesStay DEF DbShape
<1> QED BY <1>4, <1>5

LEMMA ReceiveHeldHolds ==
  ASSUME RestorationInvariant, NEW d \in Devices, Receive(d), Head(up[d]).type = "Held",
         ReceiveHeld(d, Head(up[d]).arg)
  PROVE  RestorationInvariant'
<1> DEFINE share == Head(up[d]).arg
<1>1. /\ Quiet /\ UNCHANGED <<seen, pages, drawn>> /\ Tells(Head(up[d]), d, Stored[d], Kept[d])
  BY ReceiveTakes
<1>2. UNCHANGED <<restorations, wallets, pending, waitSave, page, finish, stack, entry, calls, registered>>
  BY DEF ReceiveHeld, dbVars, tmpVars
<1>3. Grows
  BY <1>1, QuietDevices
<1>4. share # None => Claims(share) /\ Backed(share)
  BY <1>1 DEF Tells, Backed, BackedBy
<1>5. finder' = finder \/ (finder # None /\ finder' = [finder EXCEPT !.held[d] = share])
  BY DEF ReceiveHeld
<1> HIDE DEF share
<1>6. FinderTrue'
  <2>1. CASE finder' = finder
    BY <1>1, <1>2, <1>3, <2>1, UiStays
  <2>2. CASE finder # None /\ finder' = [finder EXCEPT !.held[d] = share]
    <3>1. FinderTrue
      BY DEF RestorationInvariant
    <3>2. finder = [f \in {"devs", "asked", "held"} |-> finder[f]]
          /\ finder.held = [e \in Devices |-> finder.held[e]]
      BY <2>2, <3>1 DEF FinderTrue
    <3> DEFINE held == [finder.held EXCEPT ![d] = share]
    <3>3. /\ finder' = [f \in {"devs", "asked", "held"} |-> finder'[f]]
          /\ finder'.devs = finder.devs /\ finder'.held = held
      BY <2>2, <3>2
    <3>4. held = [e \in Devices |-> held[e]]
          /\ \A e \in Devices : held[e] = IF e = d THEN share ELSE finder.held[e]
      BY <3>2
    <3> HIDE DEF held
    <3>5. ASSUME NEW e \in Devices, held[e] # None
          PROVE  Claims(held[e]) /\ BackedBy(held[e], Stored', Kept')
      <4>1. Claims(held[e]) /\ Backed(held[e])
        BY <1>4, <2>2, <3>1, <3>4, <3>5 DEF FinderTrue
      <4> QED BY <1>3, <4>1, BackedMore
    <3> QED BY <1>1, <1>2, <2>2, <3>1, <3>3, <3>4, <3>5 DEF FinderTrue, Backed
  <2> QED BY <1>5, <2>1, <2>2
<1>7. PageTrue' /\ EntryTrue' /\ FinishTrue'
  BY <1>1, <1>2, <1>3, PageStays DEF RestorationInvariant, EntryTrue, FinishTrue
<1> QED BY <1>1, <1>2, <1>3, <1>6, <1>7, ReceiveRest, RestorationsStay, WalletsStay, CallsStay,
           ShapesStay DEF DbShape

LEMMA ReceiveEnteredHolds ==
  ASSUME RestorationInvariant, NEW d \in Devices, Receive(d), NEW id, NEW image,
         ReceiveEntered(d, id, image)
  PROVE  RestorationInvariant'
<1>1. /\ Quiet /\ UNCHANGED <<seen, pages, drawn>>
  BY ReceiveTakes
<1>2. UNCHANGED <<restorations, wallets, pending, waitSave, finder, stack, entry, calls, registered>>
  BY DEF ReceiveEntered, dbVars, tmpVars
<1>3. Grows
  BY <1>1, QuietDevices
<1>4. FinderTrue' /\ PageTrue' /\ EntryTrue' /\ FinishTrue'
  <2>1. CASE UNCHANGED <<page, finish>>
    BY <1>1, <1>2, <1>3, <2>1, UiStays
  <2>2. CASE /\ entry # None /\ entry = [dev |-> d, id |-> id] /\ page # None /\ page.stage = "entry"
             /\ page' = [page EXCEPT !.stage = "entered"]
             /\ finish' = [ctx |-> page.ctx, dev |-> d, image |-> image, id |-> id, checked |-> FALSE]
    <3>1. IsPage(page) /\ Fresh(page.dev) /\ id \in 0 .. pages
      BY <2>2 DEF RestorationInvariant, PageTrue, EntryTrue
    <3>2. IsPage(page') /\ page'.stage = "entered" /\ page'.dev = page.dev
      BY <2>2, <3>1 DEF IsPage
    <3>3. finder = None
      BY <2>2 DEF RestorationInvariant, FinderTrue
    <3>4. finish'.id = id
          /\ finish' = [f \in {"ctx", "dev", "image", "id", "checked"} |-> finish'[f]]
      BY <2>2
    <3> QED BY <1>1, <1>2, <3>1, <3>2, <3>3, <3>4
            DEF RestorationInvariant, FinderTrue, PageTrue, EntryTrue, FinishTrue
  <2> QED BY <2>1, <2>2 DEF ReceiveEntered
<1> QED BY <1>1, <1>2, <1>3, <1>4, ReceiveRest, RestorationsStay, WalletsStay, CallsStay,
           ShapesStay DEF DbShape

LEMMA EntryFollows ==
  ASSUME RestorationInvariant, Grows, UNCHANGED <<page, finder, finish, pages>>,
         entry' = entry \/ entry' = None
  PROVE  FinderTrue' /\ PageTrue' /\ EntryTrue' /\ FinishTrue'
<1>1. CASE entry' = entry
  BY <1>1, UiStays
<1>2. CASE entry' = None
  <2>1. FinderTrue
    BY DEF RestorationInvariant
  <2>2. ASSUME finder # None, NEW d \in Devices, finder.held[d] # None
        PROVE  BackedBy(finder.held[d], Stored', Kept')
    BY <2>1, <2>2, BackedMore DEF FinderTrue
  <2>3. FinderTrue'
    BY <2>1, <2>2 DEF FinderTrue, Backed
  <2> QED BY <1>2, <2>3, PageStays DEF RestorationInvariant, EntryTrue, FinishTrue
<1> QED BY <1>1, <1>2

LEMMA ReceiveSavedHolds ==
  ASSUME RestorationInvariant, NEW d \in Devices, Receive(d), Head(up[d]).type = "Saved",
         ReceiveSaved(d, Head(up[d]).arg)
  PROVE  RestorationInvariant'
<1> DEFINE image == Head(up[d]).arg
           waiting == {w \in waitSave : w.share.dev = d /\ w.share.image = image}
<1>1. /\ Quiet /\ UNCHANGED <<seen, pages, drawn>> /\ Tells(Head(up[d]), d, Stored[d], Kept[d])
  BY ReceiveTakes
<1>2. UNCHANGED <<wallets, pending, page, finder, finish, registered>>
  BY DEF ReceiveSaved
<1>3. Grows
  BY <1>1, QuietDevices
<1>4. CASE waiting = {}
  <2>1. UNCHANGED <<restorations, waitSave, stack, entry, calls>>
    BY <1>4 DEF ReceiveSaved
  <2>2. FinderTrue' /\ PageTrue' /\ EntryTrue' /\ FinishTrue'
    BY <1>1, <1>2, <1>3, <2>1, UiStays
  <2> QED BY <1>1, <1>2, <1>3, <2>1, <2>2, ReceiveRest, RestorationsStay, WalletsStay, CallsStay,
             ShapesStay DEF DbShape
<1>5. CASE waiting # {}
  <2>1. PICK w \in waiting :
          /\ waitSave' = waitSave \ waiting
          /\ restorations' = RestorationProgress(restorations, w.r, w.share)
          /\ ProcessToUser([type |-> "Saved", dev |-> d, what |-> w.r, index |-> image[2]])
    BY <1>5 DEF ReceiveSaved
  <2>2. w.share.cons = TRUE /\ w.share.dev = d /\ w.share.image = image
    BY DEF RestorationInvariant, SavesConsolidate
  <2>3. image \in Kept[d]
    BY <1>1 DEF Tells
  <2>4. Backed(w.share)
    BY <2>2, <2>3 DEF Backed, BackedBy, Rests
  <2>5. RestorationsTrue'
    <3>1. RestorationsBacked(restorations')
      BY <2>1, <2>4, RestorationProgressHolds DEF RestorationInvariant, RestorationsTrue
    <3> QED BY <1>1, <3>1, RestorationsNow
  <2>6. SavesConsolidate'
    BY <2>1 DEF RestorationInvariant, SavesConsolidate
  <2> DEFINE user == [type |-> "Saved", dev |-> d, what |-> w.r, index |-> image[2]]
  <2>7. ProcessToUser(user)
    BY <2>1
  <2> HIDE DEF user, image
  <2>8. CallsTrue' /\ (entry' = entry \/ entry' = None)
    BY <2>7, ProcessToUserHolds DEF RestorationInvariant
  <2>9. FinderTrue' /\ PageTrue' /\ EntryTrue' /\ FinishTrue'
    BY <1>1, <1>2, <1>3, <2>8, EntryFollows
  <2>10. WalletsTrue' /\ DbShape'
    BY <1>1, <1>2, <1>3, WalletsStay, ShapesStay
  <2> QED BY <1>2, <2>5, <2>6, <2>8, <2>9, <2>10, ReceiveRest DEF DbShape
<1> QED BY <1>4, <1>5

LEMMA ReceiveFinishedHolds ==
  ASSUME RestorationInvariant, OnePaper, NEW d \in Devices, Receive(d), Head(up[d]).type = "Finished",
         ReceiveFinished(d, Head(up[d]).arg)
  PROVE  RestorationInvariant'
<1> DEFINE image == Head(up[d]).arg
           p == Pending(d, image[1], image[2])
           user == [type |-> "Finished", dev |-> d, what |-> image[1], index |-> image[2]]
<1>1. /\ Quiet /\ UNCHANGED <<seen, pages, drawn>> /\ Tells(Head(up[d]), d, Stored[d], Kept[d])
  BY ReceiveTakes
<1>2. UNCHANGED <<restorations, waitSave, page, finder, finish, registered>>
  BY DEF ReceiveFinished
<1>3. Grows
  BY <1>1, QuietDevices
<1>4. image \in Stored[d] /\ image = <<image[1], image[2]>>
  BY <1>1, StoredIsOwn DEF Tells
<1>5. \/ wallets' = [wallets EXCEPT ![image[1]][d] = image[2]] /\ ProcessToUser(user) /\ UNCHANGED pending
      \/ pending' = pending \ {p} /\ ProcessToUser(user) /\ UNCHANGED wallets
      \/ Refuse(user) /\ UNCHANGED <<wallets, pending, entry>>
  BY DEF ReceiveFinished, Pending
<1>6. CallsTrue' /\ (entry' = entry \/ entry' = None)
  <2> HIDE DEF user
  <2>1. ASSUME ProcessToUser(user) PROVE CallsTrue' /\ (entry' = entry \/ entry' = None)
    BY <2>1, ProcessToUserHolds DEF RestorationInvariant
  <2>2. ASSUME Refuse(user) PROVE CallsTrue'
    BY <2>2, RefuseHolds DEF RestorationInvariant
  <2> QED BY <1>5, <2>1, <2>2
<1>7. FinderTrue' /\ PageTrue' /\ EntryTrue' /\ FinishTrue'
  BY <1>1, <1>2, <1>3, <1>6, EntryFollows
<1>8. /\ wallets = [x \in Keys |-> wallets[x]]
      /\ \A x \in Keys : wallets[x] = [e \in Devices |-> wallets[x][e]]
  BY DEF RestorationInvariant, DbShape
<1>9. Stored' = Stored /\ Kept' = Kept
  BY <1>1, QuietDevices
<1> DEFINE k == image[1]
           i == image[2]
<1>10. /\ <<k, i>> \in Stored[d]
       /\ \/ wallets' = [wallets EXCEPT ![k][d] = i] /\ UNCHANGED pending
          \/ UNCHANGED wallets /\ \A q \in pending : q \in pending' \/ q = Pending(d, k, i)
  BY <1>4, <1>5
<1> HIDE DEF k, i
<1>11. CASE wallets' = [wallets EXCEPT ![k][d] = i] /\ UNCHANGED pending
  <2>1. \A x \in Keys : wallets'[x] = IF x = k THEN [wallets[k] EXCEPT ![d] = i] ELSE wallets[x]
    BY <1>8, <1>11
  <2>2. wallets' = [x \in Keys |-> wallets'[x]]
    BY <1>8, <1>11
  <2>3. \A x \in Keys : wallets'[x] = [e \in Devices |-> wallets'[x][e]]
    BY <1>8, <2>1
  <2>4. \A x \in Keys, e \in Devices : wallets'[x][e] = IF x = k /\ e = d THEN i ELSE wallets[x][e]
    <3>1. ASSUME NEW x \in Keys, NEW e \in Devices, x # k PROVE wallets'[x][e] = wallets[x][e]
      BY <2>1, <3>1
    <3>2. ASSUME k \in Keys, NEW e \in Devices
          PROVE  wallets'[k][e] = IF e = d THEN i ELSE wallets[k][e]
      <4>1. wallets'[k] = [wallets[k] EXCEPT ![d] = i]
        BY <2>1, <3>2
      <4>2. wallets[k] = [y \in Devices |-> wallets[k][y]]
        BY <1>8, <3>2
      <4> QED BY <3>2, <4>1, <4>2
    <3> QED BY <3>1, <3>2
  <2>5. WalletsTrue'
    BY <1>9, <1>10, <1>11, <2>4 DEF RestorationInvariant, WalletsTrue
  <2> QED BY <1>1, <1>2, <1>3, <1>6, <1>7, <2>2, <2>3, <2>5, ReceiveRest, RestorationsStay, ShapesStay
<1>12. CASE UNCHANGED wallets /\ \A q \in pending : q \in pending' \/ q = Pending(d, k, i)
  <2>1. ASSUME NEW x \in Keys, NEW e \in Devices, wallets[x][e] # 0
        PROVE  \/ <<x, wallets[x][e]>> \in Stored[e]
               \/ <<x, wallets[x][e]>> \in Kept[e] /\ Pending(e, x, wallets[x][e]) \in pending'
    <3>1. CASE <<x, wallets[x][e]>> \in Stored[e]
      BY <3>1
    <3>2. CASE <<x, wallets[x][e]>> \in Kept[e] /\ Pending(e, x, wallets[x][e]) \in pending
      <4>1. Pending(e, x, wallets[x][e]) = Pending(d, k, i) => e = d /\ x = k /\ wallets[x][e] = i
        BY DEF Pending
      <4> QED BY <1>10, <1>12, <3>2, <4>1
    <3> QED BY <2>1, <3>1, <3>2 DEF RestorationInvariant, WalletsTrue
  <2>2. WalletsTrue'
    BY <1>9, <1>12, <2>1 DEF WalletsTrue
  <2> QED BY <1>1, <1>2, <1>3, <1>6, <1>7, <1>8, <1>12, <2>2, ReceiveRest, RestorationsStay, ShapesStay
<1> QED BY <1>10, <1>11, <1>12

LEMMA ReceiveHolds ==
  ASSUME RestorationInvariant, OnePaper, NEW d \in Devices, Receive(d)
  PROVE  RestorationInvariant'
<1>1. LET m == Head(up[d])
      IN  \/ m.type = "SetName" /\ ReceiveName(d)
          \/ m.type = "Held" /\ ReceiveHeld(d, m.arg)
          \/ m.type = "Entered" /\ finish = None /\ ReceiveEntered(d, m.arg[1], m.arg[2])
          \/ m.type = "Saved" /\ ReceiveSaved(d, m.arg)
          \/ m.type = "Finished" /\ ReceiveFinished(d, m.arg)
  BY DEF Receive
<1> QED BY <1>1, ReceiveNameHolds, ReceiveHeldHolds, ReceiveEnteredHolds, ReceiveSavedHolds,
           ReceiveFinishedHolds

\* The waiters of a device that is gone give up.
LEMMA LostCalls ==
  ASSUME RestorationInvariant, NEW d \in Devices, Lost(d)
  PROVE  CallsTrue'
<1> DEFINE failed == {c \in Range(stack) : c.dev = d}
           Gone(c) == IF c.dev = d /\ c.stage = "sent" THEN Late(c) ELSE c
<1>1. /\ stack' = Retain(stack, failed)
      /\ calls' = {Gone(c) : c \in calls} \cup UNION {GoOn(c) : c \in failed}
  BY DEF Lost
<1>2. IsList(stack) /\ \A c \in Range(stack) : Waits(c)
  BY DEF RestorationInvariant, CallsTrue
<1>3. \A c \in {Gone(x) : x \in calls} : CallTrue(c)
  BY LateCall DEF RestorationInvariant, CallsTrue
<1> HIDE DEF failed, Gone
<1>4. IsList(stack') /\ Range(stack') \subseteq Range(stack)
  BY <1>1, <1>2, ListRetain
<1>5. \A c \in calls' : CallTrue(c)
  BY <1>1, <1>3, GoOnIsCall
<1> QED BY <1>2, <1>4, <1>5 DEF CallsTrue

LEMMA LostLink ==
  ASSUME RestorationInvariant, NEW d \in Devices, Lost(d)
  PROVE  LinkShape' /\ FreshOnly' /\ UpTrue'
<1> DEFINE m == Message("Cancel", None)
<1>1. /\ Quiet /\ seen' = seen \ {d} /\ registered' = registered \ {d}
      /\ up' = [up EXCEPT ![d] = <<>>]
  BY DEF Lost, Quiet
<1>2. /\ down' = [e \in Devices |-> down'[e]]
      /\ \A e \in Devices : down'[e] = <<>> \/ down'[e] = down[e] \/ down'[e] = Append(down[e], m)
  BY DEF Lost
<1>3. m.type \in Asks /\ m.type # "Enter"
  BY DEF Message, Asks
<1> HIDE DEF m
<1>4. FreshOnly /\ LinkShape /\ UpTrue
  BY DEF RestorationInvariant
<1>5. ASSUME NEW e \in Devices
      PROVE  IsList(down'[e]) /\ \A x \in Range(down'[e]) : x \in Range(down[e]) \/ x = m
  <2>1. IsList(Append(down[e], m)) /\ Range(Append(down[e], m)) = Range(down[e]) \cup {m}
    BY <1>4, ListAppend DEF FreshOnly
  <2>2. CASE down'[e] = <<>>
    BY <2>2, EmptyList
  <2>3. CASE down'[e] = down[e]
    BY <1>4, <2>3 DEF FreshOnly
  <2>4. CASE down'[e] = Append(down[e], m)
    BY <2>1, <2>4
  <2> QED BY <1>2, <2>2, <2>3, <2>4
<1>6. FreshOnly'
  BY <1>1, <1>3, <1>4, <1>5 DEF FreshOnly
<1>7. \A e \in Devices : up'[e] = IF e = d THEN <<>> ELSE up[e]
  BY <1>1, <1>4 DEF LinkShape
<1>8. UpTrue'
  <2>1. Stored' = Stored /\ Kept' = Kept
    BY <1>1, QuietDevices
  <2> QED BY <1>4, <1>7, <2>1, EmptyList DEF UpTrue
<1>9. LinkShape'
  BY <1>1, <1>2, <1>4 DEF LinkShape
<1> QED BY <1>6, <1>8, <1>9

LEMMA LostUi ==
  ASSUME RestorationInvariant, NEW d \in Devices, Lost(d)
  PROVE  FinderTrue' /\ PageTrue' /\ EntryTrue' /\ FinishTrue'
<1>1. /\ Quiet /\ UNCHANGED <<finish, pages>>
      /\ entry' = entry \/ entry' = None
      /\ finder' = IF finder = None THEN None
                     ELSE [devs |-> Retain(finder.devs, {e \in Range(finder.devs) : e.dev = d}),
                           asked |-> finder.asked \ {d}, held |-> [finder.held EXCEPT ![d] = None]]
      /\ \/ /\ page # None /\ page.stage \in {"nonces", "entry"}
            /\ page' = [page EXCEPT !.stage = "naming"]
         \/ page' = page
  BY DEF Lost, Quiet, boundVars, countVars
<1>2. Grows
  BY <1>1, QuietDevices
<1>3. EntryTrue'
  BY <1>1 DEF RestorationInvariant, EntryTrue
<1>4. PageTrue' /\ FinishTrue' /\ (finder # None => page' = page)
  <2>1. CASE page' = page
    BY <1>1, <1>2, <2>1, PageStays DEF RestorationInvariant, FinishTrue
  <2>2. CASE page # None /\ page.stage \in {"nonces", "entry"} /\ page' = [page EXCEPT !.stage = "naming"]
    <3>1. IsPage(page) /\ Fresh(page.dev) /\ finder = None
      BY <2>2 DEF RestorationInvariant, PageTrue, FinderTrue
    <3>2. IsPage(page') /\ page'.stage = "naming" /\ page'.dev = page.dev
      BY <2>2, <3>1 DEF IsPage
    <3> QED BY <1>1, <3>1, <3>2 DEF RestorationInvariant, PageTrue, FinishTrue
  <2> QED BY <1>1, <2>1, <2>2
<1>5. FinderTrue'
  <2>1. CASE finder = None
    BY <1>1, <2>1 DEF FinderTrue
  <2>2. CASE finder # None
    <3> DEFINE devs == Retain(finder.devs, {e \in Range(finder.devs) : e.dev = d})
               held == [finder.held EXCEPT ![d] = None]
    <3>1. FinderTrue
      BY DEF RestorationInvariant
    <3>2. IsList(devs) /\ Range(devs) \subseteq Range(finder.devs)
      BY <2>2, <3>1, ListRetain DEF FinderTrue
    <3>3. held = [e \in Devices |-> held[e]]
          /\ \A e \in Devices : held[e] # None => held[e] = finder.held[e]
      BY <2>2, <3>1 DEF FinderTrue
    <3>4. finder' = [devs |-> devs, asked |-> finder.asked \ {d}, held |-> held]
      BY <1>1, <2>2
    <3> HIDE DEF devs, held
    <3>5. /\ finder' = [f \in {"devs", "asked", "held"} |-> finder'[f]]
          /\ finder'.devs = devs /\ finder'.held = held
      BY <3>4
    <3>6. ASSUME NEW e \in Devices, held[e] # None
          PROVE  Claims(held[e]) /\ BackedBy(held[e], Stored', Kept')
      <4>1. Claims(held[e]) /\ Backed(held[e])
        BY <2>2, <3>1, <3>3, <3>6 DEF FinderTrue
      <4> QED BY <1>2, <4>1, BackedMore
    <3> QED BY <1>1, <1>4, <2>2, <3>1, <3>2, <3>3, <3>5, <3>6 DEF FinderTrue, Backed
  <2> QED BY <2>1, <2>2
<1> QED BY <1>3, <1>4, <1>5

LEMMA LostHolds ==
  ASSUME RestorationInvariant, NEW d \in Devices, Lost(d)
  PROVE  RestorationInvariant'
<1>1. Quiet /\ UNCHANGED <<restorations, wallets, pending, waitSave, pages, drawn>>
  BY DEF Lost, Quiet, dbVars, tmpVars, boundVars, countVars
<1> QED BY <1>1, LostCalls, LostLink, LostUi, QuietDevices, RestorationsStay, WalletsStay,
           ShapesStay DEF RestorationInvariant

LEMMA AppCrashHolds ==
  ASSUME RestorationInvariant, AppCrash
  PROVE  RestorationInvariant'
<1>1. /\ Quiet /\ UNCHANGED <<restorations, wallets, pending, down, pages, drawn>>
      /\ waitSave' = {} /\ page' = None /\ finder' = None /\ entry' = None /\ finish' = None
      /\ stack' = <<>> /\ calls' = {} /\ seen' = {} /\ registered' = {}
      /\ up' = [d \in Devices |-> <<>>]
  BY DEF AppCrash, Quiet, dbVars, disturbVars
<1>2. FinderTrue' /\ PageTrue' /\ EntryTrue' /\ FinishTrue'
  BY <1>1 DEF FinderTrue, PageTrue, EntryTrue, FinishTrue
<1>3. CallsTrue' /\ UpTrue' /\ SavesConsolidate'
  BY <1>1, EmptyList DEF CallsTrue, UpTrue, SavesConsolidate
<1>4. FreshOnly' /\ LinkShape'
  BY <1>1 DEF RestorationInvariant, FreshOnly, LinkShape
<1> QED BY <1>1, <1>2, <1>3, <1>4, QuietDevices, RestorationsStay, WalletsStay, ShapesStay
        DEF RestorationInvariant

----------------------------------------------------------------------------
(* The devices' steps *)

\* A step of one device that leaves the app alone.
LEMMA DeviceRest ==
  ASSUME RestorationInvariant, Grows, DeviceShape', DevicesHold',
         UNCHANGED <<dbVars, tmpVars, uiVars, pages, drawn>>,
         LinkShape', FreshOnly', UpTrue'
  PROVE  RestorationInvariant'
<1>1. UNCHANGED <<restorations, wallets, pending, waitSave, page, finder, entry, finish, stack, calls>>
  BY DEF dbVars, tmpVars, uiVars
<1> QED BY <1>1, UiStays, RestorationsStay, WalletsStay, CallsStay, ShapesStay DEF RestorationInvariant

\* What a device has when it has not lost what it told of.
LEMMA StoredAt ==
  ASSUME NEW d \in Devices
  PROVE  /\ Stored[d] = IF d \in torn THEN Own(d) ELSE shares[d] \cup (IF sent[d] THEN staged[d] ELSE {})
         /\ Kept[d] = Stored[d] \cup Images(saved[d])
BY DEF Stored, Kept

\* The other devices do not notice.
LEMMA OthersStay ==
  ASSUME RestorationInvariant, NEW d \in Devices, DeviceShape',
         \A e \in Devices : e # d =>
           /\ shares'[e] = shares[e] /\ saved'[e] = saved[e] /\ name'[e] = name[e]
           /\ staged'[e] = staged[e] /\ loaded'[e] = loaded[e] /\ named'[e] = named[e]
           /\ screen'[e] = screen[e] /\ queue'[e] = queue[e] /\ sent'[e] = sent[e]
           /\ (e \in torn' <=> e \in torn),
         Holder(d, Working(d)'),
         Stored[d] \subseteq Stored'[d], Kept[d] \subseteq Kept'[d]
  PROVE  DevicesHold' /\ Grows
<1>1. ASSUME NEW e \in Devices, e # d
      PROVE  Holder(e, Working(e)') /\ Stored'[e] = Stored[e] /\ Kept'[e] = Kept[e]
  <2>1. Working(e)' = Working(e)
    BY <1>1 DEF Working
  <2>2. Stored'[e] = Stored[e] /\ Kept'[e] = Kept[e]
    BY <1>1 DEF Stored, Kept
  <2> QED BY <2>1, <2>2 DEF RestorationInvariant, DevicesHold
<1>2. Grows
  BY <1>1 DEF Grows
<1>3. DevicesHold'
  BY <1>1 DEF DevicesHold
<1> QED BY <1>2, <1>3

\* A device that forgets all but what it wrote, and perhaps what it staged.
LEMMA ForgetHolds ==
  ASSUME RestorationInvariant, NEW d \in Devices, Forget(d), UNCHANGED flashVars,
         UNCHANGED staged \/ staged' = [staged EXCEPT ![d] = {}],
         torn' = IF sent[d] THEN torn \cup {d} ELSE torn
  PROVE  DeviceShape' /\ DevicesHold' /\ Grows
<1>1. DeviceShape /\ Holder(d, Working(d))
  BY DEF RestorationInvariant, DevicesHold
<1>2. UNCHANGED <<shares, saved, name>>
  BY DEF flashVars
<1>3. DeviceShape'
  BY <1>1, <1>2 DEF DeviceShape, Forget
<1>4. /\ loaded'[d] = {} /\ screen'[d] = None /\ queue'[d] = <<>> /\ sent'[d] = FALSE
      /\ staged'[d] = staged[d] \/ staged'[d] = {}
  BY <1>1 DEF DeviceShape, Forget
<1>5. Holder(d, Working(d)')
  <2> DEFINE w == Working(d)
             v == Working(d)'
  <2>1. /\ v.shares = w.shares /\ v.saved = w.saved /\ v.name = w.name
        /\ v.staged \subseteq w.staged /\ v.loaded = {} /\ v.screen = None
        /\ v.queue = <<>> /\ v.out = <<>> /\ MemoryOf(v)
    BY <1>2, <1>4 DEF Working, MemoryOf, Fields
  <2> HIDE DEF v, w
  <2>2. Now(v) \cup v.loaded \cup Images(v.saved) \subseteq Own(d)
        /\ (~Fresh(d) => v.name = TRUE /\ v.screen = None)
    BY <1>1, <2>1 DEF Holder, Now, w
  <2>3. IsList(v.queue) /\ Range(v.queue) = {} /\ IsList(v.out) /\ Range(v.out) = {}
    BY <2>1, EmptyList
  <2>4. Holder(d, v)
    BY <2>1, <2>2, <2>3 DEF Holder
  <2> QED BY <2>4 DEF v
<1>6. Stored[d] \subseteq Stored'[d] /\ Kept[d] \subseteq Kept'[d]
  <2>1. shares[d] \cup staged[d] \subseteq Own(d)
    BY <1>1 DEF Holder, Now, Working
  <2> QED BY <1>2, <1>4, <2>1, StoredAt DEF Stored, Kept
<1>7. \A e \in Devices : e # d =>
        /\ loaded'[e] = loaded[e] /\ named'[e] = named[e] /\ screen'[e] = screen[e]
        /\ queue'[e] = queue[e] /\ sent'[e] = sent[e] /\ staged'[e] = staged[e]
        /\ (e \in torn' <=> e \in torn)
  BY <1>1 DEF DeviceShape, Forget
<1> QED BY <1>2, <1>3, <1>5, <1>6, <1>7, OthersStay

LEMMA UnplugHolds ==
  ASSUME RestorationInvariant, NEW d \in Devices, Unplug(d)
  PROVE  RestorationInvariant'
<1>1. /\ UNCHANGED <<dbVars, tmpVars, uiVars, pages, drawn, seen, registered, up, flashVars>>
      /\ down' = [down EXCEPT ![d] = <<>>] /\ Forget(d) /\ staged' = [staged EXCEPT ![d] = {}]
      /\ torn' = IF sent[d] THEN torn \cup {d} ELSE torn
  BY DEF Unplug
<1>2. DeviceShape' /\ DevicesHold' /\ Grows
  BY <1>1, ForgetHolds
<1>3. FreshOnly' /\ LinkShape'
  <2>1. FreshOnly /\ LinkShape
    BY DEF RestorationInvariant
  <2>2. \A e \in Devices : down'[e] = IF e = d THEN <<>> ELSE down[e]
    BY <1>1, <2>1 DEF LinkShape
  <2>3. LinkShape'
    BY <1>1, <2>1 DEF LinkShape
  <2>4. FreshOnly'
    BY <1>1, <2>1, <2>2, EmptyList DEF FreshOnly
  <2> QED BY <2>3, <2>4
<1> QED BY <1>1, <1>2, <1>3, UpStays, DeviceRest

LEMMA ConnectHolds ==
  ASSUME RestorationInvariant, NEW d \in Devices, Connect(d)
  PROVE  RestorationInvariant'
<1>1. /\ UNCHANGED <<dbVars, tmpVars, page, entry, finish, stack, pages, drawn, flashVars, staged>>
      /\ seen' = seen \cup {d} /\ down' = [down EXCEPT ![d] = <<>>] /\ up' = [up EXCEPT ![d] = <<>>]
      /\ Forget(d) /\ registered' = (IF name[d] THEN registered \cup {d} ELSE registered)
      /\ finder' = Connected(finder, d, ~name[d])
      /\ calls' = (IF name[d] THEN calls \cup ExitCalls(d) ELSE calls)
      /\ torn' = IF sent[d] THEN torn \cup {d} ELSE torn
  BY DEF Connect, boundVars, countVars
<1>2. DeviceShape' /\ DevicesHold' /\ Grows
  BY <1>1, ForgetHolds
<1>3. ~Fresh(d) => name[d]
  BY DEF RestorationInvariant, DevicesHold, Holder, Working
<1>4. FreshOnly' /\ LinkShape' /\ UpTrue'
  <2>1. FreshOnly /\ LinkShape /\ UpTrue
    BY DEF RestorationInvariant
  <2>2. \A e \in Devices : /\ down'[e] = IF e = d THEN <<>> ELSE down[e]
                           /\ up'[e] = IF e = d THEN <<>> ELSE up[e]
    BY <1>1, <2>1 DEF LinkShape
  <2>3. LinkShape'
    BY <1>1, <2>1 DEF LinkShape
  <2>4. FreshOnly'
    BY <1>1, <1>3, <2>1, <2>2, EmptyList DEF FreshOnly
  <2>5. ASSUME NEW e \in Devices
        PROVE  IsList(up'[e]) /\ \A m \in Range(up'[e]) : Tells(m, e, Stored'[e], Kept'[e])
    <3>1. CASE e = d
      BY <2>2, <3>1, EmptyList
    <3>2. CASE e # d
      BY <1>2, <2>1, <2>2, <3>2, TellsMore DEF UpTrue, Grows
    <3> QED BY <3>1, <3>2
  <2> QED BY <2>3, <2>4, <2>5 DEF UpTrue
<1>5. CallsTrue'
  <2>1. CASE calls' = calls
    BY <1>1, <2>1, CallsStay
  <2>2. CASE calls' = calls \cup ExitCalls(d)
    BY <1>1, <2>2, ExitCallsHold DEF RestorationInvariant
  <2> QED BY <1>1, <2>1, <2>2
<1>6. FinderTrue'
  <2> DEFINE blank == ~name[d]
  <2>1. blank \in BOOLEAN /\ (blank => Fresh(d)) /\ finder' = Connected(finder, d, blank)
    BY <1>1, <1>3
  <2> HIDE DEF blank
  <2> QED BY <1>1, <1>2, <2>1, ConnectedHolds
<1>7. PageTrue' /\ EntryTrue' /\ FinishTrue'
  BY <1>1, <1>2, PageStays DEF RestorationInvariant, EntryTrue, FinishTrue
<1>8. RestorationsTrue' /\ WalletsTrue' /\ DbShape' /\ SavesConsolidate'
  BY <1>1, <1>2, RestorationsStay, WalletsStay, ShapesStay DEF dbVars, tmpVars
<1> QED BY <1>2, <1>4, <1>5, <1>6, <1>7, <1>8 DEF RestorationInvariant

LEMMA EnterPaperHolds ==
  ASSUME RestorationInvariant, NEW d \in Devices, NEW image \in Papers, EnterPaper(d, image)
  PROVE  RestorationInvariant'
<1>1. /\ UNCHANGED <<dbVars, tmpVars, uiVars, pages, drawn, linkVars, flashVars, staged, named, sent, torn>>
      /\ screen[d] # None
  BY DEF EnterPaper, boundVars, countVars, disturbVars
<1> DEFINE m == Message("Entered", <<screen[d], image>>)
<1>2. /\ loaded' = [loaded EXCEPT ![d] = @ \cup {image}]
      /\ queue' = [queue EXCEPT ![d] = Append(@, m)]
      /\ screen' = [screen EXCEPT ![d] = None]
  BY DEF EnterPaper
<1>3. DeviceShape /\ Holder(d, Working(d))
  BY DEF RestorationInvariant, DevicesHold
<1>4. \A stored, kept : Tells(m, d, stored, kept)
  BY DEF Tells, Message
<1> HIDE DEF m
<1>5. UNCHANGED <<shares, saved, name, down, up, seen, registered>>
  BY <1>1 DEF flashVars, linkVars
<1>6. DeviceShape'
  BY <1>1, <1>2, <1>3, <1>5 DEF DeviceShape
<1>7. loaded'[d] = loaded[d] \cup {image} /\ queue'[d] = Append(queue[d], m) /\ screen'[d] = None
  BY <1>2, <1>3 DEF DeviceShape
<1>8. Holder(d, Working(d)')
  <2> DEFINE w == Working(d)
             v == Working(d)'
  <2>1. /\ v.shares = w.shares /\ v.saved = w.saved /\ v.name = w.name
        /\ v.staged = w.staged /\ v.loaded = w.loaded \cup {image} /\ v.screen = None
        /\ v.queue = Append(w.queue, m) /\ v.out = w.out /\ MemoryOf(v) /\ w.screen # None
    BY <1>1, <1>5, <1>7 DEF Working, MemoryOf, Fields
  <2>2. Holder(d, w)
    BY <1>3
  <2> HIDE DEF v, w
  <2>3. Fresh(d) /\ image \in Own(d)
    BY <2>1, <2>2 DEF Holder, Own
  <2>4. IsList(v.queue) /\ Range(v.queue) = Range(w.queue) \cup {m}
    BY <2>1, <2>2, ListAppend DEF Holder
  <2>5. Now(v) = Now(w) /\ NowKept(v) = NowKept(w)
    BY <2>1 DEF Now, NowKept
  <2>6. Now(v) \cup v.loaded \cup Images(v.saved) \subseteq Own(d)
        /\ (~Fresh(d) => v.name = TRUE /\ v.screen = None) /\ IsList(v.out)
        /\ Range(v.out) \subseteq Range(w.out)
    BY <2>1, <2>2, <2>3, <2>5 DEF Holder
  <2>7. \A x \in Range(v.queue) : x \in Range(w.queue) \/ Tells(x, d, Now(v), NowKept(v))
    BY <1>4, <2>4
  <2>8. Holder(d, v)
    BY <2>1, <2>2, <2>4, <2>5, <2>6, <2>7, HolderMore
  <2> QED BY <2>8 DEF v
<1>9. Stored'[d] = Stored[d] /\ Kept'[d] = Kept[d]
  BY <1>1, <1>5 DEF Stored, Kept
<1>10. \A e \in Devices : e # d =>
         loaded'[e] = loaded[e] /\ screen'[e] = screen[e] /\ queue'[e] = queue[e]
  BY <1>2, <1>3 DEF DeviceShape
<1>11. DevicesHold' /\ Grows
  BY <1>1, <1>5, <1>6, <1>8, <1>9, <1>10, OthersStay
<1> QED BY <1>1, <1>5, <1>6, <1>11, UpStays, DownStays, ShapesStay, DeviceRest

\* What a device has queued is true of what it has told of once it is sent.
LEMMA DeviceSendHolds ==
  ASSUME RestorationInvariant, NEW d \in Devices, DeviceSend(d)
  PROVE  RestorationInvariant'
<1>1. /\ UNCHANGED <<dbVars, tmpVars, uiVars, pages, drawn, seen, registered, down, flashVars, staged,
                    loaded, named, screen, torn>>
      /\ queue[d] # <<>> /\ ~sent[d]
      /\ queue' = [queue EXCEPT ![d] = Tail(@)]
      /\ up' = (IF d \in seen THEN [up EXCEPT ![d] = Append(@, Head(queue[d]))] ELSE up)
      /\ sent' = [sent EXCEPT ![d] = staged[d] # {}]
  BY DEF DeviceSend, boundVars, countVars, disturbVars
<1>2. DeviceShape /\ Holder(d, Working(d)) /\ UpTrue /\ LinkShape
  BY DEF RestorationInvariant, DevicesHold
<1>3. UNCHANGED <<shares, saved, name>>
  BY <1>1 DEF flashVars
<1> DEFINE w == Working(d)
           v == Working(d)'
           m == Head(queue[d])
<1>4. w.shares = shares[d] /\ w.staged = staged[d] /\ w.saved = saved[d] /\ w.queue = queue[d]
  BY DEF Working
<1>5. /\ IsList(Tail(queue[d])) /\ Range(Tail(queue[d])) \subseteq Range(queue[d])
      /\ m \in Range(queue[d])
  BY <1>1, <1>2, <1>4, ListTail DEF Holder
<1>6. Tells(m, d, Now(w), NowKept(w))
  BY <1>2, <1>4, <1>5 DEF Holder
<1>7. DeviceShape'
  <2>1. sent' \in [Devices -> BOOLEAN]
    BY <1>1, <1>2 DEF DeviceShape
  <2> QED BY <1>1, <1>2, <1>3, <2>1 DEF DeviceShape
<1>8. queue'[d] = Tail(queue[d]) /\ (sent'[d] <=> staged[d] # {})
  BY <1>1, <1>2 DEF DeviceShape
<1>9. Holder(d, Working(d)')
  <2>1. /\ v.shares = w.shares /\ v.saved = w.saved /\ v.name = w.name
        /\ v.staged = w.staged /\ v.loaded = w.loaded /\ v.screen = w.screen
        /\ v.queue = Tail(w.queue) /\ v.out = w.out /\ MemoryOf(v)
    <3>1. /\ shares' = shares /\ saved' = saved /\ name' = name /\ staged' = staged
          /\ loaded' = loaded /\ named' = named /\ screen' = screen /\ queue'[d] = Tail(queue[d])
      BY <1>1, <1>3, <1>8
    <3>2. MemoryOf(v)
      BY DEF Working, MemoryOf, Fields
    <3> QED BY <3>1, <3>2 DEF Working
  <2>2. IsList(Tail(w.queue)) /\ Range(Tail(w.queue)) \subseteq Range(w.queue) /\ Holder(d, w)
    BY <1>2, <1>4, <1>5
  <2> HIDE DEF v, w
  <2>3. Now(v) = Now(w) /\ NowKept(v) = NowKept(w)
    BY <2>1 DEF Now, NowKept
  <2>4. Holder(d, v)
    BY <2>1, <2>2, <2>3 DEF Holder, Task
  <2> QED BY <2>4 DEF v
<1>10. /\ Stored[d] \subseteq Stored'[d] /\ Kept[d] \subseteq Kept'[d]
       /\ Now(w) \subseteq Stored'[d] /\ NowKept(w) \subseteq Kept'[d]
  <2>1. Now(w) \subseteq Own(d) /\ Now(w) = shares[d] \cup staged[d]
        /\ NowKept(w) = Now(w) \cup Images(saved[d])
    BY <1>2, <1>4 DEF Holder, Now, NowKept
  <2>2. Stored'[d] = IF d \in torn THEN Own(d) ELSE shares[d] \cup (IF sent'[d] THEN staged[d] ELSE {})
    BY <1>1, <1>3 DEF Stored
  <2>3. Kept'[d] = Stored'[d] \cup Images(saved[d])
    BY <1>3 DEF Kept
  <2>4. Now(w) \subseteq Stored'[d]
    BY <1>8, <2>1, <2>2
  <2>5. Stored[d] \subseteq Stored'[d]
    BY <1>1, <2>2, StoredAt
  <2> QED BY <2>1, <2>3, <2>4, <2>5, StoredAt
<1>11. \A e \in Devices : e # d =>
         queue'[e] = queue[e] /\ sent'[e] = sent[e]
  BY <1>1, <1>2 DEF DeviceShape
<1>12. DevicesHold' /\ Grows
  BY <1>1, <1>3, <1>7, <1>9, <1>10, <1>11, OthersStay
<1>13. UpTrue' /\ LinkShape' /\ FreshOnly'
  <2>1. Tells(m, d, Stored'[d], Kept'[d])
    BY <1>6, <1>10, TellsMore
  <2> HIDE DEF m, w, v
  <2>2. LinkShape' /\ FreshOnly'
    BY <1>1, <1>2, DownStays DEF LinkShape, m
  <2>3. ASSUME NEW e \in Devices
        PROVE  IsList(up'[e]) /\ \A x \in Range(up'[e]) : Tells(x, e, Stored'[e], Kept'[e])
    <3>1. IsList(up[e]) /\ \A x \in Range(up[e]) : Tells(x, e, Stored'[e], Kept'[e])
      BY <1>2, <1>12, TellsMore DEF UpTrue, Grows
    <3>2. CASE up'[e] = up[e]
      BY <3>1, <3>2
    <3>3. CASE e = d /\ up'[e] = Append(up[e], m)
      <4>1. IsList(Append(up[e], m)) /\ Range(Append(up[e], m)) = Range(up[e]) \cup {m}
        BY <3>1, ListAppend
      <4> QED BY <2>1, <3>1, <3>3, <4>1
    <3>4. up'[e] = up[e] \/ (e = d /\ up'[e] = Append(up[e], m))
      BY <1>1, <1>2 DEF LinkShape, m
    <3> QED BY <3>2, <3>3, <3>4
  <2> QED BY <2>2, <2>3 DEF UpTrue
<1> QED BY <1>1, <1>7, <1>12, <1>13, DeviceRest

\* The inbox is shorter.
LEMMA TakenHolds ==
  ASSUME RestorationInvariant, NEW d \in Devices, NEW n \in 0 .. Len(down[d]),
         UNCHANGED <<seen, registered, up>>,
         down' = [down EXCEPT ![d] = SubSeq(@, n + 1, Len(@))]
  PROVE  FreshOnly' /\ LinkShape'
<1>1. FreshOnly /\ LinkShape
  BY DEF RestorationInvariant
<1>2. IsList(down[d]) /\ Len(down[d]) \in Nat
  BY <1>1, ListAt DEF FreshOnly
<1> DEFINE s == SubSeq(down[d], n + 1, Len(down[d]))
<1>3. IsList(s) /\ Range(s) \subseteq Range(down[d])
  <2>1. n + 1 \in 1 .. Len(down[d]) + 1 /\ Len(down[d]) \in 0 .. Len(down[d])
    BY <1>2
  <2> QED BY <1>2, <2>1, ListSub
<1>4. \A e \in Devices : down'[e] = IF e = d THEN s ELSE down[e]
  BY <1>1 DEF LinkShape
<1>5. LinkShape'
  BY <1>1 DEF LinkShape
<1> HIDE DEF s
<1>6. FreshOnly'
  BY <1>1, <1>3, <1>4 DEF FreshOnly
<1> QED BY <1>5, <1>6

\* What is in memory after a poll is a device's memory.
LEMMA RestHolds ==
  ASSUME NEW d, NEW v, Holder(d, v), NEW w, MemoryOf(w),
         w.shares = v.shares, w.saved = v.saved, w.name = v.name,
         w.staged = v.staged, w.loaded \subseteq v.loaded,
         w.screen = v.screen \/ w.screen = None,
         w.queue = v.queue \/ w.queue = <<>>, w.out = <<>>
  PROVE  Holder(d, w)
<1>1. Now(w) = Now(v) /\ NowKept(w) = NowKept(v)
  BY DEF Now, NowKept
<1>2. IsList(w.queue) /\ Range(w.queue) \subseteq Range(v.queue) /\ IsList(w.out) /\ Range(w.out) = {}
  BY EmptyList DEF Holder
<1> QED BY <1>1, <1>2 DEF Holder

LEMMA LostRestHolds ==
  ASSUME NEW d, NEW v, Holder(d, v), NEW w, MemoryOf(w),
         w.shares = v.shares, w.saved = v.saved, w.name = v.name,
         w.staged = {}, w.loaded = {}, w.screen = None, w.queue = <<>>, w.out = <<>>
  PROVE  Holder(d, w)
<1>1. Now(w) \cup w.loaded \cup Images(w.saved) \subseteq Own(d)
      /\ (~Fresh(d) => w.name = TRUE /\ w.screen = None)
  BY DEF Now, Holder
<1>2. IsList(w.queue) /\ Range(w.queue) = {} /\ IsList(w.out) /\ Range(w.out) = {}
  BY EmptyList
<1> QED BY <1>1, <1>2 DEF Holder

\* What one poll leaves on the device, and what it adds to what it has told of.
LEMMA DeviceWorkHolds ==
  ASSUME RestorationInvariant, OnePaper, NEW d \in Devices, NEW n, DeviceWork(d, n)
  PROVE  RestorationInvariant'
<1> DEFINE w == AfterInbox(d, n)
           f == IF w.failed THEN w ELSE Written(w)
           v == IF w.failed THEN w ELSE AfterOutbox(f)
           x == Working(d)'
<1>1. /\ UNCHANGED <<dbVars, tmpVars, uiVars, pages, drawn, seen, registered, up>>
      /\ n \in 0 .. Len(down[d])
      /\ down' = [down EXCEPT ![d] = SubSeq(@, n + 1, Len(@))]
      /\ sent' = [sent EXCEPT ![d] = FALSE]
  BY DEF DeviceWork, boundVars, countVars
<1>2. /\ shares' = [shares EXCEPT ![d] = IF w.failed THEN @ ELSE f.shares]
      /\ saved' = [saved EXCEPT ![d] = IF w.failed THEN @ ELSE f.saved]
      /\ name' = [name EXCEPT ![d] = v.name]
      /\ staged' = [staged EXCEPT ![d] = IF v.failed THEN {} ELSE v.staged]
      /\ loaded' = [loaded EXCEPT ![d] = IF v.failed THEN {} ELSE v.loaded]
      /\ named' = [named EXCEPT ![d] = v.named /\ ~v.failed]
      /\ screen' = [screen EXCEPT ![d] = IF v.failed THEN None ELSE v.screen]
      /\ queue' = [queue EXCEPT ![d] = IF v.failed THEN <<>> ELSE v.queue]
      /\ torn' = IF w.failed /\ sent[d] THEN torn \cup {d} ELSE torn
  <2> DEFINE Left(ww, ff, vv) ==
        /\ shares' = [shares EXCEPT ![d] = IF ww.failed THEN @ ELSE ff.shares]
        /\ saved' = [saved EXCEPT ![d] = IF ww.failed THEN @ ELSE ff.saved]
        /\ name' = [name EXCEPT ![d] = vv.name]
        /\ staged' = [staged EXCEPT ![d] = IF vv.failed THEN {} ELSE vv.staged]
        /\ loaded' = [loaded EXCEPT ![d] = IF vv.failed THEN {} ELSE vv.loaded]
        /\ named' = [named EXCEPT ![d] = vv.named /\ ~vv.failed]
        /\ screen' = [screen EXCEPT ![d] = IF vv.failed THEN None ELSE vv.screen]
        /\ queue' = [queue EXCEPT ![d] = IF vv.failed THEN <<>> ELSE vv.queue]
        /\ panicked' = IF vv.failed THEN panicked \cup {d} ELSE panicked
        /\ torn' = IF ww.failed /\ sent[d] THEN torn \cup {d} ELSE torn
  <2>1. \E ww \in {AfterInbox(d, n)} : \E ff \in {IF ww.failed THEN ww ELSE Written(ww)} :
        \E vv \in {IF ww.failed THEN ww ELSE AfterOutbox(ff)} : Left(ww, ff, vv)
    BY Zenon DEF DeviceWork
  <2> HIDE DEF Left
  <2>2. Left(w, f, v)
    BY <2>1
  <2> QED BY <2>2 DEF Left
<1>3. DeviceShape /\ Holder(d, Working(d)) /\ FreshOnly
  BY DEF RestorationInvariant, DevicesHold
<1>4. Progress(d, Working(d), w)
  <2>1. IsList(down[d]) /\ Len(down[d]) \in Nat /\ \A i \in 1 .. Len(down[d]) : down[d][i] \in Range(down[d])
    BY <1>3, ListAt DEF FreshOnly
  <2>2. \A i \in 1 .. Len(down[d]) :
           down[d][i].type \in Asks /\ (down[d][i].type = "Enter" => Fresh(d))
    BY <1>3, <2>1 DEF FreshOnly
  <2> QED BY <1>1, <1>3, <2>1, <2>2, AfterInboxHolds
<1>5. /\ Working(d).shares = shares[d] /\ Working(d).staged = staged[d] /\ Working(d).saved = saved[d]
      /\ shares[d] \cup staged[d] \subseteq Own(d)
  BY <1>3 DEF Holder, Now, Working
<1>6. /\ Holder(d, w) /\ w.shares = shares[d] /\ w.staged = staged[d]
      /\ Images(saved[d]) \subseteq Images(w.saved)
  BY <1>4, <1>5 DEF Progress
<1> HIDE DEF w, f, v
<1>7. DeviceShape'
  <2>1. sent' \in [Devices -> BOOLEAN]
    BY <1>1, <1>3 DEF DeviceShape
  <2> QED BY <1>2, <1>3, <2>1 DEF DeviceShape
<1>8. \A e \in Devices : e # d =>
        /\ shares'[e] = shares[e] /\ saved'[e] = saved[e] /\ name'[e] = name[e]
        /\ staged'[e] = staged[e] /\ loaded'[e] = loaded[e] /\ named'[e] = named[e]
        /\ screen'[e] = screen[e] /\ queue'[e] = queue[e] /\ sent'[e] = sent[e]
        /\ (e \in torn' <=> e \in torn)
  BY <1>1, <1>2, <1>3 DEF DeviceShape
<1>9. /\ x.shares = IF w.failed THEN shares[d] ELSE f.shares
      /\ x.saved = IF w.failed THEN saved[d] ELSE f.saved
      /\ x.name = v.name
      /\ x.staged = IF v.failed THEN {} ELSE v.staged
      /\ x.loaded = IF v.failed THEN {} ELSE v.loaded
      /\ x.screen = IF v.failed THEN None ELSE v.screen
      /\ x.queue = IF v.failed THEN <<>> ELSE v.queue
      /\ x.out = <<>>
      /\ sent'[d] = FALSE
  BY <1>1, <1>2, <1>3 DEF DeviceShape, Working
<1>10. MemoryOf(x)
  BY DEF Working, MemoryOf, Fields
<1>11. x.shares = shares'[d] /\ x.saved = saved'[d]
  BY DEF Working
<1> HIDE DEF x
<1>12. Kept'[d] = Stored'[d] \cup Images(saved'[d])
       /\ Stored'[d] = IF d \in torn' THEN Own(d) ELSE shares'[d]
  BY <1>9 DEF Stored, Kept
<1>13. CASE w.failed
  <2>1. v = w /\ f = w
    BY <1>13 DEF v, f
  <2>2. Holder(d, x)
    <3>1. Now(x) \cup x.loaded \cup Images(x.saved) \subseteq Own(d)
      BY <1>3, <1>5, <1>9, <1>13, <2>1 DEF Holder, Now
    <3>2. ~Fresh(d) => x.name = TRUE /\ x.screen = None
      BY <1>6, <1>9, <1>13, <2>1 DEF Holder
    <3>3. IsList(x.queue) /\ Range(x.queue) = {} /\ IsList(x.out) /\ Range(x.out) = {}
      BY <1>9, <1>13, <2>1, EmptyList
    <3> QED BY <1>10, <3>1, <3>2, <3>3 DEF Holder
  <2>3. Stored[d] \subseteq Stored'[d] /\ saved'[d] = saved[d]
    <3>1. shares'[d] = shares[d] /\ saved'[d] = saved[d]
      BY <1>9, <1>11, <1>13
    <3>2. torn' = IF sent[d] THEN torn \cup {d} ELSE torn
      BY <1>2, <1>13
    <3>3. CASE d \in torn'
      <4>1. Stored'[d] = Own(d) /\ Stored[d] \subseteq Own(d)
        BY <1>5, <1>12, <3>3, StoredAt
      <4> QED BY <3>1, <4>1
    <3>4. CASE d \notin torn'
      <4>1. d \notin torn /\ ~sent[d] /\ Stored'[d] = shares[d]
        BY <1>12, <3>1, <3>2, <3>4
      <4>2. Stored[d] = shares[d]
        BY <4>1, StoredAt
      <4> QED BY <3>1, <4>1, <4>2
    <3> QED BY <3>3, <3>4
  <2>4. Kept[d] \subseteq Kept'[d]
    <3>1. Kept[d] = Stored[d] \cup Images(saved[d])
      BY StoredAt
    <3> QED BY <1>12, <2>3, <3>1
  <2>5. DevicesHold' /\ Grows
    BY <1>7, <1>8, <2>2, <2>3, <2>4, OthersStay DEF x
  <2> QED BY <1>1, <1>7, <2>5, TakenHolds, UpStays, DeviceRest
<1>14. CASE ~w.failed
  <2>1. f = Written(w) /\ v = AfterOutbox(f)
    BY <1>14 DEF v, f
  <2>2. /\ Holder(d, f) /\ f.shares = Now(w) /\ f.staged = {}
        /\ NowKept(w) \subseteq NowKept(f)
    BY <1>6, <2>1, WrittenHolds
  <2>3. Carries(d, f, v)
    BY <2>1, <2>2, AfterOutboxHolds
  <2>4. x.shares = v.shares /\ x.saved = v.saved
    BY <1>9, <1>14, <2>3 DEF Carries
  <2>5. Holder(d, x)
    <3>1. CASE v.failed
      BY <1>9, <1>10, <2>3, <2>4, <3>1, LostRestHolds DEF Carries
    <3>2. CASE ~v.failed
      BY <1>9, <1>10, <2>3, <2>4, <3>2, RestHolds DEF Carries
    <3> QED BY <3>1, <3>2
  <2>6. Stored'[d] = IF d \in torn THEN Own(d) ELSE shares[d] \cup staged[d]
    BY <1>2, <1>6, <1>9, <1>11, <1>12, <1>14, <2>2 DEF Now
  <2>7. Stored[d] \subseteq Stored'[d]
    BY <2>6, StoredAt
  <2>8. Images(saved[d]) \subseteq shares[d] \cup staged[d] \cup Images(saved'[d])
    <3>1. Images(saved[d]) \subseteq NowKept(f)
      BY <1>6, <2>2 DEF NowKept
    <3> QED BY <1>6, <1>9, <1>11, <1>14, <2>2, <3>1 DEF NowKept, Now
  <2>9. Kept[d] \subseteq Kept'[d]
    <3>1. Stored[d] \subseteq Kept'[d]
      BY <1>12, <2>7
    <3>2. Images(saved[d]) \subseteq Kept'[d]
      <4>1. CASE d \in torn
        <5>1. Stored'[d] = Own(d)
          BY <2>6, <4>1
        <5> QED BY <1>5, <1>12, <2>8, <5>1
      <4>2. CASE d \notin torn
        <5>1. Stored'[d] = shares[d] \cup staged[d]
          BY <2>6, <4>2
        <5> QED BY <1>12, <2>8, <5>1
      <4> QED BY <4>1, <4>2
    <3> QED BY <3>1, <3>2, StoredAt
  <2>10. DevicesHold' /\ Grows
    BY <1>7, <1>8, <2>5, <2>7, <2>9, OthersStay DEF x
  <2> QED BY <1>1, <1>7, <2>10, TakenHolds, UpStays, DeviceRest
<1> QED BY <1>13, <1>14

----------------------------------------------------------------------------
(* The invariant *)

LEMMA InitHolds == Init => RestorationInvariant
<1> SUFFICES ASSUME Init PROVE RestorationInvariant
  OBVIOUS
<1>1. DbShape /\ LinkShape /\ DeviceShape
  BY DEF Init, DbShape, LinkShape, DeviceShape
<1>2. \A d \in Devices : Stored[d] = Holds[d] /\ Holds[d] \subseteq Kept[d]
  BY DEF Init, Stored, Kept
<1>3. DevicesHold
  <2>1. ASSUME NEW d \in Devices PROVE Holder(d, Working(d))
    <3> DEFINE w == Working(d)
    <3>1. /\ w.shares = Holds[d] /\ w.saved = {} /\ w.staged = {} /\ w.loaded = {}
          /\ w.name = (Holds[d] # {}) /\ w.screen = None /\ w.queue = <<>> /\ w.out = <<>>
      BY DEF Init, Working
    <3>2. MemoryOf(w)
      BY DEF MemoryOf, Working, Fields
    <3> HIDE DEF w
    <3>3. Now(w) \cup w.loaded \cup Images(w.saved) \subseteq Own(d)
      BY <3>1 DEF Now, Images, Own, Fresh
    <3>4. IsList(w.queue) /\ Range(w.queue) = {} /\ IsList(w.out) /\ Range(w.out) = {}
      BY <3>1, EmptyList
    <3>5. ~Fresh(d) => w.name = TRUE /\ w.screen = None
      BY <3>1 DEF Fresh
    <3>6. Holder(d, w)
      BY <3>2, <3>3, <3>4, <3>5 DEF Holder
    <3> QED BY <3>6 DEF w
  <2> QED BY <2>1 DEF DevicesHold
<1>4. FreshOnly /\ UpTrue
  BY EmptyList DEF Init, FreshOnly, UpTrue
<1>5. FinderTrue /\ PageTrue /\ EntryTrue /\ FinishTrue /\ CallsTrue
  BY EmptyList DEF Init, FinderTrue, PageTrue, EntryTrue, FinishTrue, CallsTrue
<1>6. SavesConsolidate /\ RestorationsTrue
  BY DEF Init, SavesConsolidate, RestorationsTrue, RestorationsBacked
<1>7. WalletsTrue
  <2>1. ASSUME NEW k \in Keys, NEW d \in Devices, wallets[k][d] # 0
        PROVE  <<k, wallets[k][d]>> \in Holds[d]
    <3> DEFINE held == {im \in Holds[d] : im[1] = k}
               one == CHOOSE im \in held : TRUE
    <3>1. wallets[k][d] = (IF k \in known /\ held # {} THEN one[2] ELSE 0)
      BY DEF Init
    <3>2. held # {} /\ wallets[k][d] = one[2]
      BY <2>1, <3>1
    <3>3. one \in held
      <4> HIDE DEF held
      <4> QED BY <3>2
    <3> HIDE DEF one
    <3>4. one \in Holds[d] /\ one[1] = k /\ one \in Keys \X (Nat \ {0})
      BY <3>3
    <3>5. one = <<k, one[2]>>
      BY <3>4
    <3> QED BY <3>2, <3>4, <3>5
  <2> QED BY <1>2, <2>1 DEF WalletsTrue
<1> QED BY <1>1, <1>3, <1>4, <1>5, <1>6, <1>7 DEF RestorationInvariant

LEMMA StutterHolds ==
  ASSUME RestorationInvariant, UNCHANGED vars
  PROVE  RestorationInvariant'
<1>1. UNCHANGED <<dbVars, tmpVars, uiVars, linkVars, flashVars, memVars, torn, pages, drawn>>
  BY DEF vars, disturbVars, boundVars, countVars
<1>2. Quiet
  BY <1>1 DEF Quiet
<1>3. UNCHANGED <<down, up, seen, registered>>
  BY <1>1 DEF linkVars
<1> QED BY <1>1, <1>2, <1>3, QuietDevices, UpStays, DownStays, ShapesStay, DeviceRest

LEMMA StepHolds ==
  ASSUME OnePaper, RestorationInvariant, [Next]_vars
  PROVE  RestorationInvariant'
<1>1. ASSUME NEW c \in calls, PushWaiter(c) \/ ExitNext(c) \/ ExitDone(c) PROVE RestorationInvariant'
  BY <1>1, PushWaiterHolds, ExitNextHolds, ExitDoneHolds
<1>2. ASSUME NEW ctx \in Contexts, OpenPage(ctx) PROVE RestorationInvariant'
  BY <1>2, OpenPageHolds
<1>3. CASE AskHeldShares \/ DeviceFound \/ NameDevice \/ EnterPhysicalBackup
  BY <1>3, AskHeldSharesHolds, DeviceFoundHolds, NameDeviceHolds, EnterPhysicalBackupHolds
<1>4. CASE CheckEntered \/ TellSave \/ TellConsolidate \/ EnrollShare \/ ClosePage \/ SendCancelAll
  BY <1>4, CheckEnteredHolds, TellSaveHolds, TellConsolidateHolds, EnrollShareHolds, ClosePageHolds,
     SendCancelAllHolds
<1>5. ASSUME NEW r \in RestorationIds, FinishRestoring(r) \/ CancelRestoration(r) PROVE RestorationInvariant'
  BY <1>5, FinishRestoringHolds, CancelRestorationHolds
<1>6. ASSUME NEW r \in RestorationIds, NEW d \in Devices, DeleteRestorationShare(r, d)
      PROVE  RestorationInvariant'
  BY <1>6, DeleteRestorationShareHolds
<1>7. ASSUME NEW k \in Keys, DeleteKey(k) \/ \E d \in Devices : DeleteShare(k, d)
      PROVE  RestorationInvariant'
  BY <1>7, DeleteKeyHolds, DeleteShareHolds
<1>8. ASSUME NEW d \in Devices, Receive(d) \/ Lost(d) \/ DeviceSend(d) PROVE RestorationInvariant'
  BY <1>8, ReceiveHolds, LostHolds, DeviceSendHolds
<1>9. ASSUME NEW d \in Devices, NEW n \in 0 .. MaxInbox, DeviceWork(d, n) PROVE RestorationInvariant'
  BY <1>9, DeviceWorkHolds
<1>10. ASSUME NEW d \in Devices, NEW image \in Papers, EnterPaper(d, image) PROVE RestorationInvariant'
  BY <1>10, EnterPaperHolds
<1>11. ASSUME NEW d \in Devices, Unplug(d) \/ Connect(d) PROVE RestorationInvariant'
  BY <1>11, UnplugHolds, ConnectHolds
<1>12. CASE AppCrash
  BY <1>12, AppCrashHolds
<1>13. CASE UNCHANGED vars
  BY <1>13, StutterHolds
<1> QED BY <1>1, <1>2, <1>3, <1>4, <1>5, <1>6, <1>7, <1>8, <1>9, <1>10, <1>11, <1>12, <1>13 DEF Next

\* restoration.rs, coordinator and device: what the database counts on, what the
\* messages tell and what the devices hold agree, when the papers are backups of
\* different keys.
THEOREM RestorationInvariantHolds ==
  ASSUME OnePaper
  PROVE  Spec => []RestorationInvariant
<1>1. RestorationInvariant /\ [Next]_vars => RestorationInvariant'
  BY StepHolds
<1> QED BY <1>1, InitHolds, PTL DEF Spec

LEMMA InvariantBacks == RestorationInvariant /\ OnePaper => SharesAreBacked
<1> SUFFICES ASSUME RestorationInvariant, OnePaper PROVE SharesAreBacked
  OBVIOUS
<1>1. ASSUME NEW d \in Devices, d \notin torn
      PROVE  /\ Stored[d] \subseteq Complete(Working(d))
             /\ \A im \in Kept[d] : Has(d, im)
  <2>1. Now(Working(d)) \subseteq Own(d)
    BY DEF RestorationInvariant, DevicesHold, Holder
  <2>2. Complete(Working(d)) = Now(Working(d))
    BY <2>1, CompleteIsNow
  <2>3. Now(Working(d)) = shares[d] \cup staged[d]
    BY DEF Now, Working
  <2>4. Stored[d] \subseteq Complete(Working(d)) /\ Kept[d] = Stored[d] \cup Images(saved[d])
    <3>1. Stored[d] = shares[d] \cup (IF sent[d] THEN staged[d] ELSE {})
          /\ Kept[d] = Stored[d] \cup Images(saved[d])
      BY <1>1, StoredAt
    <3>2. Stored[d] \subseteq shares[d] \cup staged[d]
      BY <3>1
    <3> QED BY <2>2, <2>3, <3>1, <3>2
  <2>5. \A im \in Images(saved[d]) : \E b \in saved[d] : b.image = im
    BY DEF Images
  <2> QED BY <2>4, <2>5 DEF Has
<1>2. ASSUME NEW k \in Keys, NEW d \in Devices \ torn, wallets[k][d] # 0
      PROVE  \/ <<k, wallets[k][d]>> \in Complete(Working(d))
             \/ Has(d, <<k, wallets[k][d]>>) /\ Pending(d, k, wallets[k][d]) \in pending
  BY <1>1, <1>2 DEF RestorationInvariant, WalletsTrue
<1>3. \A k \in Keys, d \in Devices : <<k, wallets[k][d]>>[2] = wallets[k][d]
  OBVIOUS
<1>4. ASSUME NEW r \in RestorationIds, restorations[r] # None,
             NEW s \in Range(restorations[r].held), s.dev \notin torn
      PROVE  Has(s.dev, s.image)
  <2>1. Backed(s)
    BY <1>4 DEF RestorationInvariant, RestorationsTrue, RestorationsBacked
  <2>2. s.dev \in Devices /\ s.image \in Kept[s.dev]
    BY <2>1, StoredIsOwn DEF Backed, BackedBy, Rests
  <2> QED BY <1>1, <1>4, <2>2
<1> QED BY <1>2, <1>3, <1>4 DEF SharesAreBacked

\* restoration.rs:1016-1290, device/restoration.rs:97-390: a share that a wallet or
\* a restoration counts on is on its device, complete unless its consolidation is
\* still pending, for any number of devices, keys, unplugs and crashes.
THEOREM RestorationSharesAreBacked ==
  ASSUME OnePaper
  PROVE  Spec => []SharesAreBacked
<1>1. RestorationInvariant => SharesAreBacked
  BY InvariantBacks
<1> QED BY <1>1, RestorationInvariantHolds, PTL

----------------------------------------------------------------------------
(* What is pending is worked on *)

\* A call that has asked a device for its consolidation of a wallet, or comes
\* to it.
Works(c, p) ==
  \/ c.kind = "exit" /\ c.stage = "sent" /\ c.dev = p.dev /\ c.what = p.key
  \/ <<p.dev, p.key>> \in Range(c.more)

\* Only an exit has more to do, and it has before it asks.
Doing(c) ==
  /\ IsList(c.more)
  /\ c.kind # "exit" => c.more = <<>> /\ c.stage = "sent"
  /\ c.stage = "next" => c.more # <<>>

\* A consolidation that is pending is of a known wallet, and the device has or
\* had the share: no other of the same wallet can be.
Owed(p) ==
  /\ p.dev \in Devices /\ p.key \in known
  /\ p = Pending(p.dev, p.key, p.index) /\ <<p.key, p.index>> \in Own(p.dev)

WorkInvariant ==
  /\ IsFiniteSet(pending) /\ \A p \in pending : Owed(p)
  /\ \A c \in calls \cup Range(stack) : Doing(c)
  /\ \A p \in pending : p.dev \in registered => \E c \in calls \cup Range(stack) : Works(c, p)

\* No backup is consolidated for the page and for a restoration at once: its
\* one answer would settle the page's.
Apart == waitCons \cap pending = {}

\* Nobody drops what is still pending.
LEMMA WorkGoesOn ==
  ASSUME WorkInvariant, pending' \subseteq pending, \A p \in pending' : p.key \in known',
         registered' \subseteq registered,
         \A c \in calls' \cup Range(stack') : Doing(c),
         \A p \in pending', c \in calls \cup Range(stack) :
           p.dev \in registered' /\ Works(c, p) => \E x \in calls' \cup Range(stack') : Works(x, p)
  PROVE  WorkInvariant'
<1>1. IsFiniteSet(pending')
  BY FS_Subset DEF WorkInvariant
<1>2. \A p \in pending' : Owed(p)'
  BY DEF WorkInvariant, Owed
<1>3. ASSUME NEW p \in pending', p.dev \in registered'
      PROVE  \E x \in calls' \cup Range(stack') : Works(x, p)
  <2>1. PICK c \in calls \cup Range(stack) : Works(c, p)
    BY <1>3 DEF WorkInvariant
  <2> QED BY <1>3, <2>1
<1> QED BY <1>1, <1>2, <1>3 DEF WorkInvariant

LEMMA WorkStays ==
  ASSUME WorkInvariant, UNCHANGED <<pending, known, registered, stack>>, calls \subseteq calls',
         \A c \in calls' : c \in calls \/ Doing(c)
  PROVE  WorkInvariant'
<1>1. \A c \in calls' \cup Range(stack') : Doing(c)
  BY DEF WorkInvariant
<1>2. \A p \in pending' : p.key \in known'
  BY DEF WorkInvariant, Owed
<1> QED BY <1>1, <1>2, WorkGoesOn

LEMMA ExitIsDoing ==
  ASSUME NEW todo, IsList(todo), todo # <<>>
  PROVE  /\ Doing(Exit(todo))
         /\ \A p : <<p.dev, p.key>> \in Range(todo) => Works(Exit(todo), p)
BY DEF Doing, Exit, Works

LEMMA SaveIsDoing ==
  ASSUME NEW d, NEW r, NEW i
  PROVE  /\ Doing(Late(Save(d, r, i))) /\ Doing(Asked(Save(d, r, i)))
         /\ Doing(Asked(Consolidate(d, r, i)))
<1>1. Doing(Save(d, r, i)) /\ IsCall(Save(d, r, i))
  BY EmptyList DEF Doing, Save, IsCall
<1>2. Doing(Consolidate(d, r, i)) /\ IsCall(Consolidate(d, r, i))
  <2> DEFINE s == Save(d, r, i)
  <2>1. s.more = <<>> /\ s.stage = "sent" /\ Consolidate(d, r, i) = [s EXCEPT !.kind = "consolidate"]
    BY DEF Save, Consolidate
  <2>2. IsCall(s)
    BY <1>1
  <2> HIDE DEF s
  <2> QED BY <2>1, <2>2, EmptyList DEF Doing, IsCall
<1>3. \A c : IsCall(c) /\ Doing(c) => Doing(Late(c))
  BY DEF IsCall, Doing, Late
<1> QED BY <1>1, <1>2, <1>3 DEF Asked

\* What is left of a call does what is left to do.
LEMMA GoOnWorks ==
  ASSUME NEW c, IsList(c.more)
  PROVE  /\ \A x \in GoOn(c) : Doing(x)
         /\ \A p : <<p.dev, p.key>> \in Range(c.more) => \E x \in GoOn(c) : Works(x, p)
<1>1. CASE c.more = <<>>
  BY <1>1, EmptyList DEF GoOn
<1>2. CASE c.more # <<>>
  <2>1. GoOn(c) = {Exit(c.more)}
    BY <1>2 DEF GoOn
  <2> QED BY <1>2, <2>1, ExitIsDoing
<1> QED BY <1>1, <1>2

LEMMA PushWaiterWorks ==
  ASSUME RestorationInvariant, WorkInvariant, NEW c \in calls, PushWaiter(c)
  PROVE  WorkInvariant'
<1>1. /\ UNCHANGED <<pending, known, registered>>
      /\ calls' = calls \ {c} /\ stack' = Append(stack, c)
  BY DEF PushWaiter, dbVars, linkVars
<1>2. Range(Append(stack, c)) = Range(stack) \cup {c}
  BY ListAppend DEF RestorationInvariant, CallsTrue
<1>3. calls' \cup Range(stack') = calls \cup Range(stack)
  BY <1>1, <1>2
<1>4. \A p \in pending' : p.key \in known'
  BY <1>1 DEF WorkInvariant, Owed
<1> QED BY <1>1, <1>3, <1>4, WorkGoesOn DEF WorkInvariant

LEMMA HeadOrTail ==
  ASSUME NEW s, IsList(s), NEW x \in Range(s)
  PROVE  s # <<>> /\ (x = Head(s) \/ x \in Range(Tail(s)))
<1>1. s \in Seq(Range(s)) /\ Len(s) \in Nat /\ DOMAIN s = 1 .. Len(s)
  BY LenProperties DEF IsList
<1>2. PICK i \in 1 .. Len(s) : s[i] = x
  BY ListAt
<1>3. s # <<>>
  BY EmptyList
<1>4. CASE i = 1
  BY <1>1, <1>2, <1>3, <1>4
<1>5. CASE i # 1
  <2>1. /\ Tail(s) \in Seq(Range(s)) /\ Len(Tail(s)) = Len(s) - 1
        /\ \A j \in 1 .. Len(s) - 1 : Tail(s)[j] = s[j + 1]
    BY <1>1, <1>3, HeadTailProperties
  <2>2. DOMAIN Tail(s) = 1 .. Len(s) - 1
    BY <2>1, LenProperties
  <2>3. i - 1 \in 1 .. Len(s) - 1 /\ Tail(s)[i - 1] = x
    BY <1>1, <1>2, <1>5, <2>1
  <2> QED BY <1>3, <2>2, <2>3 DEF Range
<1> QED BY <1>4, <1>5

LEMMA ExitNextWorks ==
  ASSUME RestorationInvariant, WorkInvariant, NEW c \in calls, ExitNext(c)
  PROVE  WorkInvariant'
<1> DEFINE d == Head(c.more)[1]
           k == Head(c.more)[2]
           rest == Tail(c.more)
           asked == {p \in pending : p.dev = d /\ p.key = k}
           next == [c EXCEPT !.dev = d, !.what = k, !.more = rest, !.stage = "sent"]
           left == [c EXCEPT !.more = rest]
<1>1. UNCHANGED <<pending, known, registered, stack>> /\ c.stage = "next"
  BY DEF ExitNext, dbVars
<1>2. IsCall(c) /\ IsList(c.more) /\ c.more # <<>> /\ c.kind = "exit"
  BY <1>1 DEF RestorationInvariant, CallsTrue, CallTrue, WorkInvariant, Doing
<1>3. IsList(rest)
  BY <1>2, ListTail
<1>4. ASSUME NEW p, Works(c, p)
      PROVE  (p.dev = d /\ p.key = k) \/ <<p.dev, p.key>> \in Range(rest)
  <2>1. <<p.dev, p.key>> \in Range(c.more)
    BY <1>1, <1>4 DEF Works
  <2>2. Head(c.more) = <<p.dev, p.key>> \/ <<p.dev, p.key>> \in Range(rest)
    BY <1>2, <2>1, HeadOrTail
  <2> QED BY <2>2
<1>5. \A p \in pending' : p.key \in known'
  BY <1>1 DEF WorkInvariant, Owed
<1>6. CASE d \in seen /\ k \in known /\ asked # {}
  <2>1. calls' = (calls \ {c}) \cup {next}
    BY <1>6 DEF ExitNext
  <2> HIDE DEF d, k, rest
  <2>2. Doing(next)
    BY <1>2, <1>3 DEF IsCall, Doing
  <2>3. \A p : Works(c, p) => Works(next, p)
    BY <1>2, <1>4 DEF IsCall, Works
  <2> HIDE DEF next
  <2> QED BY <1>1, <1>5, <2>1, <2>2, <2>3, WorkGoesOn DEF WorkInvariant
<1>7. CASE ~(d \in seen /\ k \in known /\ asked # {})
  <2>1. calls' = (calls \ {c}) \cup GoOn(left)
    BY <1>7 DEF ExitNext
  <2>2. \A p \in pending' : p.dev \in registered' => ~(p.dev = d /\ p.key = k)
    BY <1>1, <1>7 DEF RestorationInvariant, LinkShape, WorkInvariant, Owed
  <2> HIDE DEF d, k, rest
  <2>3. left.more = rest
    BY <1>2 DEF IsCall
  <2> HIDE DEF left
  <2>4. /\ \A x \in GoOn(left) : Doing(x)
        /\ \A p : <<p.dev, p.key>> \in Range(rest) => \E x \in GoOn(left) : Works(x, p)
    BY <1>3, <2>3, GoOnWorks
  <2>5. \A p \in pending' : p.dev \in registered' /\ Works(c, p) =>
          \E x \in GoOn(left) : Works(x, p)
    BY <1>4, <2>2, <2>4
  <2> QED BY <1>1, <1>5, <2>1, <2>4, <2>5, WorkGoesOn DEF WorkInvariant
<1> QED BY <1>6, <1>7

LEMMA ExitDoneWorks ==
  ASSUME RestorationInvariant, WorkInvariant, NEW c \in calls, ExitDone(c)
  PROVE  WorkInvariant'
<1>1. /\ UNCHANGED <<pending, known, registered, stack>> /\ c.stage = "done"
      /\ calls' = (calls \ {c}) \cup GoOn(c)
  BY DEF ExitDone, dbVars, linkVars
<1>2. IsList(c.more)
  BY DEF WorkInvariant, Doing
<1>3. /\ \A x \in GoOn(c) : Doing(x)
      /\ \A p : Works(c, p) => \E x \in GoOn(c) : Works(x, p)
  BY <1>1, <1>2, GoOnWorks DEF Works
<1>4. \A p \in pending' : p.key \in known'
  BY <1>1 DEF WorkInvariant, Owed
<1> QED BY <1>1, <1>3, <1>4, WorkGoesOn DEF WorkInvariant

\* The steps that have nothing to do with consolidations after a restoration.
LEMMA OtherStepsWork ==
  ASSUME WorkInvariant,
         \/ \E ctx \in Contexts : OpenPage(ctx)
         \/ AskHeldShares \/ DeviceFound \/ NameDevice \/ EnterPhysicalBackup
         \/ CheckEntered \/ ClosePage \/ SendCancelAll
         \/ \E r \in RestorationIds : \/ CancelRestoration(r)
                                      \/ \E d \in Devices : DeleteRestorationShare(r, d)
         \/ \E k \in Keys, d \in Devices : DeleteShare(k, d)
         \/ \E d \in Devices : \/ DeviceSend(d) \/ \E n \in 0 .. MaxInbox : DeviceWork(d, n)
                               \/ \E image \in Papers : EnterPaper(d, image)
                               \/ Unplug(d)
         \/ UNCHANGED vars
  PROVE  WorkInvariant'
<1>1. UNCHANGED <<pending, known, registered, stack, calls>>
  <2>1. CASE \E ctx \in Contexts : OpenPage(ctx)
    BY <2>1 DEF OpenPage, dbVars, linkVars
  <2>2. CASE AskHeldShares \/ DeviceFound \/ NameDevice \/ EnterPhysicalBackup
    BY <2>2 DEF AskHeldShares, DeviceFound, NameDevice, EnterPhysicalBackup, dbVars, linkVars
  <2>3. CASE CheckEntered \/ ClosePage \/ SendCancelAll
    BY <2>3 DEF CheckEntered, ClosePage, SendCancelAll, dbVars, uiVars, linkVars
  <2>4. CASE \E r \in RestorationIds : \/ CancelRestoration(r)
                                      \/ \E d \in Devices : DeleteRestorationShare(r, d)
    BY <2>4 DEF CancelRestoration, DeleteRestorationShare, uiVars, linkVars
  <2>5. CASE \E k \in Keys, d \in Devices : DeleteShare(k, d)
    BY <2>5 DEF DeleteShare, uiVars, linkVars
  <2>6. CASE \E d \in Devices : DeviceSend(d) \/ Unplug(d)
    BY <2>6 DEF DeviceSend, Unplug, dbVars, uiVars
  <2>7. CASE \E d \in Devices, n \in 0 .. MaxInbox : DeviceWork(d, n)
    BY <2>7 DEF DeviceWork, dbVars, uiVars
  <2>8. CASE \E d \in Devices, image \in Papers : EnterPaper(d, image)
    BY <2>8 DEF EnterPaper, dbVars, uiVars, linkVars
  <2>9. CASE UNCHANGED vars
    BY <2>9 DEF vars, dbVars, uiVars, linkVars
  <2> QED BY <2>1, <2>2, <2>3, <2>4, <2>5, <2>6, <2>7, <2>8, <2>9
<1> QED BY <1>1, WorkStays

LEMMA TellSaveWorks ==
  ASSUME WorkInvariant, TellSave
  PROVE  WorkInvariant'
<1>1. UNCHANGED <<pending, known, registered, stack>>
  BY DEF TellSave, dbVars
<1> DEFINE call == Save(finish.dev, finish.ctx.r, finish.image[2])
<1>2. calls' = calls \cup {Late(call)} \/ calls' = calls \cup {Asked(call)}
  <2>1. CASE restorations[finish.ctx.r] = None
    BY <2>1 DEF TellSave
  <2>2. CASE restorations[finish.ctx.r] # None
    BY <2>2 DEF TellSave
  <2> QED BY <2>1, <2>2
<1>3. Doing(Late(call)) /\ Doing(Asked(call))
  BY SaveIsDoing
<1> HIDE DEF call
<1> QED BY <1>1, <1>2, <1>3, WorkStays

LEMMA TellConsolidateWorks ==
  ASSUME WorkInvariant, TellConsolidate
  PROVE  WorkInvariant'
<1>1. UNCHANGED <<pending, known, registered, stack>>
  BY DEF TellConsolidate, dbVars
<1> DEFINE call == Asked(Consolidate(finish.dev, finish.ctx.k, finish.image[2]))
<1>2. calls' = calls \/ calls' = calls \cup {call}
  BY DEF TellConsolidate
<1>3. Doing(call)
  BY SaveIsDoing
<1> HIDE DEF call
<1> QED BY <1>1, <1>2, <1>3, WorkStays

\* A consolidation is added with the call that does it.
LEMMA WorkAdded ==
  ASSUME WorkInvariant, UNCHANGED <<registered, stack>>, known \subseteq known',
         pending \subseteq pending', IsFiniteSet(pending'), calls \subseteq calls',
         \A p \in pending' : p \in pending \/ Owed(p)',
         \A c \in calls' : c \in calls \/ Doing(c),
         \A p \in pending' : p \in pending \/ \E c \in calls' : Works(c, p)
  PROVE  WorkInvariant'
<1>1. \A p \in pending' : Owed(p)'
  BY DEF WorkInvariant, Owed
<1>2. \A c \in calls' \cup Range(stack') : Doing(c)
  BY DEF WorkInvariant
<1>3. ASSUME NEW p \in pending', p.dev \in registered'
      PROVE  \E c \in calls' \cup Range(stack') : Works(c, p)
  BY <1>3 DEF WorkInvariant
<1> QED BY <1>1, <1>2, <1>3 DEF WorkInvariant

LEMMA EnrollShareWorks ==
  ASSUME RestorationInvariant, WorkInvariant, OnePaper, EnrollShare
  PROVE  WorkInvariant'
<1> DEFINE s == page.share
           d == s.dev
           k == page.ctx.k
           i == s.image[2]
           more == <<<<d, k>>>>
<1>1. UNCHANGED <<known, registered, stack>>
  BY DEF EnrollShare, linkVars
<1>2. \/ UNCHANGED <<pending, calls>>
      \/ /\ FitsKey(k, s)
         /\ pending' = IF s.ref = None THEN pending \cup {Pending(d, k, i)} ELSE pending
         /\ calls' = calls \cup {Exit(more)}
  BY DEF EnrollShare
<1>3. CASE UNCHANGED <<pending, calls>>
  BY <1>1, <1>3, WorkStays
<1>4. CASE /\ FitsKey(k, s)
           /\ pending' = IF s.ref = None THEN pending \cup {Pending(d, k, i)} ELSE pending
           /\ calls' = calls \cup {Exit(more)}
  <2>1. k \in known /\ s.image[1] = k
    BY <1>4 DEF FitsKey
  <2>2. d \in Devices /\ s.image \in Kept[d]
    <3>1. Backed(s)
      BY DEF EnrollShare, RestorationInvariant, PageTrue
    <3> QED BY <3>1, StoredIsOwn DEF Backed, BackedBy, Rests
  <2>3. s.image \in Own(d) /\ s.image = <<k, i>>
    BY <2>1, <2>2, StoredIsOwn
  <2>4. IsList(more) /\ more # <<>> /\ Range(more) = {<<d, k>>}
    <3> DEFINE pair == <<d, k>>
    <3>1. more = <<pair>>
      OBVIOUS
    <3> HIDE DEF more, pair
    <3>2. more \in Seq({pair}) /\ DOMAIN more = {1} /\ more[1] = pair
      BY <3>1
    <3>3. IsList(more) /\ more # <<>>
      BY <3>1, <3>2, SeqIsList
    <3>4. Range(more) = {pair}
      BY <3>2 DEF Range
    <3> QED BY <3>3, <3>4 DEF pair
  <2> HIDE DEF more, i, k, d, s
  <2>5. Doing(Exit(more)) /\ \A p : p.dev = d /\ p.key = k => Works(Exit(more), p)
    BY <2>4, ExitIsDoing
  <2>6. /\ Pending(d, k, i).dev = d /\ Pending(d, k, i).key = k /\ Pending(d, k, i).index = i
    BY DEF Pending
  <2>7. ASSUME NEW p, p = Pending(d, k, i) PROVE Owed(p)'
    BY <1>1, <2>1, <2>2, <2>3, <2>6, <2>7 DEF Owed
  <2>8. IsFiniteSet(pending')
    BY <1>4, FS_AddElement DEF WorkInvariant
  <2> QED BY <1>1, <1>4, <2>5, <2>6, <2>7, <2>8, WorkAdded
<1> QED BY <1>2, <1>3, <1>4

LEMMA FinishRestoringWorks ==
  ASSUME RestorationInvariant, WorkInvariant, OnePaper, NEW r \in RestorationIds, FinishRestoring(r)
  PROVE  WorkInvariant'
<1> DEFINE a == restorations[r]
           k == a.key
           n(d) == CompatibleShare(a, d)
           index(d) == IF n(d) = 0 THEN wallets[k][d] ELSE a.held[n(d)].image[2]
           drop == {s \in Range(a.held) : ~s.cons \/ s.image[1] # k}
           todo == NeedsToConsolidate(a)
           more == [m \in DOMAIN todo |-> <<todo[m].dev, k>>]
<1>1. UNCHANGED <<registered, stack>> /\ known' = known \cup {k}
  BY DEF FinishRestoring, linkVars
<1>2. /\ a # None
      /\ pending' = pending \cup {Pending(s.dev, k, index(s.dev)) : s \in Range(todo)}
      /\ calls' = IF todo = <<>> THEN calls ELSE calls \cup {Exit(more)}
  BY DEF FinishRestoring
<1>3. IsRestoration(a) /\ \A s \in Range(a.held) : Backed(s)
  BY <1>2 DEF RestorationInvariant, RestorationsTrue, RestorationsBacked
<1>4. IsList(todo) /\ Range(todo) \subseteq Range(a.held)
      /\ \A s \in Range(todo) : s.cons /\ s.image[1] = k
  <2>1. todo = Retain(a.held, drop)
    BY DEF NeedsToConsolidate
  <2>2. \A s \in Range(a.held) \ drop : s.cons /\ s.image[1] = k
    OBVIOUS
  <2> HIDE DEF todo, drop, a, k
  <2> QED BY <1>3, <2>1, <2>2, ListRetain DEF IsRestoration
<1>5. ASSUME NEW s \in Range(todo)
      PROVE  /\ s.dev \in Devices /\ <<k, index(s.dev)>> \in Own(s.dev)
  <2>1. Backed(s) /\ s.cons /\ s.image[1] = k /\ s \in Range(a.held)
    BY <1>3, <1>4
  <2>2. s.dev \in Devices /\ s.image \in Kept[s.dev]
    BY <2>1, StoredIsOwn DEF Backed, BackedBy, Rests
  <2>3. n(s.dev) # 0
    <3>1. IsList(a.held)
      BY <1>3 DEF IsRestoration
    <3>2. PICK m \in 1 .. Len(a.held) : a.held[m] = s
      BY <2>1, <3>1, ListAt
    <3> DEFINE I == {m1 \in 1 .. Len(a.held) : a.held[m1].dev = s.dev /\ a.held[m1].image[1] = k}
    <3>3. m \in I
      BY <2>1, <3>2
    <3>4. n(s.dev) = IF I # {} THEN Max(I) ELSE 0
      BY DEF CompatibleShare, SelectLastInSeq
    <3>5. Max(I) \in Nat \ {0}
      <4> DEFINE l == Len(a.held)
      <4>1. I \subseteq 1 .. l /\ l \in Nat /\ I # {}
        BY <3>1, <3>3, ListAt
      <4> HIDE DEF I, l
      <4> QED BY <4>1, LastIsPosition
    <3> HIDE DEF I, n
    <3> QED BY <3>3, <3>4, <3>5
  <2> DEFINE t == a.held[n(s.dev)]
  <2>4. t \in Range(a.held) /\ t.dev = s.dev /\ t.image[1] = k
    BY <1>3, <2>3, CompatibleHolds
  <2>5. index(s.dev) = t.image[2]
    BY <2>3
  <2> HIDE DEF t, index, n, a, k
  <2>6. t.image \in Kept[s.dev]
    BY <1>3, <2>2, <2>4, StoredIsOwn DEF Backed, BackedBy, Rests
  <2> QED BY <2>2, <2>4, <2>5, <2>6, StoredIsOwn
<1>6. \A s : Pending(s.dev, k, index(s.dev)).key = k
             /\ Pending(s.dev, k, index(s.dev)).dev = s.dev
             /\ Pending(s.dev, k, index(s.dev)).index = index(s.dev)
  BY DEF Pending
<1>7. IsFiniteSet(Range(todo))
  <2> HIDE DEF todo
  <2>1. Len(todo) \in Nat /\ DOMAIN todo = 1 .. Len(todo) /\ todo \in [1 .. Len(todo) -> Range(todo)]
    BY <1>4, LenProperties DEF IsList
  <2>2. \A x \in Range(todo) : \E m \in 1 .. Len(todo) : todo[m] = x
    BY <1>4, ListAt
  <2>3. todo \in Surjection(1 .. Len(todo), Range(todo))
    BY <2>1, <2>2 DEF Surjection
  <2>4. IsFiniteSet(1 .. Len(todo))
    BY <2>1, FS_Interval
  <2> QED BY <2>3, <2>4, FS_Surjection
<1>8. IsList(more) /\ Range(more) = {<<s.dev, k>> : s \in Range(todo)}
      /\ (todo # <<>> => more # <<>>)
  <2> HIDE DEF todo, k
  <2>1. Len(todo) \in Nat /\ DOMAIN todo = 1 .. Len(todo)
        /\ Range(todo) = {todo[m] : m \in 1 .. Len(todo)}
    BY <1>4, ListAt DEF Range
  <2>2. more = [m \in 1 .. Len(todo) |-> more[m]] /\ \A m \in 1 .. Len(todo) : more[m] = <<todo[m].dev, k>>
    BY <2>1
  <2>3. todo # <<>> => Len(todo) # 0
    BY <1>4, EmptySeq DEF IsList
  <2> HIDE DEF more
  <2>4. IsList(more) /\ Len(more) = Len(todo) /\ Range(more) = {more[m] : m \in 1 .. Len(todo)}
    BY <2>1, <2>2, ListMap
  <2>5. more # <<>> \/ todo = <<>>
    BY <2>3, <2>4
  <2>6. Range(more) = {<<s.dev, k>> : s \in Range(todo)}
    <3>1. \A x : x \in Range(more) <=> \E m \in 1 .. Len(todo) : x = <<todo[m].dev, k>>
      BY <2>2, <2>4
    <3> HIDE DEF more
    <3>2. ASSUME NEW x \in Range(more) PROVE \E s \in Range(todo) : x = <<s.dev, k>>
      <4>1. PICK m \in 1 .. Len(todo) : x = <<todo[m].dev, k>>
        BY <3>1
      <4>2. todo[m] \in Range(todo)
        BY <2>1
      <4> QED BY <4>1, <4>2
    <3>3. ASSUME NEW s \in Range(todo) PROVE <<s.dev, k>> \in Range(more)
      <4>1. PICK m \in 1 .. Len(todo) : s = todo[m]
        BY <2>1
      <4> QED BY <3>1, <4>1
    <3> QED BY <3>2, <3>3
  <2> QED BY <2>4, <2>5, <2>6
<1> DEFINE new == {Pending(s.dev, k, index(s.dev)) : s \in Range(todo)}
<1>9. IsFiniteSet(new)
  <2> DEFINE f == [s \in Range(todo) |-> Pending(s.dev, k, index(s.dev))]
  <2>1. f \in Surjection(Range(todo), new)
    <3> HIDE DEF todo, index, k
    <3> QED BY DEF Surjection
  <2> HIDE DEF f, new, todo
  <2> QED BY <1>7, <2>1, FS_Surjection
<1>10. ASSUME NEW p \in new PROVE Owed(p)'
  <2> HIDE DEF todo, index, k, a
  <2>1. PICK s \in Range(todo) : p = Pending(s.dev, k, index(s.dev))
    OBVIOUS
  <2>2. p.key = k /\ p.dev = s.dev /\ p.index = index(s.dev)
    BY <1>6, <2>1
  <2>3. p = Pending(p.dev, p.key, p.index)
    BY <2>1, <2>2
  <2> QED BY <1>1, <1>5, <2>2, <2>3 DEF Owed
<1>11. IsFiniteSet(pending')
  <2> HIDE DEF new
  <2>1. pending' = pending \cup new
    BY <1>2 DEF new
  <2> QED BY <1>9, <2>1, FS_Union DEF WorkInvariant
<1>12. CASE todo = <<>>
  <2>1. new = {}
    BY <1>12, EmptyList
  <2>2. pending' = pending /\ calls' = calls
    BY <1>2, <1>12, <2>1
  <2> HIDE DEF new, k
  <2> QED BY <1>1, <1>11, <2>2, WorkAdded DEF WorkInvariant
<1>13. CASE todo # <<>>
  <2>1. calls' = calls \cup {Exit(more)} /\ pending' = pending \cup new
    BY <1>2, <1>13
  <2>2. Doing(Exit(more)) /\ \A p : <<p.dev, p.key>> \in Range(more) => Works(Exit(more), p)
    <3> HIDE DEF more
    <3> QED BY <1>8, <1>13, ExitIsDoing
  <2>3. \A p \in new : <<p.dev, p.key>> \in Range(more)
    <3> HIDE DEF more, todo, index, k
    <3>1. ASSUME NEW s \in Range(todo)
          PROVE  <<Pending(s.dev, k, index(s.dev)).dev, Pending(s.dev, k, index(s.dev)).key>> \in Range(more)
      BY <1>6, <1>8
    <3> QED BY <3>1
  <2> HIDE DEF new, more, k, todo
  <2> QED BY <1>1, <1>10, <1>11, <2>1, <2>2, <2>3, WorkAdded
<1> QED BY <1>12, <1>13

LEMMA DeleteKeyWorks ==
  ASSUME WorkInvariant, NEW k, DeleteKey(k)
  PROVE  WorkInvariant'
<1>1. /\ UNCHANGED <<registered, stack, calls>> /\ known' = known \ {k}
      /\ pending' = {p \in pending : p.key # k}
  BY DEF DeleteKey, uiVars, linkVars
<1>2. \A p \in pending' : p.key \in known'
  BY <1>1 DEF WorkInvariant, Owed
<1> QED BY <1>1, <1>2, WorkGoesOn DEF WorkInvariant

----------------------------------------------------------------------------
(* A device that registers *)

\* SetToSeq has every element of a finite set.
LEMMA SetToSeqHasAll ==
  ASSUME NEW S, IsFiniteSet(S)
  PROVE  IsList(SetToSeq(S)) /\ Range(SetToSeq(S)) = S
<1> DEFINE n == Cardinality(S)
           I == 1 .. n
           f == SetToSeq(S)
<1>1. n \in Nat /\ ExistsBijection(I, S)
  BY FS_CardinalityType
<1>2. IsFiniteSet(I) /\ Cardinality(I) = n
  BY <1>1, FS_Interval
<1>3. \E g \in [I -> S] : IsInjective(g)
  BY <1>1 DEF ExistsBijection, Bijection, Injection
<1>4. f \in [I -> S] /\ IsInjective(f)
  BY <1>3 DEF SetToSeq
<1> HIDE DEF f
<1>5. f \in Injection(I, S)
  BY <1>4 DEF Injection
<1>6. f \in Surjection(I, S)
  <2> HIDE DEF I
  <2> QED BY <1>2, <1>5, FS_Injection
<1>7. IsList(f) /\ Range(f) \subseteq S
  <2> HIDE DEF n
  <2>1. f \in Seq(S)
    BY <1>1, <1>4, SeqDef
  <2> QED BY <2>1, SeqIsList
<1>8. S \subseteq Range(f)
  BY <1>4, <1>6 DEF Surjection, Range
<1> QED BY <1>7, <1>8 DEF f

\* main.dart's call comes to everything the device has pending.
LEMMA ExitCallsWork ==
  ASSUME WorkInvariant, NEW d
  PROVE  /\ \A c \in ExitCalls(d) : Doing(c)
         /\ \A p \in pending : p.dev = d => \E c \in ExitCalls(d) : Works(c, p)
<1> DEFINE wallet == {p.key : p \in {q \in pending : q.dev = d}}
           todo == SetToSeq({d} \X wallet)
<1>1. ExitCalls(d) = IF wallet = {} THEN {} ELSE {Exit(todo)}
  BY DEF ExitCalls
<1>2. IsFiniteSet(wallet)
  <2> DEFINE Q == {q \in pending : q.dev = d}
             f == [p \in Q |-> p.key]
  <2>1. IsFiniteSet(Q)
    BY FS_Subset DEF WorkInvariant
  <2>2. f \in Surjection(Q, wallet)
    BY DEF Surjection
  <2> HIDE DEF f, Q, wallet
  <2> QED BY <2>1, <2>2, FS_Surjection
<1>3. IsList(todo) /\ Range(todo) = {d} \X wallet
  <2> HIDE DEF wallet
  <2> QED BY <1>2, FS_Singleton, FS_Product, SetToSeqHasAll
<1>4. \A p \in pending : p.dev = d => p.key \in wallet
  OBVIOUS
<1> HIDE DEF wallet, todo
<1>5. CASE wallet = {}
  BY <1>1, <1>4, <1>5
<1>6. CASE wallet # {}
  <2>1. todo # <<>>
    <3>1. PICK k \in wallet : TRUE
      BY <1>6
    <3>2. <<d, k>> \in Range(todo)
      BY <1>3, <3>1
    <3> QED BY <3>2, EmptyList
  <2>2. \A p \in pending : p.dev = d => <<p.dev, p.key>> \in Range(todo)
    BY <1>3, <1>4
  <2>3. Doing(Exit(todo)) /\ \A p : <<p.dev, p.key>> \in Range(todo) => Works(Exit(todo), p)
    BY <1>3, <2>1, ExitIsDoing
  <2> QED BY <1>1, <1>6, <2>2, <2>3
<1> QED BY <1>5, <1>6

LEMMA RegistersWorks ==
  ASSUME WorkInvariant, NEW d, UNCHANGED <<pending, known, stack>>,
         registered' = registered \cup {d}, calls' = calls \cup ExitCalls(d)
  PROVE  WorkInvariant'
<1>1. /\ \A c \in ExitCalls(d) : Doing(c)
      /\ \A p \in pending : p.dev = d => \E c \in ExitCalls(d) : Works(c, p)
  BY ExitCallsWork
<1>2. \A p \in pending' : Owed(p)'
  BY DEF WorkInvariant, Owed
<1>3. \A c \in calls' \cup Range(stack') : Doing(c)
  BY <1>1 DEF WorkInvariant
<1>4. ASSUME NEW p \in pending', p.dev \in registered'
      PROVE  \E c \in calls' \cup Range(stack') : Works(c, p)
  <2>1. CASE p.dev = d
    BY <1>1, <2>1
  <2>2. CASE p.dev # d
    BY <1>4, <2>2 DEF WorkInvariant
  <2> QED BY <2>1, <2>2
<1> QED BY <1>2, <1>3, <1>4 DEF WorkInvariant

LEMMA ConnectWorks ==
  ASSUME WorkInvariant, NEW d \in Devices, Connect(d)
  PROVE  WorkInvariant'
<1>1. UNCHANGED <<pending, known, stack>>
  BY DEF Connect, dbVars
<1>2. CASE name[d]
  <2>1. registered' = registered \cup {d} /\ calls' = calls \cup ExitCalls(d)
    BY <1>2 DEF Connect
  <2> QED BY <1>1, <2>1, RegistersWorks
<1>3. CASE ~name[d]
  <2>1. registered' = registered /\ calls' = calls
    BY <1>3 DEF Connect
  <2> QED BY <1>1, <2>1, WorkStays
<1> QED BY <1>2, <1>3

LEMMA AppCrashWorks ==
  ASSUME WorkInvariant, AppCrash
  PROVE  WorkInvariant'
<1>1. UNCHANGED <<pending, known>> /\ registered' = {} /\ calls' = {} /\ stack' = <<>>
  BY DEF AppCrash, dbVars
<1>2. Range(stack') = {}
  BY <1>1, EmptyList
<1>3. \A p \in pending' : p.key \in known'
  BY <1>1 DEF WorkInvariant, Owed
<1> QED BY <1>1, <1>2, <1>3, WorkGoesOn

----------------------------------------------------------------------------
(* Answers, and devices that are gone *)

LEMMA LateWorks ==
  ASSUME NEW c, IsCall(c), Doing(c)
  PROVE  Doing(Late(c)) /\ \A p : Works(c, p) => Works(Late(c), p)
BY DEF IsCall, Doing, Works, Late

LEMMA MissedWorks ==
  ASSUME NEW c, IsCall(c), Doing(c), NEW user
  PROVE  Doing(Missed(c, user)) /\ \A p : Works(c, p) => Works(Missed(c, user), p)
BY LateWorks DEF Missed

\* The others stay.
LEMMA RemoveAtKeeps ==
  ASSUME NEW s, IsList(s), NEW n \in 1 .. Len(s), NEW i \in 1 .. Len(s), i # n
  PROVE  s[i] \in Range(RemoveAt(s, n))
<1> DEFINE t == SubSeq(s, 1, n - 1)
           u == SubSeq(s, n + 1, Len(s))
           R == Range(s)
<1>1. s \in Seq(R) /\ Len(s) \in Nat
  BY LenProperties DEF IsList
<1> HIDE DEF R
<1>2. /\ t \in Seq(R) /\ Len(t) = n - 1 /\ \A j \in 1 .. n - 1 : t[j] = s[j]
      /\ u \in Seq(R) /\ Len(u) = Len(s) - n /\ \A j \in 1 .. Len(s) - n : u[j] = s[n + j]
  BY <1>1, SubSeqProperties
<1>3. RemoveAt(s, n) = t \o u
  BY DEF RemoveAt
<1> HIDE DEF t, u
<1>4. /\ t \o u \in Seq(R) /\ Len(t \o u) = Len(t) + Len(u)
      /\ \A j \in 1 .. Len(t) + Len(u) : (t \o u)[j] = IF j <= Len(t) THEN t[j] ELSE u[j - Len(t)]
  <2>1. t \in Seq(R) /\ u \in Seq(R)
    BY <1>2
  <2>2. t \o u \in Seq(R) /\ Len(t \o u) = Len(t) + Len(u)
    BY <2>1
  <2>3. Len(t) \in Nat /\ Len(u) \in Nat
    BY <2>1, LenProperties
  <2>4. ASSUME NEW m \in 1 .. Len(t) + Len(u)
        PROVE  (t \o u)[m] = IF m <= Len(t) THEN t[m] ELSE u[m - Len(t)]
    BY <2>1, <2>3, ConcatProperties
  <2> QED BY <2>2, <2>4
<1> DEFINE j == IF i < n THEN i ELSE i - 1
<1>5. j \in 1 .. Len(t) + Len(u) /\ (t \o u)[j] = s[i]
  <2>1. CASE i < n
    BY <1>1, <1>2, <1>4, <2>1
  <2>2. CASE i > n
    <3>1. j = i - 1 /\ ~(j <= Len(t)) /\ j - Len(t) = i - n /\ i - n \in 1 .. Len(s) - n
          /\ j \in 1 .. Len(t) + Len(u)
      BY <1>1, <1>2, <2>2
    <3>2. (t \o u)[j] = u[i - n] /\ u[i - n] = s[n + (i - n)]
      BY <1>2, <1>4, <3>1
    <3>3. n + (i - n) = i
      OBVIOUS
    <3> QED BY <3>1, <3>2, <3>3
  <2> QED BY <2>1, <2>2
<1>6. DOMAIN (t \o u) = 1 .. Len(t \o u)
  BY <1>4, LenProperties
<1> QED BY <1>3, <1>4, <1>5, <1>6 DEF Range

\* An answer settles the consolidation it is about, and every other goes on.
Settles(user, p) == user.type = "Finished" /\ p.dev = user.dev /\ p.key = user.what

LEMMA ProcessToUserWorks ==
  ASSUME CallsTrue, \A c \in calls \cup Range(stack) : Doing(c),
         NEW user, user.type \in {"Saved", "Finished"}, ProcessToUser(user)
  PROVE  /\ \A c \in calls' \cup Range(stack') : Doing(c)
         /\ \A p : \A c \in calls \cup Range(stack) : Works(c, p) /\ ~Settles(user, p) =>
              \E x \in calls' \cup Range(stack') : Works(x, p)
<1> DEFINE matching == {n \in DOMAIN stack : Answers(stack[n], user)}
           top == Max(matching)
           f == [n \in DOMAIN stack |-> Missed(stack[n], user)]
           missed == {Missed(x, user) : x \in calls}
<1>1. /\ IsList(stack) /\ Len(stack) \in Nat /\ DOMAIN stack = 1 .. Len(stack)
      /\ \A x \in Range(stack) : \E i \in 1 .. Len(stack) : stack[i] = x
      /\ \A i \in 1 .. Len(stack) : stack[i] \in Range(stack) /\ IsCall(stack[i]) /\ Doing(stack[i])
  BY ListAt DEF CallsTrue, Waits
<1>2. \A c \in calls : IsCall(c) /\ Doing(c)
  BY DEF CallsTrue, CallTrue
<1>3. /\ \A c \in missed : Doing(c)
      /\ \A p : \A c \in calls : Works(c, p) => \E x \in missed : Works(x, p)
  BY <1>2, MissedWorks
<1>4. CASE matching = {}
  <2>1. calls' = missed /\ stack' = stack
    BY <1>4 DEF ProcessToUser, Missed
  <2> HIDE DEF missed
  <2> QED BY <1>3, <2>1
<1>5. CASE matching # {}
  <2>1. calls' = missed \cup Succeed(stack[top]) /\ stack' = RemoveAt(f, top)
    BY <1>5 DEF ProcessToUser, Missed
  <2>2. top \in matching
    <3>1. matching \subseteq 1 .. Len(stack)
      BY <1>1
    <3> HIDE DEF matching
    <3> QED BY <1>1, <1>5, <3>1, LastPosition
  <2>3. /\ IsList(f) /\ Len(f) = Len(stack) /\ DOMAIN f = 1 .. Len(stack)
        /\ \A i \in 1 .. Len(stack) : f[i] = Missed(stack[i], user)
    BY <1>1, MissedCalls
  <2>4. top \in 1 .. Len(stack) /\ Answers(stack[top], user)
    BY <1>1, <2>2
  <2> HIDE DEF f, top, matching, missed
  <2>5. \A x \in Range(f) : Doing(x)
    BY <1>1, <2>3, ListAt, MissedWorks
  <2>6. Range(stack') \subseteq Range(f)
    BY <2>1, <2>3, <2>4, ListRemoveAt
  <2>7. \A x \in Succeed(stack[top]) : Doing(x)
    BY <1>1, <2>4 DEF Succeed, IsCall, Doing
  <2>8. ASSUME NEW p, NEW c \in Range(stack), Works(c, p), ~Settles(user, p)
        PROVE  \E x \in calls' \cup Range(stack') : Works(x, p)
    <3>1. PICK i \in 1 .. Len(stack) : stack[i] = c
      BY <1>1
    <3>2. CASE i = top
      <4>1. IsCall(c) /\ Doing(c) /\ Answers(c, user)
        BY <1>1, <2>4, <3>1, <3>2
      <4>2. c.kind = "exit"
        BY <2>8, <4>1, EmptyList DEF Doing, Works
      <4>3. <<p.dev, p.key>> \in Range(c.more)
        BY <2>8, <4>1, <4>2 DEF Works, Answers, Settles
      <4>4. Works([c EXCEPT !.stage = "done"], p)
        BY <4>1, <4>3 DEF IsCall, Works
      <4> QED BY <2>1, <3>1, <3>2, <4>2, <4>4 DEF Succeed
    <3>3. CASE i # top
      <4>1. f[i] \in Range(stack')
        BY <2>1, <2>3, <2>4, <3>3, RemoveAtKeeps
      <4>2. Works(f[i], p)
        BY <1>1, <2>3, <2>8, <3>1, MissedWorks
      <4> QED BY <4>1, <4>2
    <3> QED BY <3>2, <3>3
  <2> QED BY <1>3, <2>1, <2>5, <2>6, <2>7, <2>8
<1> QED BY <1>4, <1>5

LEMMA RefuseWorks ==
  ASSUME CallsTrue, \A c \in calls \cup Range(stack) : Doing(c), NEW user, Refuse(user)
  PROVE  /\ \A c \in calls' \cup Range(stack') : Doing(c)
         /\ \A p : \A c \in calls \cup Range(stack) : Works(c, p) =>
              \E x \in calls' \cup Range(stack') : Works(x, p)
<1> DEFINE f == [n \in DOMAIN stack |-> Missed(stack[n], user)]
           missed == {Missed(x, user) : x \in calls}
<1>1. calls' = missed /\ stack' = f
  BY DEF Refuse, Missed
<1>2. \A c \in calls : IsCall(c) /\ Doing(c)
  BY DEF CallsTrue, CallTrue
<1>3. /\ \A c \in missed : Doing(c)
      /\ \A p : \A c \in calls : Works(c, p) => \E x \in missed : Works(x, p)
  BY <1>2, MissedWorks
<1>4. /\ IsList(stack) /\ Len(stack) \in Nat /\ DOMAIN stack = 1 .. Len(stack)
      /\ \A x \in Range(stack) : \E i \in 1 .. Len(stack) : stack[i] = x
      /\ \A i \in 1 .. Len(stack) : stack[i] \in Range(stack) /\ IsCall(stack[i]) /\ Doing(stack[i])
  BY ListAt DEF CallsTrue, Waits
<1>5. /\ IsList(f) /\ Len(f) = Len(stack)
      /\ \A i \in 1 .. Len(stack) : f[i] = Missed(stack[i], user)
  BY <1>4, MissedCalls
<1> HIDE DEF f, missed
<1>6. ASSUME NEW x \in Range(f) PROVE Doing(x)
  <2>1. PICK i \in 1 .. Len(stack) : f[i] = x
    BY <1>5, ListAt
  <2> QED BY <1>4, <1>5, <2>1, MissedWorks
<1>7. \A p : \A c \in Range(stack) : Works(c, p) => \E x \in Range(f) : Works(x, p)
  BY <1>4, <1>5, ListAt, MissedWorks
<1> QED BY <1>1, <1>3, <1>6, <1>7

\* Nothing that is not settled and still pending loses its call.
LEMMA AnswerWorks ==
  ASSUME RestorationInvariant, WorkInvariant, UNCHANGED <<known, registered>>,
         pending' \subseteq pending,
         NEW user, user.type \in {"Saved", "Finished"},
         ProcessToUser(user) \/ Refuse(user),
         ProcessToUser(user) => \A p \in pending' : ~Settles(user, p)
  PROVE  WorkInvariant'
<1>1. CallsTrue /\ \A c \in calls \cup Range(stack) : Doing(c)
  BY DEF RestorationInvariant, WorkInvariant
<1>2. \A p \in pending' : p.key \in known'
  BY DEF WorkInvariant, Owed
<1>3. CASE ProcessToUser(user)
  <2>1. /\ \A c \in calls' \cup Range(stack') : Doing(c)
        /\ \A p : \A c \in calls \cup Range(stack) : Works(c, p) /\ ~Settles(user, p) =>
             \E x \in calls' \cup Range(stack') : Works(x, p)
    BY <1>1, <1>3, ProcessToUserWorks
  <2> QED BY <1>2, <1>3, <2>1, WorkGoesOn
<1>4. CASE Refuse(user)
  <2>1. /\ \A c \in calls' \cup Range(stack') : Doing(c)
        /\ \A p : \A c \in calls \cup Range(stack) : Works(c, p) =>
             \E x \in calls' \cup Range(stack') : Works(x, p)
    BY <1>1, <1>4, RefuseWorks
  <2> QED BY <1>2, <2>1, WorkGoesOn
<1> QED BY <1>3, <1>4

LEMMA ReceiveSavedWorks ==
  ASSUME RestorationInvariant, WorkInvariant, NEW d, NEW image, ReceiveSaved(d, image)
  PROVE  WorkInvariant'
<1>1. UNCHANGED <<pending, known, registered>>
  BY DEF ReceiveSaved
<1> DEFINE user(w) == [type |-> "Saved", dev |-> d, what |-> w.r, index |-> image[2]]
<1>2. UNCHANGED <<calls, stack>> \/ \E w \in waitSave : ProcessToUser(user(w))
  BY DEF ReceiveSaved
<1>3. CASE UNCHANGED <<calls, stack>>
  BY <1>1, <1>3, WorkStays
<1>4. ASSUME NEW w \in waitSave, ProcessToUser(user(w)) PROVE WorkInvariant'
  <2>1. user(w).type = "Saved" /\ \A p : ~Settles(user(w), p)
    BY DEF Settles
  <2> HIDE DEF user
  <2> QED BY <1>1, <1>4, <2>1, AnswerWorks
<1> QED BY <1>2, <1>3, <1>4

LEMMA ReceiveFinishedWorks ==
  ASSUME RestorationInvariant, WorkInvariant, OnePaper, Apart, NEW d \in Devices, Receive(d),
         Head(up[d]).type = "Finished", ReceiveFinished(d, Head(up[d]).arg)
  PROVE  WorkInvariant'
<1> DEFINE image == Head(up[d]).arg
           k == image[1]
           i == image[2]
           p == Pending(d, k, i)
           user == [type |-> "Finished", dev |-> d, what |-> k, index |-> i]
<1>1. UNCHANGED <<known, registered>>
  BY DEF ReceiveFinished
<1>2. image \in Own(d) /\ image = <<k, i>>
  <2>1. Tells(Head(up[d]), d, Stored[d], Kept[d])
    BY ReceiveTakes
  <2> QED BY <2>1, StoredIsOwn DEF Tells
<1>3. \/ ProcessToUser(user) /\ UNCHANGED pending /\ p \in waitCons
      \/ ProcessToUser(user) /\ pending' = pending \ {p}
      \/ Refuse(user) /\ UNCHANGED pending
  BY DEF ReceiveFinished
<1>4. user.type = "Finished" /\ user.dev = d /\ user.what = k
  OBVIOUS
<1>5. ASSUME NEW q \in pending, Settles(user, q) PROVE q = p
  <2> HIDE DEF user, p, k, i, image
  <2>1. q.dev = d /\ q.key = k /\ <<q.key, q.index>> \in Own(d) /\ q = Pending(q.dev, q.key, q.index)
    BY <1>4, <1>5 DEF Settles, WorkInvariant, Owed
  <2>2. <<k, q.index>> = <<k, i>>
    <3>1. <<k, q.index>> \in Own(d) /\ <<k, i>> \in Own(d)
      BY <1>2, <2>1
    <3> QED BY <3>1, OwnImages
  <2>3. q.index = i
    BY <2>2
  <2> QED BY <2>1, <2>3 DEF p
<1>6. p \in waitCons => p \notin pending
  BY DEF Apart
<1> HIDE DEF user, p
<1>7. /\ ProcessToUser(user) \/ Refuse(user)
      /\ pending' \subseteq pending
  BY <1>3
<1>8. CASE p \notin pending'
  BY <1>1, <1>4, <1>5, <1>7, <1>8, AnswerWorks
<1>9. CASE p \in pending'
  <2>1. Refuse(user) /\ UNCHANGED pending
    BY <1>3, <1>6, <1>9
  <2>2. CallsTrue /\ \A c \in calls \cup Range(stack) : Doing(c)
    BY DEF RestorationInvariant, WorkInvariant
  <2>3. /\ \A c \in calls' \cup Range(stack') : Doing(c)
        /\ \A r : \A c \in calls \cup Range(stack) : Works(c, r) =>
             \E x \in calls' \cup Range(stack') : Works(x, r)
    BY <2>1, <2>2, RefuseWorks
  <2>4. \A r \in pending' : r.key \in known'
    BY <1>1, <2>1 DEF WorkInvariant, Owed
  <2> QED BY <1>1, <2>1, <2>3, <2>4, WorkGoesOn
<1> QED BY <1>8, <1>9

LEMMA ReceiveWorks ==
  ASSUME RestorationInvariant, WorkInvariant, OnePaper, Apart, NEW d \in Devices, Receive(d)
  PROVE  WorkInvariant'
<1> DEFINE m == Head(up[d])
<1>1. \/ ReceiveName(d)
      \/ ReceiveHeld(d, m.arg)
      \/ ReceiveEntered(d, m.arg[1], m.arg[2])
      \/ ReceiveSaved(d, m.arg)
      \/ m.type = "Finished" /\ ReceiveFinished(d, m.arg)
  BY DEF Receive
<1>2. CASE ReceiveName(d)
  <2>1. UNCHANGED <<pending, known, stack>>
    BY <1>2 DEF ReceiveName, dbVars
  <2>2. \/ UNCHANGED <<registered, calls>>
        \/ registered' = registered \cup {d} /\ calls' = calls \cup ExitCalls(d)
    BY <1>2 DEF ReceiveName
  <2> QED BY <2>1, <2>2, WorkStays, RegistersWorks
<1>3. CASE ReceiveHeld(d, m.arg) \/ ReceiveEntered(d, m.arg[1], m.arg[2])
  <2>1. UNCHANGED <<pending, known, registered, stack, calls>>
    BY <1>3 DEF ReceiveHeld, ReceiveEntered, dbVars
  <2> QED BY <2>1, WorkStays
<1>4. CASE ReceiveSaved(d, m.arg)
  BY <1>4, ReceiveSavedWorks
<1>5. CASE m.type = "Finished" /\ ReceiveFinished(d, m.arg)
  BY <1>5, ReceiveFinishedWorks
<1> QED BY <1>1, <1>2, <1>3, <1>4, <1>5

\* A call goes on without the device that is gone.
LEMMA LostWorks ==
  ASSUME RestorationInvariant, WorkInvariant, NEW d \in Devices, Lost(d)
  PROVE  WorkInvariant'
<1> DEFINE failed == {c \in Range(stack) : c.dev = d}
           Gone(c) == IF c.dev = d /\ c.stage = "sent" THEN Late(c) ELSE c
           missed == {Gone(c) : c \in calls}
           goOn == UNION {GoOn(c) : c \in failed}
<1>1. /\ UNCHANGED <<pending, known>> /\ registered' = registered \ {d}
      /\ stack' = Retain(stack, failed) /\ calls' = missed \cup goOn
  BY DEF Lost, dbVars
<1>2. IsList(stack) /\ \A c \in calls \cup Range(stack) : IsCall(c) /\ Doing(c)
  BY DEF RestorationInvariant, CallsTrue, CallTrue, Waits, WorkInvariant
<1>3. /\ \A c \in missed : Doing(c)
      /\ \A p : \A c \in calls : Works(c, p) => \E x \in missed : Works(x, p)
  BY <1>2, LateWorks
<1>4. /\ \A x \in goOn : Doing(x)
      /\ \A p : \A c \in failed : <<p.dev, p.key>> \in Range(c.more) => \E x \in goOn : Works(x, p)
  BY <1>2, GoOnWorks DEF Doing
<1>5. \A p : \A c \in failed : Works(c, p) /\ p.dev # d => <<p.dev, p.key>> \in Range(c.more)
  BY DEF Works
<1> HIDE DEF failed, missed, goOn
<1>6. Range(stack') = Range(stack) \ failed
  BY <1>1, <1>2, ListRetain
<1>7. \A c \in calls' \cup Range(stack') : Doing(c)
  BY <1>1, <1>2, <1>3, <1>4, <1>6
<1>8. \A p \in pending' : p.key \in known'
  BY <1>1 DEF WorkInvariant, Owed
<1>9. ASSUME NEW p \in pending', NEW c \in calls \cup Range(stack), p.dev \in registered', Works(c, p)
      PROVE  \E x \in calls' \cup Range(stack') : Works(x, p)
  <2>1. CASE c \in calls
    BY <1>1, <1>3, <1>9, <2>1
  <2>2. CASE c \in failed
    BY <1>1, <1>4, <1>5, <1>9, <2>2
  <2>3. CASE c \in Range(stack) \ failed
    BY <1>6, <1>9, <2>3
  <2> QED BY <2>1, <2>2, <2>3
<1> QED BY <1>1, <1>7, <1>8, <1>9, WorkGoesOn

LEMMA WorkStep ==
  ASSUME OnePaper, RestorationInvariant, WorkInvariant, Apart, [Next]_vars
  PROVE  WorkInvariant'
<1>1. ASSUME NEW c \in calls, PushWaiter(c) \/ ExitNext(c) \/ ExitDone(c) PROVE WorkInvariant'
  BY <1>1, PushWaiterWorks, ExitNextWorks, ExitDoneWorks
<1>2. CASE TellSave \/ TellConsolidate \/ EnrollShare
  BY <1>2, TellSaveWorks, TellConsolidateWorks, EnrollShareWorks
<1>3. ASSUME NEW r \in RestorationIds, FinishRestoring(r) PROVE WorkInvariant'
  BY <1>3, FinishRestoringWorks
<1>4. ASSUME NEW k \in Keys, DeleteKey(k) PROVE WorkInvariant'
  BY <1>4, DeleteKeyWorks
<1>5. ASSUME NEW d \in Devices, Receive(d) \/ Lost(d) \/ Connect(d) PROVE WorkInvariant'
  BY <1>5, ReceiveWorks, LostWorks, ConnectWorks
<1>6. CASE AppCrash
  BY <1>6, AppCrashWorks
<1>7. CASE \E ctx \in Contexts : OpenPage(ctx)
  BY <1>7, OtherStepsWork
<1>8. CASE AskHeldShares \/ DeviceFound \/ NameDevice \/ EnterPhysicalBackup \/ CheckEntered \/ ClosePage
          \/ SendCancelAll
  BY <1>8, OtherStepsWork
<1>9. ASSUME NEW r \in RestorationIds,
             CancelRestoration(r) \/ \E d \in Devices : DeleteRestorationShare(r, d)
      PROVE  WorkInvariant'
  BY <1>9, OtherStepsWork
<1>10. ASSUME NEW k \in Keys, NEW d \in Devices, DeleteShare(k, d) PROVE WorkInvariant'
  BY <1>10, OtherStepsWork
<1>11. ASSUME NEW d \in Devices, \/ DeviceSend(d) \/ \E n \in 0 .. MaxInbox : DeviceWork(d, n)
                                 \/ \E image \in Papers : EnterPaper(d, image)
                                 \/ Unplug(d)
       PROVE  WorkInvariant'
  BY <1>11, OtherStepsWork
<1>12. CASE UNCHANGED vars
  BY <1>12, OtherStepsWork
<1> QED BY <1>1, <1>2, <1>3, <1>4, <1>5, <1>6, <1>7, <1>8, <1>9, <1>10, <1>11, <1>12 DEF Next

LEMMA InitWorks == Init => WorkInvariant
BY FS_EmptySet, EmptyList DEF Init, WorkInvariant

\* restoration.rs:323-333, 668-677 and 962-1010, coordinator.rs:1324-1410 and
\* main.dart:205-230: a consolidation that is pending for a registered device is asked for by some
\* call, or will be, whatever fails in between, as long as the page does not wait
\* for the same share of the same device.
THEOREM RestorationPendingIsWorkedOn ==
  ASSUME OnePaper
  PROVE  Spec /\ []Apart => []PendingIsWorkedOn
<1>1. RestorationInvariant /\ WorkInvariant /\ Apart /\ [Next]_vars => WorkInvariant'
  BY WorkStep
<1>2. WorkInvariant => PendingIsWorkedOn
  BY DEF WorkInvariant, Works, PendingIsWorkedOn
<1> QED BY <1>1, <1>2, InitWorks, RestorationInvariantHolds, PTL DEF Spec

=============================================================================
