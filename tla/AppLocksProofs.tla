--------------------------- MODULE AppLocksProofs ---------------------------
(* Proofs about the app's locks, for any number of threads that run the     *)
(* app's calls and any set of calls that lock in the order of the ranks.    *)
EXTENDS AppLocks, SequenceTheorems, WellFoundedInduction, TLAPS

\* A non-empty set of naturals that are at most n has a greatest element.
LEMMA GreatestNatural ==
  ASSUME NEW n \in Nat, NEW S, S \subseteq 0 .. n, S # {}
  PROVE  \E m \in S : \A k \in S : k <= m
<1> DEFINE T == {d \in 0 .. n : n - d \in S}
<1>1. PICK x \in S : TRUE
  OBVIOUS
<1>2. x \in 0 .. n
  OBVIOUS
<1>3. n - x \in T
  <2>1. n - (n - x) = x /\ n - x \in 0 .. n
    BY <1>2
  <2> QED BY <2>1
<1>4. T \subseteq Nat
  OBVIOUS
<1>5. PICK d \in T : \A k \in T : ~ (<<k, d>> \in OpToRel(<, Nat))
  <2> HIDE DEF T
  <2> QED BY <1>3, <1>4, WFMin, NatLessThanWellFounded
<1>6. \A k \in T : ~ (k < d)
  BY <1>4, <1>5 DEF OpToRel
<1>7. n - d \in S /\ d \in 0 .. n
  BY <1>5
<1>8. ASSUME NEW k \in S PROVE k <= n - d
  <2>1. k \in 0 .. n
    OBVIOUS
  <2>2. n - k \in T
    <3>1. n - (n - k) = k /\ n - k \in 0 .. n
      BY <2>1
    <3> QED BY <3>1
  <2>3. ~ (n - k < d)
    BY <1>6, <2>2
  <2> QED BY <1>7, <2>1, <2>3
<1> QED BY <1>7, <1>8

LEMMA RankType == \A l \in Locks : Rank[l] \in 0 .. 13
BY DEF Rank, Locks

----------------------------------------------------------------------------
(* Scripts *)

\* The step that a thread is at, and what is left after it.
LEMMA HeadOfRest ==
  ASSUME NEW s \in Seq(Steps), NEW k \in 1 .. Len(s) + 1, SubSeq(s, k, Len(s)) # <<>>
  PROVE  /\ k \in 1 .. Len(s)
         /\ Head(SubSeq(s, k, Len(s))) = s[k]
         /\ Tail(SubSeq(s, k, Len(s))) = SubSeq(s, k + 1, Len(s))
         /\ k + 1 \in 1 .. Len(s) + 1
<1>1. Len(s) \in Nat
  OBVIOUS
<1>2. k \in 1 .. Len(s)
  BY <1>1
<1> QED BY <1>1, <1>2

\* What is left when n steps are skipped.
LEMMA SkipOfRest ==
  ASSUME NEW s \in Seq(Steps), NEW k \in 1 .. Len(s), NEW n \in Nat, k + n <= Len(s)
  PROVE  SubSeq(SubSeq(s, k, Len(s)), n + 2, Len(SubSeq(s, k, Len(s)))) = SubSeq(s, k + 1 + n, Len(s))
<1>1. Len(s) \in Nat
  OBVIOUS
<1>2. PICK r : r = SubSeq(s, k, Len(s))
  OBVIOUS
<1>3. Len(r) = Len(s) - k + 1 /\ r \in Seq(Steps) /\ \A j \in 1 .. Len(r) : r[j] = s[k + j - 1]
  BY <1>1, <1>2
<1>4. PICK u : u = SubSeq(r, n + 2, Len(r))
  OBVIOUS
<1>5. PICK v : v = SubSeq(s, k + 1 + n, Len(s))
  OBVIOUS
<1>6. u \in Seq(Steps) /\ Len(u) = Len(s) - k - n /\ \A j \in 1 .. Len(u) : u[j] = r[n + 1 + j]
  <2>1. Len(r) \in Nat /\ n + 2 \in 1 .. Len(r) + 1 /\ Len(r) - (n + 2) + 1 = Len(s) - k - n
    BY <1>1, <1>3
  <2>2. r \in Seq(Steps)
    BY <1>3
  <2>3. u \in Seq(Steps) /\ Len(u) = Len(r) - (n + 2) + 1
    BY <1>4, <2>1, <2>2
  <2>4. \A j \in 1 .. Len(u) : u[j] = r[n + 1 + j]
    BY <1>4, <2>1, <2>2, <2>3
  <2> QED BY <2>1, <2>3, <2>4
<1>7. v \in Seq(Steps) /\ Len(v) = Len(s) - k - n /\ \A j \in 1 .. Len(v) : v[j] = s[k + n + j]
  BY <1>1, <1>5
<1>8. \A j \in 1 .. Len(u) : u[j] = v[j]
  <2> SUFFICES ASSUME NEW j \in 1 .. Len(u) PROVE u[j] = v[j]
    OBVIOUS
  <2>1. n + 1 + j \in 1 .. Len(r) /\ k + (n + 1 + j) - 1 = k + n + j
    BY <1>1, <1>3, <1>6
  <2>2. u[j] = s[k + (n + 1 + j) - 1]
    BY <1>3, <1>6, <2>1
  <2>3. v[j] = s[k + n + j]
    BY <1>6, <1>7
  <2> QED BY <2>1, <2>2, <2>3
<1>9. u = v
  BY <1>6, <1>7, <1>8, SeqEqual
<1> QED BY <1>2, <1>4, <1>5, <1>9

\* A step that does not unlock l leaves l with who had it.
LEMMA HeldAtGrows ==
  ASSUME NEW s \in Seq(Steps), NEW k \in 1 .. Len(s), NEW l \in HeldAt(s, k),
         s[k] # [op |-> "unlock", lock |-> l]
  PROVE  l \in HeldAt(s, k + 1)
<1>1. PICK j \in 1 .. k - 1 :
        /\ s[j] = [op |-> "lock", lock |-> l]
        /\ \A m \in j + 1 .. k - 1 : s[m] # [op |-> "unlock", lock |-> l]
  BY DEF HeldAt
<1>2. j \in 1 .. (k + 1) - 1 /\ l \in Locks
  BY DEF HeldAt
<1>3. \A m \in j + 1 .. (k + 1) - 1 : m = k \/ m \in j + 1 .. k - 1
  OBVIOUS
<1>4. \A m \in j + 1 .. (k + 1) - 1 : s[m] # [op |-> "unlock", lock |-> l]
  BY <1>1, <1>3
<1> QED BY <1>1, <1>2, <1>4 DEF HeldAt

\* A step that locks l has it afterwards.
LEMMA HeldAtLock ==
  ASSUME NEW s \in Seq(Steps), NEW k \in 1 .. Len(s), NEW l \in Locks,
         s[k] = [op |-> "lock", lock |-> l]
  PROVE  l \in HeldAt(s, k + 1)
<1>1. k \in 1 .. (k + 1) - 1 /\ \A m \in k + 1 .. (k + 1) - 1 : FALSE
  OBVIOUS
<1> QED BY <1>1 DEF HeldAt

LEMMA HeldAtStart ==
  ASSUME NEW s
  PROVE  HeldAt(s, 1) = {}
BY DEF HeldAt

\* The steps by what they do.
LEMMA StepKinds ==
  ASSUME NEW x \in Steps
  PROVE  /\ x.op = "lock" => x.lock \in Locks /\ x = [op |-> "lock", lock |-> x.lock]
         /\ x.op = "unlock" => x.lock \in Locks /\ x = [op |-> "unlock", lock |-> x.lock]
         /\ x.op = "may" => x.skip \in Nat
         /\ x.op # "unlock" => \A l : x # [op |-> "unlock", lock |-> l]
BY DEF Steps

----------------------------------------------------------------------------
(* The invariant *)

Has(t) == {l \in Locks : held[l] = t}

\* A thread is somewhere in a script and has at most what it may have there.
InScript(t) ==
  \E s \in Scripts \cup {<<>>} : \E k \in 1 .. Len(s) + 1 :
    /\ todo[t] = SubSeq(s, k, Len(s))
    /\ Has(t) \subseteq HeldAt(s, k)

LocksInvariant ==
  /\ held \in [Locks -> Threads \cup {Free}]
  /\ DOMAIN todo = Threads
  /\ \A t \in Threads : InScript(t)

\* The step of a script that a thread is at.
LEMMA ThreadIsAtStep ==
  ASSUME LockOrderKept, LocksInvariant, NEW t \in Threads, todo[t] # <<>>
  PROVE  \E s \in Scripts : \E k \in 1 .. Len(s) :
           /\ KeepsOrder(s) /\ s \in Seq(Steps) /\ s[k] \in Steps
           /\ todo[t] = SubSeq(s, k, Len(s))
           /\ Head(todo[t]) = s[k]
           /\ Tail(todo[t]) = SubSeq(s, k + 1, Len(s))
           /\ k + 1 \in 1 .. Len(s) + 1
           /\ Has(t) \subseteq HeldAt(s, k)
<1>1. PICK s \in Scripts \cup {<<>>} : \E k \in 1 .. Len(s) + 1 :
        /\ todo[t] = SubSeq(s, k, Len(s))
        /\ Has(t) \subseteq HeldAt(s, k)
  BY DEF LocksInvariant, InScript
<1>2. PICK k \in 1 .. Len(s) + 1 :
        /\ todo[t] = SubSeq(s, k, Len(s))
        /\ Has(t) \subseteq HeldAt(s, k)
  BY <1>1
<1>3. s # <<>>
  <2>1. CASE s = <<>>
    <3>1. k = 1
      BY <2>1
    <3>2. todo[t] = <<>>
      BY <1>2, <2>1, <3>1
    <3> QED BY <3>2
  <2> QED BY <2>1
<1>4. s \in Scripts /\ KeepsOrder(s) /\ s \in Seq(Steps)
  BY <1>3 DEF LockOrderKept, KeepsOrder
<1>5. k \in 1 .. Len(s) /\ Head(todo[t]) = s[k] /\ Tail(todo[t]) = SubSeq(s, k + 1, Len(s))
        /\ k + 1 \in 1 .. Len(s) + 1
  BY <1>2, <1>4, HeadOfRest
<1>6. s[k] \in Steps
  BY <1>4, <1>5
<1> QED BY <1>2, <1>4, <1>5, <1>6

\* A thread that does not move and gets nothing stays in its script.
LEMMA OthersStay ==
  ASSUME NEW u, InScript(u), todo'[u] = todo[u], Has(u)' \subseteq Has(u)
  PROVE  InScript(u)'
<1>1. PICK s \in Scripts \cup {<<>>} : \E k \in 1 .. Len(s) + 1 :
        /\ todo[u] = SubSeq(s, k, Len(s))
        /\ Has(u) \subseteq HeldAt(s, k)
  BY DEF InScript
<1>2. PICK k \in 1 .. Len(s) + 1 :
        /\ todo[u] = SubSeq(s, k, Len(s))
        /\ Has(u) \subseteq HeldAt(s, k)
  BY <1>1
<1>3. todo'[u] = SubSeq(s, k, Len(s)) /\ Has(u)' \subseteq HeldAt(s, k)
  BY <1>2
<1> QED BY <1>3 DEF InScript

\* A thread that comes to step k of a script with no more than it may have there
\* is in it.
LEMMA ComesToStep ==
  ASSUME NEW u, NEW s \in Scripts, NEW k \in 1 .. Len(s) + 1,
         todo'[u] = SubSeq(s, k, Len(s)), Has(u)' \subseteq HeldAt(s, k)
  PROVE  InScript(u)'
BY DEF InScript

\* A thread that has nothing left to do has nothing.
LEMMA IdleHasNothing ==
  ASSUME LockOrderKept, LocksInvariant, NEW t \in Threads, todo[t] = <<>>
  PROVE  Has(t) = {}
<1>1. PICK s \in Scripts \cup {<<>>} : \E k \in 1 .. Len(s) + 1 :
        /\ todo[t] = SubSeq(s, k, Len(s))
        /\ Has(t) \subseteq HeldAt(s, k)
  BY DEF LocksInvariant, InScript
<1>2. PICK k \in 1 .. Len(s) + 1 :
        /\ todo[t] = SubSeq(s, k, Len(s))
        /\ Has(t) \subseteq HeldAt(s, k)
  BY <1>1
<1>3. CASE s \in Scripts
  <2>1. KeepsOrder(s) /\ s \in Seq(Steps) /\ Len(s) \in Nat
    BY <1>3 DEF LockOrderKept, KeepsOrder
  <2>2. k = Len(s) + 1
    <3>1. Len(SubSeq(s, k, Len(s))) = IF k <= Len(s) THEN Len(s) - k + 1 ELSE 0
      BY <2>1
    <3>2. Len(SubSeq(s, k, Len(s))) = 0
      BY <1>2
    <3> QED BY <2>1, <3>1, <3>2
  <2> QED BY <1>2, <2>1, <2>2 DEF KeepsOrder
<1>4. CASE s = <<>>
  <2>1. k = 1
    BY <1>4
  <2> QED BY <1>2, <2>1, HeldAtStart
<1> QED BY <1>3, <1>4

\* A call or an iteration begins.
LEMMA BeginKeepsInvariant ==
  ASSUME LockOrderKept, LocksInvariant, NEW t \in Threads, todo[t] = <<>>, NEW s \in Scripts,
         todo' = [todo EXCEPT ![t] = s], held' = held
  PROVE  LocksInvariant'
<1>1. s \in Seq(Steps) /\ Len(s) \in Nat
  BY DEF LockOrderKept, KeepsOrder
<1>2. s = SubSeq(s, 1, Len(s)) /\ 1 \in 1 .. Len(s) + 1
  BY <1>1
<1>3. todo'[t] = s /\ DOMAIN todo' = Threads /\ \A u \in Threads : u # t => todo'[u] = todo[u]
  BY DEF LocksInvariant
<1>4. \A u : Has(u)' = Has(u)
  BY DEF Has
<1>5. InScript(t)'
  <2>1. Has(t)' \subseteq HeldAt(s, 1)
    BY <1>4, IdleHasNothing
  <2> QED BY <1>2, <1>3, <2>1, ComesToStep
<1>6. ASSUME NEW u \in Threads, u # t PROVE InScript(u)'
  BY <1>3, <1>4, <1>6, OthersStay DEF LocksInvariant
<1> QED BY <1>3, <1>5, <1>6 DEF LocksInvariant

\* A thread that goes on in its script, and gets nothing that it may not have
\* there, keeps the invariant.
LEMMA GoingOnKeepsInvariant ==
  ASSUME LocksInvariant, NEW t \in Threads, NEW s \in Scripts, NEW k \in 1 .. Len(s) + 1,
         todo' = [todo EXCEPT ![t] = SubSeq(s, k, Len(s))],
         held' \in [Locks -> Threads \cup {Free}],
         Has(t)' \subseteq HeldAt(s, k),
         \A u \in Threads : u # t => Has(u)' \subseteq Has(u)
  PROVE  LocksInvariant'
<1>1. /\ todo'[t] = SubSeq(s, k, Len(s)) /\ DOMAIN todo' = Threads
      /\ \A u \in Threads : u # t => todo'[u] = todo[u]
  BY DEF LocksInvariant
<1>2. InScript(t)'
  BY <1>1, ComesToStep
<1>3. ASSUME NEW u \in Threads, u # t PROVE InScript(u)'
  BY <1>1, <1>3, OthersStay DEF LocksInvariant
<1> QED BY <1>1, <1>2, <1>3 DEF LocksInvariant

LEMMA StepKeepsInvariant ==
  ASSUME LockOrderKept, LocksInvariant, AppLocksAssumption, NEW t \in Threads, Step(t)
  PROVE  LocksInvariant'
<1>1. todo[t] # <<>>
  BY DEF Step, Lock, Unlock, ReturnEarly, GoOn, Skip, Recv, At
<1>2. PICK s \in Scripts : \E k \in 1 .. Len(s) :
        /\ KeepsOrder(s) /\ s \in Seq(Steps) /\ s[k] \in Steps
        /\ todo[t] = SubSeq(s, k, Len(s))
        /\ Head(todo[t]) = s[k]
        /\ Tail(todo[t]) = SubSeq(s, k + 1, Len(s))
        /\ k + 1 \in 1 .. Len(s) + 1
        /\ Has(t) \subseteq HeldAt(s, k)
  BY <1>1, ThreadIsAtStep
<1>3. PICK k \in 1 .. Len(s) :
        /\ KeepsOrder(s) /\ s \in Seq(Steps) /\ s[k] \in Steps
        /\ todo[t] = SubSeq(s, k, Len(s))
        /\ Head(todo[t]) = s[k]
        /\ Tail(todo[t]) = SubSeq(s, k + 1, Len(s))
        /\ k + 1 \in 1 .. Len(s) + 1
        /\ Has(t) \subseteq HeldAt(s, k)
  BY <1>2
<1>4. held \in [Locks -> Threads \cup {Free}] /\ DOMAIN todo = Threads
  BY DEF LocksInvariant
<1>5. Free \notin Threads
  BY DEF AppLocksAssumption, Threads
<1>6. Advance(t) => todo' = [todo EXCEPT ![t] = SubSeq(s, k + 1, Len(s))]
  BY <1>3 DEF Advance
<1>7. CASE Lock(t)
  <2>1. PICK l : l = s[k].lock
    OBVIOUS
  <2>2. l \in Locks /\ s[k] = [op |-> "lock", lock |-> l] /\ s[k].op # "unlock"
    BY <1>3, <1>7, <2>1, StepKinds DEF Lock, At
  <2>3. held' = [held EXCEPT ![l] = t]
    BY <1>3, <1>7, <2>1 DEF Lock
  <2>4. held' \in [Locks -> Threads \cup {Free}]
    BY <1>4, <2>2, <2>3
  <2>5. \A m \in Locks : m # l => held'[m] = held[m]
    BY <1>4, <2>3
  <2>6. Has(t)' \subseteq Has(t) \cup {l}
    BY <2>5 DEF Has
  <2>7. ASSUME NEW m \in Has(t) PROVE m \in HeldAt(s, k + 1)
    <3>1. s[k] # [op |-> "unlock", lock |-> m]
      BY <1>3, <2>2, StepKinds
    <3> QED BY <1>3, <3>1, HeldAtGrows
  <2>8. l \in HeldAt(s, k + 1)
    BY <1>3, <2>2, HeldAtLock
  <2>9. \A u \in Threads : u # t => Has(u)' \subseteq Has(u)
    BY <1>4, <2>2, <2>3 DEF Has
  <2>10. Has(t)' \subseteq HeldAt(s, k + 1)
    BY <2>6, <2>7, <2>8
  <2>11. todo' = [todo EXCEPT ![t] = SubSeq(s, k + 1, Len(s))]
    BY <1>6, <1>7 DEF Lock
  <2> QED BY <1>3, <2>4, <2>9, <2>10, <2>11, GoingOnKeepsInvariant
<1>8. CASE Unlock(t)
  <2>1. PICK l : l = s[k].lock
    OBVIOUS
  <2>2. l \in Locks /\ s[k] = [op |-> "unlock", lock |-> l]
    BY <1>3, <1>8, <2>1, StepKinds DEF Unlock, At
  <2>3. held' = [held EXCEPT ![l] = Free]
    BY <1>3, <1>8, <2>1 DEF Unlock
  <2>4. held' \in [Locks -> Threads \cup {Free}]
    BY <1>4, <2>2, <2>3
  <2>5. \A u \in Threads : Has(u)' \subseteq Has(u) \ {l}
    BY <1>4, <1>5, <2>2, <2>3 DEF Has
  <2>6. ASSUME NEW m \in Has(t)' PROVE m \in HeldAt(s, k + 1)
    <3>1. m \in HeldAt(s, k) /\ m # l
      BY <1>3, <2>5
    <3>2. s[k] # [op |-> "unlock", lock |-> m]
      BY <2>2, <3>1
    <3> QED BY <1>3, <3>1, <3>2, HeldAtGrows
  <2>7. todo' = [todo EXCEPT ![t] = SubSeq(s, k + 1, Len(s))]
    BY <1>6, <1>8 DEF Unlock
  <2>8. Has(t)' \subseteq HeldAt(s, k + 1)
    BY <2>6
  <2>9. \A u \in Threads : u # t => Has(u)' \subseteq Has(u)
    BY <2>5
  <2> QED BY <1>3, <2>4, <2>7, <2>8, <2>9, GoingOnKeepsInvariant
<1>9. CASE ReturnEarly(t)
  <2>1. held' = [l \in Locks |-> IF held[l] = t THEN Free ELSE held[l]]
    BY <1>9 DEF ReturnEarly
  <2>2. held' \in [Locks -> Threads \cup {Free}]
    BY <1>4, <2>1
  <2>3. Has(t)' = {}
    BY <1>5, <2>1 DEF Has
  <2>4. \A u \in Threads : u # t => Has(u)' \subseteq Has(u)
    BY <1>5, <2>1 DEF Has
  <2>5. SubSeq(s, Len(s) + 1, Len(s)) = <<>> /\ Len(s) + 1 \in 1 .. Len(s) + 1
    BY <1>3
  <2>6. todo' = [todo EXCEPT ![t] = SubSeq(s, Len(s) + 1, Len(s))]
    BY <1>9, <2>5 DEF ReturnEarly
  <2> QED BY <2>2, <2>3, <2>4, <2>5, <2>6, GoingOnKeepsInvariant
<1>10. CASE GoOn(t) \/ Recv(t)
  <2>1. s[k].op # "unlock" /\ held' = held
    BY <1>3, <1>10 DEF GoOn, Recv, At
  <2>2. \A u : Has(u)' = Has(u)
    BY <2>1 DEF Has
  <2>3. ASSUME NEW m \in Has(t)' PROVE m \in HeldAt(s, k + 1)
    <3>1. m \in HeldAt(s, k)
      BY <1>3, <2>2
    <3>2. s[k] # [op |-> "unlock", lock |-> m]
      BY <1>3, <2>1, StepKinds
    <3> QED BY <1>3, <3>1, <3>2, HeldAtGrows
  <2>4. todo' = [todo EXCEPT ![t] = SubSeq(s, k + 1, Len(s))]
    BY <1>6, <1>10 DEF GoOn, Recv
  <2>5. Has(t)' \subseteq HeldAt(s, k + 1)
    BY <2>3
  <2>6. held' \in [Locks -> Threads \cup {Free}]
    BY <1>4, <2>1
  <2>7. \A u \in Threads : u # t => Has(u)' \subseteq Has(u)
    BY <2>2
  <2> QED BY <1>3, <2>4, <2>5, <2>6, <2>7, GoingOnKeepsInvariant
<1>11. CASE Skip(t)
  <2>1. PICK n : n = s[k].skip
    OBVIOUS
  <2>2. s[k].op = "may"
    BY <1>3, <1>11 DEF Skip, At
  <2>3. n \in Nat /\ k + n <= Len(s) /\ HeldAt(s, k) \subseteq HeldAt(s, k + 1 + n)
    BY <1>3, <2>1, <2>2, StepKinds DEF KeepsOrder
  <2>4. k + 1 + n \in 1 .. Len(s) + 1
    BY <1>3, <2>3
  <2>5. todo' = [todo EXCEPT ![t] = SubSeq(todo[t], n + 2, Len(todo[t]))]
    BY <1>3, <1>11, <2>1 DEF Skip
  <2>6. todo' = [todo EXCEPT ![t] = SubSeq(s, k + 1 + n, Len(s))]
    <3>1. SubSeq(todo[t], n + 2, Len(todo[t])) = SubSeq(s, k + 1 + n, Len(s))
      BY <1>3, <2>3, SkipOfRest, Zenon
    <3> QED BY <2>5, <3>1
  <2>7. held' = held
    BY <1>11 DEF Skip
  <2>8. \A u : Has(u)' = Has(u)
    BY <2>7 DEF Has
  <2>9. Has(t)' \subseteq HeldAt(s, k + 1 + n)
    BY <1>3, <2>3, <2>8
  <2>10. held' \in [Locks -> Threads \cup {Free}] /\ \A u \in Threads : u # t => Has(u)' \subseteq Has(u)
    BY <1>4, <2>7, <2>8
  <2> QED BY <2>4, <2>6, <2>9, <2>10, GoingOnKeepsInvariant
<1> QED BY <1>7, <1>8, <1>9, <1>10, <1>11 DEF Step

LEMMA NextKeepsInvariant ==
  ASSUME LockOrderKept, LocksInvariant, [Next]_vars
  PROVE  LocksInvariant'
<1>1. ASSUME NEW t \in Workers, Call(t) PROVE LocksInvariant'
  <2>1. PICK c \in Calls : todo' = [todo EXCEPT ![t] = Script[c]]
    BY <1>1 DEF Call
  <2>2. Script[c] \in Scripts /\ t \in Threads /\ todo[t] = <<>> /\ held' = held
    BY <1>1 DEF Scripts, Threads, Call
  <2> QED BY <2>1, <2>2, BeginKeepsInvariant
<1>2. ASSUME Iterate PROVE LocksInvariant'
  <2>1. PICK i \in Iterations : todo' = [todo EXCEPT ![Loop] = LoopScript[i]]
    BY <1>2 DEF Iterate
  <2>2. LoopScript[i] \in Scripts /\ Loop \in Threads /\ todo[Loop] = <<>> /\ held' = held
    BY <1>2 DEF Scripts, Threads, Iterate
  <2> QED BY <2>1, <2>2, BeginKeepsInvariant
<1>3. CASE UNCHANGED vars
  <2>1. todo' = todo /\ held' = held /\ \A u : Has(u)' = Has(u)
    BY <1>3 DEF vars, Has
  <2>2. \A u \in Threads : InScript(u)'
    BY <2>1, OthersStay DEF LocksInvariant
  <2> QED BY <2>1, <2>2 DEF LocksInvariant
<1> QED BY <1>1, <1>2, <1>3, StepKeepsInvariant, AppLocksAssumption DEF Next

LEMMA InitHasNothing ==
  ASSUME Init
  PROVE  LocksInvariant
<1>1. \A t \in Threads : Has(t) = {} /\ todo[t] = <<>>
  BY AppLocksAssumption DEF Init, Has, Threads
<1>2. \A t \in Threads : InScript(t)
  <2>1. SubSeq(<<>>, 1, Len(<<>>)) = <<>> /\ 1 \in 1 .. Len(<<>>) + 1
    OBVIOUS
  <2> QED BY <1>1, <2>1 DEF InScript
<1> QED BY <1>2 DEF Init, LocksInvariant

\* What a thread waits for ranks above all that it has.
LEMMA WaitsUpwards ==
  ASSUME LockOrderKept, LocksInvariant, NEW t \in Threads, Blocked(t)
  PROVE  /\ Head(todo[t]).lock \in Locks
         /\ \A l \in Has(t) : Rank[l] < Rank[Head(todo[t]).lock]
<1>1. todo[t] # <<>> /\ Head(todo[t]).op = "lock"
  BY DEF Blocked, At
<1>2. PICK s \in Scripts : \E k \in 1 .. Len(s) :
        /\ KeepsOrder(s) /\ s[k] \in Steps /\ Head(todo[t]) = s[k]
        /\ Has(t) \subseteq HeldAt(s, k)
  BY <1>1, ThreadIsAtStep
<1>3. PICK k \in 1 .. Len(s) :
        /\ KeepsOrder(s) /\ s[k] \in Steps /\ Head(todo[t]) = s[k]
        /\ Has(t) \subseteq HeldAt(s, k)
  BY <1>2
<1>4. Head(todo[t]).lock \in Locks
  BY <1>1, <1>3, StepKinds
<1>5. \A l \in HeldAt(s, k) : Rank[l] < Rank[s[k].lock]
  BY <1>1, <1>3 DEF KeepsOrder
<1> QED BY <1>3, <1>4, <1>5

LEMMA OrderPreventsCycles ==
  ASSUME LockOrderKept, LocksInvariant
  PROVE  NoCircularWait
<1>1. SUFFICES ASSUME NEW S \in (SUBSET Threads) \ {{}},
                      \A t \in S : Blocked(t) /\ held[Head(todo[t]).lock] \in S
               PROVE  FALSE
  BY DEF NoCircularWait
<1> DEFINE need(t) == Head(todo[t]).lock
           R == {Rank[need(t)] : t \in S}
<1>2. \A t \in S : t \in Threads /\ need(t) \in Locks
  BY <1>1, WaitsUpwards
<1>3. R \subseteq 0 .. 13 /\ R # {}
  <2>1. \A t \in S : Rank[need(t)] \in 0 .. 13
    BY <1>2, RankType
  <2>2. PICK t \in S : TRUE
    BY <1>1
  <2>3. Rank[need(t)] \in R
    OBVIOUS
  <2> QED BY <2>1, <2>3
<1>4. PICK r \in R : \A x \in R : x <= r
  <2> HIDE DEF R
  <2> QED BY <1>3, GreatestNatural
<1>5. PICK t \in S : r = Rank[need(t)]
  BY <1>4
<1>6. PICK u : u = held[need(t)]
  OBVIOUS
<1>7. u \in S /\ need(t) \in Has(u)
  BY <1>1, <1>2, <1>5, <1>6 DEF Has
<1>8. Rank[need(t)] < Rank[need(u)]
  BY <1>1, <1>2, <1>7, WaitsUpwards
<1>9. Rank[need(u)] \in R
  BY <1>7
<1>10. Rank[need(t)] \in 0 .. 13 /\ Rank[need(u)] \in 0 .. 13
  BY <1>2, <1>5, <1>7, RankType
<1> HIDE DEF R, need
<1> QED BY <1>4, <1>5, <1>8, <1>9, <1>10

----------------------------------------------------------------------------
(* Scripts that keep the order, from the parts they are made of *)

\* What a thread may have at step k of the script s if it had H at the start.
HeldFrom(H, s, k) ==
  {l \in Locks : \/ l \in HeldAt(s, k)
                 \/ l \in H /\ \A m \in 1 .. k - 1 : s[m] # [op |-> "unlock", lock |-> l]}

\* Whoever runs s with H locks in the order of the ranks and has G in the end.
Keeps(H, s, G) ==
  /\ s \in Seq(Steps)
  /\ \A k \in 1 .. Len(s) :
       /\ s[k].op = "lock" => \A l \in HeldFrom(H, s, k) : Rank[l] < Rank[s[k].lock]
       /\ s[k].op = "may" =>
            /\ k + s[k].skip <= Len(s)
            /\ HeldFrom(H, s, k) \subseteq HeldFrom(H, s, k + 1 + s[k].skip)
  /\ HeldFrom(H, s, Len(s) + 1) = G

LEMMA ConcatIndices ==
  ASSUME NEW s \in Seq(Steps), NEW t \in Seq(Steps)
  PROVE  /\ s \o t \in Seq(Steps) /\ Len(s \o t) = Len(s) + Len(t)
         /\ \A i \in 1 .. Len(s) : (s \o t)[i] = s[i]
         /\ \A i \in 1 .. Len(t) : (s \o t)[Len(s) + i] = t[i]
         /\ \A i \in Len(s) + 1 .. Len(s) + Len(t) : (s \o t)[i] = t[i - Len(s)] /\ i - Len(s) \in 1 .. Len(t)
         /\ Len(s) \in Nat /\ Len(t) \in Nat
OBVIOUS

LEMMA HeldInPrefix ==
  ASSUME NEW s \in Seq(Steps), NEW t \in Seq(Steps), NEW H, NEW k \in 1 .. Len(s) + 1
  PROVE  HeldFrom(H, s \o t, k) = HeldFrom(H, s, k)
<1>1. PICK u : u = s \o t
  OBVIOUS
<1>2. Len(s) \in Nat /\ \A i \in 1 .. k - 1 : u[i] = s[i]
  BY <1>1, ConcatIndices
<1>3. HeldAt(u, k) = HeldAt(s, k)
  <2>1. \A j \in 1 .. k - 1 : \A m \in j + 1 .. k - 1 : u[m] = s[m]
    BY <1>2
  <2> QED BY <1>2, <2>1 DEF HeldAt
<1>4. HeldFrom(H, u, k) = HeldFrom(H, s, k)
  BY <1>2, <1>3 DEF HeldFrom
<1> QED BY <1>1, <1>4

LEMMA HeldInSuffix ==
  ASSUME NEW s \in Seq(Steps), NEW t \in Seq(Steps), NEW H, NEW k \in 1 .. Len(t) + 1
  PROVE  HeldFrom(H, s \o t, Len(s) + k) = HeldFrom(HeldFrom(H, s, Len(s) + 1), t, k)
<1>1. PICK u : u = s \o t
  OBVIOUS
<1>2. PICK n : n = Len(s)
  OBVIOUS
<1>3. /\ n \in Nat /\ Len(t) \in Nat
      /\ \A i \in 1 .. n : u[i] = s[i]
      /\ \A i \in 1 .. Len(t) : u[n + i] = t[i]
      /\ \A i \in n + 1 .. n + Len(t) : u[i] = t[i - n] /\ i - n \in 1 .. Len(t)
  BY <1>1, <1>2, ConcatIndices
<1> DEFINE L == HeldFrom(H, u, n + k)
           M == HeldFrom(H, s, n + 1)
           R == HeldFrom(M, t, k)
           U(l) == [op |-> "unlock", lock |-> l]
           A(l) == [op |-> "lock", lock |-> l]
<1>4. \A m \in 1 .. k - 1 : n + m \in n + 1 .. (n + k) - 1 /\ u[n + m] = t[m]
  BY <1>3
<1>5. ASSUME NEW l \in L PROVE l \in R
  <2>1. l \in Locks
    BY DEF HeldFrom
  <2>2. \A i \in 1 .. n + 1 :
          (\A m \in i .. (n + k) - 1 : u[m] # U(l)) => \A m \in 1 .. k - 1 : t[m] # U(l)
    <3>1. \A i \in 1 .. n + 1 : \A m \in 1 .. k - 1 : n + m \in i .. (n + k) - 1
      BY <1>3
    <3> HIDE DEF U
    <3> QED BY <1>4, <3>1
  <2>3. CASE l \in H /\ \A m \in 1 .. (n + k) - 1 : u[m] # U(l)
    <3>1. \A m \in 1 .. (n + 1) - 1 : s[m] # U(l)
      BY <1>3, <2>3
    <3>2. l \in M
      BY <2>1, <2>3, <3>1 DEF HeldFrom
    <3>3. \A m \in 1 .. k - 1 : t[m] # U(l)
      <4>1. 1 \in 1 .. n + 1
        BY <1>3
      <4> HIDE DEF U
      <4> QED BY <2>2, <2>3, <4>1
    <3> QED BY <2>1, <3>2, <3>3 DEF HeldFrom
  <2>4. CASE l \in HeldAt(u, n + k)
    <3>1. PICK j \in 1 .. (n + k) - 1 :
            u[j] = A(l) /\ \A m \in j + 1 .. (n + k) - 1 : u[m] # U(l)
      BY <2>4 DEF HeldAt
    <3>2. CASE j <= n
      <4>1. j \in 1 .. (n + 1) - 1 /\ s[j] = A(l) /\ \A m \in j + 1 .. (n + 1) - 1 : s[m] # U(l)
        <5>1. j \in 1 .. n /\ u[j] = s[j]
          BY <1>3, <3>2
        <5>2. \A m \in j + 1 .. (n + 1) - 1 : m \in j + 1 .. (n + k) - 1 /\ u[m] = s[m]
          BY <1>3, <3>2
        <5> HIDE DEF U, A
        <5> QED BY <1>3, <3>1, <5>1, <5>2
      <4>2. l \in M
        BY <2>1, <4>1 DEF HeldFrom, HeldAt
      <4>3. \A m \in 1 .. k - 1 : t[m] # U(l)
        <5>1. j + 1 \in 1 .. n + 1
          BY <1>3, <3>2
        <5> HIDE DEF U
        <5> QED BY <2>2, <3>1, <5>1
      <4> QED BY <2>1, <4>2, <4>3 DEF HeldFrom
    <3>3. CASE j > n
      <4>1. j - n \in 1 .. k - 1 /\ t[j - n] = A(l)
        BY <1>3, <3>1, <3>3
      <4>2. \A m \in (j - n) + 1 .. k - 1 : n + m \in j + 1 .. (n + k) - 1 /\ u[n + m] = t[m]
        BY <1>3, <3>1, <3>3
      <4>3. \A m \in (j - n) + 1 .. k - 1 : t[m] # U(l)
        BY <3>1, <4>2
      <4> QED BY <2>1, <4>1, <4>3 DEF HeldFrom, HeldAt
    <3> QED BY <1>3, <3>2, <3>3
  <2> QED BY <2>3, <2>4 DEF HeldFrom
<1>6. ASSUME NEW l \in R PROVE l \in L
  <2>1. l \in Locks
    BY DEF HeldFrom
  <2>2. CASE l \in HeldAt(t, k)
    <3>1. PICK j \in 1 .. k - 1 : t[j] = A(l) /\ \A m \in j + 1 .. k - 1 : t[m] # U(l)
      BY <2>2 DEF HeldAt
    <3>2. n + j \in 1 .. (n + k) - 1 /\ u[n + j] = A(l)
      <4>1. n + j \in 1 .. (n + k) - 1 /\ u[n + j] = t[j]
        BY <1>3, <1>4
      <4> QED BY <3>1, <4>1
    <3>3. \A m \in (n + j) + 1 .. (n + k) - 1 : m - n \in j + 1 .. k - 1 /\ u[m] = t[m - n]
      <4>1. \A m \in (n + j) + 1 .. (n + k) - 1 : m - n \in j + 1 .. k - 1 /\ m - n \in 1 .. k - 1 /\ n + (m - n) = m
        BY <1>3
      <4> QED BY <1>4, <4>1
    <3>4. \A m \in (n + j) + 1 .. (n + k) - 1 : u[m] # U(l)
      BY <3>1, <3>3
    <3> QED BY <2>1, <3>2, <3>4 DEF HeldFrom, HeldAt
  <2>3. CASE l \in M /\ \A m \in 1 .. k - 1 : t[m] # U(l)
    <3>1. \A m \in n + 1 .. (n + k) - 1 : m - n \in 1 .. k - 1 /\ u[m] = t[m - n]
      BY <1>3
    <3>2. \A m \in n + 1 .. (n + k) - 1 : u[m] # U(l)
      BY <2>3, <3>1
    <3>3. CASE l \in H /\ \A m \in 1 .. (n + 1) - 1 : s[m] # U(l)
      <4>1. \A m \in 1 .. n : u[m] # U(l)
        BY <1>3, <3>3
      <4>2. \A m \in 1 .. (n + k) - 1 : m \in 1 .. n \/ m \in n + 1 .. (n + k) - 1
        BY <1>3
      <4> QED BY <2>1, <3>2, <3>3, <4>1, <4>2 DEF HeldFrom
    <3>4. CASE l \in HeldAt(s, n + 1)
      <4>1. PICK j \in 1 .. (n + 1) - 1 : s[j] = A(l) /\ \A m \in j + 1 .. (n + 1) - 1 : s[m] # U(l)
        BY <3>4 DEF HeldAt
      <4>2. j \in 1 .. (n + k) - 1 /\ u[j] = A(l)
        BY <1>3, <4>1
      <4>3. \A m \in j + 1 .. n : u[m] # U(l)
        BY <1>3, <4>1
      <4>4. \A m \in j + 1 .. (n + k) - 1 : m \in j + 1 .. n \/ m \in n + 1 .. (n + k) - 1
        BY <1>3
      <4>5. \A m \in j + 1 .. (n + k) - 1 : u[m] # U(l)
        BY <3>2, <4>3, <4>4
      <4> QED BY <2>1, <4>2, <4>5 DEF HeldFrom, HeldAt
    <3> QED BY <2>3, <3>3, <3>4 DEF HeldFrom
  <2> QED BY <2>2, <2>3 DEF HeldFrom
<1> QED BY <1>1, <1>2, <1>5, <1>6

\* One script after the other.
LEMMA KeepsConcat ==
  ASSUME NEW H, NEW G, NEW F, NEW s, NEW t, Keeps(H, s, G), Keeps(G, t, F)
  PROVE  Keeps(H, s \o t, F)
<1>1. PICK u : u = s \o t
  OBVIOUS
<1>2. PICK n : n = Len(s)
  OBVIOUS
<1>3. s \in Seq(Steps) /\ t \in Seq(Steps) /\ HeldFrom(H, s, n + 1) = G
  BY <1>2 DEF Keeps
<1>4. /\ u \in Seq(Steps) /\ n \in Nat /\ Len(t) \in Nat /\ Len(u) = n + Len(t)
      /\ \A i \in 1 .. n : u[i] = s[i]
      /\ \A i \in 1 .. Len(t) : u[n + i] = t[i]
  BY <1>1, <1>2, <1>3, ConcatIndices
<1>5. \A k \in 1 .. n + 1 : HeldFrom(H, u, k) = HeldFrom(H, s, k)
  BY <1>1, <1>2, <1>3, HeldInPrefix
<1>6. \A i \in 1 .. Len(t) + 1 : HeldFrom(H, u, n + i) = HeldFrom(G, t, i)
  BY <1>1, <1>2, <1>3, HeldInSuffix
<1>7. ASSUME NEW k \in 1 .. Len(u)
      PROVE  /\ u[k].op = "lock" => \A l \in HeldFrom(H, u, k) : Rank[l] < Rank[u[k].lock]
             /\ u[k].op = "may" =>
                  /\ k + u[k].skip <= Len(u)
                  /\ HeldFrom(H, u, k) \subseteq HeldFrom(H, u, k + 1 + u[k].skip)
  <2>1. CASE k \in 1 .. n
    <3>1. u[k] = s[k] /\ s[k] \in Steps /\ HeldFrom(H, u, k) = HeldFrom(H, s, k)
      BY <1>2, <1>3, <1>4, <1>5, <2>1
    <3>2. u[k].op = "lock" => \A l \in HeldFrom(H, u, k) : Rank[l] < Rank[u[k].lock]
      BY <1>2, <2>1, <3>1 DEF Keeps
    <3>3. ASSUME u[k].op = "may"
          PROVE  /\ k + u[k].skip <= Len(u)
                 /\ HeldFrom(H, u, k) \subseteq HeldFrom(H, u, k + 1 + u[k].skip)
      <4>1. PICK x : x = u[k].skip
        OBVIOUS
      <4>2. x \in Nat
        BY <3>1, <3>3, <4>1, StepKinds
      <4>3. k + x <= n /\ HeldFrom(H, s, k) \subseteq HeldFrom(H, s, k + 1 + x)
        BY <1>2, <2>1, <3>1, <3>3, <4>1 DEF Keeps
      <4>4. k + x <= Len(u) /\ k + 1 + x \in 1 .. n + 1
        BY <1>4, <2>1, <4>2, <4>3
      <4> QED BY <1>5, <3>1, <4>1, <4>3, <4>4
    <3> QED BY <3>2, <3>3
  <2>2. CASE k \notin 1 .. n
    <3>1. PICK i : i = k - n
      OBVIOUS
    <3>2. i \in 1 .. Len(t) /\ k = n + i /\ i \in 1 .. Len(t) + 1
      BY <1>4, <2>2, <3>1
    <3>3. u[k] = t[i] /\ t[i] \in Steps /\ HeldFrom(H, u, k) = HeldFrom(G, t, i)
      BY <1>3, <1>4, <1>6, <3>2
    <3>4. u[k].op = "lock" => \A l \in HeldFrom(H, u, k) : Rank[l] < Rank[u[k].lock]
      BY <3>2, <3>3 DEF Keeps
    <3>5. ASSUME u[k].op = "may"
          PROVE  /\ k + u[k].skip <= Len(u)
                 /\ HeldFrom(H, u, k) \subseteq HeldFrom(H, u, k + 1 + u[k].skip)
      <4>1. PICK x : x = u[k].skip
        OBVIOUS
      <4>2. x \in Nat
        BY <3>3, <3>5, <4>1, StepKinds
      <4>3. i + x <= Len(t) /\ HeldFrom(G, t, i) \subseteq HeldFrom(G, t, i + 1 + x)
        BY <3>2, <3>3, <3>5, <4>1 DEF Keeps
      <4>4. k + x <= Len(u) /\ i + 1 + x \in 1 .. Len(t) + 1 /\ n + (i + 1 + x) = k + 1 + x
        <5>1. n \in Nat /\ Len(t) \in Nat /\ Len(u) = n + Len(t) /\ i + x <= Len(t)
          BY <1>4, <4>3
        <5> QED BY <3>2, <4>2, <5>1
      <4>5. HeldFrom(H, u, k + 1 + x) = HeldFrom(G, t, i + 1 + x)
        BY <1>6, <4>4
      <4> QED BY <3>3, <4>1, <4>3, <4>4, <4>5
    <3> QED BY <3>4, <3>5
  <2> QED BY <2>1, <2>2
<1>8. HeldFrom(H, u, Len(u) + 1) = F
  <2>1. Len(u) + 1 = n + (Len(t) + 1) /\ Len(t) + 1 \in 1 .. Len(t) + 1
    BY <1>4
  <2>2. HeldFrom(G, t, Len(t) + 1) = F
    BY DEF Keeps
  <2> QED BY <1>6, <2>1, <2>2
<1>9. Keeps(H, u, F)
  BY <1>4, <1>7, <1>8 DEF Keeps
<1> QED BY <1>1, <1>9

\* What a script of one step does.
LEMMA OneStep ==
  ASSUME NEW x \in Steps, NEW H \in SUBSET Locks
  PROVE  LET s == <<x>>
         IN  /\ s \in Seq(Steps) /\ Len(s) = 1 /\ s[1] = x
             /\ HeldFrom(H, s, 1) = H
             /\ HeldFrom(H, s, 2) =
                  {l \in Locks : \/ x = [op |-> "lock", lock |-> l]
                                 \/ l \in H /\ x # [op |-> "unlock", lock |-> l]}
<1>1. PICK s : s = <<x>>
  OBVIOUS
<1>2. s \in Seq(Steps) /\ Len(s) = 1 /\ s[1] = x
  BY <1>1
<1>3. HeldFrom(H, s, 1) = H
  BY HeldAtStart DEF HeldFrom
<1>4. HeldAt(s, 2) = {l \in Locks : x = [op |-> "lock", lock |-> l]}
  BY <1>2 DEF HeldAt
<1>5. \A l : (\A m \in 1 .. 2 - 1 : s[m] # [op |-> "unlock", lock |-> l]) <=> x # [op |-> "unlock", lock |-> l]
  BY <1>2
<1>6. HeldFrom(H, s, 2) =
        {l \in Locks : \/ x = [op |-> "lock", lock |-> l]
                       \/ l \in H /\ x # [op |-> "unlock", lock |-> l]}
  BY <1>4, <1>5 DEF HeldFrom
<1> QED BY <1>1, <1>2, <1>3, <1>6

LEMMA KeepsLock ==
  ASSUME NEW H \in SUBSET Locks, NEW l \in Locks, \A x \in H : Rank[x] < Rank[l]
  PROVE  Keeps(H, LockStep(l), H \cup {l})
<1>1. PICK x : x = [op |-> "lock", lock |-> l]
  OBVIOUS
<1>2. x \in Steps /\ x.op = "lock" /\ x.lock = l /\ LockStep(l) = <<x>>
  BY <1>1 DEF Steps, LockStep
<1>3. PICK s : s = <<x>>
  OBVIOUS
<1>4. /\ s \in Seq(Steps) /\ Len(s) = 1 /\ s[1] = x /\ HeldFrom(H, s, 1) = H
      /\ HeldFrom(H, s, 2) = {m \in Locks : \/ x = [op |-> "lock", lock |-> m]
                                            \/ m \in H /\ x # [op |-> "unlock", lock |-> m]}
  BY <1>2, <1>3, OneStep
<1>5. \A m : (x = [op |-> "lock", lock |-> m] <=> m = l) /\ x # [op |-> "unlock", lock |-> m]
  BY <1>1
<1>6. HeldFrom(H, s, 2) = H \cup {l}
  BY <1>4, <1>5
<1>7. Keeps(H, s, H \cup {l})
  BY <1>2, <1>4, <1>6 DEF Keeps
<1> QED BY <1>2, <1>3, <1>7

LEMMA KeepsUnlock ==
  ASSUME NEW H \in SUBSET Locks, NEW l \in Locks
  PROVE  Keeps(H, UnlockStep(l), H \ {l})
<1>1. PICK x : x = [op |-> "unlock", lock |-> l]
  OBVIOUS
<1>2. x \in Steps /\ x.op = "unlock" /\ UnlockStep(l) = <<x>>
  BY <1>1 DEF Steps, UnlockStep
<1>3. PICK s : s = <<x>>
  OBVIOUS
<1>4. /\ s \in Seq(Steps) /\ Len(s) = 1 /\ s[1] = x /\ HeldFrom(H, s, 1) = H
      /\ HeldFrom(H, s, 2) = {m \in Locks : \/ x = [op |-> "lock", lock |-> m]
                                            \/ m \in H /\ x # [op |-> "unlock", lock |-> m]}
  BY <1>2, <1>3, OneStep
<1>5. \A m : (x = [op |-> "unlock", lock |-> m] <=> m = l) /\ x # [op |-> "lock", lock |-> m]
  BY <1>1
<1>6. HeldFrom(H, s, 2) = H \ {l}
  BY <1>4, <1>5
<1>7. Keeps(H, s, H \ {l})
  BY <1>2, <1>4, <1>6 DEF Keeps
<1> QED BY <1>2, <1>3, <1>7

\* An early return, while it is not taken, and a wait leave the locks alone.
LEMMA KeepsOther ==
  ASSUME NEW H \in SUBSET Locks, NEW x \in [op : {"try", "wait"}]
  PROVE  Keeps(H, <<x>>, H)
<1>1. x \in Steps /\ x.op \in {"try", "wait"}
  BY DEF Steps
<1>2. PICK s : s = <<x>>
  OBVIOUS
<1>3. /\ s \in Seq(Steps) /\ Len(s) = 1 /\ s[1] = x /\ HeldFrom(H, s, 1) = H
      /\ HeldFrom(H, s, 2) = {m \in Locks : \/ x = [op |-> "lock", lock |-> m]
                                            \/ m \in H /\ x # [op |-> "unlock", lock |-> m]}
  BY <1>1, <1>2, OneStep
<1>4. \A m : x # [op |-> "unlock", lock |-> m] /\ x # [op |-> "lock", lock |-> m]
  BY <1>1
<1>5. HeldFrom(H, s, 2) = H
  BY <1>3, <1>4
<1>6. Keeps(H, s, H)
  BY <1>1, <1>3, <1>5 DEF Keeps
<1> QED BY <1>2, <1>6

LEMMA KeepsNothing ==
  ASSUME NEW H \in SUBSET Locks
  PROVE  Keeps(H, <<>>, H)
<1>1. HeldFrom(H, <<>>, 1) = H
  BY HeldAtStart DEF HeldFrom
<1> QED BY <1>1 DEF Keeps

\* A branch that leaves the locks as they were.
LEMMA KeepsMay ==
  ASSUME NEW H \in SUBSET Locks, NEW s, Keeps(H, s, H)
  PROVE  Keeps(H, May(s), H)
<1>1. s \in Seq(Steps) /\ Len(s) \in Nat
  BY DEF Keeps
<1>2. PICK x : x = [op |-> "may", skip |-> Len(s)]
  OBVIOUS
<1>3. x \in Steps /\ x.op = "may" /\ x.skip = Len(s)
  BY <1>1, <1>2 DEF Steps
<1>4. PICK p : p = <<x>>
  OBVIOUS
<1>5. /\ p \in Seq(Steps) /\ Len(p) = 1 /\ p[1] = x /\ HeldFrom(H, p, 1) = H
      /\ HeldFrom(H, p, 2) = {m \in Locks : \/ x = [op |-> "lock", lock |-> m]
                                            \/ m \in H /\ x # [op |-> "unlock", lock |-> m]}
  BY <1>3, <1>4, OneStep
<1>6. \A m : x # [op |-> "unlock", lock |-> m] /\ x # [op |-> "lock", lock |-> m]
  BY <1>2
<1>7. HeldFrom(H, p, Len(p) + 1) = H
  <2>1. Len(p) + 1 = 2
    BY <1>5
  <2>2. HeldFrom(H, p, 2) = H
    BY <1>5, <1>6
  <2> QED BY <2>1, <2>2
<1>8. PICK u : u = p \o s
  OBVIOUS
<1>9. /\ u \in Seq(Steps) /\ Len(u) = 1 + Len(s) /\ u[1] = x
      /\ \A i \in 1 .. Len(s) : u[1 + i] = s[i]
  <2>1. /\ u \in Seq(Steps) /\ Len(u) = Len(p) + Len(s)
        /\ \A i \in 1 .. Len(p) : u[i] = p[i]
        /\ \A i \in 1 .. Len(s) : u[Len(p) + i] = s[i]
    BY <1>1, <1>5, <1>8, ConcatIndices
  <2> QED BY <1>1, <1>5, <2>1
<1>10. HeldFrom(H, u, 1) = H
  BY <1>1, <1>5, <1>8, HeldInPrefix
<1>11. \A i \in 1 .. Len(s) + 1 : HeldFrom(H, u, 1 + i) = HeldFrom(H, s, i)
  <2>1. s \in Seq(Steps) /\ p \in Seq(Steps) /\ Len(p) = 1
    BY <1>1, <1>5
  <2> SUFFICES ASSUME NEW i \in 1 .. Len(s) + 1 PROVE HeldFrom(H, u, 1 + i) = HeldFrom(H, s, i)
    OBVIOUS
  <2>2. HeldFrom(H, p \o s, Len(p) + i) = HeldFrom(HeldFrom(H, p, Len(p) + 1), s, i)
    BY <2>1, HeldInSuffix, Zenon
  <2> QED BY <1>7, <1>8, <2>1, <2>2
<1>12. HeldFrom(H, s, Len(s) + 1) = H
  BY DEF Keeps
<1>13. HeldFrom(H, u, Len(u) + 1) = H
  <2>1. Len(u) + 1 = 1 + (Len(s) + 1) /\ Len(s) + 1 \in 1 .. Len(s) + 1
    BY <1>1, <1>9
  <2> QED BY <1>11, <1>12, <2>1
<1>14. ASSUME NEW k \in 1 .. Len(u)
       PROVE  /\ u[k].op = "lock" => \A l \in HeldFrom(H, u, k) : Rank[l] < Rank[u[k].lock]
              /\ u[k].op = "may" =>
                   /\ k + u[k].skip <= Len(u)
                   /\ HeldFrom(H, u, k) \subseteq HeldFrom(H, u, k + 1 + u[k].skip)
  <2>1. CASE k = 1
    <3>1. u[k] = x /\ k + u[k].skip = Len(u) /\ k + 1 + u[k].skip = Len(u) + 1
      BY <1>1, <1>3, <1>9, <2>1
    <3> QED BY <1>1, <1>3, <1>9, <1>10, <1>13, <2>1, <3>1
  <2>2. CASE k # 1
    <3>1. PICK i : i = k - 1
      OBVIOUS
    <3>2. i \in 1 .. Len(s) /\ k = 1 + i /\ i \in 1 .. Len(s) + 1
      BY <1>1, <1>9, <2>2, <3>1
    <3>3. u[k] = s[i] /\ s[i] \in Steps /\ HeldFrom(H, u, k) = HeldFrom(H, s, i)
      BY <1>1, <1>9, <1>11, <3>2
    <3>4. u[k].op = "lock" => \A l \in HeldFrom(H, u, k) : Rank[l] < Rank[u[k].lock]
      BY <3>2, <3>3 DEF Keeps
    <3>5. ASSUME u[k].op = "may"
          PROVE  /\ k + u[k].skip <= Len(u)
                 /\ HeldFrom(H, u, k) \subseteq HeldFrom(H, u, k + 1 + u[k].skip)
      <4>1. PICK y : y = u[k].skip
        OBVIOUS
      <4>2. y \in Nat
        BY <3>3, <3>5, <4>1, StepKinds
      <4>3. i + y <= Len(s) /\ HeldFrom(H, s, i) \subseteq HeldFrom(H, s, i + 1 + y)
        BY <3>2, <3>3, <3>5, <4>1 DEF Keeps
      <4>4. k + y <= Len(u) /\ i + 1 + y \in 1 .. Len(s) + 1 /\ 1 + (i + 1 + y) = k + 1 + y
        BY <1>1, <1>9, <3>2, <4>2, <4>3
      <4>5. HeldFrom(H, u, k + 1 + y) = HeldFrom(H, s, i + 1 + y)
        BY <1>11, <4>4
      <4> QED BY <3>3, <4>1, <4>3, <4>4, <4>5
    <3> QED BY <3>4, <3>5
  <2> QED BY <2>1, <2>2
<1>15. Keeps(H, u, H)
  BY <1>9, <1>13, <1>14 DEF Keeps
<1>16. May(s) = u
  BY <1>2, <1>4, <1>8 DEF May
<1> QED BY <1>15, <1>16

\* A script that may run while its thread has locks of the ranks up to n, and
\* leaves it with the same.
Above(n, s) == \A H \in SUBSET Locks : (\A x \in H : Rank[x] <= n) => Keeps(H, s, H)

LEMMA AboveConcat ==
  ASSUME NEW n, NEW s, NEW t, Above(n, s), Above(n, t)
  PROVE  Above(n, s \o t)
<1> SUFFICES ASSUME NEW H \in SUBSET Locks, \A x \in H : Rank[x] <= n PROVE Keeps(H, s \o t, H)
  BY DEF Above
<1>1. Keeps(H, s, H) /\ Keeps(H, t, H)
  BY DEF Above
<1> QED BY <1>1, KeepsConcat

LEMMA AboveWith ==
  ASSUME NEW l \in Locks, NEW n \in Nat, n < Rank[l], NEW s, Above(Rank[l], s)
  PROVE  Above(n, With(l, s))
<1> SUFFICES ASSUME NEW H \in SUBSET Locks, \A x \in H : Rank[x] <= n PROVE Keeps(H, With(l, s), H)
  BY DEF Above
<1>1. \A x \in H : Rank[x] < Rank[l]
  BY RankType
<1>2. l \notin H
  BY <1>1, RankType
<1>3. PICK G : G = H \cup {l}
  OBVIOUS
<1>4. G \in SUBSET Locks /\ \A x \in G : Rank[x] <= Rank[l]
  BY <1>1, <1>3, RankType
<1>5. Keeps(H, LockStep(l), G)
  BY <1>1, <1>3, KeepsLock
<1>6. Keeps(G, s, G)
  BY <1>4 DEF Above
<1>7. Keeps(G, UnlockStep(l), H)
  <2>1. G \ {l} = H
    BY <1>2, <1>3
  <2> QED BY <1>4, <2>1, KeepsUnlock
<1>8. Keeps(H, LockStep(l) \o s, G)
  BY <1>5, <1>6, KeepsConcat
<1>9. Keeps(H, (LockStep(l) \o s) \o UnlockStep(l), H)
  BY <1>7, <1>8, KeepsConcat
<1> QED BY <1>9 DEF With

LEMMA AboveSteps ==
  ASSUME NEW n
  PROVE  Above(n, Try) /\ Above(n, Wait) /\ Above(n, <<>>)
<1>1. [op |-> "try"] \in [op : {"try", "wait"}] /\ [op |-> "wait"] \in [op : {"try", "wait"}]
  OBVIOUS
<1> QED BY <1>1, KeepsOther, KeepsNothing DEF Above, Try, Wait

LEMMA AboveTouch ==
  ASSUME NEW l \in Locks, NEW n \in Nat, n < Rank[l]
  PROVE  Above(n, Touch(l))
BY AboveWith, AboveSteps DEF Touch

LEMMA AboveMay ==
  ASSUME NEW n, NEW s, Above(n, s)
  PROVE  Above(n, May(s))
BY KeepsMay DEF Above

\* Who starts with nothing ends with nothing.
LEMMA KeepsNothingHeld ==
  ASSUME NEW s, Keeps({}, s, {})
  PROVE  KeepsOrder(s)
<1>1. \A k : HeldFrom({}, s, k) = HeldAt(s, k)
  BY DEF HeldFrom, HeldAt
<1> QED BY <1>1 DEF Keeps, KeepsOrder

LEMMA AboveKeepsOrder ==
  ASSUME NEW s, Above(0, s)
  PROVE  KeepsOrder(s)
BY KeepsNothingHeld DEF Above

----------------------------------------------------------------------------
(* The calls *)

LEMMA RankValues ==
  /\ Rank["upgrade"] = 1 /\ Rank["flutter"] = 2 /\ Rank["backup"] = 3 /\ Rank["coordinator"] = 4
  /\ Rank["db"] = 5 /\ Rank["ui_stack"] = 6 /\ Rank["genuine"] = 7 /\ Rank["device_list"] = 8
  /\ Rank["device_names"] = 9 /\ Rank["device_list_stream"] = 10 /\ Rank["key_events"] = 11
  /\ Rank["backup_streams"] = 12 /\ Rank["signals"] = 13
BY DEF Rank

LEMMA WithLocks ==
  ASSUME NEW n \in Nat, NEW s
  PROVE  /\ n < 1 /\ Above(1, s) => Above(n, With("upgrade", s))
         /\ n < 2 /\ Above(2, s) => Above(n, With("flutter", s))
         /\ n < 3 /\ Above(3, s) => Above(n, With("backup", s))
         /\ n < 4 /\ Above(4, s) => Above(n, With("coordinator", s))
         /\ n < 5 /\ Above(5, s) => Above(n, With("db", s))
         /\ n < 6 /\ Above(6, s) => Above(n, With("ui_stack", s))
         /\ n < 7 /\ Above(7, s) => Above(n, With("genuine", s))
         /\ n < 8 /\ Above(8, s) => Above(n, With("device_list", s))
         /\ n < 9 /\ Above(9, s) => Above(n, With("device_names", s))
         /\ n < 10 /\ Above(10, s) => Above(n, With("device_list_stream", s))
         /\ n < 11 /\ Above(11, s) => Above(n, With("key_events", s))
         /\ n < 12 /\ Above(12, s) => Above(n, With("backup_streams", s))
         /\ n < 13 /\ Above(13, s) => Above(n, With("signals", s))
BY RankValues, AboveWith DEF Locks

LEMMA start_protocol_above ==
  ASSUME NEW n \in 0 .. 5, NEW connected, Above(8, connected)
  PROVE  Above(n, start_protocol(connected))
BY WithLocks, AboveConcat, AboveSteps DEF start_protocol, Touch

\* What several calls have in common needs the coordinator, or what ranks above.
LEMMA CommonAbove ==
  ASSUME NEW n \in 0 .. 2
  PROVE  /\ Above(n, emit_key_state) /\ Above(n, block_for_to_user_message)
         /\ Above(n, build_backup_run) /\ Above(n, backup_stream_emit)
<1>1. Above(n, emit_key_state)
  BY WithLocks, AboveSteps DEF emit_key_state, Touch
<1>2. Above(n, block_for_to_user_message)
  BY AboveConcat, AboveSteps, start_protocol_above DEF block_for_to_user_message
<1>3. Above(n, build_backup_run)
  BY WithLocks, AboveSteps DEF build_backup_run, Touch
<1>4. Above(n, backup_stream_emit)
  BY <1>3, WithLocks, AboveConcat, AboveSteps DEF backup_stream_emit, Touch
<1> QED BY <1>1, <1>2, <1>3, <1>4

LEMMA commit_device_name_above ==
  ASSUME NEW n \in 0 .. 8
  PROVE  Above(n, commit_device_name_locally)
BY WithLocks, AboveSteps DEF commit_device_name_locally, Touch

\* The calls that Unordered does not name lock in the order of the loop.
LEMMA CallsKeepOrder ==
  /\ Above(0, generate_new_key)
  /\ Above(0, replenish_nonces)
  /\ Above(0, start_signing)
  /\ Above(0, try_restore_signing_session)
  /\ Above(0, begin_upgrade_firmware)
  /\ Above(0, cancel_protocol)
  /\ Above(0, enter_firmware_upgrade_mode)
  /\ Above(0, finalize_keygen)
  /\ Above(0, verify_address)
  /\ Above(0, wait_for_single_device)
  /\ Above(0, start_restoring_wallet_from_device_share)
  /\ Above(0, sub_device_events)
  /\ Above(0, erase_device)
  /\ Above(0, sub_signing_session_signals)
  /\ Above(0, tell_device_to_enter_physical_backup)
  /\ Above(0, tell_device_to_check_backup)
  /\ Above(0, tell_device_to_save_physical_backup)
  /\ Above(0, tell_device_to_consolidate_physical_backup)
  /\ Above(0, delete_restoration_share)
  /\ Above(0, display_backup)
  /\ Above(0, mark_backup_complete)
  /\ Above(0, backup_stream)
  /\ Above(0, get_backup_run)
  /\ Above(0, look_at_coordinator)
  /\ Above(0, look_at_device_list)
  /\ Above(0, get_device_name)
  /\ Above(0, get_device_case_color)
<1>1. Above(0, generate_new_key)
  BY WithLocks, AboveConcat, AboveSteps, start_protocol_above DEF generate_new_key, Touch
<1>2. Above(0, replenish_nonces)
  BY AboveSteps, start_protocol_above DEF replenish_nonces
<1>3. Above(0, start_signing)
  BY WithLocks, AboveConcat, AboveSteps, AboveMay, start_protocol_above DEF start_signing, Touch
<1>4. Above(0, try_restore_signing_session)
  BY WithLocks, AboveConcat, AboveSteps, AboveMay, start_protocol_above DEF try_restore_signing_session, Touch
<1>5. Above(0, begin_upgrade_firmware)
  BY WithLocks, AboveConcat, AboveSteps, start_protocol_above DEF begin_upgrade_firmware, Touch
<1>6. Above(0, cancel_protocol)
  BY WithLocks, AboveSteps, AboveMay DEF cancel_protocol, Touch
<1>7. Above(0, enter_firmware_upgrade_mode)
  BY WithLocks, AboveSteps DEF enter_firmware_upgrade_mode, Touch
<1>8. Above(0, finalize_keygen)
  <2>1. Above(6, Try \o May(commit_device_name_locally))
    BY AboveConcat, AboveSteps, AboveMay, commit_device_name_above
  <2>2. Above(0, With("coordinator", With("db", With("ui_stack", Try \o May(commit_device_name_locally)))))
    BY <2>1, WithLocks
  <2>3. Above(0, Touch("coordinator")) /\ Above(0, With("backup", With("db", Try)))
    BY WithLocks, AboveSteps DEF Touch
  <2> QED BY <2>2, <2>3, AboveConcat, CommonAbove DEF finalize_keygen
<1>9. Above(0, verify_address)
  BY WithLocks, AboveConcat, AboveSteps, start_protocol_above DEF verify_address
<1>10. Above(0, wait_for_single_device)
  BY AboveSteps, start_protocol_above DEF wait_for_single_device
<1>11. Above(0, start_restoring_wallet_from_device_share)
  BY WithLocks, AboveConcat, AboveSteps, CommonAbove DEF start_restoring_wallet_from_device_share
<1>12. Above(0, sub_device_events)
  BY WithLocks, AboveSteps DEF sub_device_events, Touch
<1>13. Above(0, erase_device)
  BY AboveSteps, start_protocol_above DEF erase_device
<1>14. Above(0, sub_signing_session_signals)
  BY WithLocks, AboveSteps DEF sub_signing_session_signals, Touch
<1>15. Above(0, tell_device_to_enter_physical_backup)
  BY AboveSteps, start_protocol_above DEF tell_device_to_enter_physical_backup
<1>16. Above(0, tell_device_to_check_backup)
  BY WithLocks, AboveConcat, AboveSteps, start_protocol_above DEF tell_device_to_check_backup
<1>17. Above(0, tell_device_to_save_physical_backup)
  <2>1. Above(0, Touch("coordinator")) /\ Above(0, Touch("device_list"))
    BY WithLocks, AboveSteps DEF Touch
  <2>2. Above(0, With("db", commit_device_name_locally))
    BY WithLocks, commit_device_name_above
  <2>3. Above(0, May(Touch("device_list") \o emit_key_state))
    BY <2>1, AboveConcat, AboveMay, CommonAbove
  <2> QED BY <2>1, <2>2, <2>3, AboveConcat, CommonAbove DEF tell_device_to_save_physical_backup
<1>18. Above(0, tell_device_to_consolidate_physical_backup)
  <2>1. Above(0, With("coordinator", Try)) /\ Above(0, May(emit_key_state))
    BY WithLocks, AboveSteps, AboveMay, CommonAbove
  <2>2. Above(0, With("db", commit_device_name_locally))
    BY WithLocks, commit_device_name_above
  <2> QED BY <2>1, <2>2, AboveConcat, CommonAbove DEF tell_device_to_consolidate_physical_backup
<1>19. Above(0, delete_restoration_share)
  BY WithLocks, AboveConcat, AboveSteps, CommonAbove DEF delete_restoration_share
<1>20. Above(0, display_backup)
  BY WithLocks, AboveConcat, AboveSteps, start_protocol_above DEF display_backup
<1>21. Above(0, mark_backup_complete)
  BY WithLocks, AboveConcat, AboveSteps, CommonAbove DEF mark_backup_complete
<1>22. Above(0, backup_stream)
  BY WithLocks, AboveConcat, AboveSteps, CommonAbove DEF backup_stream, Touch
<1>23. Above(0, get_backup_run)
  BY WithLocks, CommonAbove DEF get_backup_run
<1>24. Above(0, look_at_coordinator)
  BY WithLocks, AboveSteps DEF look_at_coordinator, Touch
<1>25. Above(0, look_at_device_list)
  BY WithLocks, AboveSteps DEF look_at_device_list, Touch
<1>26. Above(0, get_device_name)
  BY WithLocks, AboveSteps DEF get_device_name, Touch
<1>27. Above(0, get_device_case_color)
  BY WithLocks, AboveSteps DEF get_device_case_color, Touch
<1> QED BY <1>1, <1>2, <1>3, <1>4, <1>5, <1>6, <1>7, <1>8, <1>9, <1>10, <1>11, <1>12, <1>13, <1>14, <1>15, <1>16, <1>17, <1>18, <1>19, <1>20, <1>21, <1>22, <1>23, <1>24, <1>25, <1>26, <1>27

\* The thread's iteration, with the sinks that need no more than the signals.
LEMMA IterationKeepsOrder == KeepsOrder(iteration(Touch("signals")))
<1> DEFINE devices == With("device_list", May(Touch("signals")) \o May(Touch("device_names"))
                                       \o May(Touch("device_list_stream")))
<1>1. Above(7, devices)
  <2>1. /\ Above(8, May(Touch("signals"))) /\ Above(8, May(Touch("device_names")))
        /\ Above(8, May(Touch("device_list_stream")))
    BY WithLocks, AboveSteps, AboveMay DEF Touch
  <2> QED BY <2>1, WithLocks, AboveConcat
<1>2. Above(6, May(Touch("signals"))) /\ Above(1, Touch("flutter"))
  BY WithLocks, AboveSteps, AboveMay DEF Touch
<1> DEFINE U == {"upgrade"}
           C == U \cup {"coordinator"}
           D == C \cup {"db"}
           S == D \cup {"ui_stack"}
           G == S \cup {"genuine"}
           E == {"upgrade", "ui_stack"}
<1>3. U \subseteq Locks /\ C \subseteq Locks /\ D \subseteq Locks /\ S \subseteq Locks
        /\ G \subseteq Locks /\ E \subseteq Locks
  BY DEF Locks
<1>4. Keeps({}, LockStep("upgrade"), U)
  <2>1. {} \cup {"upgrade"} = U /\ {} \in SUBSET Locks /\ "upgrade" \in Locks
    BY DEF Locks
  <2>2. Keeps({}, LockStep("upgrade"), {} \cup {"upgrade"})
    BY <2>1, KeepsLock, Zenon
  <2> QED BY <2>1, <2>2
<1>5. Keeps(U, Touch("flutter"), U)
  BY <1>2, <1>3, RankValues DEF Above
<1>6. Keeps(U, LockStep("coordinator"), C)
  <2>1. "coordinator" \in Locks /\ \A x \in U : Rank[x] < Rank["coordinator"]
    BY RankValues DEF Locks
  <2> HIDE DEF U
  <2> QED BY <1>3, <2>1, KeepsLock
<1>7. Keeps(C, LockStep("db"), D)
  <2>1. "db" \in Locks /\ \A x \in C : Rank[x] < Rank["db"]
    BY RankValues DEF Locks
  <2> HIDE DEF C
  <2> QED BY <1>3, <2>1, KeepsLock
<1>8. Keeps(D, LockStep("ui_stack"), S)
  <2>1. "ui_stack" \in Locks /\ \A x \in D : Rank[x] < Rank["ui_stack"]
    BY RankValues DEF Locks
  <2> HIDE DEF D
  <2> QED BY <1>3, <2>1, KeepsLock
<1>9. Keeps(S, LockStep("genuine"), G)
  <2>1. "genuine" \in Locks /\ \A x \in S : Rank[x] < Rank["genuine"]
    BY RankValues DEF Locks
  <2> HIDE DEF S
  <2> QED BY <1>3, <2>1, KeepsLock
<1>10. Keeps(G, devices, G)
  <2>1. \A x \in G : Rank[x] <= 7
    BY RankValues
  <2> HIDE DEF devices, G
  <2> QED BY <1>1, <1>3, <2>1 DEF Above
<1>11. Keeps(G, UnlockStep("genuine"), S)
  <2>1. G \ {"genuine"} = S
    OBVIOUS
  <2> QED BY <1>3, <2>1, KeepsUnlock DEF Locks
<1>12. Keeps(S, UnlockStep("coordinator"), {"upgrade", "db", "ui_stack"})
  <2>1. S \ {"coordinator"} = {"upgrade", "db", "ui_stack"}
    OBVIOUS
  <2> QED BY <1>3, <2>1, KeepsUnlock DEF Locks
<1>13. Keeps({"upgrade", "db", "ui_stack"}, UnlockStep("db"), E)
  <2>1. {"upgrade", "db", "ui_stack"} \ {"db"} = E /\ {"upgrade", "db", "ui_stack"} \subseteq Locks
    BY DEF Locks
  <2> QED BY <2>1, KeepsUnlock DEF Locks
<1>14. Keeps(E, May(Touch("signals")), E)
  <2>1. \A x \in E : Rank[x] <= 6
    BY RankValues
  <2> HIDE DEF E
  <2> QED BY <1>2, <1>3, <2>1 DEF Above
<1>15. Keeps(E, UnlockStep("ui_stack"), U)
  <2>1. E \ {"ui_stack"} = U
    OBVIOUS
  <2> QED BY <1>3, <2>1, KeepsUnlock DEF Locks
<1>16. Keeps(U, UnlockStep("upgrade"), {})
  <2>1. U \ {"upgrade"} = {}
    OBVIOUS
  <2> QED BY <1>3, <2>1, KeepsUnlock DEF Locks
<1>17. Keeps({}, iteration(Touch("signals")), {})
  <2> HIDE DEF devices, U, C, D, S, G, E
  <2>1. Keeps({}, LockStep("upgrade") \o Touch("flutter") \o LockStep("coordinator") \o LockStep("db")
                    \o LockStep("ui_stack") \o LockStep("genuine"), G)
    BY <1>4, <1>5, <1>6, <1>7, <1>8, <1>9, KeepsConcat
  <2>2. Keeps({}, LockStep("upgrade") \o Touch("flutter") \o LockStep("coordinator") \o LockStep("db")
                    \o LockStep("ui_stack") \o LockStep("genuine") \o devices \o UnlockStep("genuine")
                    \o UnlockStep("coordinator") \o UnlockStep("db"), E)
    BY <2>1, <1>10, <1>11, <1>12, <1>13, KeepsConcat
  <2>3. Keeps({}, LockStep("upgrade") \o Touch("flutter") \o LockStep("coordinator") \o LockStep("db")
                    \o LockStep("ui_stack") \o LockStep("genuine") \o devices \o UnlockStep("genuine")
                    \o UnlockStep("coordinator") \o UnlockStep("db") \o May(Touch("signals"))
                    \o UnlockStep("ui_stack") \o UnlockStep("upgrade"), {})
    BY <2>2, <1>14, <1>15, <1>16, KeepsConcat
  <2> QED BY <2>3 DEF iteration, devices
<1> QED BY <1>17, KeepsNothingHeld

\* Calls that Unordered does not name, and the usual iteration, keep the order.
LEMMA ScriptsKeepOrder ==
  ASSUME CallsInOrder
  PROVE  LockOrderKept
<1> DEFINE names == {
          "generate_new_key", "replenish_nonces", "start_signing",
          "try_restore_signing_session", "begin_upgrade_firmware", "cancel_protocol",
          "enter_firmware_upgrade_mode", "finalize_keygen", "verify_address",
          "wait_for_single_device", "start_restoring_wallet_from_device_share",
          "sub_device_events", "erase_device", "sub_signing_session_signals",
          "tell_device_to_enter_physical_backup", "tell_device_to_check_backup",
          "tell_device_to_save_physical_backup",
          "tell_device_to_consolidate_physical_backup", "delete_restoration_share",
          "display_backup", "mark_backup_complete", "backup_stream", "get_backup_run",
          "look_at_coordinator", "look_at_device_list", "get_device_name",
          "get_device_case_color"}
<1>1. ASSUME NEW c \in Calls PROVE KeepsOrder(Script[c])
  <2>1. c \in DOMAIN Script /\ c \notin Unordered
    BY AppLocksAssumption DEF CallsInOrder
  <2>2. c \in names
    BY <2>1 DEF Script, Unordered
  <2>3. /\ Script["generate_new_key"] = generate_new_key
        /\ Script["replenish_nonces"] = replenish_nonces
        /\ Script["start_signing"] = start_signing
        /\ Script["try_restore_signing_session"] = try_restore_signing_session
        /\ Script["begin_upgrade_firmware"] = begin_upgrade_firmware
        /\ Script["cancel_protocol"] = cancel_protocol
        /\ Script["enter_firmware_upgrade_mode"] = enter_firmware_upgrade_mode
        /\ Script["finalize_keygen"] = finalize_keygen
        /\ Script["verify_address"] = verify_address
        /\ Script["wait_for_single_device"] = wait_for_single_device
        /\ Script["start_restoring_wallet_from_device_share"] = start_restoring_wallet_from_device_share
        /\ Script["sub_device_events"] = sub_device_events
        /\ Script["erase_device"] = erase_device
        /\ Script["sub_signing_session_signals"] = sub_signing_session_signals
        /\ Script["tell_device_to_enter_physical_backup"] = tell_device_to_enter_physical_backup
        /\ Script["tell_device_to_check_backup"] = tell_device_to_check_backup
        /\ Script["tell_device_to_save_physical_backup"] = tell_device_to_save_physical_backup
        /\ Script["tell_device_to_consolidate_physical_backup"] = tell_device_to_consolidate_physical_backup
        /\ Script["delete_restoration_share"] = delete_restoration_share
        /\ Script["display_backup"] = display_backup
        /\ Script["mark_backup_complete"] = mark_backup_complete
        /\ Script["backup_stream"] = backup_stream
        /\ Script["get_backup_run"] = get_backup_run
        /\ Script["look_at_coordinator"] = look_at_coordinator
        /\ Script["look_at_device_list"] = look_at_device_list
        /\ Script["get_device_name"] = get_device_name
        /\ Script["get_device_case_color"] = get_device_case_color
    BY DEF Script
  <2>4. Above(0, Script[c])
    BY <2>2, <2>3, CallsKeepOrder
  <2> QED BY <2>4, AboveKeepsOrder
<1>2. ASSUME NEW i \in Iterations PROVE KeepsOrder(LoopScript[i])
  <2>1. LoopScript[i] = iteration(Touch("signals"))
    BY DEF CallsInOrder, LoopScript
  <2> QED BY <2>1, IterationKeepsOrder
<1> QED BY <1>1, <1>2 DEF LockOrderKept, Scripts

----------------------------------------------------------------------------
\* When every call the app makes and every iteration of the loop locks in the
\* order of the ranks, no threads ever wait for each other in a circle, however
\* many threads run the app's calls (FfiCoordinator's mutexes).
THEOREM OrderedLocksNeverCircular == LockOrderKept => (Spec => []NoCircularWait)
<1> SUFFICES ASSUME LockOrderKept PROVE Spec => []NoCircularWait
  OBVIOUS
<1>1. Init => LocksInvariant
  BY InitHasNothing
<1>2. LocksInvariant /\ [Next]_vars => LocksInvariant'
  BY NextKeepsInvariant
<1>3. LocksInvariant => NoCircularWait
  BY OrderPreventsCycles
<1> QED BY <1>1, <1>2, <1>3, PTL DEF Spec

\* The calls that Unordered does not name, run by any number of threads beside the
\* loop (FfiCoordinator::start), never wait for each other in a circle.
THEOREM OrderedCallsNeverCircular == CallsInOrder => (Spec => []NoCircularWait)
BY ScriptsKeepOrder, OrderedLocksNeverCircular

=============================================================================
