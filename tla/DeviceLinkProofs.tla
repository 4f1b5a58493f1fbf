-------------------------- MODULE DeviceLinkProofs --------------------------
(***************************************************************************)
(* Proofs about the coordinator's ports and the list of devices it shows,  *)
(* for any number of ports and devices in chains of any length, whatever   *)
(* is plugged, pulled, reset or restarted and whatever the devices send.   *)
(***************************************************************************)
EXTENDS DeviceLink, SequenceTheorems, FiniteSetTheorems, WellFoundedInduction, TLAPS

----------------------------------------------------------------------------
(* Sequences *)

\* A non-empty set of naturals has a least element.
LEMMA LeastNatural ==
  ASSUME NEW S, S \subseteq Nat, S # {}
  PROVE  \E m \in S : \A k \in S : m <= k
<1>1. PICK m \in S : \A k \in S : ~ (<<k, m>> \in OpToRel(<, Nat))
  BY WFMin, NatLessThanWellFounded
<1>2. \A k \in S : ~ (k < m)
  BY <1>1 DEF OpToRel
<1> QED BY <1>2

\* A set of positions that has the first, and the next of each it has, has all.
LEMMA UpTo ==
  ASSUME NEW n \in Nat, NEW G, 0 \in G,
         \A i \in 1 .. n : i - 1 \in G => i \in G
  PROVE  \A i \in 0 .. n : i \in G
<1> DEFINE bad == {i \in 0 .. n : i \notin G}
<1>1. SUFFICES ASSUME NEW j \in 0 .. n, j \notin G PROVE FALSE
  OBVIOUS
<1>2. j \in bad /\ bad \subseteq Nat
  BY <1>1
<1>3. PICK m \in bad : \A k \in bad : m <= k
  <2> HIDE DEF bad
  <2> QED BY <1>2, LeastNatural
<1>4. m \in 1 .. n /\ m \notin G
  BY <1>3
<1>5. m - 1 \in G
  <2>1. m - 1 \in 0 .. n /\ ~ (m <= m - 1)
    BY <1>4
  <2> QED BY <2>1, <1>3
<1> QED BY <1>4, <1>5

\* The first position with a property is one of the positions, or 0.
LEMMA FirstPosition ==
  ASSUME NEW I, I \subseteq Nat, I # {}
  PROVE  Min(I) \in I
<1>1. \E m \in I : \A k \in I : m <= k
  BY LeastNatural
<1> QED BY <1>1 DEF Min

\* retain goes through a sequence from its front.
LEMMA RetainUnfolds ==
  ASSUME NEW s, Len(s) \in Nat, NEW drop
  PROVE  \E w : /\ w[0] = <<>>
                /\ \A i \in 1 .. Len(s) :
                     w[i] = IF s[i] \in drop THEN w[i - 1] ELSE Append(w[i - 1], s[i])
                /\ Retain(s, drop) = w[Len(s)]
<1> DEFINE n == Len(s)
           Next1(w, i) == IF s[i] \in drop THEN w[i - 1] ELSE Append(w[i - 1], s[i])
           Runs(w, j) == w[0] = <<>> /\ \A i \in 1 .. j : w[i] = Next1(w, i)
           G == {j \in 0 .. n : \E w : Runs(w, j)}
           Step(g) == [i \in 0 .. n |-> IF i = 0 THEN <<>> ELSE Next1(g, i)]
<1>0. n \in Nat /\ Retain(s, drop) = (CHOOSE f : f = Step(f))[n]
  BY DEF Retain
<1> HIDE DEF n
<1>1. 0 \in G
  <2> DEFINE w == [i \in {0} |-> <<>>]
  <2>1. Runs(w, 0)
    OBVIOUS
  <2> HIDE DEF w
  <2>2. 0 \in 0 .. n /\ \E f : Runs(f, 0)
    BY <1>0, <2>1
  <2> QED BY <2>2
<1>2. ASSUME NEW j \in 1 .. n, j - 1 \in G
      PROVE  j \in G
  <2>1. PICK w : Runs(w, j - 1)
    BY <1>2
  <2> DEFINE v == [i \in 0 .. j |-> IF i = j THEN Next1(w, j) ELSE w[i]]
  <2>2. v[0] = w[0] /\ v[j] = Next1(w, j)
    BY <1>0
  <2>3. \A i \in 1 .. j - 1 : v[i] = w[i] /\ v[i - 1] = w[i - 1]
    BY <1>0
  <2>4. v[j - 1] = w[j - 1]
    BY <1>0
  <2> HIDE DEF v
  <2>5. \A i \in 1 .. j : i # j => i \in 1 .. j - 1
    BY <1>0
  <2>6. Runs(v, j)
    BY <2>1, <2>2, <2>3, <2>4, <2>5
  <2> QED BY <2>6
<1>3. n \in G
  <2> HIDE DEF G
  <2>1. \A i \in 0 .. n : i \in G
    BY <1>0, <1>1, <1>2, UpTo
  <2>2. n \in 0 .. n
    BY <1>0
  <2> QED BY <2>1, <2>2
<1>4. PICK w : Runs(w, n)
  BY <1>3
<1> DEFINE h == [i \in 0 .. n |-> w[i]]
<1>5. /\ \A i \in 1 .. n : h[i - 1] = w[i - 1] /\ h[i] = w[i]
      /\ h[0] = w[0]
  BY <1>0
<1>6. h = Step(h)
  <2>1. \A i \in 0 .. n : h[i] = IF i = 0 THEN <<>> ELSE Next1(h, i)
    <3>1. \A i \in 0 .. n : i # 0 => i \in 1 .. n
      BY <1>0
    <3> HIDE DEF h
    <3> QED BY <1>4, <1>5, <3>1
  <2>2. h = [i \in 0 .. n |-> h[i]]
    OBVIOUS
  <2> HIDE DEF h, Next1
  <2> QED BY <2>1, <2>2
<1> HIDE DEF h
<1>7. PICK g : g = (CHOOSE f : f = Step(f)) /\ g = Step(g)
  BY <1>6
<1>8. Retain(s, drop) = g[n]
  BY <1>0, <1>7
<1>9. g[0] = <<>> /\ \A i \in 1 .. n : g[i] = Next1(g, i)
  <2>1. g = Step(g)
    BY <1>7
  <2>2. \A i \in 0 .. n : Step(g)[i] = IF i = 0 THEN <<>> ELSE Next1(g, i)
    OBVIOUS
  <2>3. \A i \in 0 .. n : g[i] = IF i = 0 THEN <<>> ELSE Next1(g, i)
    <3> HIDE DEF Step, Next1
    <3> QED BY <2>1, <2>2
  <2>4. 0 \in 0 .. n /\ \A i \in 1 .. n : i \in 0 .. n /\ i # 0
    BY <1>0
  <2> HIDE DEF Step, Next1
  <2> QED BY <2>3, <2>4
<1> QED BY <1>8, <1>9 DEF n

\* No element occurs twice.
Once(s) == \A i, j \in DOMAIN s : s[i] = s[j] => i = j

\* retain keeps what it does not drop, each as often as it was.
LEMMA RetainKeeps ==
  ASSUME NEW S, NEW s \in Seq(S), NEW drop
  PROVE  /\ Retain(s, drop) \in Seq(S)
         /\ ToSet(Retain(s, drop)) = ToSet(s) \ drop
         /\ Once(s) => Once(Retain(s, drop))
<1> DEFINE n == Len(s)
           Of(i) == {s[k] : k \in 1 .. i} \ drop
           G(w) == {i \in 0 .. n : /\ w[i] \in Seq(S)
                                   /\ ToSet(w[i]) = Of(i)
                                   /\ Once(s) => Once(w[i])}
<1>1. n \in Nat /\ DOMAIN s = 1 .. n /\ \A i \in 1 .. n : s[i] \in S
  BY LenProperties, ElementOfSeq
<1>2. PICK w : /\ w[0] = <<>>
               /\ \A i \in 1 .. n :
                    w[i] = IF s[i] \in drop THEN w[i - 1] ELSE Append(w[i - 1], s[i])
               /\ Retain(s, drop) = w[n]
  BY <1>1, RetainUnfolds
<1> HIDE DEF n
<1>3. 0 \in G(w)
  <2>1. <<>> \in Seq(S) /\ ToSet(<<>>) = {} /\ Once(<<>>)
    BY DEF ToSet, Once
  <2>2. Of(0) = {}
    OBVIOUS
  <2>3. 0 \in 0 .. n /\ w[0] = <<>>
    BY <1>1, <1>2
  <2> HIDE DEF Of
  <2>4. w[0] \in Seq(S) /\ ToSet(w[0]) = Of(0) /\ Once(w[0])
    BY <2>1, <2>2, <2>3
  <2> QED BY <2>3, <2>4
<1>4. ASSUME NEW i \in 1 .. n, i - 1 \in G(w)
      PROVE  i \in G(w)
  <2>1. /\ w[i - 1] \in Seq(S) /\ ToSet(w[i - 1]) = Of(i - 1)
        /\ Once(s) => Once(w[i - 1])
    BY <1>4
  <2>2. Of(i) = IF s[i] \in drop THEN Of(i - 1) ELSE Of(i - 1) \cup {s[i]}
    <3>1. 1 .. i = (1 .. i - 1) \cup {i}
      BY <1>1
    <3> QED BY <3>1
  <2>3. i \in 0 .. n
    BY <1>1
  <2> HIDE DEF Of
  <2>4. CASE s[i] \in drop
    <3>1. w[i] = w[i - 1]
      BY <1>2, <2>4
    <3> QED BY <2>1, <2>2, <2>3, <2>4, <3>1
  <2>5. CASE s[i] \notin drop
    <3> DEFINE t == w[i - 1]
               l == Len(t)
    <3>1. w[i] = Append(t, s[i])
      BY <1>2, <2>5
    <3>2. t \in Seq(S) /\ s[i] \in S /\ l \in Nat /\ DOMAIN t = 1 .. l
      BY <1>1, <2>1, LenProperties
    <3> HIDE DEF t, l
    <3>3. /\ w[i] \in Seq(S) /\ DOMAIN w[i] = 1 .. l + 1 /\ w[i][l + 1] = s[i]
          /\ \A k \in 1 .. l : w[i][k] = t[k]
      BY <3>1, <3>2, AppendProperties DEF l
    <3>4. ToSet(w[i]) = ToSet(t) \cup {s[i]}
      <4>1. 1 .. l + 1 = (1 .. l) \cup {l + 1}
        BY <3>2
      <4> QED BY <3>2, <3>3, <4>1 DEF ToSet
    <3>5. ASSUME Once(s) PROVE Once(w[i])
      <4>1. Once(t) /\ ToSet(t) = Of(i - 1)
        BY <2>1, <3>5 DEF t
      <4>2. \A k \in 1 .. i - 1 : s[k] # s[i]
        BY <1>1, <3>5 DEF Once
      <4>3. s[i] \notin ToSet(t)
        BY <4>1, <4>2 DEF Of
      <4>4. \A k \in 1 .. l : t[k] # s[i]
        BY <3>2, <4>3 DEF ToSet
      <4>5. ASSUME NEW a \in 1 .. l + 1, NEW b \in 1 .. l + 1, w[i][a] = w[i][b]
            PROVE  a = b
        <5>1. CASE a = l + 1 /\ b # l + 1
          <6>1. b \in 1 .. l
            BY <3>2, <5>1
          <6> QED BY <3>3, <4>4, <4>5, <5>1, <6>1
        <5>2. CASE a # l + 1 /\ b = l + 1
          <6>1. a \in 1 .. l
            BY <3>2, <5>2
          <6> QED BY <3>3, <4>4, <4>5, <5>2, <6>1
        <5>3. CASE a # l + 1 /\ b # l + 1
          <6>1. a \in 1 .. l /\ b \in 1 .. l
            BY <3>2, <5>3
          <6> QED BY <3>2, <3>3, <4>1, <4>5, <6>1 DEF Once
        <5> QED BY <5>1, <5>2, <5>3
      <4> QED BY <3>3, <4>5 DEF Once
    <3>6. ToSet(w[i]) = Of(i)
      BY <2>1, <2>2, <2>5, <3>4 DEF t
    <3> QED BY <2>3, <3>3, <3>5, <3>6
  <2> QED BY <2>4, <2>5
<1>5. n \in G(w)
  <2>1. \A i \in 0 .. n : i \in G(w)
    <3> HIDE DEF G
    <3> QED BY <1>1, <1>3, <1>4, UpTo
  <2>2. n \in 0 .. n
    BY <1>1
  <2> HIDE DEF G
  <2> QED BY <2>1, <2>2
<1>6. Of(n) = ToSet(s) \ drop
  BY <1>1 DEF ToSet
<1> HIDE DEF Of
<1> QED BY <1>2, <1>5, <1>6

----------------------------------------------------------------------------
(* The inductive invariant *)

Bodies == {"Announce", "NeedName", "SetName", "Core", "DisconnectDownstream"}
Messages == [from : Devices, body : Bodies]
Frames == {Magic, Reset} \cup Messages

\* A device's loop: what matters of it is what it is going to send.
Loops ==
  [state : {"off", "PowerOn", "Established", "Acked"},
   below : {"Disconnected", "Connected", "Established"},
   queue : Seq(Messages), softReset : BOOLEAN, magics : Nat]

LinkTypeOK ==
  /\ chain \in [Ports -> Seq(Devices)]
  /\ up \in [Devices -> Seq(Frames)]
  /\ dev \in [Devices -> Loops]

\* A device is on the list of its port, once, and on no other.
ListsAgree(lists, port) ==
  /\ lists \in [Ports -> Seq(Devices)]
  /\ port \in [Devices -> Ports \cup {None}]
  /\ \A p \in Ports : Once(lists[p])
  /\ \A p \in Ports, d \in Devices : d \in ToSet(lists[p]) <=> port[d] = p

\* The manager and the app's list of devices.
PortsInvariant ==
  /\ ListsAgree(list, portOf)
  /\ registered \subseteq ui.listed
  /\ ~panicked => /\ ui.connected = {d \in Devices : portOf[d] # None}
                  /\ ui.listed \subseteq ui.connected

LinkInvariant == LinkTypeOK /\ PortsInvariant

----------------------------------------------------------------------------
(* A poll of the manager *)

\* What a poll has done so far: its maps agree, it has reported whoever left and
\* whoever came, and whoever left is not registered.
PollOK(m) ==
  /\ m = [ports |-> m.ports, list |-> m.list, portOf |-> m.portOf, registered |-> m.registered,
          gone |-> m.gone, new |-> m.new, needsName |-> m.needsName, named |-> m.named]
  /\ ListsAgree(m.list, m.portOf)
  /\ \A d \in Devices :
       m.portOf[d] # None <=> (portOf[d] # None /\ d \notin m.gone) \/ d \in m.new
  /\ m.new \subseteq Devices
  /\ m.registered = registered \ m.gone

\* Nothing is done yet.
LEMMA ManagerFields ==
  /\ Manager = [ports |-> ports, list |-> list, portOf |-> portOf, registered |-> registered,
                gone |-> {}, new |-> {}, needsName |-> {}, named |-> {}]
  /\ PortsInvariant => PollOK(Manager)
BY DEF PortsInvariant, PollOK, Manager

\* Devices leave: the fields of the manager then.
LEMMA RemovedFields ==
  ASSUME NEW m, m = Manager, NEW gone
  PROVE  /\ Removed(m, gone) = [ports |-> ports, list |-> list, portOf |-> Removed(m, gone).portOf,
                                registered |-> registered \ gone, gone |-> gone, new |-> {},
                                needsName |-> {}, named |-> {}]
         /\ Removed(m, gone).portOf = [d \in Devices |-> IF d \in gone THEN None ELSE portOf[d]]
<1>1. m.portOf = portOf
  BY DEF Manager
<1> DEFINE port == [d \in Devices |-> IF d \in gone THEN None ELSE m.portOf[d]]
<1>2. Removed(m, gone) = [m EXCEPT !.portOf = port, !.registered = m.registered \ gone,
                                   !.gone = m.gone \cup gone]
  BY DEF Removed
<1>3. port = [d \in Devices |-> IF d \in gone THEN None ELSE portOf[d]]
  BY <1>1
<1>4. m.registered = registered /\ m.gone \cup gone = gone
  BY DEF Manager
<1> HIDE DEF port
<1>5. Removed(m, gone) = [ports |-> ports, list |-> list, portOf |-> port,
                          registered |-> registered \ gone, gone |-> gone, new |-> {},
                          needsName |-> {}, named |-> {}]
  BY <1>2, <1>4 DEF Manager
<1> QED BY <1>3, <1>5

\* disconnect takes all of a port's list.
LEMMA DisconnectOK ==
  ASSUME PortsInvariant, NEW p \in Ports
  PROVE  PollOK(Disconnect(Manager, p))
<1> DEFINE m == Disconnect(Manager, p)
           gone == ToSet(list[p])
<1>1. /\ m = [ports |-> [ports EXCEPT ![p] = "closed"], list |-> [list EXCEPT ![p] = <<>>],
              portOf |-> m.portOf, registered |-> registered \ gone, gone |-> gone, new |-> {},
              needsName |-> {}, named |-> {}]
      /\ m.portOf = [d \in Devices |-> IF d \in gone THEN None ELSE portOf[d]]
  <2>1. m = [Removed(Manager, gone) EXCEPT !.ports[p] = "closed", !.list[p] = <<>>]
    BY ManagerFields DEF Disconnect
  <2> DEFINE r == Removed(Manager, gone)
             port == [d \in Devices |-> IF d \in gone THEN None ELSE portOf[d]]
  <2>2. r = [ports |-> ports, list |-> list, portOf |-> port, registered |-> registered \ gone,
             gone |-> gone, new |-> {}, needsName |-> {}, named |-> {}]
    <3>1. r.portOf = port
      BY RemovedFields
    <3>2. r = [ports |-> ports, list |-> list, portOf |-> r.portOf,
               registered |-> registered \ gone, gone |-> gone, new |-> {}, needsName |-> {},
               named |-> {}]
      BY RemovedFields
    <3> HIDE DEF r, port
    <3> QED BY <3>1, <3>2
  <2> HIDE DEF r, port, gone, m
  <2>3. m = [r EXCEPT !.ports[p] = "closed", !.list[p] = <<>>]
    BY <2>1 DEF r
  <2>4. m.portOf = port /\ m =
             [ports |-> [ports EXCEPT ![p] = "closed"], list |-> [list EXCEPT ![p] = <<>>],
              portOf |-> port, registered |-> registered \ gone, gone |-> gone, new |-> {},
              needsName |-> {}, named |-> {}]
    BY <2>2, <2>3
  <2> QED BY <2>4 DEF port
<1>2. ListsAgree(list, portOf)
  BY DEF PortsInvariant
<1>3. <<>> \in Seq(Devices) /\ Once(<<>>) /\ ToSet(<<>>) = {}
  BY DEF Once, ToSet
<1> HIDE DEF m
<1>4. ListsAgree(m.list, m.portOf)
  <2>1. m.list \in [Ports -> Seq(Devices)] /\ m.portOf \in [Devices -> Ports \cup {None}]
    <3>1. m.list = [list EXCEPT ![p] = <<>>]
      BY <1>1
    <3>2. m.list \in [Ports -> Seq(Devices)]
      BY <1>2, <1>3, <3>1 DEF ListsAgree
    <3>3. \A d \in Devices : portOf[d] \in Ports \cup {None}
      BY <1>2 DEF ListsAgree
    <3> QED BY <1>1, <3>2, <3>3
  <2>2. \A q \in Ports : m.list[q] = IF q = p THEN <<>> ELSE list[q]
    BY <1>1, <1>2 DEF ListsAgree
  <2>3. \A d \in Devices : m.portOf[d] = IF d \in gone THEN None ELSE portOf[d]
    BY <1>1
  <2>4. \A d \in Devices : d \in gone <=> portOf[d] = p
    BY <1>2 DEF ListsAgree
  <2> HIDE DEF gone
  <2>5. \A q \in Ports : Once(m.list[q])
    BY <1>2, <1>3, <2>2 DEF ListsAgree
  <2>6. ASSUME NEW q \in Ports, NEW d \in Devices
        PROVE  d \in ToSet(m.list[q]) <=> m.portOf[d] = q
    <3>1. None # q
      BY LinkAssumption
    <3>2. CASE q = p
      BY <1>3, <2>2, <2>3, <2>4, <3>1, <3>2
    <3>3. CASE q # p
      <4>1. d \in ToSet(list[q]) <=> portOf[d] = q
        BY <1>2 DEF ListsAgree
      <4> QED BY <2>2, <2>3, <2>4, <3>1, <3>3, <4>1
    <3> QED BY <3>2, <3>3
  <2> QED BY <2>1, <2>5, <2>6 DEF ListsAgree
<1> HIDE DEF gone
<1>5. \A d \in Devices : m.portOf[d] # None <=> portOf[d] # None /\ d \notin gone
  BY <1>1
<1>6. PollOK(m)
  BY <1>1, <1>4, <1>5 DEF PollOK
<1> QED BY <1>6 DEF m

\* What SelectInSeq finds is a position, or 0.
LEMMA Found ==
  ASSUME NEW s, Len(s) \in Nat, NEW I, I = {i \in 1 .. Len(s) : i \in I}
  PROVE  (IF I # {} THEN Min(I) ELSE 0) \in 0 .. Len(s)
<1>1. I # {} => Min(I) \in I
  BY FirstPosition
<1> QED BY <1>1

\* DisconnectDownstream takes what comes after a device on the list.
LEMMA DisconnectDownstreamOK ==
  ASSUME PortsInvariant, NEW p \in Ports, NEW from
  PROVE  PollOK(DisconnectDownstream(Manager, p, from))
<1> DEFINE m == DisconnectDownstream(Manager, p, from)
           s == list[p]
           n == Len(s)
           i == SelectInSeq(s, LAMBDA d : d = from)
           keep == IF i = 0 THEN n ELSE i
           stay == SubSeq(s, 1, keep)
           left == SubSeq(s, keep + 1, n)
           gone == ToSet(left)
           port == [d \in Devices |-> IF d \in gone THEN None ELSE portOf[d]]
<1>1. ListsAgree(list, portOf)
  BY DEF PortsInvariant
<1>2. s \in Seq(Devices) /\ n \in Nat /\ DOMAIN s = 1 .. n /\ Once(s)
  BY <1>1, LenProperties DEF ListsAgree
<1>3. keep \in 0 .. n
  <2>1. i = IF {k \in 1 .. n : s[k] = from} # {} THEN Min({k \in 1 .. n : s[k] = from}) ELSE 0
    BY DEF SelectInSeq
  <2>2. {k \in 1 .. n : s[k] = from} = {k \in 1 .. n : k \in {j \in 1 .. n : s[j] = from}}
    OBVIOUS
  <2>3. i \in 0 .. n
    <3> HIDE DEF i, s
    <3> QED BY <1>2, <2>1, <2>2, Found
  <2> HIDE DEF i
  <2> QED BY <1>2, <2>3
<1>4. m = [ports |-> ports, list |-> [list EXCEPT ![p] = stay], portOf |-> port,
           registered |-> registered \ gone, gone |-> gone, new |-> {}, needsName |-> {},
           named |-> {}]
  <2> DEFINE r == Removed(Manager, gone)
  <2>1. m = [r EXCEPT !.list[p] = SubSeq(r.list[p], 1, keep)]
    BY ManagerFields DEF DisconnectDownstream
  <2> HIDE DEF m, keep, gone
  <2>2. r = [ports |-> ports, list |-> list, portOf |-> r.portOf, registered |-> registered \ gone,
             gone |-> gone, new |-> {}, needsName |-> {}, named |-> {}]
    BY RemovedFields
  <2>3. r.portOf = port
    BY RemovedFields
  <2> HIDE DEF r, port
  <2>4. r.list = list
    BY <2>2
  <2>5. m = [r EXCEPT !.list[p] = stay]
    BY <2>1, <2>4
  <2> HIDE DEF stay
  <2> QED BY <2>2, <2>3, <2>5
<1> HIDE DEF m, i, keep
<1>5. /\ stay \in Seq(Devices) /\ DOMAIN stay = 1 .. keep /\ \A k \in 1 .. keep : stay[k] = s[k]
      /\ DOMAIN left = 1 .. n - keep /\ \A k \in 1 .. n - keep : left[k] = s[keep + k]
  <2>1. \A k \in 1 .. n : s[k] \in Devices
    BY <1>2, ElementOfSeq
  <2>2. /\ stay \in Seq(Devices) /\ Len(stay) = keep
        /\ \A k \in 1 .. keep : stay[k] = s[k]
    BY <1>2, <1>3, <2>1, SubSeqProperties
  <2>3. /\ left \in Seq(Devices) /\ Len(left) = n - keep
        /\ \A k \in 1 .. n - keep : left[k] = s[keep + k]
    <3>1. \A k \in keep + 1 .. n : s[k] \in Devices
      BY <1>2, <1>3, <2>1
    <3>2. CASE keep = n
      BY <1>2, <1>3, <3>1, <3>2, SubSeqProperties
    <3>3. CASE keep < n
      BY <1>2, <1>3, <3>1, <3>3, SubSeqProperties
    <3> QED BY <1>2, <1>3, <3>2, <3>3
  <2> HIDE DEF stay, left
  <2> QED BY <1>2, <1>3, <2>2, <2>3, LenProperties
<1>6. ToSet(stay) = ToSet(s) \ gone /\ gone \subseteq ToSet(s)
  <2> HIDE DEF stay, left, s
  <2>1. ASSUME NEW k \in 1 .. keep, NEW j \in 1 .. n - keep PROVE stay[k] # left[j]
    BY <1>2, <1>3, <1>5 DEF Once
  <2>2. \A k \in 1 .. n : s[k] \in ToSet(stay) \/ s[k] \in gone
    <3> TAKE k \in 1 .. n
    <3>1. CASE k <= keep
      <4>1. k \in 1 .. keep
        BY <1>2, <1>3, <3>1
      <4> QED BY <1>5, <4>1 DEF ToSet
    <3>2. CASE k > keep
      <4>1. k - keep \in 1 .. n - keep /\ keep + (k - keep) = k
        BY <1>2, <1>3, <3>2
      <4>2. left[k - keep] = s[k]
        BY <1>5, <4>1
      <4> QED BY <1>5, <4>1, <4>2 DEF ToSet
    <3> QED BY <1>2, <1>3, <3>1, <3>2
  <2>3. \A k \in 1 .. keep : k \in 1 .. n
    BY <1>2, <1>3
  <2>4. \A k \in 1 .. n - keep : keep + k \in 1 .. n
    BY <1>2, <1>3
  <2> QED BY <1>2, <1>5, <2>1, <2>2, <2>3, <2>4 DEF ToSet
<1>7. Once(stay)
  <2> HIDE DEF stay, s
  <2>1. \A k \in 1 .. keep : k \in 1 .. n
    BY <1>2, <1>3
  <2> QED BY <1>2, <1>5, <2>1 DEF Once
<1> HIDE DEF stay, left, gone
<1>8. ListsAgree(m.list, m.portOf)
  <2>1. m.list = [list EXCEPT ![p] = stay] /\ m.portOf = port
    BY <1>4
  <2>2. m.list \in [Ports -> Seq(Devices)]
    BY <1>1, <1>5, <2>1 DEF ListsAgree
  <2>3. m.portOf \in [Devices -> Ports \cup {None}]
    <3>1. \A d \in Devices : portOf[d] \in Ports \cup {None}
      BY <1>1 DEF ListsAgree
    <3> QED BY <2>1, <3>1
  <2>4. \A q \in Ports : m.list[q] = IF q = p THEN stay ELSE list[q]
    BY <1>1, <2>1 DEF ListsAgree
  <2>5. \A q \in Ports : Once(m.list[q])
    BY <1>1, <1>7, <2>4 DEF ListsAgree
  <2>6. \A d \in Devices : m.portOf[d] = IF d \in gone THEN None ELSE portOf[d]
    BY <2>1
  <2>7. ASSUME NEW q \in Ports, NEW d \in Devices
        PROVE  d \in ToSet(m.list[q]) <=> m.portOf[d] = q
    <3>1. None # q
      BY LinkAssumption
    <3>2. d \in ToSet(list[q]) <=> portOf[d] = q
      BY <1>1 DEF ListsAgree
    <3>3. d \in ToSet(s) <=> portOf[d] = p
      BY <1>1 DEF ListsAgree
    <3> HIDE DEF s
    <3>4. CASE q = p
      BY <1>6, <2>4, <2>6, <3>1, <3>3, <3>4
    <3>5. CASE q # p
      BY <1>6, <2>4, <2>6, <3>1, <3>2, <3>3, <3>5
    <3> QED BY <3>4, <3>5
  <2> QED BY <2>2, <2>3, <2>5, <2>7 DEF ListsAgree
<1>9. \A d \in Devices : m.portOf[d] # None <=> portOf[d] # None /\ d \notin gone
  BY <1>4
<1>10. PollOK(m)
  BY <1>4, <1>8, <1>9 DEF PollOK
<1> QED BY <1>10 DEF m

\* handle_announce moves a device to the end of the list of its port.
LEMMA HandleAnnounceOK ==
  ASSUME PortsInvariant, NEW p \in Ports, NEW from \in Devices
  PROVE  PollOK(HandleAnnounce(Manager, p, from))
<1> DEFINE m == HandleAnnounce(Manager, p, from)
           old == portOf[from]
           gone == IF old = None THEN {} ELSE {from}
           lists == IF old = None THEN list ELSE [list EXCEPT ![old] = Retain(list[old], {from})]
<1>1. ListsAgree(list, portOf)
  BY DEF PortsInvariant
<1>2. m = [ports |-> ports, list |-> [lists EXCEPT ![p] = Append(lists[p], from)],
           portOf |-> [portOf EXCEPT ![from] = p], registered |-> registered \ gone,
           gone |-> gone, new |-> {from}, needsName |-> {}, named |-> {}]
  <2>0. Manager.portOf = portOf /\ Manager.list = list
    BY DEF Manager
  <2>1. CASE old = None
    <3>1. m = [Manager EXCEPT !.portOf[from] = p, !.list[p] = Append(list[p], from), !.new = {from}]
      BY <2>0, <2>1 DEF HandleAnnounce
    <3>2. registered \ {} = registered
      OBVIOUS
    <3> HIDE DEF m
    <3> QED BY <2>1, <3>1, <3>2, ManagerFields
  <2>2. CASE old # None
    <3> DEFINE r == Removed(Manager, {from})
               port == [d \in Devices |-> IF d \in {from} THEN None ELSE portOf[d]]
               t == [r EXCEPT !.list[old] = Retain(r.list[old], {from})]
    <3>1. r = [ports |-> ports, list |-> list, portOf |-> r.portOf,
               registered |-> registered \ {from}, gone |-> {from}, new |-> {}, needsName |-> {},
               named |-> {}]
      BY RemovedFields
    <3>2. r.portOf = port
      BY RemovedFields
    <3>3. m = [t EXCEPT !.portOf[from] = p, !.list[p] = Append(t.list[p], from), !.new = {from}]
      BY <2>0, <2>2 DEF HandleAnnounce
    <3>4. [port EXCEPT ![from] = p] = [portOf EXCEPT ![from] = p]
      <4>1. portOf = [d \in Devices |-> portOf[d]]
        BY <1>1 DEF ListsAgree
      <4>2. [portOf EXCEPT ![from] = p] = [d \in Devices |-> IF d = from THEN p ELSE portOf[d]]
        BY <4>1
      <4>3. [port EXCEPT ![from] = p] = [d \in Devices |-> IF d = from THEN p ELSE portOf[d]]
        OBVIOUS
      <4> QED BY <4>2, <4>3
    <3> HIDE DEF r, port, m
    <3>5. t = [ports |-> ports, list |-> lists, portOf |-> port, registered |-> registered \ {from},
               gone |-> {from}, new |-> {}, needsName |-> {}, named |-> {}]
      BY <2>2, <3>1, <3>2
    <3> HIDE DEF t, lists
    <3> QED BY <2>2, <3>3, <3>4, <3>5
  <2> QED BY <2>1, <2>2
<1> HIDE DEF m
<1>3. /\ lists \in [Ports -> Seq(Devices)]
      /\ \A q \in Ports : Once(lists[q])
      /\ \A q \in Ports : ToSet(lists[q]) = ToSet(list[q]) \ {from}
  <2>1. CASE old = None
    <3>1. \A q \in Ports : None # q
      BY LinkAssumption
    <3>2. \A q \in Ports : from \notin ToSet(list[q])
      BY <1>1, <2>1, <3>1 DEF ListsAgree
    <3> QED BY <1>1, <2>1, <3>2 DEF ListsAgree
  <2>2. CASE old # None
    <3>1. old \in Ports /\ list[old] \in Seq(Devices) /\ Once(list[old])
      BY <1>1, <2>2 DEF ListsAgree
    <3>2. /\ Retain(list[old], {from}) \in Seq(Devices)
          /\ ToSet(Retain(list[old], {from})) = ToSet(list[old]) \ {from}
          /\ Once(Retain(list[old], {from}))
      BY <3>1, RetainKeeps
    <3>3. \A q \in Ports : lists[q] = IF q = old THEN Retain(list[old], {from}) ELSE list[q]
      BY <1>1, <2>2, <3>1 DEF ListsAgree
    <3>4. \A q \in Ports : q # old => from \notin ToSet(list[q])
      BY <1>1 DEF ListsAgree
    <3>5. lists \in [Ports -> Seq(Devices)]
      BY <1>1, <2>2, <3>1, <3>2 DEF ListsAgree
    <3> HIDE DEF lists, old
    <3>6. \A q \in Ports : Once(lists[q])
      BY <1>1, <3>2, <3>3 DEF ListsAgree
    <3>7. ASSUME NEW q \in Ports PROVE ToSet(lists[q]) = ToSet(list[q]) \ {from}
      <4>1. CASE q = old
        BY <3>2, <3>3, <4>1
      <4>2. CASE q # old
        BY <3>3, <3>4, <4>2
      <4> QED BY <4>1, <4>2
    <3> QED BY <3>5, <3>6, <3>7
  <2> QED BY <2>1, <2>2
<1> HIDE DEF lists
<1>4. ListsAgree(m.list, m.portOf)
  <2> DEFINE t == lists[p]
             l == Len(t)
             new == Append(t, from)
  <2>1. t \in Seq(Devices) /\ l \in Nat /\ DOMAIN t = 1 .. l
    BY <1>3, LenProperties
  <2>2. /\ new \in Seq(Devices) /\ DOMAIN new = 1 .. l + 1 /\ new[l + 1] = from
        /\ \A k \in 1 .. l : new[k] = t[k]
    <3> HIDE DEF t
    <3>1. /\ new \in Seq(Devices) /\ Len(new) = l + 1 /\ new[l + 1] = from
          /\ \A k \in 1 .. l : new[k] = t[k]
      BY <2>1, AppendProperties
    <3> HIDE DEF new
    <3> QED BY <3>1, LenProperties
  <2>3. ToSet(new) = ToSet(t) \cup {from}
    <3> HIDE DEF new, t
    <3>1. 1 .. l + 1 = (1 .. l) \cup {l + 1}
      BY <2>1
    <3> HIDE DEF l
    <3> QED BY <2>1, <2>2, <3>1 DEF ToSet
  <2>4. Once(new)
    <3>1. from \notin ToSet(t) /\ Once(t)
      BY <1>3
    <3> HIDE DEF new, t
    <3>2. \A k \in 1 .. l : t[k] # from
      BY <2>1, <3>1 DEF ToSet
    <3>3. ASSUME NEW a \in 1 .. l + 1, NEW b \in 1 .. l + 1, new[a] = new[b]
          PROVE  a = b
      <4> HIDE DEF l
      <4>1. (a = l + 1 \/ a \in 1 .. l) /\ (b = l + 1 \/ b \in 1 .. l)
        BY <2>1
      <4>2. CASE a \in 1 .. l /\ b \in 1 .. l
        BY <2>1, <2>2, <3>1, <3>3, <4>2 DEF Once
      <4> QED BY <2>2, <3>2, <3>3, <4>1, <4>2
    <3> QED BY <2>2, <3>3 DEF Once
  <2> HIDE DEF new, t
  <2>5. m.list = [lists EXCEPT ![p] = new] /\ m.portOf = [portOf EXCEPT ![from] = p]
    BY <1>2 DEF new, t
  <2>6. m.list \in [Ports -> Seq(Devices)] /\ m.portOf \in [Devices -> Ports \cup {None}]
    BY <1>1, <1>3, <2>2, <2>5 DEF ListsAgree
  <2>7. \A q \in Ports : m.list[q] = IF q = p THEN new ELSE lists[q]
    BY <1>3, <2>5
  <2>8. \A d \in Devices : m.portOf[d] = IF d = from THEN p ELSE portOf[d]
    BY <1>1, <2>5 DEF ListsAgree
  <2>9. \A q \in Ports : Once(m.list[q])
    BY <1>3, <2>4, <2>7
  <2>10. ASSUME NEW q \in Ports, NEW d \in Devices
         PROVE  d \in ToSet(m.list[q]) <=> m.portOf[d] = q
    <3>1. d \in ToSet(list[q]) <=> portOf[d] = q
      BY <1>1 DEF ListsAgree
    <3>2. ToSet(lists[q]) = ToSet(list[q]) \ {from}
      BY <1>3
    <3>3. CASE q = p
      <4>1. ToSet(m.list[q]) = ToSet(lists[q]) \cup {from}
        BY <2>3, <2>7, <3>3 DEF t
      <4> QED BY <2>8, <3>1, <3>2, <3>3, <4>1
    <3>4. CASE q # p
      BY <2>7, <2>8, <3>1, <3>2, <3>4
    <3> QED BY <3>3, <3>4
  <2> QED BY <2>6, <2>9, <2>10 DEF ListsAgree
<1>5. \A d \in Devices : m.portOf[d] # None <=> (portOf[d] # None /\ d \notin gone) \/ d \in {from}
  <2>1. \A d \in Devices : m.portOf[d] = IF d = from THEN p ELSE portOf[d]
    BY <1>1, <1>2 DEF ListsAgree
  <2>2. p # None
    BY LinkAssumption
  <2> QED BY <2>1, <2>2
<1> HIDE DEF gone
<1>6. PollOK(m)
  BY <1>2, <1>4, <1>5 DEF PollOK
<1> QED BY <1>6 DEF m

\* What a frame of a port does.
LEMMA ReceivedOK ==
  ASSUME PortsInvariant, NEW p \in Ports, NEW f \in Frames
  PROVE  PollOK(Received(Manager, p, f))
<1>1. CASE f \in {Magic, Reset}
  BY <1>1, DisconnectOK DEF Received
<1>2. CASE f \notin {Magic, Reset}
  <2>1. f \in Messages /\ f.from \in Devices /\ f.body \in Bodies
    BY <1>2 DEF Frames, Messages
  <2>2. CASE f.body = "Announce"
    BY <1>2, <2>1, <2>2, HandleAnnounceOK DEF Received
  <2>3. CASE f.body = "DisconnectDownstream"
    BY <1>2, <2>1, <2>3, DisconnectDownstreamOK DEF Received
  <2>4. CASE f.body = "NeedName"
    <3>1. Received(Manager, p, f) = [Manager EXCEPT !.needsName = {f.from}]
      BY <1>2, <2>4 DEF Received
    <3> QED BY <3>1, ManagerFields DEF PollOK
  <2>5. CASE f.body = "Core"
    BY <1>2, <2>5, ManagerFields DEF Received
  <2>6. CASE f.body = "SetName"
    <3>1. Received(Manager, p, f) = [Manager EXCEPT !.named = {f.from} \ names]
      BY <1>2, <2>6 DEF Received
    <3> QED BY <3>1, ManagerFields DEF PollOK
  <2> QED BY <2>1, <2>2, <2>3, <2>4, <2>5, <2>6 DEF Bodies
<1> QED BY <1>1, <1>2

\* consume_manager_event: what the app shows follows the manager.
LEMMA ApplyOK ==
  ASSUME PortsInvariant, ~panicked, NEW polled, PollOK(polled), Apply(polled)
  PROVE  PortsInvariant'
<1>1. PICK m : /\ m = Register(polled)
               /\ list' = m.list /\ portOf' = m.portOf /\ registered' = m.registered
               /\ ConsumeEvents(m)
  BY DEF Apply
<1>2. /\ m.list = polled.list /\ m.portOf = polled.portOf /\ m.gone = polled.gone
      /\ m.new = polled.new
      /\ registered \ m.gone \subseteq m.registered
  BY <1>1 DEF Register, PollOK
<1>3. ListsAgree(list', portOf')
  BY <1>1, <1>2 DEF PollOK
<1>4. /\ ui'.connected = Connected(m)
      /\ ui'.listed = (ui.listed \ m.gone) \cup Added(m)
      /\ ~panicked' => Added(m) \ (ui.listed \ m.gone) \subseteq Connected(m)
  BY <1>1 DEF ConsumeEvents
<1>5. registered' \subseteq ui'.listed
  <2>1. m.registered \ (registered \ m.gone) \subseteq Added(m)
    BY DEF Added
  <2>2. registered \ m.gone \subseteq ui.listed \ m.gone
    BY DEF PortsInvariant
  <2> QED BY <1>1, <1>4, <2>1, <2>2
<1>6. ui'.connected = {d \in Devices : portOf'[d] # None}
  <2>1. ui.connected = {d \in Devices : portOf[d] # None}
    BY DEF PortsInvariant
  <2>2. \A d \in Devices :
          portOf'[d] # None <=> (portOf[d] # None /\ d \notin m.gone) \/ d \in m.new
    BY <1>1, <1>2 DEF PollOK
  <2>3. m.new \subseteq Devices
    BY <1>2 DEF PollOK
  <2> QED BY <1>4, <2>1, <2>2, <2>3 DEF Connected
<1>7. ~panicked' => ui'.listed \subseteq ui'.connected
  <2>1. ui.listed \ m.gone \subseteq Connected(m)
    BY DEF PortsInvariant, Connected
  <2> QED BY <1>4, <2>1
<1> QED BY <1>3, <1>5, <1>6, <1>7 DEF PortsInvariant, ListsAgree

----------------------------------------------------------------------------
(* The devices *)

\* A part of a sequence.
LEMMA Part ==
  ASSUME NEW S, NEW s \in Seq(S), NEW i \in Nat, i >= 1
  PROVE  SubSeq(s, i, Len(s)) \in Seq(S)
<1>1. Len(s) \in Nat /\ \A k \in 1 .. Len(s) : s[k] \in S
  BY LenProperties, ElementOfSeq
<1>2. \A k \in i .. Len(s) : s[k] \in S
  BY <1>1
<1> QED BY <1>1, <1>2, SubSeqProperties

\* Where the magic bytes, or a reset, are found.
LEMMA FrameFound ==
  ASSUME NEW s \in Seq(Frames), NEW frame
  PROVE  SelectInSeq(s, LAMBDA f : f = frame) \in 0 .. Len(s)
<1> DEFINE I == {i \in 1 .. Len(s) : s[i] = frame}
<1>1. Len(s) \in Nat
  BY LenProperties
<1>2. SelectInSeq(s, LAMBDA f : f = frame) = IF I # {} THEN Min(I) ELSE 0
  BY DEF SelectInSeq
<1>3. I = {i \in 1 .. Len(s) : i \in I}
  OBVIOUS
<1> HIDE DEF I
<1> QED BY <1>1, <1>2, <1>3, Found

\* What is left behind the magic bytes are frames.
LEMMA AfterMagicType ==
  ASSUME NEW s \in Seq(Frames)
  PROVE  AfterMagic(s) \in Seq(Frames)
<1> DEFINE i == SelectInSeq(s, LAMBDA f : f = Magic)
<1>1. i \in 0 .. Len(s) /\ Len(s) \in Nat
  BY FrameFound, LenProperties DEF SelectInSeq
<1>2. AfterMagic(s) = IF Contains(s, Magic) THEN SubSeq(s, i + 1, Len(s)) ELSE <<>>
  BY DEF AfterMagic
<1> HIDE DEF i
<1>3. SubSeq(s, i + 1, Len(s)) \in Seq(Frames)
  <2>1. i + 1 \in Nat /\ i + 1 >= 1
    BY <1>1
  <2> QED BY <2>1, Part
<1> QED BY <1>2, <1>3, EmptySeq

\* Only what is whole, and comes before a reset, is taken from below.
LEMMA ArrivedType ==
  ASSUME NEW s \in Seq(Frames)
  PROVE  /\ Arrived(s) \in Seq(Frames)
         /\ SubSeq(s, Len(Arrived(s)) + 1, Len(s)) \in Seq(Frames)
<1> DEFINE i == SelectInSeq(s, LAMBDA f : f = Reset)
<1>1. i \in 0 .. Len(s) /\ Len(s) \in Nat
  BY FrameFound, LenProperties DEF SelectInSeq
<1>2. Arrived(s) = IF i = 0 THEN s ELSE SubSeq(s, 1, i)
  BY DEF Arrived
<1> HIDE DEF i
<1>3. SubSeq(s, 1, i) \in Seq(Frames)
  <2>1. \A k \in 1 .. i : s[k] \in Frames
    BY <1>1, ElementOfSeq
  <2> QED BY <1>1, <2>1, SubSeqProperties
<1>4. Arrived(s) \in Seq(Frames)
  BY <1>2, <1>3
<1>5. Len(Arrived(s)) + 1 \in Nat /\ Len(Arrived(s)) + 1 >= 1
  BY <1>4, LenProperties
<1> QED BY <1>4, <1>5, Part

\* A device's own messages have their types.
LEMMA MessageType ==
  ASSUME NEW d \in Devices, NEW body \in Bodies
  PROVE  Message(d, body) \in Messages
BY DEF Message, Messages

\* set_state(PowerOn)
LEMMA PowerOnType ==
  ASSUME NEW d, NEW s \in Loops
  PROVE  PowerOn(d, s) \in Loops
<1> DEFINE q == Retain(s.queue, {m \in ToSet(s.queue) : m.from = d})
<1>1. q \in Seq(Messages)
  BY RetainKeeps DEF Loops
<1>2. PowerOn(d, s) = [s EXCEPT !.state = "PowerOn", !.queue = q]
  BY DEF PowerOn
<1> HIDE DEF q
<1> QED BY <1>1, <1>2 DEF Loops

\* A soft reset leaves the type of the loop.
LEMMA SoftResetType ==
  ASSUME NEW d, NEW s \in Loops
  PROVE  SoftReset(d, s) \in Loops
<1>1. PICK t \in Loops : t = PowerOn(d, s)
  BY PowerOnType
<1> QED BY <1>1 DEF SoftReset, Loops

\* So does the handshake with the device below.
LEMMA DownstreamType ==
  ASSUME NEW d \in Devices, NEW s \in Loops, NEW b
  PROVE  Downstream(d, s, b) \in Loops
<1> DEFINE m == Message(d, "DisconnectDownstream")
           q == Append(s.queue, m)
<1>1. q \in Seq(Messages)
  <2>1. m \in Messages
    BY MessageType DEF Bodies
  <2> HIDE DEF m
  <2> QED BY <2>1, AppendProperties DEF Loops
<1>2. \/ Downstream(d, s, b) = [s EXCEPT !.below = "Connected"]
      \/ Downstream(d, s, b) = [s EXCEPT !.below = "Established"]
      \/ Downstream(d, s, b) = [s EXCEPT !.below = "Disconnected", !.queue = q]
      \/ Downstream(d, s, b) = [s EXCEPT !.below = "Disconnected"]
      \/ Downstream(d, s, b) = s
  BY DEF Downstream
<1> HIDE DEF q
<1> QED BY <1>1, <1>2 DEF Loops

\* What is forwarded are messages, its own in place of a reset or of magic bytes.
LEMMA ForwardType ==
  ASSUME NEW d \in Devices, NEW s \in Loops, NEW arrived \in Seq(Frames)
  PROVE  Forward(d, s, arrived) \in Loops
<1> DEFINE m == Message(d, "DisconnectDownstream")
           asMessage(f) == IF f \in {Magic, Reset} THEN m ELSE f
           forwarded == [i \in DOMAIN arrived |-> asMessage(arrived[i])]
           q == s.queue \o forwarded
           below == IF Contains(arrived, Magic) \/ Contains(arrived, Reset) THEN "Disconnected"
                                                                           ELSE s.below
<1>1. m \in Messages
  BY MessageType DEF Bodies
<1>2. forwarded \in Seq(Messages)
  <2> HIDE DEF m
  <2>1. Len(arrived) \in Nat /\ DOMAIN arrived = 1 .. Len(arrived)
    BY LenProperties
  <2>2. \A i \in DOMAIN arrived : asMessage(arrived[i]) \in Messages
    <3>1. \A i \in DOMAIN arrived : arrived[i] \in Frames
      BY <2>1, ElementOfSeq
    <3> QED BY <1>1, <3>1 DEF Frames
  <2>3. forwarded \in [1 .. Len(arrived) -> Messages]
    <3> HIDE DEF asMessage
    <3> QED BY <2>1, <2>2
  <2> HIDE DEF forwarded
  <2> QED BY <2>1, <2>3, IsASeq
<1>3. q \in Seq(Messages)
  <2> HIDE DEF forwarded
  <2> QED BY <1>2, ConcatProperties DEF Loops
<1>4. Forward(d, s, arrived) = [s EXCEPT !.queue = q, !.below = below]
  BY DEF Forward
<1>5. below \in {"Disconnected", s.below}
  OBVIOUS
<1> HIDE DEF q, below
<1> QED BY <1>3, <1>4, <1>5 DEF Loops

\* And what the loop does with the frames from above.
LEMMA PollAboveType ==
  ASSUME NEW d \in Devices, NEW s \in Loops, NEW read
  PROVE  PollAbove(d, s, read) \in Loops
<1> DEFINE m == Message(d, IF d \in Named THEN "SetName" ELSE "NeedName")
           q == Append(s.queue, m)
<1>1. Handshake(d, s) \in Loops
  <2>1. m \in Messages
    BY MessageType DEF Bodies
  <2>2. Handshake(d, s) = [s EXCEPT !.state = "Established", !.queue = q]
    BY DEF Handshake
  <2> HIDE DEF m
  <2>3. q \in Seq(Messages)
    BY <2>1, AppendProperties DEF Loops
  <2> HIDE DEF q
  <2> QED BY <2>2, <2>3 DEF Loops
<1>2. MagicAgain(d, s) \in Loops
  <2>1. PICK t \in Loops : t = PowerOn(d, s)
    BY PowerOnType
  <2>2. \/ MagicAgain(d, s) = [s EXCEPT !.softReset = TRUE]
        \/ MagicAgain(d, s) = [t EXCEPT !.magics = 0]
        \/ MagicAgain(d, s) = [s EXCEPT !.magics = s.magics + 1]
    BY <2>1 DEF MagicAgain
  <2>3. [s EXCEPT !.softReset = TRUE] \in Loops
    BY DEF Loops
  <2>4. [t EXCEPT !.magics = 0] \in Loops
    BY DEF Loops
  <2>5. [s EXCEPT !.magics = s.magics + 1] \in Loops
    <3>1. s.magics + 1 \in Nat
      BY DEF Loops
    <3> QED BY <3>1 DEF Loops
  <2> QED BY <2>2, <2>3, <2>4, <2>5
<1> QED BY <1>1, <1>2 DEF PollAbove

\* Where a device is in a chain, or 0.
LEMMA PlaceType ==
  ASSUME NEW d, NEW p, chain[p] \in Seq(Devices)
  PROVE  Place(d, p) \in 0 .. Len(chain[p])
<1> DEFINE I == {i \in 1 .. Len(chain[p]) : chain[p][i] = d}
<1>1. Len(chain[p]) \in Nat
  BY LenProperties
<1>2. Place(d, p) = IF I # {} THEN Min(I) ELSE 0
  BY DEF Place, SelectInSeq
<1>3. I = {i \in 1 .. Len(chain[p]) : i \in I}
  OBVIOUS
<1> HIDE DEF I
<1> QED BY <1>1, <1>2, <1>3, Found

\* A poll of a device leaves the types, and the coordinator alone.  The values
\* it goes through are named, and each is taken from the next quantifier.
LEMMA DevicePollType ==
  ASSUME LinkTypeOK, NEW d \in Devices, NEW tick \in BOOLEAN, DevicePoll(d, tick)
  PROVE  LinkTypeOK' /\ UNCHANGED coordVars
<1> DEFINE b == Below(d)
           s0 == SoftReset(d, dev[d])
           s1 == Downstream(d, s0, b)
           incoming == Incoming(s0, b)
           arrived == IF s1.below = "Established" THEN Arrived(incoming) ELSE <<>>
           s2 == Forward(d, s1, arrived)
           read == IF s2.state = "PowerOn" THEN <<>> ELSE down[d]
           s == PollAbove(d, s2, read)
           shook == (s2.state = "PowerOn" /\ s.state = "Established")
           sends == Dequeued(d, s, shook)
<1> DEFINE
      Ends(bb, t0, t1, inc, arr, t2, rd, t, sh, snd, fwd) ==
        /\ tick => bb # None /\ t0.below = "Connected" /\ Room(down[bb])
        /\ dev' = [dev EXCEPT ![d] =
                     [t EXCEPT !.queue = IF ~sh /\ snd # <<>> THEN Tail(@) ELSE @,
                               !.state = IF Contains(rd, [to |-> d]) THEN "Acked" ELSE @]]
        /\ down' = [e \in Devices |->
                      CASE e = d -> IF sh THEN AfterMagic(down[d]) ELSE <<>>
                        [] e = bb -> (IF tick THEN Append(down[e], Magic) ELSE down[e])
                                      \o fwd
                        [] OTHER -> down[e]]
        /\ up' = [e \in Devices |->
                    CASE e = d -> up[e] \o snd
                      [] e = bb -> SubSeq(inc, Len(arr) + 1, Len(inc))
                      [] OTHER -> up[e]]
        /\ kept' = IF dev[d].softReset \/ (t2.state # "PowerOn" /\ t.state = "PowerOn")
                     THEN kept \union ({m.from : m \in ToSet(t.queue)} \ {d})
                     ELSE kept
        /\ UNCHANGED <<chain, coordVars, budget>>
      Shook(bb, t0, t1, inc, arr, t2, rd, t, sh) ==
        \E snd \in {Dequeued(d, t, sh)},
           fwd \in {IF t2.below = "Established"
                      THEN SelectSeq(rd, LAMBDA f : f # Magic /\ f # [to |-> d])
                      ELSE <<>>} :
          Ends(bb, t0, t1, inc, arr, t2, rd, t, sh, snd, fwd)
      Polled(bb, t0, t1, inc, arr, t2, rd, t) ==
        \E sh \in {t2.state = "PowerOn" /\ t.state = "Established"} :
          Shook(bb, t0, t1, inc, arr, t2, rd, t, sh)
      Reads(bb, t0, t1, inc, arr, t2, rd) ==
        \E t \in {PollAbove(d, t2, rd)} : Polled(bb, t0, t1, inc, arr, t2, rd, t)
      Forwarded(bb, t0, t1, inc, arr, t2) ==
        \E rd \in {IF t2.state = "PowerOn" THEN <<>> ELSE down[d]} :
          Reads(bb, t0, t1, inc, arr, t2, rd)
      Came(bb, t0, t1, inc, arr) ==
        \E t2 \in {Forward(d, t1, arr)} : Forwarded(bb, t0, t1, inc, arr, t2)
      Linked(bb, t0, t1, inc) ==
        \E arr \in {IF t1.below = "Established" THEN Arrived(inc) ELSE <<>>} :
          Came(bb, t0, t1, inc, arr)
      Starts(bb, t0) ==
        \E t1 \in {Downstream(d, t0, bb)}, inc \in {Incoming(t0, bb)} :
          Linked(bb, t0, t1, inc)
<1>a. \E fwd : Ends(b, s0, s1, incoming, arrived, s2, read, s, shook, sends, fwd)
  <2>1. \E bb \in {Below(d)}, t0 \in {SoftReset(d, dev[d])} : Starts(bb, t0)
    BY DEF DevicePoll
  <2>2. Starts(b, s0)
    <3> HIDE DEF Starts
    <3> QED BY <2>1
  <2>3. Linked(b, s0, s1, incoming)
    <3> HIDE DEF Linked
    <3> QED BY <2>2
  <2>4. Came(b, s0, s1, incoming, arrived)
    <3> HIDE DEF Came
    <3> QED BY <2>3
  <2>5. Forwarded(b, s0, s1, incoming, arrived, s2)
    <3> HIDE DEF Forwarded
    <3> QED BY <2>4
  <2>6. Reads(b, s0, s1, incoming, arrived, s2, read)
    <3> HIDE DEF Reads
    <3> QED BY <2>5
  <2>7. Polled(b, s0, s1, incoming, arrived, s2, read, s)
    <3> HIDE DEF Polled
    <3> QED BY <2>6
  <2>8. Shook(b, s0, s1, incoming, arrived, s2, read, s, shook)
    <3> HIDE DEF Shook
    <3> QED BY <2>7
  <2> HIDE DEF Ends
  <2> QED BY <2>8
<1> HIDE DEF Starts, Linked, Came, Forwarded, Reads, Polled, Shook
<1>0. /\ dev' = [dev EXCEPT ![d] =
                     [s EXCEPT !.queue = IF ~shook /\ sends # <<>> THEN Tail(@) ELSE @,
                               !.state = IF Contains(read, [to |-> d]) THEN "Acked" ELSE @]]
      /\ up' = [e \in Devices |->
                   CASE e = d -> up[e] \o sends
                     [] e = b -> SubSeq(incoming, Len(arrived) + 1, Len(incoming))
                     [] OTHER -> up[e]]
      /\ chain' = chain
      /\ UNCHANGED coordVars
  <2> HIDE DEF b, s0, s1, incoming, arrived, s2, read, s, shook, sends
  <2> QED BY <1>a
<1> HIDE DEF Ends
<1>1. /\ b = Below(d) /\ s0 = SoftReset(d, dev[d]) /\ s1 = Downstream(d, s0, b)
      /\ incoming = Incoming(s0, b)
      /\ arrived = IF s1.below = "Established" THEN Arrived(incoming) ELSE <<>>
      /\ s2 = Forward(d, s1, arrived)
      /\ s = PollAbove(d, s2, read)
      /\ shook = (s2.state = "PowerOn" /\ s.state = "Established")
      /\ sends = Dequeued(d, s, shook)
  OBVIOUS
<1> HIDE DEF b, s0, s1, incoming, arrived, s2, read, s, shook, sends
<1>2. dev[d] \in Loops /\ \A e \in Devices : up[e] \in Seq(Frames)
  BY DEF LinkTypeOK
<1>3. s0 \in Loops /\ s1 \in Loops
  <2>1. s0 \in Loops
    BY <1>1, <1>2, SoftResetType
  <2> QED BY <1>1, <2>1, DownstreamType
<1>4. b \in Devices => incoming \in Seq(Frames)
  <2>1. \A e \in Devices : AfterMagic(up[e]) \in Seq(Frames)
    BY <1>2, AfterMagicType
  <2>2. <<>> \in Seq(Frames)
    BY EmptySeq
  <2> QED BY <1>1, <1>2, <2>1, <2>2 DEF Incoming
<1>5. b \notin Devices => b = None
  <2>1. b # None => \E p \in Ports : Place(d, p) # 0 /\ Place(d, p) < Len(chain[p])
                                     /\ b = chain[p][Place(d, p) + 1]
    BY <1>1 DEF Below
  <2>2. SUFFICES ASSUME b # None PROVE b \in Devices
    OBVIOUS
  <2>3. PICK p \in Ports : Place(d, p) # 0 /\ Place(d, p) < Len(chain[p])
                           /\ b = chain[p][Place(d, p) + 1]
    BY <2>1, <2>2
  <2>4. chain[p] \in Seq(Devices) /\ Len(chain[p]) \in Nat
    BY LenProperties DEF LinkTypeOK
  <2>5. Place(d, p) \in 0 .. Len(chain[p])
    BY <2>4, PlaceType
  <2>6. Place(d, p) + 1 \in 1 .. Len(chain[p])
    BY <2>3, <2>4, <2>5
  <2> QED BY <2>3, <2>4, <2>6, ElementOfSeq
<1>6. incoming \in Seq(Frames)
  <2>1. CASE b \in Devices
    BY <1>4, <2>1
  <2>2. CASE b = None
    <3>1. incoming = <<>>
      BY <1>1, <2>2 DEF Incoming
    <3> QED BY <3>1, EmptySeq
  <2> QED BY <1>5, <2>1, <2>2
<1>7. /\ arrived \in Seq(Frames)
      /\ SubSeq(incoming, Len(arrived) + 1, Len(incoming)) \in Seq(Frames)
  <2>1. CASE s1.below = "Established"
    BY <1>1, <1>6, <2>1, ArrivedType
  <2>2. CASE s1.below # "Established"
    <3>1. arrived = <<>> /\ Len(<<>>) = 0
      BY <1>1, <2>2
    <3>2. SubSeq(incoming, 1, Len(incoming)) \in Seq(Frames)
      BY <1>6, Part
    <3> QED BY <3>1, <3>2, EmptySeq
  <2> QED BY <2>1, <2>2
<1>8. s \in Loops
  <2>1. s2 \in Loops
    BY <1>1, <1>3, <1>7, ForwardType
  <2> QED BY <1>1, <2>1, PollAboveType
<1>9. /\ sends \in Seq(Frames)
      /\ ~shook /\ sends # <<>> => s.queue # <<>>
  <2>0. s.queue \in Seq(Messages)
    BY <1>8 DEF Loops
  <2>1. CASE shook
    <3>1. sends = <<Magic, Message(d, "Announce")>>
      BY <1>1, <2>1 DEF Dequeued
    <3>2. Message(d, "Announce") \in Frames /\ Magic \in Frames
      BY MessageType DEF Bodies, Frames
    <3> QED BY <2>1, <3>1, <3>2
  <2>2. CASE ~shook /\ s.state = "Acked" /\ s.queue # <<>>
    <3>1. sends = <<Head(s.queue)>>
      BY <1>1, <2>2 DEF Dequeued
    <3>2. Head(s.queue) \in Messages
      BY <2>0, <2>2, HeadTailProperties
    <3>3. Head(s.queue) \in Frames
      BY <3>2 DEF Frames
    <3> QED BY <2>2, <3>1, <3>3
  <2>3. CASE ~shook /\ ~(s.state = "Acked" /\ s.queue # <<>>)
    <3>1. sends = <<>>
      BY <1>1, <2>3 DEF Dequeued
    <3> QED BY <3>1, EmptySeq
  <2> QED BY <2>1, <2>2, <2>3
<1>10. dev' \in [Devices -> Loops]
  <2> DEFINE q == IF ~shook /\ sends # <<>> THEN Tail(s.queue) ELSE s.queue
             state == IF Contains(read, [to |-> d]) THEN "Acked" ELSE s.state
  <2>1. q \in Seq(Messages)
    <3>1. s.queue \in Seq(Messages)
      BY <1>8 DEF Loops
    <3> QED BY <1>9, <3>1, HeadTailProperties
  <2>2. state \in {"Acked", s.state}
    OBVIOUS
  <2>3. dev' = [dev EXCEPT ![d] = [s EXCEPT !.queue = q, !.state = state]]
    BY <1>0
  <2> HIDE DEF q, state
  <2>4. [s EXCEPT !.queue = q, !.state = state] \in Loops
    BY <1>8, <2>1, <2>2 DEF Loops
  <2> QED BY <2>3, <2>4 DEF LinkTypeOK
<1>11. up' \in [Devices -> Seq(Frames)]
  <2>1. up[d] \o sends \in Seq(Frames)
    BY <1>2, <1>9, ConcatProperties
  <2> QED BY <1>0, <1>2, <1>7, <2>1
<1> QED BY <1>0, <1>10, <1>11 DEF LinkTypeOK

\* A device that boots, and one without power.
LEMMA BootType == On \in Loops /\ Off \in Loops
<1>1. <<>> \in Seq(Messages)
  BY EmptySeq
<1> QED BY <1>1 DEF On, Off, Loops

\* What the devices and the cables do leaves the types.
LEMMA DeviceSteps ==
  ASSUME LinkTypeOK, NEW d \in Devices
  PROVE  /\ Report(d) => LinkTypeOK'
         /\ Reboot(d) => LinkTypeOK'
         /\ Unplug(d) => LinkTypeOK'
         /\ \A p \in Ports : PlugIn(d, p) => LinkTypeOK'
<1>1. dev[d] \in Loops /\ up[d] \in Seq(Frames)
  BY DEF LinkTypeOK
<1>2. ASSUME Report(d) PROVE LinkTypeOK'
  <2> DEFINE q == Append(dev[d].queue, Message(d, "Core"))
  <2>1. q \in Seq(Messages)
    <3>1. Message(d, "Core") \in Messages /\ dev[d].queue \in Seq(Messages)
      BY <1>1, MessageType DEF Bodies, Loops
    <3> QED BY <3>1, AppendProperties
  <2>2. dev' = [dev EXCEPT ![d] = [dev[d] EXCEPT !.queue = q]]
    BY <1>2 DEF Report, LinkTypeOK
  <2> HIDE DEF q
  <2>3. [dev[d] EXCEPT !.queue = q] \in Loops
    BY <1>1, <2>1 DEF Loops
  <2> QED BY <1>2, <2>2, <2>3 DEF Report, LinkTypeOK
<1>3. ASSUME Reboot(d) PROVE LinkTypeOK'
  <2>1. Append(up[d], Reset) \in Seq(Frames)
    <3>1. Reset \in Frames
      BY DEF Frames
    <3> QED BY <1>1, <3>1, AppendProperties
  <2> QED BY <1>3, <2>1, BootType DEF Reboot, LinkTypeOK
<1>4. ASSUME Unplug(d) PROVE LinkTypeOK'
  <2>1. PICK p \in Ports : \E lost :
          /\ Place(d, p) # 0
          /\ chain' = [chain EXCEPT ![p] = SubSeq(chain[p], 1, Place(d, p) - 1)]
          /\ dev' = [e \in Devices |-> IF e \in lost THEN Off ELSE dev[e]]
          /\ up' = [e \in Devices |-> IF e \in lost THEN <<>> ELSE up[e]]
    BY <1>4 DEF Unplug
  <2>2. chain[p] \in Seq(Devices) /\ Len(chain[p]) \in Nat
    BY LenProperties DEF LinkTypeOK
  <2>3. Place(d, p) \in 0 .. Len(chain[p])
    BY <2>2, PlaceType
  <2>4. SubSeq(chain[p], 1, Place(d, p) - 1) \in Seq(Devices)
    <3>1. Place(d, p) - 1 \in Int
      BY <2>3
    <3>2. \A k \in 1 .. Place(d, p) - 1 : k \in 1 .. Len(chain[p])
      BY <2>2, <2>3
    <3>3. \A k \in 1 .. Place(d, p) - 1 : chain[p][k] \in Devices
      BY <2>2, <3>2, ElementOfSeq
    <3> QED BY <3>1, <3>3, SubSeqProperties
  <2>5. chain' \in [Ports -> Seq(Devices)]
    BY <2>1, <2>4 DEF LinkTypeOK
  <2>6. dev' \in [Devices -> Loops] /\ up' \in [Devices -> Seq(Frames)]
    BY <2>1, BootType, EmptySeq DEF LinkTypeOK
  <2> QED BY <2>5, <2>6 DEF LinkTypeOK
<1>5. ASSUME NEW p \in Ports, PlugIn(d, p) PROVE LinkTypeOK'
  <2>1. Append(chain[p], d) \in Seq(Devices)
    BY AppendProperties DEF LinkTypeOK
  <2> QED BY <1>5, <2>1, BootType DEF PlugIn, LinkTypeOK
<1> QED BY <1>2, <1>3, <1>4, <1>5

\* Nor does what the coordinator reads and sends.
LEMMA CoordinatorType ==
  ASSUME LinkTypeOK
  PROVE  /\ \A p \in Ports : PortGone(p) \/ AwaitMagic(p) \/ PollReady(p) => LinkTypeOK'
         /\ \A p \in Ports, result \in Opened : OpenPort(p, result) => LinkTypeOK'
         /\ PollIdle => LinkTypeOK'
         /\ \A lost \in BOOLEAN : AppRestart(lost) => LinkTypeOK'
<1>1. ASSUME NEW p \in Ports, Plugged(p) PROVE Head(chain[p]) \in Devices
  BY <1>1, HeadTailProperties DEF Plugged, LinkTypeOK
<1>2. ASSUME NEW p \in Ports, AwaitMagic(p) PROVE LinkTypeOK'
  <2> DEFINE d == Head(chain[p])
  <2>1. d \in Devices /\ up[d] \in Seq(Frames)
    BY <1>1, <1>2 DEF AwaitMagic, LinkTypeOK
  <2>2. AfterMagic(up[d]) \in Seq(Frames)
    BY <2>1, AfterMagicType
  <2>3. up' = [up EXCEPT ![d] = AfterMagic(up[d])]
    BY <1>2, <2>1 DEF AwaitMagic, LinkTypeOK
  <2> HIDE DEF d
  <2> QED BY <1>2, <2>1, <2>2, <2>3 DEF AwaitMagic, LinkTypeOK
<1>3. ASSUME NEW p \in Ports, PollReady(p) PROVE LinkTypeOK'
  <2> DEFINE d == Head(chain[p])
  <2>1. d \in Devices /\ up[d] \in Seq(Frames)
    BY <1>1, <1>3 DEF PollReady, LinkTypeOK
  <2>2. up[d] # <<>> /\ up' = [up EXCEPT ![d] = Tail(up[d])]
    BY <1>3, <2>1 DEF PollReady, LinkTypeOK
  <2> HIDE DEF d
  <2>3. Tail(up[d]) \in Seq(Frames)
    BY <2>1, <2>2, HeadTailProperties
  <2> QED BY <1>3, <2>1, <2>2, <2>3 DEF PollReady, LinkTypeOK
<1>4. ASSUME NEW lost \in BOOLEAN, AppRestart(lost) PROVE LinkTypeOK'
  BY <1>4, EmptySeq DEF AppRestart, LinkTypeOK
<1> QED BY <1>2, <1>3, <1>4 DEF PortGone, OpenPort, PollIdle, LinkTypeOK

----------------------------------------------------------------------------
(* The theorems *)

\* Nothing is plugged in and nothing is known at first.
LEMMA LinkInit == Init => LinkInvariant
<1> SUFFICES ASSUME Init PROVE LinkInvariant
  OBVIOUS
<1>1. LinkTypeOK
  BY EmptySeq, BootType DEF Init, LinkTypeOK
<1>2. Once(<<>>) /\ ToSet(<<>>) = {}
  BY DEF Once, ToSet
<1>3. ListsAgree(list, portOf)
  <2>1. \A p \in Ports : None # p
    BY LinkAssumption
  <2> QED BY <1>2, <2>1, EmptySeq DEF Init, ListsAgree
<1>4. PortsInvariant
  BY <1>3 DEF Init, PortsInvariant
<1> QED BY <1>1, <1>4 DEF LinkInvariant

\* The coordinator's steps keep the manager's maps and the app's list together.
LEMMA CoordinatorSteps ==
  ASSUME LinkInvariant
  PROVE  /\ \A p \in Ports : PortGone(p) \/ AwaitMagic(p) \/ PollReady(p) => PortsInvariant'
         /\ \A p \in Ports, result \in Opened : OpenPort(p, result) => PortsInvariant'
         /\ PollIdle => PortsInvariant'
         /\ \A lost \in BOOLEAN : AppRestart(lost) => PortsInvariant'
<1> USE DEF LinkInvariant
<1>1. ASSUME NEW p \in Ports, PortGone(p) PROVE PortsInvariant'
  <2>1. ~panicked /\ Apply(Disconnect(Manager, p))
    BY <1>1 DEF PortGone
  <2> QED BY <2>1, DisconnectOK, ApplyOK
<1>2. ASSUME NEW p \in Ports, PollReady(p) PROVE PortsInvariant'
  <2> DEFINE d == Head(chain[p])
  <2>1. /\ ~panicked /\ up[d] # <<>>
        /\ Apply(Received(Manager, p, Head(up[d])))
    BY <1>2 DEF PollReady
  <2>2. d \in Devices
    BY <1>2, HeadTailProperties DEF PollReady, Plugged, LinkTypeOK
  <2>3. up[d] \in Seq(Frames)
    BY <2>2 DEF LinkTypeOK
  <2> HIDE DEF d
  <2>4. Head(up[d]) \in Frames
    BY <2>1, <2>3, HeadTailProperties
  <2> QED BY <2>1, <2>4, ReceivedOK, ApplyOK
<1>3. ASSUME PollIdle PROVE PortsInvariant'
  <2>1. ~panicked /\ Apply(Manager)
    BY <1>3 DEF PollIdle
  <2> QED BY <2>1, ManagerFields, ApplyOK
<1>4. ASSUME NEW lost \in BOOLEAN, AppRestart(lost) PROVE PortsInvariant'
  <2>1. /\ list' = [q \in Ports |-> <<>>] /\ portOf' = [e \in Devices |-> None]
        /\ registered' = {} /\ ui' = [connected |-> {}, listed |-> {}]
    BY <1>4 DEF AppRestart
  <2>2. Once(<<>>) /\ ToSet(<<>>) = {}
    BY DEF Once, ToSet
  <2>3. ListsAgree(list', portOf')
    <3>1. \A p \in Ports : None # p
      BY LinkAssumption
    <3> QED BY <2>1, <2>2, <3>1, EmptySeq DEF ListsAgree
  <2> QED BY <2>1, <2>3 DEF PortsInvariant, ListsAgree
<1>5. ASSUME UNCHANGED <<list, portOf, registered, ui, panicked>> PROVE PortsInvariant'
  BY <1>5 DEF PortsInvariant, ListsAgree
<1> QED BY <1>1, <1>2, <1>3, <1>4, <1>5 DEF AwaitMagic, OpenPort

\* The inductive invariant: the types of what is under way, and the manager's maps
\* and the app's list as each poll leaves them.
THEOREM DeviceLinkInvariant == Spec => []LinkInvariant
<1>1. LinkInvariant /\ [Next]_vars => LinkInvariant'
  <2> SUFFICES ASSUME LinkInvariant, [Next]_vars PROVE LinkInvariant'
    OBVIOUS
  <2> USE DEF LinkInvariant
  <2>1. UNCHANGED coordVars => PortsInvariant'
    BY DEF coordVars, PortsInvariant, ListsAgree
  <2>2. ASSUME NEW d \in Devices, NEW tick \in BOOLEAN, DevicePoll(d, tick)
        PROVE  LinkInvariant'
    BY <2>1, <2>2, DevicePollType
  <2>3. ASSUME NEW d \in Devices, Report(d) \/ Reboot(d) \/ Unplug(d)
        PROVE  LinkInvariant'
    BY <2>1, <2>3, DeviceSteps DEF Report, Reboot, Unplug
  <2>4. ASSUME NEW d \in Devices, NEW p \in Ports, PlugIn(d, p)
        PROVE  LinkInvariant'
    BY <2>1, <2>4, DeviceSteps DEF PlugIn
  <2>5. ASSUME NEW p \in Ports, PortGone(p) \/ AwaitMagic(p) \/ PollReady(p)
        PROVE  LinkInvariant'
    BY <2>5, CoordinatorType, CoordinatorSteps
  <2>6. ASSUME NEW p \in Ports, NEW result \in Opened, OpenPort(p, result)
        PROVE  LinkInvariant'
    BY <2>6, CoordinatorType, CoordinatorSteps
  <2>7. ASSUME PollIdle PROVE LinkInvariant'
    BY <2>7, CoordinatorType, CoordinatorSteps
  <2>8. ASSUME NEW lost \in BOOLEAN, AppRestart(lost) PROVE LinkInvariant'
    BY <2>8, CoordinatorType, CoordinatorSteps
  <2>9. CASE UNCHANGED vars
    BY <2>1, <2>9 DEF vars, LinkTypeOK
  <2> QED BY <2>2, <2>3, <2>4, <2>5, <2>6, <2>7, <2>8, <2>9 DEF Next
<1> QED BY <1>1, LinkInit, PTL DEF Spec

\* The manager's two maps and the app's list describe the same devices after every
\* poll, for any ports, chains of any length and any number of moves, faults and
\* messages: a device is on one list at most and only once, also when it announces
\* itself again on another port before the old one was seen to be gone.
THEOREM DeviceLinkPortsAgree == Spec => []PortsAgree
<1>1. LinkInvariant => PortsAgree
  <2> SUFFICES ASSUME LinkInvariant PROVE PortsAgree
    OBVIOUS
  <2>1. ASSUME NEW d \in Devices, NEW p \in Ports
        PROVE  Cardinality({i \in DOMAIN list[p] : list[p][i] = d}) = IF portOf[d] = p THEN 1 ELSE 0
    <3> DEFINE at == {i \in DOMAIN list[p] : list[p][i] = d}
    <3>1. Once(list[p]) /\ (d \in ToSet(list[p]) <=> portOf[d] = p)
      BY DEF LinkInvariant, PortsInvariant, ListsAgree
    <3>2. CASE portOf[d] = p
      <4>1. PICK i \in DOMAIN list[p] : list[p][i] = d
        BY <3>1, <3>2 DEF ToSet
      <4>2. at = {i}
        BY <3>1, <4>1 DEF Once
      <4> QED BY <3>2, <4>2, FS_Singleton
    <3>3. CASE portOf[d] # p
      <4>1. at = {}
        BY <3>1, <3>3 DEF ToSet
      <4> QED BY <3>3, <4>1, FS_EmptySet
    <3> QED BY <3>2, <3>3
  <2> QED BY <2>1 DEF LinkInvariant, PortsInvariant, PortsAgree
<1> QED BY <1>1, DeviceLinkInvariant, PTL

=============================================================================
