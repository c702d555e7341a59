----------------------------- MODULE RelayProofs -----------------------------
(***************************************************************************)
(* Proofs about the relay and its reverse tunnel, for any number of slots, *)
(* clients, attempts and faults: a slot's connections and timers, what     *)
(* becomes of every socket the relay has accepted, and the streams of the  *)
(* pairs it makes.                                                         *)
(***************************************************************************)
EXTENDS RelayTunnel, CommonLemmas, SequenceTheorems

NearStates == {"none", "dialling", "offered", "opening", "piping", "ending", "closed"}
LocalStates == {"none", "connecting", "open", "ending", "closed"}
HereStates == {"none", "open", "closed"}
Lines == {Line(type) : type \in {"greeting", "ready", "connected"}}
         \cup {Data(from, n) : from \in Dials \cup Clients, n \in Nat}

Uplinks == [slot : Nat, near : NearStates, local : LocalStates, far : SocketStates,
            up : Seq(Lines), down : Seq(Lines), served : Seq(Lines), said : Nat]
HandheldEnds == [here : HereStates, there : SocketStates, up : Seq(Lines),
                 down : Seq(Lines), sent : Nat, heard : Seq(Lines)]
SlotRecords == [stopped : BOOLEAN, timers : Nat, dial : Nat]
Relays == [closed : BOOLEAN, uplinks : Seq(Dials), clients : Seq(Clients),
           pairing : SUBSET (Dials \X Clients), piping : SUBSET (Dials \X Clients)]

Typed ==
    /\ uplink \in [Dials -> Uplinks]
    /\ client \in [Clients -> HandheldEnds]
    /\ slot \in [Slots -> SlotRecords]
    /\ relay \in Relays
    /\ pools \in Nat /\ dials \in 0..MaxDials

(* What the two ends of an uplink have in common after a step. *)
SameNear(u, v) == v.slot = u.slot /\ v.near = u.near /\ v.local = u.local

-----------------------------------------------------------------------------
LEMMA LinesAreLines ==
    /\ Line("greeting") \in Lines /\ Line("ready") \in Lines
    /\ Line("connected") \in Lines
    /\ \A who \in Dials \cup Clients, n \in Nat : Data(who, n) \in Lines
BY DEF Lines

LEMMA NewRecords ==
    /\ NoUplink \in Uplinks /\ NoClient \in HandheldEnds
    /\ NoSlot \in SlotRecords /\ NewRelay \in Relays
    /\ \A s \in Nat : /\ Dialling(s) \in Uplinks
                      /\ Dialling(s).slot = s /\ Dialling(s).near = "dialling"
                      /\ Dialling(s).local = "none" /\ Dialling(s).far = "none"
<1>1. NoUplink \in Uplinks
  BY DEF NoUplink, Uplinks, NearStates, LocalStates, SocketStates
<1>2. NoClient \in HandheldEnds
  BY DEF NoClient, HandheldEnds, HereStates, SocketStates
<1>3. NoSlot \in SlotRecords /\ NewRelay \in Relays
  BY DEF NoSlot, SlotRecords, NewRelay, Relays
<1>4. ASSUME NEW s \in Nat
      PROVE  /\ Dialling(s) \in Uplinks
             /\ Dialling(s).slot = s /\ Dialling(s).near = "dialling"
             /\ Dialling(s).local = "none" /\ Dialling(s).far = "none"
  <2>1. NoUplink.local = "none" /\ NoUplink.far = "none"
    BY DEF NoUplink
  <2> QED
    BY <1>1, <2>1 DEF Dialling, Uplinks, NearStates
<1> QED
  BY <1>1, <1>2, <1>3, <1>4

LEMMA DestroyedState ==
    /\ \A x \in NearStates : Destroyed(x) \in {"none", "ending", "closed"}
    /\ \A x \in LocalStates : Destroyed(x) \in {"none", "ending", "closed"}
    /\ \A x \in SocketStates : Destroyed(x) \in {"none", "ending", "closed"}
    /\ \A x : Destroyed(x) = "none" <=> x = "none"
    /\ \A x : Destroyed(x) = "closed" <=> x = "closed"
BY DEF Destroyed, NearStates, LocalStates, SocketStates

LEMMA DestroyUplink ==
    ASSUME NEW u \in Uplinks
    PROVE  /\ NearGone(u) \in Uplinks
           /\ NearGone(u).slot = u.slot /\ NearGone(u).near = Destroyed(u.near)
           /\ NearGone(u).local = u.local /\ NearGone(u).far = u.far
           /\ LocalGone(u) \in Uplinks
           /\ LocalGone(u).slot = u.slot /\ LocalGone(u).near = u.near
           /\ LocalGone(u).local = Destroyed(u.local) /\ LocalGone(u).far = u.far
           /\ FarGone(u) \in Uplinks
           /\ SameNear(u, FarGone(u)) /\ FarGone(u).far = Destroyed(u.far)
<1>1. /\ Destroyed(u.near) \in NearStates /\ Destroyed(u.local) \in LocalStates
      /\ Destroyed(u.far) \in SocketStates
  BY DestroyedState DEF Uplinks, NearStates, LocalStates, SocketStates
<1> DEFINE near == Destroyed(u.near)  local == Destroyed(u.local)
           far == Destroyed(u.far)
<1> HIDE DEF near, local, far
<1>2. near \in NearStates /\ local \in LocalStates /\ far \in SocketStates
  BY <1>1 DEF near, local, far
<1>3. /\ NearGone(u) = [u EXCEPT !.near = near, !.down = <<>>]
      /\ LocalGone(u) = [u EXCEPT !.local = local]
      /\ FarGone(u) = [u EXCEPT !.far = far, !.up = <<>>]
  BY DEF NearGone, LocalGone, FarGone, near, local, far
<1>4. /\ NearGone(u) \in Uplinks /\ LocalGone(u) \in Uplinks
      /\ FarGone(u) \in Uplinks
  <2>1. <<>> \in Seq(Lines)
    BY EmptySeq
  <2> QED
    BY <1>2, <1>3, <2>1 DEF Uplinks
<1>5. /\ NearGone(u).slot = u.slot /\ NearGone(u).near = near
      /\ NearGone(u).local = u.local /\ NearGone(u).far = u.far
  BY <1>3 DEF Uplinks
<1>6. /\ LocalGone(u).slot = u.slot /\ LocalGone(u).near = u.near
      /\ LocalGone(u).local = local /\ LocalGone(u).far = u.far
  BY <1>3 DEF Uplinks
<1>7. /\ FarGone(u).slot = u.slot /\ FarGone(u).near = u.near
      /\ FarGone(u).local = u.local /\ FarGone(u).far = far
  BY <1>3 DEF Uplinks
<1> QED
  BY <1>4, <1>5, <1>6, <1>7 DEF SameNear, near, local, far

LEMMA DestroyClient ==
    ASSUME NEW k \in HandheldEnds
    PROVE  /\ ThereGone(k) \in HandheldEnds
           /\ ThereGone(k).here = k.here /\ ThereGone(k).there = Destroyed(k.there)
<1>1. Destroyed(k.there) \in SocketStates
  BY DestroyedState DEF HandheldEnds, SocketStates
<1> DEFINE there == Destroyed(k.there)
<1> HIDE DEF there
<1>2. there \in SocketStates /\ ThereGone(k) = [k EXCEPT !.there = there, !.up = <<>>]
  BY <1>1 DEF ThereGone, there
<1>3. ThereGone(k) \in HandheldEnds
  <2>1. <<>> \in Seq(Lines)
    BY EmptySeq
  <2> QED
    BY <1>2, <2>1 DEF HandheldEnds
<1>4. ThereGone(k).here = k.here /\ ThereGone(k).there = there
  BY <1>2 DEF HandheldEnds
<1> QED
  BY <1>3, <1>4 DEF there

LEMMA WrittenLine ==
    ASSUME NEW q \in Seq(Lines), NEW x, NEW l \in Lines
    PROVE  Sent(q, x, l) \in Seq(Lines)
BY AppendProperties DEF Sent

(* The queues: what leaves them, and what #tryPair makes of them.           *)
LEMMA LeastIndex ==
    ASSUME NEW I \in SUBSET Nat, I # {}
    PROVE  Min(I) \in I /\ \A k \in I : Min(I) <= k
BY LeastNumber DEF Min

LEMMA QueueElements ==
    ASSUME NEW S, NEW q \in Seq(S)
    PROVE  /\ ToSet(q) = {q[k] : k \in 1..Len(q)}
           /\ ToSet(q) \subseteq S
           /\ q = <<>> <=> ToSet(q) = {}
           /\ \A x \in S : ToSet(Append(q, x)) = ToSet(q) \cup {x}
           /\ q # <<>> => /\ Tail(q) \in Seq(S) /\ Head(q) \in S
                          /\ ToSet(q) = {Head(q)} \cup ToSet(Tail(q))
<1>1. ToSet(q) = {q[k] : k \in 1..Len(q)} /\ ToSet(q) \subseteq S
  BY DEF ToSet
<1>2. q = <<>> <=> ToSet(q) = {}
  <2>1. q # <<>> => Len(q) \in Nat \ {0}
    BY EmptySeq
  <2>2. q = <<>> => Len(q) = 0
    BY EmptySeq
  <2> QED
    BY <2>1, <2>2, <1>1
<1>3. ASSUME NEW x \in S
      PROVE  ToSet(Append(q, x)) = ToSet(q) \cup {x}
  <2> DEFINE p == Append(q, x)
  <2>1. /\ p \in Seq(S) /\ Len(p) = Len(q) + 1 /\ p[Len(q) + 1] = x
        /\ \A k \in 1..Len(q) : p[k] = q[k]
    BY AppendProperties
  <2> HIDE DEF p
  <2>2. ToSet(p) = {p[k] : k \in 1..Len(p)}
    BY <2>1 DEF ToSet
  <2>3. 1..Len(p) = 1..Len(q) \cup {Len(q) + 1}
    BY <2>1, LenProperties
  <2>4. {p[k] : k \in 1..Len(p)} = {q[k] : k \in 1..Len(q)} \cup {x}
    BY <2>1, <2>3
  <2> QED
    BY <2>2, <2>4, <1>1 DEF p
<1>4. ASSUME q # <<>>
      PROVE  /\ Tail(q) \in Seq(S) /\ Head(q) \in S
             /\ ToSet(q) = {Head(q)} \cup ToSet(Tail(q))
  <2> DEFINE t == Tail(q)
  <2>1. /\ Head(q) \in S /\ t \in Seq(S) /\ Len(t) = Len(q) - 1
        /\ \A k \in 1..Len(t) : t[k] = q[k + 1]
    BY <1>4, HeadTailProperties
  <2>2. Len(q) \in Nat \ {0} /\ Head(q) = q[1]
    BY <1>4, EmptySeq
  <2> HIDE DEF t
  <2>3. ToSet(t) = {t[k] : k \in 1..Len(t)}
    BY <2>1 DEF ToSet
  <2>4. ASSUME NEW k \in 1..Len(q), k # 1
        PROVE  q[k] \in ToSet(t)
    <3>1. k - 1 \in 1..Len(t) /\ t[k - 1] = q[k]
      BY <2>1, <2>2, <2>4
    <3> QED
      BY <3>1, <2>3
  <2>5. ASSUME NEW k \in 1..Len(t)
        PROVE  t[k] \in ToSet(q)
    <3>1. k + 1 \in 1..Len(q) /\ t[k] = q[k + 1]
      BY <2>1, <2>2, <2>5
    <3> QED
      BY <3>1, <1>1
  <2>6. q[1] \in ToSet(q)
    BY <2>2, <1>1
  <2> QED
    BY <2>1, <2>2, <2>3, <2>4, <2>5, <2>6, <1>1 DEF t
<1> QED
  BY <1>1, <1>2, <1>3, <1>4

(* Nothing is in a queue twice. *)
OnlyOnce(q) == \A m, n \in 1..Len(q) : q[m] = q[n] => m = n

(* #takeLive drops no socket that is alive.                                 *)
LEMMA LiveQueue ==
    ASSUME NEW S, NEW q \in Seq(S), NEW live
    PROVE  LET f == FromLive(q, live)
           IN  /\ f \in Seq(S)
               /\ ToSet(f) \subseteq ToSet(q)
               /\ ToSet(q) \cap live \subseteq ToSet(f)
               /\ OnlyOnce(q) => OnlyOnce(f)
               /\ f # <<>> => /\ Head(f) \in live
                              /\ \E k \in 1..Len(q) : /\ q[k] \in live
                                                     /\ Len(f) = Len(q) - k + 1
<1> DEFINE I == {k \in 1..Len(q) : q[k] \in live}
           n == IF I # {} THEN Min(I) ELSE 0
           f == FromLive(q, live)
<1>1. f = IF n = 0 THEN <<>> ELSE SubSeq(q, n, Len(q))
  BY DEF FromLive, SelectInSeq
<1>2. ToSet(q) = {q[k] : k \in 1..Len(q)} /\ Len(q) \in Nat
  BY QueueElements
<1>3. CASE I = {}
  <2>1. f = <<>> /\ f \in Seq(S)
    BY <1>1, <1>3, EmptySeq
  <2>2. ToSet(f) = {}
    BY <2>1, QueueElements
  <2> HIDE DEF f
  <2>3. OnlyOnce(f)
    BY <2>1 DEF OnlyOnce
  <2> QED
    BY <2>1, <2>2, <2>3, <1>2, <1>3 DEF f
<1>4. CASE I # {}
  <2>1. I \in SUBSET Nat
    BY <1>2
  <2>2. n \in I /\ \A k \in I : n <= k
    BY <2>1, <1>4, LeastIndex
  <2> HIDE DEF n
  <2>3. n \in 1..Len(q) /\ q[n] \in live
    BY <2>2
  <2>4. f = SubSeq(q, n, Len(q))
    BY <1>1, <2>3
  <2>5. \A i \in n..Len(q) : q[i] \in S
    BY <2>3, <1>2
  <2>6. /\ f \in Seq(S) /\ Len(f) = Len(q) - n + 1
        /\ \A i \in 1..Len(q) - n + 1 : f[i] = q[n + i - 1]
    BY <2>3, <2>4, <2>5, <1>2, SubSeqProperties
  <2> HIDE DEF f
  <2>7. ToSet(f) = {f[i] : i \in 1..Len(f)} /\ Len(f) \in Nat \ {0}
    BY <2>3, <2>6, <1>2, QueueElements
  <2>8. ASSUME NEW i \in 1..Len(f)
        PROVE  f[i] \in ToSet(q)
    <3>1. n + i - 1 \in 1..Len(q) /\ f[i] = q[n + i - 1]
      BY <2>3, <2>6, <1>2
    <3> QED
      BY <3>1, <1>2
  <2>9. ASSUME NEW k \in 1..Len(q), q[k] \in live
        PROVE  q[k] \in ToSet(f)
    <3>1. k \in I
      BY <2>9
    <3>2. k - n + 1 \in 1..Len(f) /\ f[k - n + 1] = q[k]
      BY <3>1, <2>2, <2>3, <2>6, <1>2
    <3> QED
      BY <3>2, <2>7
  <2>10. f # <<>> /\ Head(f) = f[1] /\ f[1] = q[n]
    BY <2>3, <2>6, <2>7, <1>2, EmptySeq
  <2>11. ASSUME OnlyOnce(q), NEW i \in 1..Len(f), NEW j \in 1..Len(f), f[i] = f[j]
         PROVE  i = j
    <3>1. /\ n + i - 1 \in 1..Len(q) /\ n + j - 1 \in 1..Len(q)
          /\ f[i] = q[n + i - 1] /\ f[j] = q[n + j - 1]
      BY <2>3, <2>6, <1>2
    <3>2. n + i - 1 = n + j - 1
      BY <3>1, <2>11 DEF OnlyOnce
    <3> QED
      BY <3>2, <2>3, <2>7, <1>2
  <2>12. OnlyOnce(q) => OnlyOnce(f)
    BY <2>11 DEF OnlyOnce
  <2> QED
    BY <2>3, <2>6, <2>7, <2>8, <2>9, <2>10, <2>12, <1>2 DEF f
<1> QED
  BY <1>3, <1>4

(* removeEntry() keeps everything else.                                     *)
LEMMA RemovedEntry ==
    ASSUME NEW S, NEW q \in Seq(S), NEW x
    PROVE  LET f == RemoveFirst(q, x)
           IN  /\ f \in Seq(S)
               /\ ToSet(f) \subseteq ToSet(q)
               /\ ToSet(q) \ {x} \subseteq ToSet(f)
               /\ OnlyOnce(q) => OnlyOnce(f)
<1> DEFINE I == {k \in 1..Len(q) : q[k] = x}
           n == IF I # {} THEN Min(I) ELSE 0
           f == RemoveFirst(q, x)
<1>1. f = IF \E k \in 1..Len(q) : q[k] = x THEN RemoveAt(q, n) ELSE q
  BY DEF RemoveFirst, SelectInSeq
<1>2. ToSet(q) = {q[k] : k \in 1..Len(q)} /\ Len(q) \in Nat
  BY QueueElements
<1>3. CASE I = {}
  BY <1>1, <1>3
<1>4. CASE I # {}
  <2>1. I \in SUBSET Nat
    BY <1>2
  <2>2. n \in 1..Len(q) /\ q[n] = x
    BY <2>1, <1>4, LeastIndex
  <2> HIDE DEF n
  <2> DEFINE a == SubSeq(q, 1, n - 1)
             b == SubSeq(q, n + 1, Len(q))
  <2>3. f = a \o b
    BY <1>1, <2>2 DEF RemoveAt
  <2>4. /\ a \in Seq(S) /\ Len(a) = n - 1
        /\ \A i \in 1..n - 1 : a[i] = q[i]
    <3>1. \A i \in 1..n - 1 : q[i] \in S
      BY <2>2, <1>2
    <3>2. /\ a \in Seq(S) /\ Len(a) = IF 1 <= n - 1 THEN (n - 1) - 1 + 1 ELSE 0
          /\ \A i \in 1..(n - 1) - 1 + 1 : a[i] = q[1 + i - 1]
      BY <3>1, <2>2, <1>2, SubSeqProperties
    <3> QED
      BY <3>2, <2>2
  <2>5. /\ b \in Seq(S) /\ Len(b) = Len(q) - n
        /\ \A i \in 1..Len(q) - n : b[i] = q[n + i]
    <3>1. \A i \in n + 1..Len(q) : q[i] \in S
      BY <2>2, <1>2
    <3>2. /\ b \in Seq(S)
          /\ Len(b) = IF n + 1 <= Len(q) THEN Len(q) - (n + 1) + 1 ELSE 0
          /\ \A i \in 1..Len(q) - (n + 1) + 1 : b[i] = q[n + 1 + i - 1]
      BY <3>1, <2>2, <1>2, SubSeqProperties
    <3> QED
      BY <3>2, <2>2, <1>2
  <2> HIDE DEF a, b, f
  <2>6. /\ f \in Seq(S) /\ Len(f) = Len(q) - 1
        /\ \A i \in 1..n - 1 : f[i] = q[i]
        /\ \A i \in n..Len(q) - 1 : f[i] = q[i + 1]
    <3>1. /\ f \in Seq(S) /\ Len(f) = Len(a) + Len(b)
          /\ \A i \in 1..Len(a) + Len(b) :
                f[i] = IF i <= Len(a) THEN a[i] ELSE b[i - Len(a)]
      BY <2>3, <2>4, <2>5, ConcatProperties
    <3>2. Len(a) + Len(b) = Len(q) - 1
      BY <2>2, <2>4, <2>5, <1>2
    <3>3. ASSUME NEW i \in 1..n - 1
          PROVE  f[i] = q[i]
      <4>1. i \in 1..Len(a) + Len(b) /\ i <= Len(a)
        BY <3>2, <2>2, <2>4, <1>2
      <4> QED
        BY <4>1, <3>1, <2>4
    <3>4. ASSUME NEW i \in n..Len(q) - 1
          PROVE  f[i] = q[i + 1]
      <4>1. /\ i \in 1..Len(a) + Len(b) /\ ~(i <= Len(a))
            /\ i - Len(a) \in 1..Len(q) - n /\ n + (i - Len(a)) = i + 1
        BY <3>2, <2>2, <2>4, <1>2
      <4> QED
        BY <4>1, <3>1, <2>5
    <3> QED
      BY <3>1, <3>2, <3>3, <3>4
  <2>7. ToSet(f) = {f[i] : i \in 1..Len(f)}
    BY <2>6, QueueElements
  <2>8. ASSUME NEW i \in 1..Len(f)
        PROVE  f[i] \in ToSet(q)
    BY <2>2, <2>6, <1>2
  <2>9. ASSUME NEW k \in 1..Len(q), q[k] # x
        PROVE  q[k] \in ToSet(f)
    <3>1. CASE k < n
      BY <3>1, <2>2, <2>6, <2>7, <1>2
    <3>2. CASE k > n
      <4>1. k - 1 \in n..Len(q) - 1 /\ f[k - 1] = q[k] /\ k - 1 \in 1..Len(f)
        BY <3>2, <2>2, <2>6, <1>2
      <4> QED
        BY <4>1, <2>7
    <3> QED
      BY <3>1, <3>2, <2>2, <2>9
  <2>10. ASSUME OnlyOnce(q), NEW i \in 1..Len(f), NEW j \in 1..Len(f), f[i] = f[j]
         PROVE  i = j
    <3> DEFINE Place(k) == IF k < n THEN k ELSE k + 1
    <3>1. ASSUME NEW k \in 1..Len(f)
          PROVE  Place(k) \in 1..Len(q) /\ f[k] = q[Place(k)]
      BY <2>2, <2>6, <1>2
    <3>2. /\ Place(i) \in 1..Len(q) /\ Place(j) \in 1..Len(q)
          /\ q[Place(i)] = q[Place(j)]
      BY <3>1, <2>10
    <3> HIDE DEF Place
    <3>3. Place(i) = Place(j)
      BY <3>2, <2>10 DEF OnlyOnce
    <3> QED
      BY <3>3, <2>2, <2>6, <1>2 DEF Place
  <2>11. OnlyOnce(q) => OnlyOnce(f)
    BY <2>10 DEF OnlyOnce
  <2> QED
    BY <2>6, <2>7, <2>8, <2>9, <2>11, <1>2 DEF f
<1> QED
  BY <1>3, <1>4

(* A queue without live sockets to which one is added has no second one.    *)
LEMMA LiveTail ==
    ASSUME NEW S, NEW q \in Seq(S), NEW x \in S, NEW live, ToSet(q) \cap live = {}
    PROVE  LET f == FromLive(Append(q, x), live)
           IN  f # <<>> => ToSet(Tail(f)) = {}
<1> DEFINE p == Append(q, x)
           f == FromLive(p, live)
<1>1. /\ p \in Seq(S) /\ Len(p) = Len(q) + 1 /\ Len(q) \in Nat
      /\ \A k \in 1..Len(q) : p[k] = q[k]
  BY AppendProperties, LenProperties
<1> HIDE DEF p
<1>2. ASSUME NEW k \in 1..Len(p), p[k] \in live
      PROVE  k = Len(p)
  BY <1>1, <1>2, QueueElements
<1>3. f \in Seq(S) /\ (f # <<>> => \E k \in 1..Len(p) :
                           p[k] \in live /\ Len(f) = Len(p) - k + 1)
  BY <1>1, LiveQueue
<1> HIDE DEF f
<1>4. ASSUME f # <<>>
      PROVE  ToSet(Tail(f)) = {}
  <2>1. Len(f) = 1
    <3>1. PICK k \in 1..Len(p) : p[k] \in live /\ Len(f) = Len(p) - k + 1
      BY <1>3, <1>4
    <3>2. k = Len(p)
      BY <3>1, <1>2
    <3> QED
      BY <3>1, <3>2, <1>1
  <2>2. Tail(f) \in Seq(S) /\ Len(Tail(f)) = 0
    BY <2>1, <1>3, <1>4, HeadTailProperties
  <2> DEFINE t == Tail(f)
  <2> HIDE DEF t
  <2>3. ToSet(t) = {t[k] : k \in 1..Len(t)}
    BY <2>2, QueueElements DEF t
  <2>4. Len(t) = 0
    BY <2>2 DEF t
  <2>5. ToSet(t) = {}
    BY <2>3, <2>4
  <2> QED
    BY <2>5 DEF t
<1> QED
  BY <1>4 DEF f, p

(* #tryPair forgets no live socket: it stays in its queue or is paired.     *)
Tried(r, t, us, cs) ==
    /\ t \in Relays /\ t.piping = r.piping /\ r.pairing \subseteq t.pairing
    /\ ToSet(t.uplinks) \subseteq ToSet(r.uplinks)
    /\ ToSet(t.clients) \subseteq ToSet(r.clients)
    /\ \A i \in ToSet(r.uplinks) \cap us :
          \/ i \in ToSet(t.uplinks)
          \/ \E c \in Clients : <<i, c>> \in t.pairing
    /\ \A c \in ToSet(r.clients) \cap cs :
          \/ c \in ToSet(t.clients)
          \/ \E i \in Dials : <<i, c>> \in t.pairing
    /\ \/ ToSet(t.uplinks) = {} \/ ToSet(t.clients) = {}
       \/ /\ FromLive(r.uplinks, us) # <<>>
          /\ FromLive(r.clients, cs) # <<>>
          /\ t.uplinks = Tail(FromLive(r.uplinks, us))
          /\ t.clients = Tail(FromLive(r.clients, cs))

LEMMA TriedPair ==
    ASSUME NEW r \in Relays, NEW us, NEW cs
    PROVE  Tried(r, TryPair(r, us, cs), us, cs)
<1> DEFINE a == FromLive(r.uplinks, us)
           b == FromLive(r.clients, cs)
           t == TryPair(r, us, cs)
<1>1. /\ r.uplinks \in Seq(Dials) /\ r.clients \in Seq(Clients)
      /\ r.pairing \subseteq Dials \X Clients
  BY DEF Relays
<1>2. /\ a \in Seq(Dials) /\ ToSet(a) \subseteq ToSet(r.uplinks)
      /\ ToSet(r.uplinks) \cap us \subseteq ToSet(a)
  BY <1>1, LiveQueue
<1>3. /\ b \in Seq(Clients) /\ ToSet(b) \subseteq ToSet(r.clients)
      /\ ToSet(r.clients) \cap cs \subseteq ToSet(b)
  BY <1>1, LiveQueue
<1>4. t = IF a = <<>> \/ b = <<>> THEN [r EXCEPT !.uplinks = a, !.clients = b]
          ELSE [r EXCEPT !.uplinks = Tail(a), !.clients = Tail(b),
                         !.pairing = @ \cup {<<Head(a), Head(b)>>}]
  BY DEF TryPair
<1> HIDE DEF a, b, t
<1>5. CASE a = <<>> \/ b = <<>>
  <2>1. /\ t \in Relays /\ t.piping = r.piping /\ t.pairing = r.pairing
        /\ t.uplinks = a /\ t.clients = b
    BY <1>2, <1>3, <1>4, <1>5 DEF Relays
  <2>2. ToSet(a) = {} \/ ToSet(b) = {}
    BY <1>2, <1>3, <1>5, QueueElements
  <2> QED
    BY <2>1, <2>2, <1>2, <1>3 DEF t, Tried
<1>6. CASE a # <<>> /\ b # <<>>
  <2>1. /\ Head(a) \in Dials /\ Tail(a) \in Seq(Dials)
        /\ ToSet(a) = {Head(a)} \cup ToSet(Tail(a))
    BY <1>2, <1>6, QueueElements
  <2>2. /\ Head(b) \in Clients /\ Tail(b) \in Seq(Clients)
        /\ ToSet(b) = {Head(b)} \cup ToSet(Tail(b))
    BY <1>3, <1>6, QueueElements
  <2> DEFINE pairs == r.pairing \cup {<<Head(a), Head(b)>>}
  <2>3. pairs \in SUBSET (Dials \X Clients)
    BY <2>1, <2>2, <1>1
  <2>4. t = [r EXCEPT !.uplinks = Tail(a), !.clients = Tail(b), !.pairing = pairs]
    BY <1>4, <1>6
  <2> HIDE DEF pairs
  <2>5. /\ t \in Relays /\ t.piping = r.piping /\ t.pairing = pairs
        /\ t.uplinks = Tail(a) /\ t.clients = Tail(b)
    BY <2>1, <2>2, <2>3, <2>4 DEF Relays
  <2>6. <<Head(a), Head(b)>> \in t.pairing /\ r.pairing \subseteq t.pairing
    BY <2>5 DEF pairs
  <2> QED
    BY <2>1, <2>2, <2>5, <2>6, <1>2, <1>3, <1>6 DEF a, b, t, Tried
<1> QED
  BY <1>5, <1>6

-----------------------------------------------------------------------------
(* What a step may do to the tunnel and to the relay.  Most steps leave one *)
(* of the two as it is, and the others start or end the life of one socket. *)

Busy(u) == Live(u) \/ Closing(u)

(* The slots of the tunnels started so far. *)
Made == pools * PoolSize

(* No slot notices: no socket comes to life, none that was busy is closed.  *)
SlotsKept ==
    /\ slot' = slot /\ pools' = pools /\ dials' = dials
    /\ \A i \in Dials : /\ uplink'[i].slot = uplink[i].slot
                        /\ Live(uplink'[i]) => Live(uplink[i])
                        /\ Busy(uplink'[i]) <=> Busy(uplink[i])

(* The relay does not notice. *)
RelayKept ==
    /\ relay' = relay
    /\ dials <= dials'
    /\ \A i \in Dials : /\ uplink'[i].far = uplink[i].far
                        /\ uplink'[i].near \in {"none", "dialling"} =>
                               uplink'[i].far = "none"
    /\ \A c \in Clients : /\ client'[c].there = client[c].there
                          /\ client[c].here # "none" => client'[c].here # "none"

(* No slot or attempt of a later tunnel is in use. *)
AttemptsAreCounted ==
    /\ \A i \in Dials : /\ uplink[i].slot <= Made
                        /\ i > dials => ~Busy(uplink[i])
    /\ \A s \in Slots : ~slot[s].stopped => s <= Made

(* What waits has greeted, or was accepted; what is not connected has no    *)
(* socket at the relay.                                                     *)
WaitersWereHeard ==
    /\ \A i \in ToSet(relay.uplinks) : uplink[i].far \notin {"none", "greeting"}
    /\ \A c \in ToSet(relay.clients) : client[c].here # "none"
    /\ \A i \in Dials : i > dials \/ uplink[i].near \in {"none", "dialling"}
          => uplink[i].far = "none"

SlotsInv == SlotsHoldOne /\ AttemptsAreCounted
RelayInv == NoSocketIsForgotten /\ NobodyWaitsForAWaiter /\ WaitersWereHeard

LEMMA OccupiedIsBusy ==
    /\ \A s : Occupied(s) = {i \in Dials : uplink[i].slot = s /\ Busy(uplink[i])}
    /\ \A s : Alive(s) = {i \in Dials : uplink[i].slot = s /\ Live(uplink[i])}
    /\ \A s : Occupied(s)' = {i \in Dials : uplink'[i].slot = s /\ Busy(uplink'[i])}
    /\ \A s : Alive(s)' = {i \in Dials : uplink'[i].slot = s /\ Live(uplink'[i])}
    /\ \A s : Alive(s) \subseteq Occupied(s) /\ Alive(s)' \subseteq Occupied(s)'
BY DEF Occupied, Alive, Busy, Live, Closing

LEMMA SlotsAreKept ==
    ASSUME Typed, SlotsInv, SlotsKept
    PROVE  SlotsInv'
<1>1. ASSUME NEW s \in Slots
      PROVE  /\ Occupied(s)' = Occupied(s)
             /\ Alive(s)' \subseteq Alive(s)
  BY OccupiedIsBusy DEF SlotsKept
<1>2. SlotsHoldOne'
  <2>1. ASSUME NEW s \in Slots
        PROVE  slot'[s] = slot[s]
    BY DEF SlotsKept
  <2>2. ASSUME NEW s \in Slots
        PROVE  IF slot'[s].stopped THEN slot'[s].timers = 0 /\ Alive(s)' = {}
               ELSE \/ slot'[s].timers = 1 /\ Alive(s)' = {}
                    \/ slot'[s].timers = 0 /\ Occupied(s)' = {slot'[s].dial}
    BY <1>1, <2>1 DEF SlotsInv, SlotsHoldOne
  <2> QED
    BY <2>2 DEF SlotsHoldOne
<1>3. AttemptsAreCounted'
  <2>1. Made' = Made /\ dials' = dials /\ slot' = slot
    BY DEF Made, SlotsKept
  <2>2. ASSUME NEW i \in Dials
        PROVE  uplink'[i].slot <= Made /\ (i > dials => ~Busy(uplink'[i]))
    BY DEF SlotsKept, SlotsInv, AttemptsAreCounted
  <2> QED
    BY <2>1, <2>2 DEF SlotsInv, AttemptsAreCounted
<1> QED
  BY <1>2, <1>3 DEF SlotsInv

LEMMA RelayIsKept ==
    ASSUME Typed, RelayInv, RelayKept, dials' \in Nat
    PROVE  RelayInv'
<1>1. /\ ToSet(relay.uplinks) \subseteq Dials
      /\ ToSet(relay.clients) \subseteq Clients
  BY QueueElements DEF Typed, Relays
<1>2. relay' = relay
  BY DEF RelayKept
<1>3. ASSUME NEW i \in Dials
      PROVE  uplink'[i].far = uplink[i].far
  BY DEF RelayKept
<1>4. ASSUME NEW c \in Clients
      PROVE  client'[c].there = client[c].there
  BY DEF RelayKept
<1>5. NoSocketIsForgotten'
  <2>1. ASSUME NEW i \in Dials, uplink'[i].far = "open"
        PROVE  \/ i \in ToSet(relay.uplinks)
               \/ \E c \in Clients : <<i, c>> \in relay.pairing \cup relay.piping
    BY <1>3, <2>1 DEF RelayInv, NoSocketIsForgotten
  <2>2. ASSUME NEW c \in Clients, client'[c].there = "open"
        PROVE  \/ c \in ToSet(relay.clients)
               \/ \E i \in Dials : \/ <<i, c>> \in relay.pairing
                                   \/ /\ <<i, c>> \in relay.piping
                                      /\ uplink'[i].far # "closed"
    BY <1>3, <1>4, <2>2 DEF RelayInv, NoSocketIsForgotten
  <2> QED
    BY <1>2, <2>1, <2>2 DEF NoSocketIsForgotten
<1>6. NobodyWaitsForAWaiter'
  <2>1. /\ LiveUplinks(uplink') = LiveUplinks(uplink)
        /\ LiveClients(client') = LiveClients(client)
    BY <1>3, <1>4 DEF LiveUplinks, LiveClients
  <2> QED
    BY <1>2, <2>1 DEF RelayInv, NobodyWaitsForAWaiter
<1>7. WaitersWereHeard'
  <2>1. ASSUME NEW i \in ToSet(relay.uplinks)
        PROVE  uplink'[i].far \notin {"none", "greeting"}
    BY <1>1, <1>3 DEF RelayInv, WaitersWereHeard
  <2>2. ASSUME NEW c \in ToSet(relay.clients)
        PROVE  client'[c].here # "none"
    BY <1>1 DEF RelayInv, WaitersWereHeard, RelayKept
  <2>3. ASSUME NEW i \in Dials, i > dials' \/ uplink'[i].near \in {"none", "dialling"}
        PROVE  uplink'[i].far = "none"
    <3>1. i \in Nat /\ dials \in Nat /\ dials <= dials'
      BY DEF Typed, Dials, RelayKept
    <3> QED
      BY <2>3, <3>1, <1>3 DEF RelayInv, WaitersWereHeard, RelayKept
  <2> QED
    BY <1>2, <2>1, <2>2, <2>3 DEF WaitersWereHeard
<1> QED
  BY <1>5, <1>6, <1>7 DEF RelayInv

-----------------------------------------------------------------------------
(* The tunnel's own steps on an attempt that lives.                         *)

Others(i) == \A j \in Dials \ {i} : uplink'[j] = uplink[j]

LEMMA AttemptMoves ==
    ASSUME Typed, WaitersWereHeard, NEW i \in Dials,
           Live(uplink[i]), Busy(uplink'[i]), Others(i),
           uplink' \in [Dials -> Uplinks],
           uplink'[i].slot = uplink[i].slot, uplink'[i].far = uplink[i].far,
           uplink'[i].near \in {"none", "dialling"} =>
               uplink[i].near \in {"none", "dialling"},
           UNCHANGED <<relay, slot, pools, dials, client>>
    PROVE  Typed' /\ SlotsKept /\ RelayKept
<1>1. Typed'
  BY DEF Typed
<1>2. SlotsKept
  BY DEF Others, Busy, SlotsKept
<1>3. ASSUME NEW j \in Dials
      PROVE  /\ uplink'[j].far = uplink[j].far
             /\ uplink'[j].near \in {"none", "dialling"} => uplink'[j].far = "none"
  BY DEF Others, WaitersWereHeard
<1>4. RelayKept
  <2>1. dials <= dials'
    BY DEF Typed, Dials
  <2> QED
    BY <1>3, <2>1 DEF RelayKept
<1> QED
  BY <1>1, <1>2, <1>4

LEMMA AttemptStep ==
    ASSUME Typed, WaitersWereHeard, NEW i \in Dials,
           \/ ConnectFails(i) \/ ReadReady(i) \/ LocalConnect(i) \/ LocalFails(i)
           \/ PipeToServer(i) \/ ServerAnswers(i) \/ ServerHangsUp(i)
           \/ NearEnds(i) \/ ResetNear(i)
    PROVE  Typed' /\ SlotsKept /\ RelayKept
<1> DEFINE u == uplink[i]
<1>1. /\ u \in Uplinks /\ uplink \in [Dials -> Uplinks]
      /\ UNCHANGED <<relay, slot, pools, dials, client>>
  BY DEF Typed, ConnectFails, ReadReady, LocalConnect, LocalFails, PipeToServer,
         ServerAnswers, ServerHangsUp, NearEnds, ResetNear, UplinkUnchanged
<1>2. CASE ConnectFails(i) \/ NearEnds(i) \/ ResetNear(i)
  <2>1. /\ u.near \in {"dialling", "offered", "opening", "piping"}
        /\ uplink' = [uplink EXCEPT ![i] = NearGone(u)]
    BY <1>2 DEF ConnectFails, NearEnds, ResetNear
  <2>2. /\ uplink' \in [Dials -> Uplinks] /\ Others(i)
        /\ uplink'[i].slot = u.slot /\ uplink'[i].far = u.far
        /\ uplink'[i].near = "ending"
    <3>1. uplink'[i] = NearGone(u) /\ Others(i)
      BY <2>1, <1>1 DEF Others
    <3>2. Destroyed(u.near) = "ending"
      BY <2>1 DEF Destroyed
    <3> QED
      BY <2>1, <3>1, <3>2, <1>1, DestroyUplink
  <2>3. Live(uplink[i]) /\ Busy(uplink'[i])
    BY <2>1, <2>2 DEF Live, Busy, Closing
  <2> HIDE DEF u
  <2> QED
    BY <2>2, <2>3, <1>1, AttemptMoves DEF u
<1>3. CASE ServerHangsUp(i)
  <2>1. u.local = "open" /\ uplink' = [uplink EXCEPT ![i] = LocalGone(u)]
    BY <1>3 DEF ServerHangsUp
  <2>2. /\ uplink' \in [Dials -> Uplinks] /\ Others(i)
        /\ uplink'[i].slot = u.slot /\ uplink'[i].far = u.far
        /\ uplink'[i].near = u.near /\ uplink'[i].local = "ending"
    <3>1. uplink'[i] = LocalGone(u) /\ Others(i)
      BY <2>1, <1>1 DEF Others
    <3>2. Destroyed(u.local) = "ending"
      BY <2>1 DEF Destroyed
    <3> QED
      BY <2>1, <3>1, <3>2, <1>1, DestroyUplink
  <2>3. Live(uplink[i]) /\ Busy(uplink'[i])
    BY <2>1, <2>2 DEF Live, Busy, Closing
  <2> HIDE DEF u
  <2> QED
    BY <2>2, <2>3, <1>1, AttemptMoves DEF u
<1>4. CASE LocalFails(i)
  <2>1. u.local = "connecting" /\ uplink' = [uplink EXCEPT ![i] = NearGone(LocalGone(u))]
    BY <1>4 DEF LocalFails
  <2>2. /\ uplink' \in [Dials -> Uplinks] /\ Others(i)
        /\ uplink'[i].slot = u.slot /\ uplink'[i].far = u.far
        /\ uplink'[i].near = Destroyed(u.near) /\ uplink'[i].local = "ending"
    <3>1. uplink'[i] = NearGone(LocalGone(u)) /\ Others(i)
      BY <2>1, <1>1 DEF Others
    <3>2. Destroyed(u.local) = "ending"
      BY <2>1 DEF Destroyed
    <3> DEFINE v == LocalGone(u)
    <3>3. /\ v \in Uplinks /\ v.slot = u.slot /\ v.near = u.near
          /\ v.local = "ending" /\ v.far = u.far
      BY <1>1, <3>2, DestroyUplink
    <3> HIDE DEF v
    <3>4. /\ NearGone(v) \in Uplinks /\ NearGone(v).slot = u.slot
          /\ NearGone(v).near = Destroyed(u.near)
          /\ NearGone(v).local = "ending" /\ NearGone(v).far = u.far
      BY <3>3, DestroyUplink
    <3> QED
      BY <2>1, <3>1, <3>4, <1>1 DEF v
  <2>3. /\ Live(uplink[i]) /\ Busy(uplink'[i])
        /\ uplink'[i].near \in {"none", "dialling"} => u.near = "none"
    BY <2>1, <2>2 DEF Live, Busy, Closing, Destroyed
  <2> HIDE DEF u
  <2> QED
    BY <2>2, <2>3, <1>1, AttemptMoves DEF u
<1>5. CASE ReadReady(i)
  <2>1. /\ uplink' \in [Dials -> Uplinks] /\ Others(i)
        /\ uplink'[i].slot = u.slot /\ uplink'[i].far = u.far
        /\ uplink'[i].near = "opening"
    <3>1. Tail(u.down) \in Seq(Lines)
      BY <1>1, <1>5, QueueElements DEF ReadReady, Uplinks
    <3>2. uplink' = [uplink EXCEPT ![i].near = "opening", ![i].local = "connecting",
                                   ![i].down = Tail(u.down)]
      BY <1>5 DEF ReadReady
    <3> QED
      BY <1>1, <3>1, <3>2 DEF Others, Uplinks, NearStates, LocalStates
  <2>2. Live(uplink[i]) /\ Busy(uplink'[i])
    BY <2>1, <1>5 DEF ReadReady, Live, Busy
  <2> HIDE DEF u
  <2> QED
    BY <2>1, <2>2, <1>1, AttemptMoves DEF u
<1>6. CASE LocalConnect(i)
  <2> DEFINE near == IF u.near = "opening" THEN "piping" ELSE u.near
             up == IF u.near = "opening"
                   THEN Sent(u.up, u.far, Line("connected")) ELSE u.up
  <2>1. near \in NearStates /\ up \in Seq(Lines)
    BY <1>1, WrittenLine, LinesAreLines DEF Uplinks, NearStates
  <2>2. uplink' = [uplink EXCEPT ![i].local = "open", ![i].down = <<>>,
                                 ![i].near = near, ![i].up = up]
    BY <1>6, <1>1 DEF LocalConnect, Uplinks
  <2>3. near \in {"none", "dialling"} => near = u.near
    OBVIOUS
  <2> HIDE DEF near, up
  <2>4. /\ uplink' \in [Dials -> Uplinks] /\ Others(i)
        /\ uplink'[i].slot = u.slot /\ uplink'[i].far = u.far
        /\ uplink'[i].near = near /\ uplink'[i].local = "open"
    <3>1. <<>> \in Seq(Lines)
      BY EmptySeq
    <3> QED
      BY <1>1, <2>1, <2>2, <3>1 DEF Others, Uplinks, LocalStates
  <2>5. Live(uplink[i]) /\ Busy(uplink'[i])
    BY <2>4, <1>6 DEF LocalConnect, Live, Busy
  <2> HIDE DEF u
  <2> QED
    BY <2>3, <2>4, <2>5, <1>1, AttemptMoves DEF u
<1>7. CASE PipeToServer(i)
  <2> DEFINE served == Append(u.served, Head(u.down))  down == Tail(u.down)
  <2>1. /\ u.near = "piping"
        /\ uplink' = [uplink EXCEPT ![i].served = served, ![i].down = down]
    BY <1>7 DEF PipeToServer
  <2>2. served \in Seq(Lines) /\ down \in Seq(Lines)
    BY <1>1, <1>7, QueueElements, AppendProperties DEF PipeToServer, Uplinks
  <2> HIDE DEF served, down
  <2>3. /\ uplink' \in [Dials -> Uplinks] /\ Others(i)
        /\ uplink'[i].slot = u.slot /\ uplink'[i].far = u.far
        /\ uplink'[i].near = u.near
    BY <1>1, <2>1, <2>2 DEF Others, Uplinks
  <2>4. Live(uplink[i]) /\ Busy(uplink'[i])
    BY <2>1, <2>3 DEF Live, Busy
  <2> HIDE DEF u
  <2> QED
    BY <2>3, <2>4, <1>1, AttemptMoves DEF u
<1>8. CASE ServerAnswers(i)
  <2> DEFINE up == Sent(u.up, u.far, Data(i, u.said + 1))
  <2>1. /\ u.near = "piping"
        /\ uplink' = [uplink EXCEPT ![i].said = u.said + 1, ![i].up = up]
    BY <1>8 DEF ServerAnswers
  <2>2. up \in Seq(Lines) /\ u.said + 1 \in Nat
    <3>1. u.said + 1 \in Nat /\ u.up \in Seq(Lines)
      BY <1>1 DEF Uplinks
    <3>2. Data(i, u.said + 1) \in Lines
      BY <3>1, LinesAreLines
    <3> QED
      BY <3>1, <3>2, WrittenLine
  <2> HIDE DEF up
  <2>3. /\ uplink' \in [Dials -> Uplinks] /\ Others(i)
        /\ uplink'[i].slot = u.slot /\ uplink'[i].far = u.far
        /\ uplink'[i].near = u.near
    BY <1>1, <2>1, <2>2 DEF Others, Uplinks
  <2>4. Live(uplink[i]) /\ Busy(uplink'[i])
    BY <2>1, <2>3 DEF Live, Busy
  <2> HIDE DEF u
  <2> QED
    BY <2>3, <2>4, <1>1, AttemptMoves DEF u
<1> QED
  BY <1>2, <1>3, <1>4, <1>5, <1>6, <1>7, <1>8

-----------------------------------------------------------------------------
(* The steps in which a slot begins, loses or ends an attempt.              *)

LEMMA NewAttempt ==
    ASSUME Typed, SlotsInv, WaitersWereHeard,
           UNCHANGED <<relay, client>>, dials <= dials',
           \A i \in Dials : \/ uplink'[i] = uplink[i]
                            \/ /\ i > dials
                               /\ uplink'[i].near = "dialling"
                               /\ uplink'[i].far = "none"
    PROVE  RelayKept
<1>1. ASSUME NEW i \in Dials
      PROVE  /\ uplink'[i].far = uplink[i].far
             /\ uplink'[i].near \in {"none", "dialling"} => uplink'[i].far = "none"
  BY DEF WaitersWereHeard
<1> QED
  BY <1>1 DEF RelayKept

LEMMA RedialStep ==
    ASSUME Typed, SlotsInv, WaitersWereHeard, NEW s \in Slots, Redial(s)
    PROVE  Typed' /\ SlotsInv' /\ RelayKept
<1> DEFINE d == dials + 1
<1>1. /\ d \in Dials /\ d > dials /\ dials' = d /\ d \in 0..MaxDials
      /\ slot[s].timers > 0 /\ ~CloseDue(s)
      /\ slot' = [slot EXCEPT ![s].timers = @ - 1, ![s].dial = d]
      /\ uplink' = [uplink EXCEPT ![d] = Dialling(s)]
      /\ UNCHANGED <<relay, pools, client>>
  BY TunnelAssumption DEF Redial, Typed, Dials
<1>2. s \in Nat
  BY DEF Slots
<1> HIDE DEF d
<1>3. /\ uplink' \in [Dials -> Uplinks] /\ uplink'[d] = Dialling(s)
      /\ \A i \in Dials \ {d} : uplink'[i] = uplink[i]
  BY <1>1, <1>2, NewRecords DEF Typed
<1>4. /\ slot' \in [Slots -> SlotRecords]
      /\ slot'[s].stopped = slot[s].stopped /\ slot'[s].timers = slot[s].timers - 1
      /\ slot'[s].dial = d
      /\ \A t \in Slots \ {s} : slot'[t] = slot[t]
  <2>1. slot[s].timers - 1 \in Nat /\ d \in Nat
    BY <1>1 DEF Typed, SlotRecords
  <2> QED
    BY <1>1, <2>1 DEF Typed, SlotRecords
<1>5. /\ uplink'[d].slot = s /\ uplink'[d].near = "dialling"
      /\ uplink'[d].local = "none" /\ uplink'[d].far = "none"
  BY <1>2, <1>3, NewRecords
<1>6. Typed'
  BY <1>1, <1>3, <1>4 DEF Typed
<1>7. RelayKept
  <2>1. dials <= dials'
    BY <1>1 DEF Typed
  <2> QED
    BY <1>1, <1>3, <1>5, <2>1, NewAttempt
<1>8. ~Busy(uplink[d])
  BY <1>1 DEF SlotsInv, AttemptsAreCounted
<1>9. ~slot[s].stopped /\ slot[s].timers = 1 /\ Alive(s) = {} /\ s <= Made
  BY <1>1 DEF SlotsInv, SlotsHoldOne, AttemptsAreCounted, Typed, SlotRecords
<1>10. Occupied(s) = {}
  BY <1>1, <1>9, OccupiedIsBusy DEF CloseDue, Busy
<1>11. Live(uplink'[d]) /\ ~Closing(uplink'[d])
  BY <1>5 DEF Live, Closing
<1>12. SlotsHoldOne'
  <2>1. Occupied(s)' = {d}
    <3>1. ASSUME NEW i \in Dials, i # d
          PROVE  i \notin Occupied(s)'
      BY <1>3, <1>10, <3>1, OccupiedIsBusy
    <3>2. d \in Occupied(s)'
      BY <1>1, <1>5, <1>11, OccupiedIsBusy DEF Busy
    <3> QED
      BY <3>1, <3>2, OccupiedIsBusy
  <2>2. ASSUME NEW t \in Slots, t # s
        PROVE  Occupied(t)' = Occupied(t) /\ Alive(t)' = Alive(t)
    <3>1. ASSUME NEW i \in Dials, i # d
          PROVE  /\ i \in Occupied(t)' <=> i \in Occupied(t)
                 /\ i \in Alive(t)' <=> i \in Alive(t)
      BY <1>3, <3>1, OccupiedIsBusy
    <3>2. d \notin Occupied(t)' /\ d \notin Occupied(t)
      BY <1>5, <1>8, <2>2, OccupiedIsBusy
    <3>3. d \notin Alive(t)' /\ d \notin Alive(t)
      BY <3>2, OccupiedIsBusy
    <3>4. Occupied(t)' = Occupied(t)
      <4> DEFINE a == Occupied(t)  b == Occupied(t)'
      <4>1. /\ a \subseteq Dials /\ b \subseteq Dials
            /\ \A i \in Dials : i \in b <=> i \in a
        BY <3>1, <3>2, OccupiedIsBusy
      <4> HIDE DEF a, b
      <4>2. a = b
        BY <4>1
      <4> QED
        BY <4>2 DEF a, b
    <3>5. Alive(t)' = Alive(t)
      <4> DEFINE a == Alive(t)  b == Alive(t)'
      <4>1. /\ a \subseteq Dials /\ b \subseteq Dials
            /\ \A i \in Dials : i \in b <=> i \in a
        BY <3>1, <3>3, OccupiedIsBusy
      <4> HIDE DEF a, b
      <4>2. a = b
        BY <4>1
      <4> QED
        BY <4>2 DEF a, b
    <3> QED
      BY <3>4, <3>5
  <2>3. ASSUME NEW t \in Slots
        PROVE  IF slot'[t].stopped THEN slot'[t].timers = 0 /\ Alive(t)' = {}
               ELSE \/ slot'[t].timers = 1 /\ Alive(t)' = {}
                    \/ slot'[t].timers = 0 /\ Occupied(t)' = {slot'[t].dial}
    <3>1. CASE t = s
      BY <3>1, <2>1, <1>4, <1>9
    <3>2. CASE t # s
      BY <3>2, <2>2, <1>4 DEF SlotsInv, SlotsHoldOne
    <3> QED
      BY <3>1, <3>2
  <2> QED
    BY <2>3 DEF SlotsHoldOne
<1>13. AttemptsAreCounted'
  <2>1. Made' = Made
    BY <1>1 DEF Made
  <2>2. ASSUME NEW i \in Dials
        PROVE  uplink'[i].slot <= Made /\ (i > d => ~Busy(uplink'[i]))
    <3>1. CASE i = d
      BY <3>1, <1>1, <1>5, <1>9 DEF Dials, Typed
    <3>2. CASE i # d
      BY <3>2, <1>1, <1>3 DEF SlotsInv, AttemptsAreCounted, Dials, Typed
    <3> QED
      BY <3>1, <3>2
  <2>3. ASSUME NEW t \in Slots, ~slot'[t].stopped
        PROVE  t <= Made
    BY <2>3, <1>4 DEF SlotsInv, AttemptsAreCounted
  <2> QED
    BY <1>1, <2>1, <2>2, <2>3 DEF AttemptsAreCounted
<1> QED
  BY <1>6, <1>7, <1>12, <1>13 DEF SlotsInv

LEMMA StartTunnelStep ==
    ASSUME Typed, SlotsInv, WaitersWereHeard, StartTunnel
    PROVE  Typed' /\ SlotsInv' /\ RelayKept
<1> DEFINE M == pools * PoolSize
           new == {s \in Slots : s - M \in 1..PoolSize}
           fresh == (dials + 1)..(dials + PoolSize)
<1>1. /\ slot' = [s \in Slots |->
             IF s \in new
             THEN [stopped |-> FALSE, timers |-> 0, dial |-> dials + (s - M)]
             ELSE slot[s]]
      /\ uplink' = [i \in Dials |->
             IF i \in fresh THEN Dialling(M + i - dials) ELSE uplink[i]]
      /\ \A s \in Slots : slot[s].stopped
      /\ dials + PoolSize <= MaxDials /\ dials' = dials + PoolSize
      /\ pools' = pools + 1 /\ UNCHANGED <<relay, client>>
  BY DEF StartTunnel
<1>2. /\ PoolSize \in Nat \ {0} /\ dials \in Nat /\ pools \in Nat
      /\ Slots \subseteq Nat /\ dials' \in 0..MaxDials /\ pools' \in Nat
      /\ MaxDials \in Nat
  BY <1>1, TunnelAssumption DEF Typed, Slots
<1>3. M \in Nat /\ Made = M /\ Made' = M + PoolSize
  <2>1. (pools + 1) * PoolSize = pools * PoolSize + PoolSize
    BY <1>2
  <2> QED
    BY <2>1, <1>1, <1>2 DEF Made
<1> HIDE DEF M
<1>4. ASSUME NEW i \in Dials
      PROVE  /\ i \in fresh => /\ M + i - dials \in Nat
                               /\ uplink'[i] = Dialling(M + i - dials)
             /\ i \notin fresh => uplink'[i] = uplink[i]
             /\ i \in fresh <=> i > dials /\ i <= dials + PoolSize
             /\ i \in Nat
  BY <1>1, <1>2, <1>3 DEF Dials
<1>5. ASSUME NEW i \in Dials, i \in fresh
      PROVE  /\ uplink'[i] \in Uplinks
             /\ uplink'[i].slot = M + i - dials /\ uplink'[i].near = "dialling"
             /\ uplink'[i].local = "none" /\ uplink'[i].far = "none"
  BY <1>4, <1>5, NewRecords
<1>6. uplink' \in [Dials -> Uplinks]
  BY <1>1, <1>4, <1>5 DEF Typed
<1>7. /\ slot' \in [Slots -> SlotRecords]
      /\ \A s \in new : /\ ~slot'[s].stopped /\ slot'[s].timers = 0
                        /\ slot'[s].dial = dials + (s - M)
                        /\ slot'[s].dial \in fresh
      /\ \A s \in Slots \ new : slot'[s] = slot[s]
  <2>1. \A s \in new : dials + (s - M) \in Nat /\ dials + (s - M) \in fresh
    BY <1>2, <1>3
  <2> QED
    BY <1>1, <2>1 DEF Typed, SlotRecords
<1>8. fresh \subseteq Dials
  BY <1>1, <1>2 DEF Dials
<1>9. Typed'
  BY <1>1, <1>2, <1>6, <1>7 DEF Typed
<1>10. RelayKept
  <2>1. dials <= dials'
    BY <1>1, <1>2
  <2>2. ASSUME NEW i \in Dials
        PROVE  \/ uplink'[i] = uplink[i]
               \/ /\ i > dials /\ uplink'[i].near = "dialling"
                  /\ uplink'[i].far = "none"
    BY <1>4, <1>5
  <2> HIDE DEF fresh, new
  <2> QED
    BY <1>1, <2>1, <2>2, NewAttempt
<1>11. ASSUME NEW i \in Dials, i \in fresh
       PROVE  /\ Live(uplink'[i]) /\ Busy(uplink'[i])
              /\ ~Live(uplink[i]) /\ ~Busy(uplink[i])
  BY <1>4, <1>5, <1>11 DEF Live, Busy, SlotsInv, AttemptsAreCounted
<1>12. ASSUME NEW s \in new
       PROVE  Occupied(s)' = {slot'[s].dial}
  <2>1. s \in Nat /\ s > M /\ s \in Slots
    BY <1>2, <1>3
  <2>2. ASSUME NEW i \in Dials
        PROVE  i \in Occupied(s)' <=> i = dials + (s - M)
    <3>1. CASE i \in fresh
      <4>1. uplink'[i].slot = s <=> i = dials + (s - M)
        BY <3>1, <1>2, <1>3, <1>4, <1>5, <2>1
      <4> QED
        BY <4>1, <3>1, <1>11, OccupiedIsBusy
    <3>2. CASE i \notin fresh
      <4>1. uplink'[i].slot <= M
        BY <3>2, <1>3, <1>4 DEF SlotsInv, AttemptsAreCounted
      <4>2. uplink'[i].slot \in Nat
        BY <1>6 DEF Uplinks
      <4>3. i # dials + (s - M)
        BY <3>2, <1>7
      <4> QED
        BY <4>1, <4>2, <4>3, <2>1, <1>3, OccupiedIsBusy
    <3> QED
      BY <3>1, <3>2
  <2>3. slot'[s].dial \in Dials /\ slot'[s].dial = dials + (s - M)
    BY <1>7, <1>8
  <2> QED
    BY <2>2, <2>3, OccupiedIsBusy
<1>13. ASSUME NEW s \in Slots \ new
       PROVE  Alive(s)' = {}
  <2>1. Alive(s) = {}
    BY <1>1 DEF SlotsInv, SlotsHoldOne
  <2>2. ASSUME NEW i \in Dials
        PROVE  i \notin Alive(s)'
    <3>1. CASE i \in fresh
      <4>1. uplink'[i].slot - M \in 1..PoolSize
        BY <3>1, <1>2, <1>3, <1>4, <1>5
      <4> QED
        BY <4>1, OccupiedIsBusy
    <3>2. CASE i \notin fresh
      BY <3>2, <1>4, <2>1, OccupiedIsBusy
    <3> QED
      BY <3>1, <3>2
  <2> QED
    BY <2>2, OccupiedIsBusy
<1>14. SlotsHoldOne'
  <2>1. ASSUME NEW s \in Slots
        PROVE  IF slot'[s].stopped THEN slot'[s].timers = 0 /\ Alive(s)' = {}
               ELSE \/ slot'[s].timers = 1 /\ Alive(s)' = {}
                    \/ slot'[s].timers = 0 /\ Occupied(s)' = {slot'[s].dial}
    <3>1. CASE s \in new
      BY <3>1, <1>7, <1>12
    <3>2. CASE s \notin new
      BY <3>2, <1>1, <1>7, <1>13 DEF SlotsInv, SlotsHoldOne
    <3> QED
      BY <3>1, <3>2
  <2> QED
    BY <2>1 DEF SlotsHoldOne
<1>15. AttemptsAreCounted'
  <2>1. ASSUME NEW i \in Dials
        PROVE  /\ uplink'[i].slot <= M + PoolSize
               /\ i > dials + PoolSize => ~Busy(uplink'[i])
    <3>1. CASE i \in fresh
      BY <3>1, <1>2, <1>3, <1>4, <1>5
    <3>2. CASE i \notin fresh
      <4>1. uplink'[i] = uplink[i] /\ uplink[i].slot \in Nat /\ uplink[i].slot <= M
        BY <3>2, <1>3, <1>4 DEF SlotsInv, AttemptsAreCounted, Typed, Uplinks
      <4>2. i > dials + PoolSize => i > dials
        BY <1>2, <1>4
      <4> QED
        BY <4>1, <4>2, <1>2, <1>3 DEF SlotsInv, AttemptsAreCounted
    <3> QED
      BY <3>1, <3>2
  <2>2. ASSUME NEW s \in Slots, ~slot'[s].stopped
        PROVE  s <= M + PoolSize
    <3>1. s \in new
      BY <1>1, <1>7, <2>2
    <3> QED
      BY <3>1, <1>2, <1>3
  <2> QED
    BY <1>1, <1>3, <2>1, <2>2 DEF AttemptsAreCounted
<1> QED
  BY <1>9, <1>10, <1>14, <1>15 DEF SlotsInv

LEMMA CloseTunnelStep ==
    ASSUME Typed, SlotsInv, WaitersWereHeard, CloseTunnel
    PROVE  Typed' /\ SlotsInv' /\ RelayKept
<1> DEFINE known == {i \in Dials : \E s \in Slots : ~slot[s].stopped /\ slot[s].dial = i}
<1>1. /\ slot' = [s \in Slots |-> [slot[s] EXCEPT !.stopped = TRUE, !.timers = 0]]
      /\ uplink' = [i \in Dials |-> IF i \in known THEN NearGone(LocalGone(uplink[i]))
                                    ELSE uplink[i]]
      /\ UNCHANGED <<relay, pools, dials, client>>
  BY DEF CloseTunnel
<1>0. UNCHANGED <<relay, pools, dials, client>>
  BY <1>1
<1> HIDE DEF known
<1>2. /\ slot' \in [Slots -> SlotRecords]
      /\ \A s \in Slots : slot'[s].stopped /\ slot'[s].timers = 0
  BY <1>1 DEF Typed, SlotRecords
<1>3. ASSUME NEW i \in Dials
      PROVE  /\ uplink'[i] \in Uplinks
             /\ uplink'[i].slot = uplink[i].slot /\ uplink'[i].far = uplink[i].far
             /\ i \notin known => uplink'[i] = uplink[i]
             /\ i \in known => /\ uplink'[i].near = Destroyed(uplink[i].near)
                               /\ uplink'[i].local = Destroyed(uplink[i].local)
  <2>1. uplink[i] \in Uplinks
    BY DEF Typed
  <2> DEFINE v == LocalGone(uplink[i])
  <2>2. /\ v \in Uplinks /\ v.slot = uplink[i].slot /\ v.far = uplink[i].far
        /\ v.near = uplink[i].near /\ v.local = Destroyed(uplink[i].local)
    BY <2>1, DestroyUplink
  <2> HIDE DEF v
  <2>3. /\ NearGone(v) \in Uplinks /\ NearGone(v).slot = v.slot
        /\ NearGone(v).far = v.far /\ NearGone(v).near = Destroyed(v.near)
        /\ NearGone(v).local = v.local
    BY <2>2, DestroyUplink
  <2>4. uplink'[i] = IF i \in known THEN NearGone(v) ELSE uplink[i]
    BY <1>1 DEF v
  <2> QED
    BY <2>1, <2>2, <2>3, <2>4
<1>4. ASSUME NEW i \in Dials, i \in known
      PROVE  ~Live(uplink'[i]) /\ (uplink'[i].near = "none" => uplink[i].near = "none")
                               /\ uplink'[i].near # "dialling"
  BY <1>3, <1>4 DEF Live, Destroyed
<1>5. ASSUME NEW i \in Dials
      PROVE  /\ Live(uplink'[i]) => Live(uplink[i])
             /\ Busy(uplink'[i]) => Busy(uplink[i])
  <2>1. CASE i \in known
    <3>1. uplink[i].near \in NearStates /\ uplink[i].local \in LocalStates
      BY DEF Typed, Uplinks
    <3> QED
      BY <2>1, <3>1, <1>3 DEF Live, Busy, Closing, Destroyed, NearStates, LocalStates
  <2>2. CASE i \notin known
    BY <2>2, <1>3
  <2> QED
    BY <2>1, <2>2
<1>6. Typed'
  <2>1. uplink' \in [Dials -> Uplinks]
    BY <1>1, <1>3
  <2> QED
    BY <1>1, <1>2, <2>1 DEF Typed
<1>7. RelayKept
  <2>1. dials <= dials'
    <3>1. dials' = dials /\ dials \in Int
      BY <1>0 DEF Typed
    <3> QED
      BY <3>1
  <2>2. ASSUME NEW i \in Dials, uplink'[i].near \in {"none", "dialling"}
        PROVE  uplink'[i].far = "none"
    BY <2>2, <1>3, <1>4 DEF WaitersWereHeard
  <2> QED
    BY <1>0, <1>3, <2>1, <2>2 DEF RelayKept
<1>8. SlotsHoldOne'
  <2>1. ASSUME NEW s \in Slots
        PROVE  Alive(s)' = {}
    <3>1. ASSUME NEW i \in Dials, uplink'[i].slot = s, Live(uplink'[i])
          PROVE  FALSE
      <4>1. i \in Alive(s) /\ i \notin known
        BY <3>1, <1>3, <1>4, <1>5, OccupiedIsBusy
      <4>2. ~slot[s].stopped /\ Occupied(s) = {slot[s].dial}
        BY <4>1 DEF SlotsInv, SlotsHoldOne
      <4>3. i = slot[s].dial
        BY <4>1, <4>2, OccupiedIsBusy
      <4> QED
        BY <4>1, <4>2, <4>3 DEF known
    <3> QED
      BY <3>1, OccupiedIsBusy
  <2> QED
    BY <2>1, <1>2 DEF SlotsHoldOne
<1>9. AttemptsAreCounted'
  <2>1. Made' = Made
    BY <1>0 DEF Made
  <2> QED
    BY <1>0, <1>2, <1>3, <1>5, <2>1 DEF SlotsInv, AttemptsAreCounted
<1> QED
  BY <1>6, <1>7, <1>8, <1>9 DEF SlotsInv

LEMMA Rescheduled ==
    ASSUME NEW x \in SlotRecords
    PROVE  LET y == ScheduleReconnect(x)
           IN  /\ y \in SlotRecords /\ y.stopped = x.stopped
               /\ x.stopped \/ x.timers > 0 => y = x
               /\ ~x.stopped /\ x.timers = 0 => y.timers = 1
<1> DEFINE y == ScheduleReconnect(x)
           n == x.timers + 1
<1>1. CASE x.stopped \/ x.timers > 0
  BY <1>1 DEF ScheduleReconnect
<1>2. CASE ~(x.stopped \/ x.timers > 0)
  <2>1. x.timers = 0 /\ n = 1 /\ n \in Nat
    BY <1>2 DEF SlotRecords
  <2>2. y = [x EXCEPT !.dial = 0, !.timers = n]
    BY <1>2 DEF ScheduleReconnect
  <2> HIDE DEF n, y
  <2>3. y \in SlotRecords /\ y.stopped = x.stopped /\ y.timers = n
    BY <2>1, <2>2 DEF SlotRecords
  <2> QED
    BY <1>2, <2>1, <2>3 DEF y
<1> QED
  BY <1>1, <1>2

(* One close event: the other socket of the attempt is destroyed with it,   *)
(* and the slot of the attempt schedules the next one unless it has.        *)
LEMMA AttemptCloses ==
    ASSUME Typed, SlotsInv, WaitersWereHeard, NEW i \in Dials,
           Busy(uplink[i]), ~Live(uplink'[i]), Others(i),
           uplink' \in [Dials -> Uplinks],
           uplink'[i].slot = uplink[i].slot, uplink'[i].far = uplink[i].far,
           uplink'[i].near \in {"none", "dialling"} => uplink[i].near = "none",
           slot' = [slot EXCEPT ![uplink[i].slot] = ScheduleReconnect(@)],
           UNCHANGED <<relay, pools, dials, client>>
    PROVE  Typed' /\ SlotsInv' /\ RelayKept
<1> DEFINE o == uplink[i].slot
<1>1. slot \in [Slots -> SlotRecords]
  BY DEF Typed
<1>2. ASSUME NEW s \in Slots
      PROVE  /\ slot'[s] \in SlotRecords
             /\ slot'[s].stopped = slot[s].stopped
             /\ s # o \/ slot[s].stopped \/ slot[s].timers > 0 => slot'[s] = slot[s]
             /\ s = o /\ ~slot[s].stopped /\ slot[s].timers = 0 => slot'[s].timers = 1
  <2>1. slot'[s] = IF s = o THEN ScheduleReconnect(slot[s]) ELSE slot[s]
    BY <1>1
  <2> HIDE DEF o
  <2> QED
    BY <2>1, <1>1, Rescheduled
<1>3. Typed'
  <2>1. slot' \in [Slots -> SlotRecords]
    BY <1>1, <1>2
  <2> QED
    BY <2>1 DEF Typed
<1>4. RelayKept
  <2>1. dials <= dials'
    BY DEF Typed
  <2>2. ASSUME NEW j \in Dials
        PROVE  /\ uplink'[j].far = uplink[j].far
               /\ uplink'[j].near \in {"none", "dialling"} => uplink'[j].far = "none"
    BY DEF Others, WaitersWereHeard
  <2> QED
    BY <2>1, <2>2 DEF RelayKept
<1>5. ASSUME NEW j \in Dials
      PROVE  /\ uplink'[j].slot = uplink[j].slot
             /\ Live(uplink'[j]) => Live(uplink[j])
             /\ Busy(uplink'[j]) => Busy(uplink[j])
             /\ j # i => (Busy(uplink'[j]) <=> Busy(uplink[j]))
  BY DEF Others, Busy
<1>6. ASSUME NEW s \in Slots
      PROVE  /\ Alive(s)' \subseteq Alive(s)
             /\ Occupied(s)' \subseteq Occupied(s)
             /\ i \notin Alive(s)'
  BY <1>5, OccupiedIsBusy
<1>7. SlotsHoldOne'
  <2>1. ASSUME NEW s \in Slots
        PROVE  IF slot'[s].stopped THEN slot'[s].timers = 0 /\ Alive(s)' = {}
               ELSE \/ slot'[s].timers = 1 /\ Alive(s)' = {}
                    \/ slot'[s].timers = 0 /\ Occupied(s)' = {slot'[s].dial}
    <3>1. CASE slot[s].stopped \/ slot[s].timers > 0
      <4>1. Alive(s) = {} /\ slot'[s] = slot[s]
        BY <3>1, <1>2 DEF SlotsInv, SlotsHoldOne
      <4> QED
        BY <3>1, <4>1, <1>6 DEF SlotsInv, SlotsHoldOne
    <3>2. CASE ~slot[s].stopped /\ slot[s].timers = 0
      <4>1. Occupied(s) = {slot[s].dial}
        BY <3>2 DEF SlotsInv, SlotsHoldOne
      <4>2. CASE s = o
        <5>1. i \in Occupied(s)
          BY <4>2, OccupiedIsBusy
        <5>2. Alive(s)' = {}
          BY <5>1, <4>1, <1>6, OccupiedIsBusy
        <5> QED
          BY <5>2, <3>2, <4>2, <1>2
      <4>3. CASE s # o
        <5>1. slot'[s] = slot[s]
          BY <4>3, <1>2
        <5>2. i \notin Occupied(s)
          BY <4>3, OccupiedIsBusy
        <5>3. Occupied(s)' = {slot[s].dial}
          <6> DEFINE k == slot[s].dial
          <6>1. /\ k \in Dials /\ k # i
                /\ uplink[k].slot = s /\ Busy(uplink[k])
            BY <4>1, <5>2, OccupiedIsBusy
          <6> HIDE DEF k
          <6>2. uplink'[k].slot = s /\ Busy(uplink'[k])
            BY <6>1, <1>5
          <6>3. k \in Occupied(s)'
            BY <6>1, <6>2, OccupiedIsBusy
          <6> QED
            BY <6>3, <4>1, <1>6 DEF k
        <5> QED
          BY <5>1, <5>3, <3>2
      <4> QED
        BY <4>2, <4>3
    <3> QED
      BY <3>1, <3>2, <1>1 DEF SlotRecords
  <2> QED
    BY <2>1 DEF SlotsHoldOne
<1>8. AttemptsAreCounted'
  <2>1. Made' = Made
    BY DEF Made
  <2> QED
    BY <1>2, <1>5, <2>1 DEF SlotsInv, AttemptsAreCounted
<1> QED
  BY <1>3, <1>4, <1>7, <1>8 DEF SlotsInv

LEMMA CloseStep ==
    ASSUME Typed, SlotsInv, WaitersWereHeard, NEW i \in Dials,
           NearCloses(i) \/ LocalCloses(i)
    PROVE  Typed' /\ SlotsInv' /\ RelayKept
<1> DEFINE u == uplink[i]
<1>1. u \in Uplinks /\ uplink \in [Dials -> Uplinks]
  BY DEF Typed
<1>2. CASE NearCloses(i)
  <2> DEFINE v == LocalGone(u)
  <2>1. /\ v \in Uplinks /\ v.slot = u.slot /\ v.far = u.far
        /\ v.local = Destroyed(u.local)
    BY <1>1, DestroyUplink
  <2>2. /\ u.near = "ending" /\ uplink' = [uplink EXCEPT ![i] = [v EXCEPT !.near = "closed"]]
        /\ slot' = [slot EXCEPT ![uplink[i].slot] = ScheduleReconnect(@)]
        /\ UNCHANGED <<relay, pools, dials, client>>
    BY <1>2 DEF NearCloses
  <2> HIDE DEF v
  <2>3. /\ uplink' \in [Dials -> Uplinks] /\ Others(i)
        /\ uplink'[i].slot = u.slot /\ uplink'[i].far = u.far
        /\ uplink'[i].near = "closed" /\ uplink'[i].local = Destroyed(u.local)
    BY <1>1, <2>1, <2>2 DEF Others, Uplinks, NearStates
  <2>4. Busy(uplink[i]) /\ ~Live(uplink'[i])
    BY <2>2, <2>3 DEF Live, Busy, Closing, Destroyed
  <2> HIDE DEF u
  <2> QED
    BY <2>2, <2>3, <2>4, AttemptCloses DEF u
<1>3. CASE LocalCloses(i)
  <2> DEFINE v == NearGone(u)
  <2>1. /\ v \in Uplinks /\ v.slot = u.slot /\ v.far = u.far
        /\ v.near = Destroyed(u.near)
    BY <1>1, DestroyUplink
  <2>2. /\ u.local = "ending" /\ uplink' = [uplink EXCEPT ![i] = [v EXCEPT !.local = "closed"]]
        /\ slot' = [slot EXCEPT ![uplink[i].slot] = ScheduleReconnect(@)]
        /\ UNCHANGED <<relay, pools, dials, client>>
    BY <1>3 DEF LocalCloses
  <2> HIDE DEF v
  <2>3. /\ uplink' \in [Dials -> Uplinks] /\ Others(i)
        /\ uplink'[i].slot = u.slot /\ uplink'[i].far = u.far
        /\ uplink'[i].local = "closed" /\ uplink'[i].near = Destroyed(u.near)
    BY <1>1, <2>1, <2>2 DEF Others, Uplinks, LocalStates
  <2>4. /\ Busy(uplink[i]) /\ ~Live(uplink'[i])
        /\ uplink'[i].near \in {"none", "dialling"} => u.near = "none"
    BY <2>2, <2>3 DEF Live, Busy, Closing, Destroyed
  <2> HIDE DEF u
  <2> QED
    BY <2>2, <2>3, <2>4, AttemptCloses DEF u
<1> QED
  BY <1>2, <1>3

-----------------------------------------------------------------------------
(* The relay's steps.  In most of them sockets go and their queues and      *)
(* pairs with them: whatever still is open keeps what it had.               *)

RelayFades ==
    /\ \A i \in Dials :
          /\ SameNear(uplink[i], uplink'[i])
          /\ \/ uplink'[i].far = uplink[i].far
             \/ uplink[i].far # "none" /\ uplink'[i].far \in {"ending", "closed"}
    /\ \A c \in Clients :
          /\ client[c].here # "none" => client'[c].here # "none"
          /\ client'[c].there = "open" => client[c].there = "open"
    /\ ToSet(relay'.uplinks) \subseteq ToSet(relay.uplinks)
    /\ ToSet(relay'.clients) \subseteq ToSet(relay.clients)
    /\ \A i \in Dials : uplink'[i].far = "open" =>
          /\ i \in ToSet(relay.uplinks) => i \in ToSet(relay'.uplinks)
          /\ \A c \in Clients : <<i, c>> \in relay.pairing \cup relay.piping =>
                                    <<i, c>> \in relay'.pairing \cup relay'.piping
    /\ \A c \in Clients : client'[c].there = "open" =>
          /\ c \in ToSet(relay.clients) => c \in ToSet(relay'.clients)
          /\ \A i \in Dials :
                \/ <<i, c>> \in relay.pairing
                \/ <<i, c>> \in relay.piping /\ uplink[i].far # "closed"
                => \/ <<i, c>> \in relay'.pairing
                   \/ <<i, c>> \in relay'.piping /\ uplink'[i].far # "closed"

LEMMA RelayHasFaded ==
    ASSUME Typed, RelayInv, RelayFades, UNCHANGED dials
    PROVE  RelayInv'
<1>1. /\ ToSet(relay.uplinks) \subseteq Dials
      /\ ToSet(relay.clients) \subseteq Clients
  BY QueueElements DEF Typed, Relays
<1>2. ASSUME NEW i \in Dials, uplink'[i].far = "open"
      PROVE  /\ uplink[i].far = "open"
             /\ \/ i \in ToSet(relay'.uplinks)
                \/ \E c \in Clients : <<i, c>> \in relay'.pairing \cup relay'.piping
  <2>1. uplink[i].far = "open"
    BY <1>2 DEF RelayFades
  <2>2. CASE i \in ToSet(relay.uplinks)
    BY <1>2, <2>1, <2>2 DEF RelayFades
  <2>3. CASE i \notin ToSet(relay.uplinks)
    <3>1. PICK c \in Clients : <<i, c>> \in relay.pairing \cup relay.piping
      BY <2>1, <2>3 DEF RelayInv, NoSocketIsForgotten
    <3>2. <<i, c>> \in relay'.pairing \cup relay'.piping
      BY <1>2, <3>1 DEF RelayFades
    <3> QED
      BY <2>1, <3>2
  <2> QED
    BY <2>2, <2>3
<1>3. ASSUME NEW c \in Clients, client'[c].there = "open"
      PROVE  /\ client[c].there = "open"
             /\ \/ c \in ToSet(relay'.clients)
                \/ \E i \in Dials : \/ <<i, c>> \in relay'.pairing
                                    \/ /\ <<i, c>> \in relay'.piping
                                       /\ uplink'[i].far # "closed"
  <2>1. client[c].there = "open"
    BY <1>3 DEF RelayFades
  <2>2. CASE c \in ToSet(relay.clients)
    BY <1>3, <2>1, <2>2 DEF RelayFades
  <2>3. CASE c \notin ToSet(relay.clients)
    <3>1. PICK i \in Dials : \/ <<i, c>> \in relay.pairing
                             \/ <<i, c>> \in relay.piping /\ uplink[i].far # "closed"
      BY <2>1, <2>3 DEF RelayInv, NoSocketIsForgotten
    <3>2. \/ <<i, c>> \in relay'.pairing
          \/ <<i, c>> \in relay'.piping /\ uplink'[i].far # "closed"
      BY <1>3, <3>1 DEF RelayFades
    <3> QED
      BY <2>1, <3>2
  <2> QED
    BY <2>2, <2>3
<1>4. NoSocketIsForgotten'
  BY <1>2, <1>3 DEF NoSocketIsForgotten
<1>5. NobodyWaitsForAWaiter'
  <2>1. /\ LiveUplinks(uplink') \subseteq LiveUplinks(uplink)
        /\ LiveClients(client') \subseteq LiveClients(client)
    BY <1>2, <1>3 DEF LiveUplinks, LiveClients
  <2>2. \/ ToSet(relay.uplinks) \cap LiveUplinks(uplink) = {}
        \/ ToSet(relay.clients) \cap LiveClients(client) = {}
    BY DEF RelayInv, NobodyWaitsForAWaiter
  <2>3. /\ ToSet(relay'.uplinks) \subseteq ToSet(relay.uplinks)
        /\ ToSet(relay'.clients) \subseteq ToSet(relay.clients)
    BY DEF RelayFades
  <2>4. \/ ToSet(relay'.uplinks) \cap LiveUplinks(uplink') = {}
        \/ ToSet(relay'.clients) \cap LiveClients(client') = {}
    BY <2>1, <2>2, <2>3
  <2> QED
    BY <2>4 DEF NobodyWaitsForAWaiter
<1>6. WaitersWereHeard'
  <2>1. ASSUME NEW i \in ToSet(relay'.uplinks)
        PROVE  uplink'[i].far \notin {"none", "greeting"}
    <3>1. i \in ToSet(relay.uplinks)
      BY DEF RelayFades
    <3>2. i \in Dials /\ uplink[i].far \notin {"none", "greeting"}
      BY <1>1, <3>1 DEF RelayInv, WaitersWereHeard
    <3> QED
      BY <3>2 DEF RelayFades
  <2>2. ASSUME NEW c \in ToSet(relay'.clients)
        PROVE  client'[c].here # "none"
    <3>1. c \in ToSet(relay.clients)
      BY DEF RelayFades
    <3> QED
      BY <1>1, <3>1 DEF RelayInv, WaitersWereHeard, RelayFades
  <2>3. ASSUME NEW i \in Dials, i > dials \/ uplink'[i].near \in {"none", "dialling"}
        PROVE  uplink'[i].far = "none"
    BY <2>3 DEF RelayInv, WaitersWereHeard, RelayFades, SameNear
  <2> QED
    BY <2>1, <2>2, <2>3 DEF WaitersWereHeard
<1> QED
  BY <1>4, <1>5, <1>6 DEF RelayInv

LEMMA NearsAreKept ==
    ASSUME \A i \in Dials : SameNear(uplink[i], uplink'[i]),
           UNCHANGED <<slot, pools, dials>>
    PROVE  SlotsKept
BY DEF SameNear, Live, Busy, Closing, SlotsKept

LEMMA FarsGone ==
    ASSUME Typed, NEW S,
           uplink' = [i \in Dials |-> IF i \in S THEN FarGone(uplink[i]) ELSE uplink[i]]
    PROVE  /\ uplink' \in [Dials -> Uplinks]
           /\ \A i \in Dials :
                 /\ SameNear(uplink[i], uplink'[i])
                 /\ i \in S => uplink'[i].far = Destroyed(uplink[i].far)
                 /\ i \notin S => uplink'[i] = uplink[i]
<1>1. ASSUME NEW i \in Dials
      PROVE  /\ uplink'[i] \in Uplinks /\ SameNear(uplink[i], uplink'[i])
             /\ i \in S => uplink'[i].far = Destroyed(uplink[i].far)
             /\ i \notin S => uplink'[i] = uplink[i]
  <2>1. uplink[i] \in Uplinks /\ SameNear(uplink[i], uplink[i])
    BY DEF Typed, SameNear
  <2> QED
    BY <2>1, DestroyUplink
<1> QED
  BY <1>1

LEMMA TheresGone ==
    ASSUME Typed, NEW S,
           client' = [c \in Clients |-> IF c \in S THEN ThereGone(client[c]) ELSE client[c]]
    PROVE  /\ client' \in [Clients -> HandheldEnds]
           /\ \A c \in Clients :
                 /\ client'[c].here = client[c].here
                 /\ c \in S => client'[c].there = Destroyed(client[c].there)
                 /\ c \notin S => client'[c] = client[c]
<1>1. ASSUME NEW c \in Clients
      PROVE  /\ client'[c] \in HandheldEnds /\ client'[c].here = client[c].here
             /\ c \in S => client'[c].there = Destroyed(client[c].there)
             /\ c \notin S => client'[c] = client[c]
  <2>1. client[c] \in HandheldEnds
    BY DEF Typed
  <2> QED
    BY <2>1, DestroyClient
<1> QED
  BY <1>1

(* One socket is a set of one. *)
LEMMA OneGone ==
    ASSUME Typed
    PROVE  /\ \A i \in Dials : uplink' = [uplink EXCEPT ![i] = FarGone(@)] =>
                 uplink' = [j \in Dials |-> IF j \in {i} THEN FarGone(uplink[j]) ELSE uplink[j]]
           /\ \A c \in Clients : client' = [client EXCEPT ![c] = ThereGone(@)] =>
                 client' = [d \in Clients |-> IF d \in {c} THEN ThereGone(client[d]) ELSE client[d]]
BY DEF Typed

LEMMA DestroyedFar ==
    \A x \in SocketStates :
        /\ Destroyed(x) \notin {"open", "greeting"}
        /\ Destroyed(x) = x \/ (x # "none" /\ Destroyed(x) \in {"ending", "closed"})
        /\ Destroyed(x) = "closed" <=> x = "closed"
BY DEF Destroyed, SocketStates

LEMMA Dropped ==
    ASSUME NEW r \in Relays, NEW i, NEW c
    PROVE  /\ DropUplink(r, i) \in Relays
           /\ DropUplink(r, i).pairing = r.pairing /\ DropUplink(r, i).piping = r.piping
           /\ DropUplink(r, i).clients = r.clients
           /\ ToSet(DropUplink(r, i).uplinks) \subseteq ToSet(r.uplinks)
           /\ ToSet(r.uplinks) \ {i} \subseteq ToSet(DropUplink(r, i).uplinks)
           /\ DropClient(r, c) \in Relays
           /\ DropClient(r, c).pairing = r.pairing /\ DropClient(r, c).piping = r.piping
           /\ DropClient(r, c).uplinks = r.uplinks
           /\ ToSet(DropClient(r, c).clients) \subseteq ToSet(r.clients)
           /\ ToSet(r.clients) \ {c} \subseteq ToSet(DropClient(r, c).clients)
<1> DEFINE us == RemoveFirst(r.uplinks, i)
           cs == RemoveFirst(r.clients, c)
<1>1. /\ us \in Seq(Dials) /\ ToSet(us) \subseteq ToSet(r.uplinks)
      /\ ToSet(r.uplinks) \ {i} \subseteq ToSet(us)
  BY RemovedEntry DEF Relays
<1>2. /\ cs \in Seq(Clients) /\ ToSet(cs) \subseteq ToSet(r.clients)
      /\ ToSet(r.clients) \ {c} \subseteq ToSet(cs)
  BY RemovedEntry DEF Relays
<1>3. /\ DropUplink(r, i) = [r EXCEPT !.uplinks = us]
      /\ DropClient(r, c) = [r EXCEPT !.clients = cs]
  BY DEF DropUplink, DropClient
<1> HIDE DEF us, cs
<1>4. /\ DropUplink(r, i) \in Relays /\ DropUplink(r, i).uplinks = us
      /\ DropUplink(r, i).pairing = r.pairing /\ DropUplink(r, i).piping = r.piping
      /\ DropUplink(r, i).clients = r.clients
  BY <1>1, <1>3 DEF Relays
<1>5. /\ DropClient(r, c) \in Relays /\ DropClient(r, c).clients = cs
      /\ DropClient(r, c).pairing = r.pairing /\ DropClient(r, c).piping = r.piping
      /\ DropClient(r, c).uplinks = r.uplinks
  BY <1>2, <1>3 DEF Relays
<1> QED
  BY <1>1, <1>2, <1>4, <1>5

LEMMA EndStep ==
    ASSUME Typed, RelayInv,
           \/ \E i \in Dials : FarEnds(i) \/ UplinkTimeout(i)
           \/ \E c \in Clients : ClientEnds(c) \/ ClientTimeout(c)
    PROVE  Typed' /\ SlotsKept /\ RelayFades
<1>1. UNCHANGED <<slot, pools, dials>>
  BY DEF FarEnds, UplinkTimeout, ClientEnds, ClientTimeout, UplinkUnchanged
<1>2. relay \in Relays
  BY DEF Typed
<1>3. ASSUME NEW i \in Dials, FarEnds(i) \/ UplinkTimeout(i)
      PROVE  Typed' /\ SlotsKept /\ RelayFades
  <2>1. uplink' = [uplink EXCEPT ![i] = FarGone(@)] /\ client' = client
    BY <1>3 DEF FarEnds, UplinkTimeout, UplinkUnchanged
  <2>2. /\ uplink' \in [Dials -> Uplinks]
        /\ \A j \in Dials : /\ SameNear(uplink[j], uplink'[j])
                            /\ j = i => uplink'[j].far = Destroyed(uplink[j].far)
                            /\ j # i => uplink'[j] = uplink[j]
    <3>1. uplink' = [j \in Dials |-> IF j \in {i} THEN FarGone(uplink[j]) ELSE uplink[j]]
      BY <2>1, OneGone
    <3>2. /\ uplink' \in [Dials -> Uplinks]
          /\ \A j \in Dials : /\ SameNear(uplink[j], uplink'[j])
                              /\ j \in {i} => uplink'[j].far = Destroyed(uplink[j].far)
                              /\ j \notin {i} => uplink'[j] = uplink[j]
      BY <3>1, FarsGone
    <3> QED
      BY <3>2
  <2>3. /\ relay' \in Relays
        /\ relay'.pairing = relay.pairing /\ relay'.piping = relay.piping
        /\ relay'.clients = relay.clients
        /\ ToSet(relay'.uplinks) \subseteq ToSet(relay.uplinks)
        /\ ToSet(relay.uplinks) \ {i} \subseteq ToSet(relay'.uplinks)
    <3>1. CASE FarEnds(i)
      BY <3>1, <1>2 DEF FarEnds, UplinkUnchanged
    <3>2. CASE UplinkTimeout(i)
      BY <3>2, <1>2, Dropped DEF UplinkTimeout
    <3> QED
      BY <1>3, <3>1, <3>2
  <2>4. ASSUME NEW j \in Dials
        PROVE  /\ \/ uplink'[j].far = uplink[j].far
                  \/ uplink[j].far # "none" /\ uplink'[j].far \in {"ending", "closed"}
               /\ uplink'[j].far = "closed" <=> uplink[j].far = "closed"
               /\ uplink'[j].far = "open" => j # i
    <3>1. uplink[j].far \in SocketStates
      BY DEF Typed, Uplinks
    <3> QED
      BY <3>1, <2>2, DestroyedFar
  <2>5. RelayFades
    BY <2>1, <2>2, <2>3, <2>4 DEF RelayFades
  <2> QED
    BY <1>1, <2>1, <2>2, <2>3, <2>5, NearsAreKept DEF Typed
<1>4. ASSUME NEW c \in Clients, ClientEnds(c) \/ ClientTimeout(c)
      PROVE  Typed' /\ SlotsKept /\ RelayFades
  <2>1. client' = [client EXCEPT ![c] = ThereGone(@)] /\ uplink' = uplink
    BY <1>4 DEF ClientEnds, ClientTimeout
  <2>2. /\ client' \in [Clients -> HandheldEnds]
        /\ \A d \in Clients : /\ client'[d].here = client[d].here
                              /\ d = c => client'[d].there = Destroyed(client[d].there)
                              /\ d # c => client'[d] = client[d]
    <3>1. client' = [d \in Clients |-> IF d \in {c} THEN ThereGone(client[d]) ELSE client[d]]
      BY <2>1, OneGone
    <3>2. /\ client' \in [Clients -> HandheldEnds]
          /\ \A d \in Clients :
                /\ client'[d].here = client[d].here
                /\ d \in {c} => client'[d].there = Destroyed(client[d].there)
                /\ d \notin {c} => client'[d] = client[d]
      BY <3>1, TheresGone
    <3> QED
      BY <3>2
  <2>3. /\ relay' \in Relays
        /\ relay'.pairing = relay.pairing /\ relay'.piping = relay.piping
        /\ relay'.uplinks = relay.uplinks
        /\ ToSet(relay'.clients) \subseteq ToSet(relay.clients)
        /\ ToSet(relay.clients) \ {c} \subseteq ToSet(relay'.clients)
    <3>1. CASE ClientEnds(c)
      BY <3>1, <1>2 DEF ClientEnds
    <3>2. CASE ClientTimeout(c)
      BY <3>2, <1>2, Dropped DEF ClientTimeout
    <3> QED
      BY <1>4, <3>1, <3>2
  <2>4. ASSUME NEW d \in Clients, client'[d].there = "open"
        PROVE  client[d].there = "open" /\ d # c
    <3>1. client[d].there \in SocketStates
      BY DEF Typed, HandheldEnds
    <3> QED
      BY <3>1, <2>2, <2>4, DestroyedFar
  <2>5. \A i \in Dials : SameNear(uplink[i], uplink'[i])
    BY <2>1 DEF SameNear
  <2>6. RelayFades
    BY <2>1, <2>2, <2>3, <2>4, <2>5 DEF RelayFades
  <2> QED
    BY <1>1, <2>1, <2>2, <2>3, <2>5, <2>6, NearsAreKept DEF Typed
<1> QED
  BY <1>3, <1>4

LEMMA PairEndStep ==
    ASSUME Typed, RelayInv, NEW i \in Dials, NEW c \in Clients,
           ActivationTimeout(i, c) \/ ResetPiped(i, c)
    PROVE  Typed' /\ SlotsKept /\ RelayFades
<1>1. /\ UNCHANGED <<slot, pools, dials>>
      /\ uplink' = [uplink EXCEPT ![i] = FarGone(@)]
      /\ client' = [client EXCEPT ![c] = ThereGone(@)]
  BY DEF ActivationTimeout, ResetPiped
<1>2. /\ relay' \in Relays
      /\ relay'.uplinks = relay.uplinks /\ relay'.clients = relay.clients
      /\ relay.pairing \ {<<i, c>>} \subseteq relay'.pairing
      /\ relay.piping \ {<<i, c>>} \subseteq relay'.piping
  <2> DEFINE pairing == relay.pairing \ {<<i, c>>}
             piping == relay.piping \ {<<i, c>>}
  <2>1. /\ relay \in Relays /\ pairing \in SUBSET (Dials \X Clients)
        /\ piping \in SUBSET (Dials \X Clients)
    BY DEF Typed, Relays
  <2>2. \/ relay' = [relay EXCEPT !.pairing = pairing]
        \/ relay' = [relay EXCEPT !.piping = piping]
    BY DEF ActivationTimeout, ResetPiped
  <2>3. pairing \subseteq relay.pairing /\ piping \subseteq relay.piping
    OBVIOUS
  <2> HIDE DEF pairing, piping
  <2>4. /\ relay' \in Relays
        /\ relay'.uplinks = relay.uplinks /\ relay'.clients = relay.clients
        /\ pairing \subseteq relay'.pairing /\ piping \subseteq relay'.piping
    BY <2>1, <2>2, <2>3 DEF Relays
  <2> QED
    BY <2>4 DEF pairing, piping
<1>3. /\ uplink' \in [Dials -> Uplinks]
      /\ \A j \in Dials : /\ SameNear(uplink[j], uplink'[j])
                          /\ j \in {i} => uplink'[j].far = Destroyed(uplink[j].far)
                          /\ j \notin {i} => uplink'[j] = uplink[j]
  <2>1. uplink' = [j \in Dials |-> IF j \in {i} THEN FarGone(uplink[j]) ELSE uplink[j]]
    BY <1>1, OneGone
  <2> QED
    BY <2>1, FarsGone
<1>4. /\ client' \in [Clients -> HandheldEnds]
      /\ \A d \in Clients :
            /\ client'[d].here = client[d].here
            /\ d \in {c} => client'[d].there = Destroyed(client[d].there)
            /\ d \notin {c} => client'[d] = client[d]
  <2>1. client' = [d \in Clients |-> IF d \in {c} THEN ThereGone(client[d]) ELSE client[d]]
    BY <1>1, OneGone
  <2> QED
    BY <2>1, TheresGone
<1>5. ASSUME NEW j \in Dials
      PROVE  /\ \/ uplink'[j].far = uplink[j].far
                \/ uplink[j].far # "none" /\ uplink'[j].far \in {"ending", "closed"}
             /\ uplink'[j].far = "closed" <=> uplink[j].far = "closed"
             /\ uplink'[j].far = "open" => j # i
  <2>1. uplink[j].far \in SocketStates
    BY DEF Typed, Uplinks
  <2> QED
    BY <2>1, <1>3, DestroyedFar
<1>6. ASSUME NEW d \in Clients, client'[d].there = "open"
      PROVE  client[d].there = "open" /\ d # c
  <2>1. client[d].there \in SocketStates
    BY DEF Typed, HandheldEnds
  <2> QED
    BY <2>1, <1>4, <1>6, DestroyedFar
<1>7. RelayFades
  <2>1. ASSUME NEW j \in Dials, NEW d \in Clients, j # i \/ d # c
        PROVE  /\ <<j, d>> \in relay.pairing => <<j, d>> \in relay'.pairing
               /\ <<j, d>> \in relay.piping => <<j, d>> \in relay'.piping
    <3>1. <<j, d>> # <<i, c>>
      BY <2>1
    <3> QED
      BY <3>1, <1>2
  <2>2. ASSUME NEW j \in Dials, uplink'[j].far = "open", NEW d \in Clients,
               <<j, d>> \in relay.pairing \cup relay.piping
        PROVE  <<j, d>> \in relay'.pairing \cup relay'.piping
    BY <2>1, <2>2, <1>5
  <2>3. ASSUME NEW d \in Clients, client'[d].there = "open", NEW j \in Dials,
               \/ <<j, d>> \in relay.pairing
               \/ <<j, d>> \in relay.piping /\ uplink[j].far # "closed"
        PROVE  \/ <<j, d>> \in relay'.pairing
               \/ <<j, d>> \in relay'.piping /\ uplink'[j].far # "closed"
    BY <2>1, <2>3, <1>5, <1>6
  <2> QED
    BY <1>2, <1>3, <1>4, <1>5, <1>6, <2>2, <2>3 DEF RelayFades
<1> QED
  BY <1>1, <1>2, <1>3, <1>4, <1>7, NearsAreKept DEF Typed

LEMMA ReadConnectedStep ==
    ASSUME Typed, RelayInv, NEW i \in Dials, NEW c \in Clients, ReadConnected(i, c)
    PROVE  Typed' /\ SlotsKept /\ RelayFades
<1> DEFINE pairing == relay.pairing \ {<<i, c>>}
           piping == relay.piping \cup {<<i, c>>}
           up == Tail(uplink[i].up)
<1>1. /\ UNCHANGED <<slot, pools, dials>> /\ client' = client
      /\ relay' = [relay EXCEPT !.pairing = pairing, !.piping = piping]
      /\ uplink' = [uplink EXCEPT ![i].up = up]
      /\ uplink[i].far = "open" /\ <<i, c>> \in relay.pairing
  BY DEF ReadConnected, Activate
<1>2. pairing \in SUBSET (Dials \X Clients) /\ piping \in SUBSET (Dials \X Clients)
  BY DEF Typed, Relays
<1>3. up \in Seq(Lines)
  BY QueueElements DEF Typed, Uplinks, ReadConnected
<1>4. \A p : /\ p \in relay.pairing => p \in pairing \/ p = <<i, c>>
             /\ p \in relay.piping => p \in piping
             /\ <<i, c>> \in piping
  OBVIOUS
<1> HIDE DEF pairing, piping, up
<1>5. /\ relay' \in Relays /\ relay'.pairing = pairing /\ relay'.piping = piping
      /\ relay'.uplinks = relay.uplinks /\ relay'.clients = relay.clients
  BY <1>1, <1>2 DEF Typed, Relays
<1>6. /\ uplink' \in [Dials -> Uplinks]
      /\ \A j \in Dials : /\ SameNear(uplink[j], uplink'[j])
                          /\ uplink'[j].far = uplink[j].far
  BY <1>1, <1>3 DEF Typed, Uplinks, SameNear
<1>7. RelayFades
  <2>1. ASSUME NEW j \in Dials, NEW d \in Clients
        PROVE  /\ <<j, d>> \in relay.pairing =>
                     \/ <<j, d>> \in relay'.pairing
                     \/ <<j, d>> \in relay'.piping /\ uplink[j].far # "closed"
               /\ <<j, d>> \in relay.piping => <<j, d>> \in relay'.piping
    <3>1. CASE <<j, d>> = <<i, c>>
      BY <3>1, <1>1, <1>4, <1>5
    <3>2. CASE <<j, d>> # <<i, c>>
      BY <3>2, <1>4, <1>5
    <3> QED
      BY <3>1, <3>2
  <2>2. ASSUME NEW d \in Clients
        PROVE  /\ client'[d].here = client[d].here
               /\ client'[d].there = client[d].there
    BY <1>1
  <2> QED
    BY <1>5, <1>6, <2>1, <2>2 DEF RelayFades
<1> QED
  BY <1>1, <1>5, <1>6, <1>7, NearsAreKept DEF Typed

LEMMA FarClosesStep ==
    ASSUME Typed, RelayInv, NEW i \in Dials, FarCloses(i)
    PROVE  Typed' /\ SlotsKept /\ RelayFades
<1> DEFINE partners == {c \in Clients : <<i, c>> \in relay.piping}
           r == DropUplink(relay, i)
           piping == relay.piping \ ({i} \X partners)
<1>1. /\ UNCHANGED <<slot, pools, dials>> /\ uplink[i].far = "ending"
      /\ relay' = [r EXCEPT !.piping = r.piping \ ({i} \X partners)]
      /\ client' = [c \in Clients |-> IF c \in partners THEN ThereGone(client[c])
                                      ELSE client[c]]
      /\ uplink' = [uplink EXCEPT ![i].far = "closed"]
  BY DEF FarCloses
<1>2. /\ relay \in Relays /\ r \in Relays
      /\ r.pairing = relay.pairing /\ r.piping = relay.piping
      /\ r.clients = relay.clients
      /\ ToSet(r.uplinks) \subseteq ToSet(relay.uplinks)
      /\ ToSet(relay.uplinks) \ {i} \subseteq ToSet(r.uplinks)
  BY Dropped DEF Typed
<1>3. piping \in SUBSET (Dials \X Clients)
  BY <1>2 DEF Relays
<1>4. ASSUME NEW j \in Dials, NEW c \in Clients, <<j, c>> \in relay.piping,
             j # i \/ c \notin partners
      PROVE  <<j, c>> \in piping
  BY <1>4
<1>5. ASSUME NEW c \in Clients, <<i, c>> \in relay.piping
      PROVE  c \in partners
  BY <1>5
<1> HIDE DEF partners, r, piping
<1>6. relay' = [r EXCEPT !.piping = piping]
  BY <1>1, <1>2 DEF piping
<1>7. /\ relay' \in Relays /\ relay'.pairing = relay.pairing
      /\ relay'.piping = piping /\ relay'.clients = relay.clients
      /\ relay'.uplinks = r.uplinks
  BY <1>2, <1>3, <1>6 DEF Relays
<1>8. /\ uplink' \in [Dials -> Uplinks] /\ uplink'[i].far = "closed"
      /\ \A j \in Dials : /\ SameNear(uplink[j], uplink'[j])
                          /\ j # i => uplink'[j] = uplink[j]
  BY <1>1 DEF Typed, Uplinks, SocketStates, SameNear
<1>9. /\ client' \in [Clients -> HandheldEnds]
      /\ \A c \in Clients :
            /\ client'[c].here = client[c].here
            /\ c \in partners => client'[c].there = Destroyed(client[c].there)
            /\ c \notin partners => client'[c] = client[c]
  BY <1>1, TheresGone
<1>10. ASSUME NEW c \in Clients, client'[c].there = "open"
       PROVE  client[c].there = "open" /\ c \notin partners
  <2>1. client[c].there \in SocketStates
    BY DEF Typed, HandheldEnds
  <2> QED
    BY <2>1, <1>9, <1>10, DestroyedFar
<1>11. RelayFades
  <2>1. ASSUME NEW j \in Dials, uplink'[j].far = "open"
        PROVE  /\ j \in ToSet(relay.uplinks) => j \in ToSet(relay'.uplinks)
               /\ \A c \in Clients : <<j, c>> \in relay.pairing \cup relay.piping =>
                                         <<j, c>> \in relay'.pairing \cup relay'.piping
    <3>1. j # i
      BY <2>1, <1>8
    <3> QED
      BY <3>1, <1>2, <1>4, <1>7
  <2>2. ASSUME NEW c \in Clients, client'[c].there = "open", NEW j \in Dials,
               \/ <<j, c>> \in relay.pairing
               \/ <<j, c>> \in relay.piping /\ uplink[j].far # "closed"
        PROVE  \/ <<j, c>> \in relay'.pairing
               \/ <<j, c>> \in relay'.piping /\ uplink'[j].far # "closed"
    <3>1. CASE <<j, c>> \in relay.pairing
      BY <3>1, <1>7
    <3>2. CASE <<j, c>> \in relay.piping /\ uplink[j].far # "closed"
      <4>1. c \notin partners /\ j # i
        BY <3>2, <2>2, <1>5, <1>10
      <4> QED
        BY <3>2, <4>1, <1>4, <1>7, <1>8
    <3> QED
      BY <2>2, <3>1, <3>2
  <2>3. ASSUME NEW j \in Dials
        PROVE  \/ uplink'[j].far = uplink[j].far
               \/ uplink[j].far # "none" /\ uplink'[j].far \in {"ending", "closed"}
    BY <1>1, <1>8
  <2> QED
    BY <1>2, <1>7, <1>8, <1>9, <1>10, <2>1, <2>2, <2>3 DEF RelayFades
<1>12. UNCHANGED <<slot, pools, dials>>
  BY <1>1
<1> QED
  BY <1>7, <1>8, <1>9, <1>11, <1>12, NearsAreKept DEF Typed

LEMMA ClientClosesStep ==
    ASSUME Typed, RelayInv, NEW c \in Clients, ClientCloses(c)
    PROVE  Typed' /\ SlotsKept /\ RelayFades
<1> DEFINE partners == {i \in Dials : <<i, c>> \in relay.piping}
           r == DropClient(relay, c)
           piping == relay.piping \ (partners \X {c})
<1>1. /\ UNCHANGED <<slot, pools, dials>> /\ client[c].there = "ending"
      /\ relay' = [r EXCEPT !.piping = r.piping \ (partners \X {c})]
      /\ uplink' = [i \in Dials |-> IF i \in partners THEN FarGone(uplink[i])
                                    ELSE uplink[i]]
      /\ client' = [client EXCEPT ![c].there = "closed"]
  BY DEF ClientCloses
<1>2. /\ relay \in Relays /\ r \in Relays
      /\ r.pairing = relay.pairing /\ r.piping = relay.piping
      /\ r.uplinks = relay.uplinks
      /\ ToSet(r.clients) \subseteq ToSet(relay.clients)
      /\ ToSet(relay.clients) \ {c} \subseteq ToSet(r.clients)
  BY Dropped DEF Typed
<1>3. piping \in SUBSET (Dials \X Clients)
  BY <1>2 DEF Relays
<1>4. ASSUME NEW i \in Dials, NEW d \in Clients, <<i, d>> \in relay.piping,
             d # c \/ i \notin partners
      PROVE  <<i, d>> \in piping
  BY <1>4
<1>5. ASSUME NEW i \in Dials, <<i, c>> \in relay.piping
      PROVE  i \in partners
  BY <1>5
<1> HIDE DEF partners, r, piping
<1>6. relay' = [r EXCEPT !.piping = piping]
  BY <1>1, <1>2 DEF piping
<1>7. /\ relay' \in Relays /\ relay'.pairing = relay.pairing
      /\ relay'.piping = piping /\ relay'.uplinks = relay.uplinks
      /\ relay'.clients = r.clients
  BY <1>2, <1>3, <1>6 DEF Relays
<1>8. /\ client' \in [Clients -> HandheldEnds] /\ client'[c].there = "closed"
      /\ \A d \in Clients : /\ client'[d].here = client[d].here
                            /\ d # c => client'[d] = client[d]
  BY <1>1 DEF Typed, HandheldEnds, SocketStates
<1>9. /\ uplink' \in [Dials -> Uplinks]
      /\ \A i \in Dials :
            /\ SameNear(uplink[i], uplink'[i])
            /\ i \in partners => uplink'[i].far = Destroyed(uplink[i].far)
            /\ i \notin partners => uplink'[i] = uplink[i]
  BY <1>1, FarsGone
<1>10. ASSUME NEW i \in Dials
       PROVE  /\ \/ uplink'[i].far = uplink[i].far
                 \/ uplink[i].far # "none" /\ uplink'[i].far \in {"ending", "closed"}
              /\ uplink'[i].far = "closed" <=> uplink[i].far = "closed"
              /\ uplink'[i].far = "open" => i \notin partners
  <2>1. uplink[i].far \in SocketStates
    BY DEF Typed, Uplinks
  <2> QED
    BY <2>1, <1>9, DestroyedFar
<1>11. RelayFades
  <2>1. ASSUME NEW i \in Dials, uplink'[i].far = "open", NEW d \in Clients,
               <<i, d>> \in relay.pairing \cup relay.piping
        PROVE  <<i, d>> \in relay'.pairing \cup relay'.piping
    BY <2>1, <1>4, <1>7, <1>10
  <2>2. ASSUME NEW d \in Clients, client'[d].there = "open"
        PROVE  d # c
    BY <2>2, <1>8
  <2>3. ASSUME NEW d \in Clients, client'[d].there = "open", NEW i \in Dials,
               \/ <<i, d>> \in relay.pairing
               \/ <<i, d>> \in relay.piping /\ uplink[i].far # "closed"
        PROVE  \/ <<i, d>> \in relay'.pairing
               \/ <<i, d>> \in relay'.piping /\ uplink'[i].far # "closed"
    BY <2>2, <2>3, <1>4, <1>7, <1>10
  <2>4. ASSUME NEW d \in Clients, client'[d].there = "open"
        PROVE  /\ client[d].there = "open"
               /\ d \in ToSet(relay.clients) => d \in ToSet(relay'.clients)
    BY <2>2, <2>4, <1>2, <1>7, <1>8
  <2> QED
    BY <1>2, <1>7, <1>8, <1>9, <1>10, <2>1, <2>3, <2>4 DEF RelayFades
<1>12. UNCHANGED <<slot, pools, dials>>
  BY <1>1
<1> QED
  BY <1>7, <1>8, <1>9, <1>11, <1>12, NearsAreKept DEF Typed

LEMMA StopRelayStep ==
    ASSUME Typed, RelayInv, StopRelay
    PROVE  Typed' /\ SlotsKept /\ RelayFades
<1> DEFINE us == ToSet(relay.uplinks) \cup {p[1] : p \in relay.piping}
           cs == ToSet(relay.clients) \cup {p[2] : p \in relay.piping}
<1>1. /\ UNCHANGED <<slot, pools, dials>> /\ relay' = CloseService(relay)
      /\ uplink' = [i \in Dials |-> IF i \in us THEN FarGone(uplink[i]) ELSE uplink[i]]
      /\ client' = [c \in Clients |-> IF c \in cs THEN ThereGone(client[c]) ELSE client[c]]
  BY DEF StopRelay
<1>2. /\ \A i \in ToSet(relay.uplinks) : i \in us
      /\ \A c \in ToSet(relay.clients) : c \in cs
      /\ \A i \in Dials, c \in Clients : <<i, c>> \in relay.piping => i \in us /\ c \in cs
  OBVIOUS
<1> HIDE DEF us, cs
<1>3. /\ relay' \in Relays /\ relay'.pairing = relay.pairing
      /\ relay'.uplinks = <<>> /\ relay'.clients = <<>>
  <2>1. <<>> \in Seq(Dials) /\ <<>> \in Seq(Clients)
    BY EmptySeq
  <2> QED
    BY <1>1, <2>1 DEF CloseService, Typed, Relays
<1>4. ToSet(relay'.uplinks) = {} /\ ToSet(relay'.clients) = {}
  <2>1. <<>> \in Seq({}) /\ ToSet(<<>>) = {}
    BY EmptySeq, QueueElements
  <2> QED
    BY <1>3, <2>1
<1>5. /\ uplink' \in [Dials -> Uplinks]
      /\ \A i \in Dials :
            /\ SameNear(uplink[i], uplink'[i])
            /\ i \in us => uplink'[i].far = Destroyed(uplink[i].far)
            /\ i \notin us => uplink'[i] = uplink[i]
  BY <1>1, FarsGone
<1>6. /\ client' \in [Clients -> HandheldEnds]
      /\ \A c \in Clients :
            /\ client'[c].here = client[c].here
            /\ c \in cs => client'[c].there = Destroyed(client[c].there)
            /\ c \notin cs => client'[c] = client[c]
  BY <1>1, TheresGone
<1>7. ASSUME NEW i \in Dials
      PROVE  /\ \/ uplink'[i].far = uplink[i].far
                \/ uplink[i].far # "none" /\ uplink'[i].far \in {"ending", "closed"}
             /\ uplink'[i].far = "open" => i \notin us
  <2>1. uplink[i].far \in SocketStates
    BY DEF Typed, Uplinks
  <2> QED
    BY <2>1, <1>5, DestroyedFar
<1>8. ASSUME NEW c \in Clients, client'[c].there = "open"
      PROVE  client[c].there = "open" /\ c \notin cs
  <2>1. client[c].there \in SocketStates
    BY DEF Typed, HandheldEnds
  <2> QED
    BY <2>1, <1>6, <1>8, DestroyedFar
<1>9. RelayFades
  <2>1. ASSUME NEW i \in Dials, uplink'[i].far = "open"
        PROVE  /\ i \notin ToSet(relay.uplinks)
               /\ \A c \in Clients : <<i, c>> \in relay.pairing \cup relay.piping =>
                                         <<i, c>> \in relay'.pairing
    BY <2>1, <1>2, <1>3, <1>7
  <2>2. ASSUME NEW c \in Clients, client'[c].there = "open"
        PROVE  /\ c \notin ToSet(relay.clients)
               /\ \A i \in Dials : <<i, c>> \in relay.pairing \cup relay.piping =>
                                       <<i, c>> \in relay'.pairing
    BY <2>2, <1>2, <1>3, <1>8
  <2> QED
    BY <1>4, <1>5, <1>6, <1>7, <1>8, <2>1, <2>2 DEF RelayFades
<1> QED
  BY <1>1, <1>3, <1>5, <1>6, <1>9, NearsAreKept DEF Typed

(* Where every socket is gone, nothing can be forgotten. *)
LEMMA NothingIsOpen ==
    ASSUME \A i \in Dials :
              /\ SameNear(uplink[i], uplink'[i]) /\ uplink'[i].far # "open"
              /\ \/ uplink'[i].far = uplink[i].far
                 \/ uplink[i].far # "none" /\ uplink'[i].far \in {"ending", "closed"},
           \A c \in Clients : /\ client'[c].here = client[c].here
                              /\ client'[c].there # "open",
           relay'.uplinks = <<>>, relay'.clients = <<>>
    PROVE  RelayFades
<1>1. ToSet(<<>>) = {}
  <2>1. <<>> \in Seq({})
    BY EmptySeq
  <2> QED
    BY <2>1, QueueElements
<1> QED
  BY <1>1 DEF RelayFades

LEMMA StartRelayStep ==
    ASSUME Typed, StartRelay
    PROVE  Typed' /\ SlotsKept /\ RelayFades
<1>1. /\ relay' = NewRelay /\ UNCHANGED <<slot, pools, dials, uplink, client>>
      /\ RelayIsQuiet
  BY DEF StartRelay
<1>2. relay'.uplinks = <<>> /\ relay'.clients = <<>>
  BY <1>1 DEF NewRelay
<1>3. \A i \in Dials : SameNear(uplink[i], uplink'[i])
  BY <1>1 DEF SameNear
<1>4. RelayFades
  BY <1>1, <1>2, <1>3, NothingIsOpen DEF RelayIsQuiet
<1> QED
  BY <1>1, <1>3, <1>4, NewRecords, NearsAreKept DEF Typed

LEMMA ResetWaitingStep ==
    ASSUME Typed, ResetWaiting
    PROVE  Typed' /\ SlotsKept /\ RelayFades
<1>1. /\ relay' = [NewRelay EXCEPT !.closed = TRUE]
      /\ UNCHANGED <<slot, pools, dials>>
      /\ uplink' = [i \in Dials |-> [FarGone(uplink[i]) EXCEPT
                       !.far = IF @ = "ending" THEN "closed" ELSE @]]
      /\ client' = [c \in Clients |-> [ThereGone(client[c]) EXCEPT
                       !.there = IF @ = "ending" THEN "closed" ELSE @]]
  BY DEF ResetWaiting
<1>2. /\ relay' \in Relays /\ relay'.uplinks = <<>> /\ relay'.clients = <<>>
  BY <1>1, NewRecords DEF NewRelay, Relays
<1>3. ASSUME NEW i \in Dials
      PROVE  /\ uplink'[i] \in Uplinks /\ SameNear(uplink[i], uplink'[i])
             /\ uplink'[i].far # "open"
             /\ \/ uplink'[i].far = uplink[i].far
                \/ uplink[i].far # "none" /\ uplink'[i].far \in {"ending", "closed"}
  <2> DEFINE v == FarGone(uplink[i])
             far == IF v.far = "ending" THEN "closed" ELSE v.far
  <2>1. /\ uplink[i] \in Uplinks /\ v \in Uplinks /\ SameNear(uplink[i], v)
        /\ v.far = Destroyed(uplink[i].far)
    BY DestroyUplink DEF Typed
  <2>2. uplink[i].far \in SocketStates
    BY <2>1 DEF Uplinks
  <2>3. /\ far \in SocketStates /\ far # "open"
        /\ far = uplink[i].far \/ (uplink[i].far # "none" /\ far = "closed")
    BY <2>1, <2>2 DEF Destroyed, SocketStates
  <2>4. uplink'[i] = [v EXCEPT !.far = far]
    BY <1>1
  <2> HIDE DEF v, far
  <2>5. /\ uplink'[i] \in Uplinks /\ SameNear(v, uplink'[i]) /\ uplink'[i].far = far
    BY <2>1, <2>3, <2>4 DEF Uplinks, SameNear
  <2> QED
    BY <2>1, <2>3, <2>5 DEF SameNear
<1>4. ASSUME NEW c \in Clients
      PROVE  /\ client'[c] \in HandheldEnds /\ client'[c].here = client[c].here
             /\ client'[c].there # "open"
  <2> DEFINE k == ThereGone(client[c])
             there == IF k.there = "ending" THEN "closed" ELSE k.there
  <2>1. /\ client[c] \in HandheldEnds /\ k \in HandheldEnds
        /\ k.here = client[c].here /\ k.there = Destroyed(client[c].there)
    BY DestroyClient DEF Typed
  <2>2. client[c].there \in SocketStates
    BY <2>1 DEF HandheldEnds
  <2>3. there \in SocketStates /\ there # "open"
    BY <2>1, <2>2 DEF Destroyed, SocketStates
  <2>4. client'[c] = [k EXCEPT !.there = there]
    BY <1>1
  <2> HIDE DEF k, there
  <2>5. /\ client'[c] \in HandheldEnds /\ client'[c].here = k.here
        /\ client'[c].there = there
    BY <2>1, <2>3, <2>4 DEF HandheldEnds
  <2> QED
    BY <2>1, <2>3, <2>5
<1>5. /\ uplink' \in [Dials -> Uplinks] /\ client' \in [Clients -> HandheldEnds]
  BY <1>1, <1>3, <1>4
<1>6. RelayFades
  BY <1>2, <1>3, <1>4, NothingIsOpen
<1>7. UNCHANGED <<slot, pools, dials>>
  BY <1>1
<1> QED
  BY <1>2, <1>3, <1>5, <1>6, <1>7, NearsAreKept DEF Typed

-----------------------------------------------------------------------------
(* The steps in which a socket of the relay comes to life.                  *)

LEMMA ConnectStep ==
    ASSUME Typed, SlotsInv, RelayInv, NEW i \in Dials, Connect(i)
    PROVE  Typed' /\ SlotsKept /\ RelayInv'
<1>0. uplink \in [Dials -> Uplinks]
  BY DEF Typed
<1> DEFINE up == <<Line("greeting")>>
<1>1. /\ UNCHANGED <<relay, slot, pools, dials, client>>
      /\ uplink[i].near = "dialling"
      /\ uplink' = [uplink EXCEPT ![i].near = "offered", ![i].far = "greeting",
                                  ![i].up = up]
  BY DEF Connect, UplinkUnchanged
<1>2. up \in Seq(Lines)
  BY LinesAreLines
<1> HIDE DEF up
<1>3. /\ uplink' \in [Dials -> Uplinks] /\ Others(i)
      /\ uplink'[i].slot = uplink[i].slot
      /\ uplink'[i].near = "offered" /\ uplink'[i].far = "greeting"
  <2>1. "offered" \in NearStates /\ "greeting" \in SocketStates
    BY DEF NearStates, SocketStates
  <2>2. uplink' \in [Dials -> Uplinks]
    BY <1>0, <1>1, <1>2, <2>1 DEF Uplinks
  <2>3. /\ uplink'[i].slot = uplink[i].slot
        /\ uplink'[i].near = "offered" /\ uplink'[i].far = "greeting"
    BY <1>0, <1>1 DEF Uplinks
  <2>4. Others(i)
    BY <1>0, <1>1 DEF Others
  <2> QED
    BY <2>2, <2>3, <2>4
<1>4. uplink[i].far = "none"
  BY <1>1 DEF RelayInv, WaitersWereHeard
<1>5. ~(i > dials)
  BY <1>1 DEF SlotsInv, AttemptsAreCounted, Busy, Live
<1>6. SlotsKept
  BY <1>1, <1>3 DEF Others, Live, Busy, SlotsKept
<1>7. NoSocketIsForgotten'
  <2>1. ASSUME NEW j \in Dials, uplink'[j].far = "open"
        PROVE  uplink[j].far = "open"
    BY <2>1, <1>3 DEF Others
  <2>2. ASSUME NEW j \in Dials, uplink[j].far # "closed"
        PROVE  uplink'[j].far # "closed"
    BY <2>2, <1>3 DEF Others
  <2>3. relay' = relay /\ client' = client
    BY <1>1
  <2> QED
    BY <2>1, <2>2, <2>3 DEF RelayInv, NoSocketIsForgotten
<1>8. NobodyWaitsForAWaiter'
  <2>1. LiveUplinks(uplink') \subseteq LiveUplinks(uplink)
    BY <1>3 DEF Others, LiveUplinks
  <2>2. relay' = relay /\ client' = client
    BY <1>1
  <2>3. \/ ToSet(relay.uplinks) \cap LiveUplinks(uplink') = {}
        \/ ToSet(relay.clients) \cap LiveClients(client) = {}
    BY <2>1 DEF RelayInv, NobodyWaitsForAWaiter
  <2> QED
    BY <2>2, <2>3 DEF NobodyWaitsForAWaiter
<1>9. WaitersWereHeard'
  <2>1. ASSUME NEW j \in ToSet(relay.uplinks)
        PROVE  uplink'[j].far \notin {"none", "greeting"}
    <3>1. /\ j \in Dials /\ uplink[j].far \notin {"none", "greeting"}
      BY QueueElements DEF Typed, Relays, RelayInv, WaitersWereHeard
    <3> QED
      BY <3>1, <1>3, <1>4 DEF Others
  <2>2. ASSUME NEW j \in Dials, j > dials \/ uplink'[j].near \in {"none", "dialling"}
        PROVE  uplink'[j].far = "none"
    BY <2>2, <1>3, <1>5 DEF Others, RelayInv, WaitersWereHeard
  <2>3. relay' = relay /\ client' = client /\ dials' = dials
    BY <1>1
  <2> QED
    BY <2>1, <2>2, <2>3 DEF RelayInv, WaitersWereHeard
<1>10. Typed'
  BY <1>1, <1>3 DEF Typed
<1> QED
  BY <1>6, <1>7, <1>8, <1>9, <1>10 DEF RelayInv

LEMMA InformedUplinks ==
    ASSUME NEW us \in [Dials -> Uplinks], NEW r
    PROVE  /\ Informed(us, r) \in [Dials -> Uplinks]
           /\ \A i \in Dials : /\ SameNear(us[i], Informed(us, r)[i])
                               /\ Informed(us, r)[i].far = us[i].far
<1>1. ASSUME NEW i \in Dials
      PROVE  /\ Informed(us, r)[i] \in Uplinks
             /\ SameNear(us[i], Informed(us, r)[i])
             /\ Informed(us, r)[i].far = us[i].far
  <2> DEFINE down == Sent(us[i].down, us[i].near, Line("ready"))
             v == Informed(us, r)[i]
  <2>1. us[i] \in Uplinks
    OBVIOUS
  <2>2. down \in Seq(Lines)
    BY <2>1, WrittenLine, LinesAreLines DEF Uplinks
  <2>3. v = us[i] \/ v = [us[i] EXCEPT !.down = down]
    BY DEF Informed
  <2> HIDE DEF down, v
  <2>4. v \in Uplinks /\ SameNear(us[i], v) /\ v.far = us[i].far
    BY <2>1, <2>2, <2>3 DEF Uplinks, SameNear
  <2> QED
    BY <2>4 DEF v
<1>2. Informed(us, r) = [i \in Dials |-> Informed(us, r)[i]]
  BY DEF Informed
<1> QED
  BY <1>1, <1>2

(* A queue without live sockets has none to give. *)
LEMMA DeadQueue ==
    ASSUME NEW S, NEW q \in Seq(S), NEW live, ToSet(q) \cap live = {}
    PROVE  FromLive(q, live) = <<>>
<1> DEFINE f == FromLive(q, live)
<1>1. f # <<>> => Head(f) \in live /\ ToSet(f) \subseteq ToSet(q) /\ f \in Seq(S)
  BY LiveQueue
<1> HIDE DEF f
<1>2. f # <<>> => Head(f) \in ToSet(f)
  BY <1>1, QueueElements
<1>3. f = <<>>
  BY <1>1, <1>2
<1> QED
  BY <1>3 DEF f

(* What the relay promises after #queue, of whatever it is given.           *)
Queued(r, t, us, cs) ==
    /\ t \in Relays
    /\ \A i \in ToSet(r.uplinks) \cap us :
          i \in ToSet(t.uplinks) \/ \E c \in Clients : <<i, c>> \in t.pairing
    /\ \A c \in ToSet(r.clients) \cap cs :
          c \in ToSet(t.clients) \/ \E i \in Dials : <<i, c>> \in t.pairing
    /\ r.pairing \subseteq t.pairing /\ t.piping = r.piping
    /\ ToSet(t.uplinks) \subseteq ToSet(r.uplinks)
    /\ ToSet(t.clients) \subseteq ToSet(r.clients)
    /\ ToSet(t.uplinks) \cap us = {} \/ ToSet(t.clients) \cap cs = {}

LEMMA QueueingUplink ==
    ASSUME NEW r \in Relays, NEW i \in Dials, NEW us, NEW cs,
           ToSet(r.uplinks) \cap (us \ {i}) = {} \/ ToSet(r.clients) \cap cs = {},
           i \notin ToSet(r.uplinks)
    PROVE  Queued([r EXCEPT !.uplinks = Append(@, i)], QueueUplink(r, i, us, cs), us, cs)
<1> DEFINE q == Append(r.uplinks, i)
           s == [r EXCEPT !.uplinks = q]
           t == TryPair(s, us, cs)
<1>1. q \in Seq(Dials) /\ r.uplinks \in Seq(Dials) /\ r.clients \in Seq(Clients)
  BY AppendProperties DEF Relays
<1>2. ToSet(r.uplinks) \cap us = {} => (FromLive(q, us) # <<>> => ToSet(Tail(FromLive(q, us))) = {})
  BY <1>1, LiveTail
<1>3. ToSet(r.clients) \cap cs = {} => FromLive(r.clients, cs) = <<>>
  BY <1>1, DeadQueue
<1>4. QueueUplink(r, i, us, cs) = t
  BY DEF QueueUplink
<1> HIDE DEF q
<1>5. /\ s \in Relays /\ s.uplinks = q /\ s.clients = r.clients
      /\ s.pairing = r.pairing /\ s.piping = r.piping
  BY <1>1 DEF Relays
<1> HIDE DEF s
<1>6. Tried(s, t, us, cs)
  BY <1>5, TriedPair
<1> HIDE DEF t
<1>7. ToSet(t.uplinks) \cap us = {} \/ ToSet(t.clients) \cap cs = {}
  <2>1. ToSet(r.uplinks) \cap us = {} \/ ToSet(r.clients) \cap cs = {}
    OBVIOUS
  <2> QED
    BY <2>1, <1>2, <1>3, <1>5, <1>6 DEF Tried
<1>8. Queued(s, t, us, cs)
  BY <1>6, <1>7 DEF Queued, Tried
<1> QED
  BY <1>4, <1>8 DEF q, s

LEMMA QueueingClient ==
    ASSUME NEW r \in Relays, NEW c \in Clients, NEW us, NEW cs,
           ToSet(r.uplinks) \cap us = {} \/ ToSet(r.clients) \cap (cs \ {c}) = {},
           c \notin ToSet(r.clients)
    PROVE  Queued([r EXCEPT !.clients = Append(@, c)], QueueClient(r, c, us, cs), us, cs)
<1> DEFINE q == Append(r.clients, c)
           s == [r EXCEPT !.clients = q]
           t == TryPair(s, us, cs)
<1>1. q \in Seq(Clients) /\ r.uplinks \in Seq(Dials) /\ r.clients \in Seq(Clients)
  BY AppendProperties DEF Relays
<1>2. ToSet(r.clients) \cap cs = {} => (FromLive(q, cs) # <<>> => ToSet(Tail(FromLive(q, cs))) = {})
  BY <1>1, LiveTail
<1>3. ToSet(r.uplinks) \cap us = {} => FromLive(r.uplinks, us) = <<>>
  BY <1>1, DeadQueue
<1>4. QueueClient(r, c, us, cs) = t
  BY DEF QueueClient
<1> HIDE DEF q
<1>5. /\ s \in Relays /\ s.clients = q /\ s.uplinks = r.uplinks
      /\ s.pairing = r.pairing /\ s.piping = r.piping
  BY <1>1 DEF Relays
<1> HIDE DEF s
<1>6. Tried(s, t, us, cs)
  BY <1>5, TriedPair
<1> HIDE DEF t
<1>7. ToSet(t.uplinks) \cap us = {} \/ ToSet(t.clients) \cap cs = {}
  <2>1. ToSet(r.uplinks) \cap us = {} \/ ToSet(r.clients) \cap cs = {}
    OBVIOUS
  <2> QED
    BY <2>1, <1>2, <1>3, <1>5, <1>6 DEF Tried
<1>8. Queued(s, t, us, cs)
  BY <1>6, <1>7 DEF Queued, Tried
<1> QED
  BY <1>4, <1>8 DEF q, s

(* A socket has come to life and was queued: nothing else has changed.      *)
LEMMA QueuedIsKept ==
    ASSUME Typed, RelayInv, NEW r,
           ToSet(relay.uplinks) \subseteq ToSet(r.uplinks),
           ToSet(relay.clients) \subseteq ToSet(r.clients),
           r.pairing = relay.pairing, r.piping = relay.piping,
           Queued(r, relay', LiveUplinks(uplink'), LiveClients(client')),
           r.uplinks \in Seq(Dials), r.clients \in Seq(Clients),
           \A i \in Dials :
              /\ SameNear(uplink[i], uplink'[i])
              /\ uplink'[i].far = "open" => uplink[i].far = "open" \/ i \in ToSet(r.uplinks)
              /\ uplink'[i].far = "closed" => uplink[i].far = "closed"
              /\ uplink'[i].far = "none" <=> uplink[i].far = "none"
              /\ i \in ToSet(r.uplinks) => uplink'[i].far \notin {"none", "greeting"},
           \A c \in Clients :
              /\ client'[c].there = "open" => client[c].there = "open" \/ c \in ToSet(r.clients)
              /\ c \in ToSet(r.clients) => client'[c].here # "none",
           UNCHANGED dials
    PROVE  RelayInv'
<1> DEFINE us == LiveUplinks(uplink')
           cs == LiveClients(client')
           t == relay'
<1>1. /\ \A i \in Dials : i \in us <=> uplink'[i].far = "open"
      /\ \A c \in Clients : c \in cs <=> client'[c].there = "open"
  BY DEF LiveUplinks, LiveClients
<1> HIDE DEF us, cs
<1>2. Queued(r, t, us, cs)
  BY DEF us, cs
<1>3. NoSocketIsForgotten'
  <2>1. ASSUME NEW i \in Dials, uplink'[i].far = "open"
        PROVE  \/ i \in ToSet(t.uplinks)
               \/ \E c \in Clients : <<i, c>> \in t.pairing \cup t.piping
    <3>1. CASE i \in ToSet(r.uplinks)
      BY <2>1, <3>1, <1>1, <1>2 DEF Queued
    <3>2. CASE i \notin ToSet(r.uplinks)
      <4>1. \E c \in Clients : <<i, c>> \in relay.pairing \cup relay.piping
        BY <2>1, <3>2 DEF RelayInv, NoSocketIsForgotten
      <4> QED
        BY <4>1, <1>2 DEF Queued
    <3> QED
      BY <3>1, <3>2
  <2>2. ASSUME NEW c \in Clients, client'[c].there = "open"
        PROVE  \/ c \in ToSet(t.clients)
               \/ \E i \in Dials : \/ <<i, c>> \in t.pairing
                                   \/ <<i, c>> \in t.piping /\ uplink'[i].far # "closed"
    <3>1. CASE c \in ToSet(r.clients)
      BY <2>2, <3>1, <1>1, <1>2 DEF Queued
    <3>2. CASE c \notin ToSet(r.clients)
      <4>1. PICK i \in Dials : \/ <<i, c>> \in relay.pairing
                               \/ <<i, c>> \in relay.piping /\ uplink[i].far # "closed"
        BY <2>2, <3>2 DEF RelayInv, NoSocketIsForgotten
      <4> QED
        BY <4>1, <1>2 DEF Queued
    <3> QED
      BY <3>1, <3>2
  <2> QED
    BY <2>1, <2>2 DEF NoSocketIsForgotten
<1>4. NobodyWaitsForAWaiter'
  <2>1. ToSet(t.uplinks) \cap us = {} \/ ToSet(t.clients) \cap cs = {}
    BY <1>2 DEF Queued
  <2> QED
    BY <2>1 DEF NobodyWaitsForAWaiter, us, cs
<1>5. WaitersWereHeard'
  <2>1. ToSet(t.uplinks) \subseteq ToSet(r.uplinks) /\ ToSet(r.uplinks) \subseteq Dials
    BY <1>2, QueueElements DEF Queued
  <2>2. ToSet(t.clients) \subseteq ToSet(r.clients) /\ ToSet(r.clients) \subseteq Clients
    BY <1>2, QueueElements DEF Queued
  <2>3. ASSUME NEW i \in Dials, i > dials \/ uplink'[i].near \in {"none", "dialling"}
        PROVE  uplink'[i].far = "none"
    BY <2>3 DEF RelayInv, WaitersWereHeard, SameNear
  <2> QED
    BY <2>1, <2>2, <2>3 DEF WaitersWereHeard
<1> QED
  BY <1>3, <1>4, <1>5 DEF RelayInv

LEMMA ReadGreetingStep ==
    ASSUME Typed, RelayInv, NEW i \in Dials, ReadGreeting(i)
    PROVE  Typed' /\ SlotsKept /\ RelayInv'
<1> DEFINE refused == Refuses(relay, relay.uplinks)
           far == IF refused THEN "ending" ELSE "open"
           up == Tail(uplink[i].up)
           greeted == [uplink EXCEPT ![i].up = up, ![i].far = far]
           queued == QueueUplink(relay, i, LiveUplinks(greeted), LiveClients(client))
<1>1. /\ UNCHANGED <<slot, pools, dials>> /\ client' = client
      /\ uplink[i].far = "greeting" /\ uplink[i].up # <<>>
      /\ refused => uplink' = greeted /\ relay' = relay
      /\ ~refused => uplink' = Informed(greeted, queued) /\ relay' = queued
  BY DEF ReadGreeting
<1>2. relay \in Relays /\ uplink \in [Dials -> Uplinks]
  BY DEF Typed
<1>3. up \in Seq(Lines)
  BY <1>1, <1>2, QueueElements DEF Uplinks
<1>4. /\ far \in SocketStates /\ far \in {"ending", "open"}
      /\ refused => far = "ending"
  BY DEF SocketStates
<1> HIDE DEF refused, far, up
<1>5. /\ greeted \in [Dials -> Uplinks] /\ greeted[i].far = far
      /\ \A j \in Dials : /\ SameNear(uplink[j], greeted[j])
                          /\ j # i => greeted[j] = uplink[j]
  BY <1>2, <1>3, <1>4 DEF Uplinks, SameNear
<1> HIDE DEF greeted
<1>6. i \notin ToSet(relay.uplinks)
  BY <1>1 DEF RelayInv, WaitersWereHeard
<1>7. CASE refused
  <2>1. uplink' = greeted /\ relay' = relay /\ uplink'[i].far = "ending"
    BY <1>1, <1>4, <1>5, <1>7
  <2>2. RelayFades
    <3>1. ASSUME NEW j \in Dials
          PROVE  /\ SameNear(uplink[j], uplink'[j])
                 /\ \/ uplink'[j].far = uplink[j].far
                    \/ uplink[j].far # "none" /\ uplink'[j].far \in {"ending", "closed"}
                 /\ uplink'[j].far = "closed" <=> uplink[j].far = "closed"
      BY <2>1, <1>1, <1>5
    <3> QED
      BY <2>1, <3>1, <1>1 DEF RelayFades
  <2>3. \A j \in Dials : SameNear(uplink[j], uplink'[j])
    BY <2>1, <1>5
  <2>4. Typed'
    BY <2>1, <1>1, <1>5 DEF Typed
  <2>5. UNCHANGED dials
    BY <1>1
  <2> QED
    BY <2>2, <2>3, <2>4, <2>5, <1>1, RelayHasFaded, NearsAreKept
<1>8. CASE ~refused
  <2>1. uplink' = Informed(greeted, queued) /\ relay' = queued /\ client' = client
    BY <1>1, <1>8
  <2> DEFINE us == LiveUplinks(greeted)
             cs == LiveClients(client)
             r == [relay EXCEPT !.uplinks = Append(@, i)]
  <2>2. far = "open"
    BY <1>8 DEF far
  <2>3. /\ uplink' \in [Dials -> Uplinks]
        /\ \A j \in Dials : /\ SameNear(uplink[j], uplink'[j])
                            /\ uplink'[j].far = greeted[j].far
                            /\ j # i => uplink'[j].far = uplink[j].far
    <3>1. /\ uplink' \in [Dials -> Uplinks]
          /\ \A j \in Dials : /\ SameNear(greeted[j], uplink'[j])
                              /\ uplink'[j].far = greeted[j].far
      BY <2>1, <1>5, InformedUplinks
    <3> QED
      BY <3>1, <1>5 DEF SameNear
  <2>4. LiveUplinks(uplink') = us
    BY <2>3 DEF LiveUplinks
  <2>5. us \ {i} \subseteq LiveUplinks(uplink)
    BY <1>5 DEF LiveUplinks
  <2>6. ToSet(relay.uplinks) \cap (us \ {i}) = {} \/ ToSet(relay.clients) \cap cs = {}
    BY <2>5 DEF RelayInv, NobodyWaitsForAWaiter
  <2>7. LiveClients(client') = cs
    BY <2>1
  <2> HIDE DEF us, cs
  <2>8. queued = QueueUplink(relay, i, us, cs)
    BY DEF us, cs
  <2> HIDE DEF queued
  <2>9. Queued(r, relay', us, cs)
    BY <2>1, <2>6, <2>8, <1>2, <1>6, QueueingUplink
  <2>10. /\ relay' \in Relays
         /\ r.uplinks = Append(relay.uplinks, i) /\ r.clients = relay.clients
         /\ r.pairing = relay.pairing /\ r.piping = relay.piping
    BY <2>9, <1>2 DEF Queued, Relays
  <2> HIDE DEF r
  <2>11. /\ r.uplinks \in Seq(Dials) /\ r.clients \in Seq(Clients)
         /\ ToSet(r.uplinks) = ToSet(relay.uplinks) \cup {i}
         /\ ToSet(r.clients) = ToSet(relay.clients)
    <3>1. relay.uplinks \in Seq(Dials) /\ relay.clients \in Seq(Clients)
      BY <1>2 DEF Relays
    <3> QED
      BY <2>10, <3>1, AppendProperties, QueueElements
  <2>12. ASSUME NEW j \in Dials
         PROVE  /\ uplink'[j].far = "open" => uplink[j].far = "open" \/ j \in ToSet(r.uplinks)
                /\ uplink'[j].far = "closed" => uplink[j].far = "closed"
                /\ uplink'[j].far = "none" <=> uplink[j].far = "none"
                /\ j \in ToSet(r.uplinks) => uplink'[j].far \notin {"none", "greeting"}
    <3>1. CASE j = i
      BY <3>1, <2>2, <2>3, <2>11, <1>1, <1>5
    <3>2. CASE j # i
      BY <3>2, <2>3, <2>11 DEF RelayInv, WaitersWereHeard
    <3> QED
      BY <3>1, <3>2
  <2>13. ASSUME NEW c \in Clients
         PROVE  /\ client'[c].there = "open" => client[c].there = "open"
                /\ c \in ToSet(r.clients) => client'[c].here # "none"
    BY <2>1, <2>11 DEF RelayInv, WaitersWereHeard
  <2>14. UNCHANGED dials /\ Queued(r, relay', LiveUplinks(uplink'), LiveClients(client'))
    BY <2>4, <2>7, <2>9, <1>1
  <2>15. RelayInv'
    BY <2>3, <2>10, <2>11, <2>12, <2>13, <2>14, QueuedIsKept
  <2>16. Typed'
    BY <2>1, <2>3, <2>10, <1>1 DEF Typed
  <2> QED
    BY <2>3, <2>15, <2>16, <1>1, NearsAreKept
<1> QED
  BY <1>7, <1>8

LEMMA AcceptClientStep ==
    ASSUME Typed, RelayInv, NEW c \in Clients, AcceptClient(c)
    PROVE  Typed' /\ SlotsKept /\ RelayInv'
<1> DEFINE refused == Refuses(relay, relay.clients)
           there == IF refused THEN "ending" ELSE "open"
           queued == QueueClient(relay, c, LiveUplinks(uplink), LiveClients(client'))
<1>1. /\ UNCHANGED <<slot, pools, dials>> /\ client[c].here = "none"
      /\ client' = [client EXCEPT ![c].here = "open", ![c].there = there]
      /\ refused => uplink' = uplink /\ relay' = relay
      /\ ~refused => uplink' = Informed(uplink, queued) /\ relay' = queued
  BY DEF AcceptClient
<1>2. relay \in Relays /\ client \in [Clients -> HandheldEnds] /\ uplink \in [Dials -> Uplinks]
  BY DEF Typed
<1>3. there \in SocketStates /\ (refused <=> there = "ending") /\ (~refused <=> there = "open")
  BY DEF SocketStates
<1> HIDE DEF refused, there
<1>4. /\ client' \in [Clients -> HandheldEnds]
      /\ client'[c].here = "open" /\ client'[c].there = there
      /\ \A d \in Clients : d # c => client'[d] = client[d]
  BY <1>1, <1>2, <1>3 DEF HandheldEnds, HereStates
<1>5. c \notin ToSet(relay.clients)
  BY <1>1 DEF RelayInv, WaitersWereHeard
<1>6. CASE refused
  <2>1. uplink' = uplink /\ relay' = relay /\ client'[c].there = "ending"
    BY <1>1, <1>3, <1>4, <1>6
  <2>2. \A j \in Dials : SameNear(uplink[j], uplink'[j])
    BY <2>1 DEF SameNear
  <2>3. RelayFades
    <3>1. ASSUME NEW d \in Clients
          PROVE  /\ client[d].here # "none" => client'[d].here # "none"
                 /\ client'[d].there = "open" => client[d].there = "open"
      BY <2>1, <1>4
    <3> QED
      BY <2>1, <2>2, <3>1 DEF RelayFades
  <2>4. Typed'
    BY <2>1, <1>1, <1>4 DEF Typed
  <2>5. UNCHANGED dials
    BY <1>1
  <2> QED
    BY <2>2, <2>3, <2>4, <2>5, <1>1, RelayHasFaded, NearsAreKept
<1>7. CASE ~refused
  <2>1. uplink' = Informed(uplink, queued) /\ relay' = queued
    BY <1>1, <1>7
  <2> DEFINE us == LiveUplinks(uplink)
             cs == LiveClients(client')
             r == [relay EXCEPT !.clients = Append(@, c)]
  <2>2. client'[c].there = "open"
    BY <1>3, <1>4, <1>7
  <2>3. /\ uplink' \in [Dials -> Uplinks]
        /\ \A j \in Dials : /\ SameNear(uplink[j], uplink'[j])
                            /\ uplink'[j].far = uplink[j].far
    BY <2>1, <1>2, InformedUplinks
  <2>4. LiveUplinks(uplink') = us
    BY <2>3 DEF LiveUplinks
  <2>5. cs \ {c} \subseteq LiveClients(client)
    BY <1>4 DEF LiveClients
  <2>6. ToSet(relay.uplinks) \cap us = {} \/ ToSet(relay.clients) \cap (cs \ {c}) = {}
    BY <2>5 DEF RelayInv, NobodyWaitsForAWaiter
  <2>7. LiveClients(client') = cs
    OBVIOUS
  <2> HIDE DEF us, cs
  <2>8. queued = QueueClient(relay, c, us, cs)
    BY DEF us, cs
  <2> HIDE DEF queued
  <2>9. Queued(r, relay', us, cs)
    BY <2>1, <2>6, <2>8, <1>2, <1>5, QueueingClient
  <2>10. /\ relay' \in Relays
         /\ r.clients = Append(relay.clients, c) /\ r.uplinks = relay.uplinks
         /\ r.pairing = relay.pairing /\ r.piping = relay.piping
    BY <2>9, <1>2 DEF Queued, Relays
  <2> HIDE DEF r
  <2>11. /\ r.uplinks \in Seq(Dials) /\ r.clients \in Seq(Clients)
         /\ ToSet(r.uplinks) = ToSet(relay.uplinks)
         /\ ToSet(r.clients) = ToSet(relay.clients) \cup {c}
    <3>1. relay.uplinks \in Seq(Dials) /\ relay.clients \in Seq(Clients)
      BY <1>2 DEF Relays
    <3> QED
      BY <2>10, <3>1, AppendProperties, QueueElements
  <2>12. ASSUME NEW j \in Dials
         PROVE  /\ uplink'[j].far = uplink[j].far
                /\ j \in ToSet(r.uplinks) => uplink'[j].far \notin {"none", "greeting"}
    BY <2>3, <2>11 DEF RelayInv, WaitersWereHeard
  <2>13. ASSUME NEW d \in Clients
         PROVE  /\ \/ client'[d].there = "open" => client[d].there = "open"
                   \/ d \in ToSet(r.clients)
                /\ d \in ToSet(r.clients) => client'[d].here # "none"
    <3>1. CASE d = c
      BY <3>1, <2>11, <1>4
    <3>2. CASE d # c
      BY <3>2, <2>11, <1>4 DEF RelayInv, WaitersWereHeard
    <3> QED
      BY <3>1, <3>2
  <2>14. UNCHANGED dials /\ Queued(r, relay', LiveUplinks(uplink'), LiveClients(client'))
    BY <2>4, <2>7, <2>9, <1>1
  <2>15. RelayInv'
    BY <2>3, <2>10, <2>11, <2>12, <2>13, <2>14, QueuedIsKept
  <2>16. Typed'
    BY <2>3, <2>10, <1>1, <1>4 DEF Typed
  <2> QED
    BY <2>3, <2>15, <2>16, <1>1, NearsAreKept
<1> QED
  BY <1>6, <1>7

-----------------------------------------------------------------------------
(* The pipes and the 3DS: only data moves, or the 3DS leaves.               *)

LEMMA DataStep ==
    ASSUME Typed, WaitersWereHeard,
           UNCHANGED <<relay, slot, pools, dials>>,
           uplink' \in [Dials -> Uplinks], client' \in [Clients -> HandheldEnds],
           \A i \in Dials : /\ SameNear(uplink[i], uplink'[i])
                            /\ uplink'[i].far = uplink[i].far,
           \A c \in Clients : /\ client'[c].there = client[c].there
                              /\ client[c].here # "none" => client'[c].here # "none"
    PROVE  Typed' /\ SlotsKept /\ RelayKept
<1>1. Typed'
  BY DEF Typed
<1>2. RelayKept
  <2>1. dials <= dials'
    BY DEF Typed
  <2>2. ASSUME NEW i \in Dials, uplink'[i].near \in {"none", "dialling"}
        PROVE  uplink'[i].far = "none"
    BY <2>2 DEF WaitersWereHeard, SameNear
  <2> QED
    BY <2>1, <2>2 DEF RelayKept
<1> QED
  BY <1>1, <1>2, NearsAreKept

LEMMA ClientStepIsKept ==
    ASSUME Typed, WaitersWereHeard, NEW c \in Clients,
           ClientSends(c) \/ ClientReads(c) \/ ClientLeaves(c) \/ ClientSeesEnd(c)
    PROVE  Typed' /\ SlotsKept /\ RelayKept
<1>1. /\ UNCHANGED <<relay, slot, pools, dials, uplink>>
      /\ client \in [Clients -> HandheldEnds] /\ client[c].here = "open"
  BY DEF Typed, ClientSends, ClientReads, ClientLeaves, ClientSeesEnd, ClientUnchanged
<1>2. client[c] \in HandheldEnds
  BY <1>1
<1>3. /\ client' \in [Clients -> HandheldEnds]
      /\ \A d \in Clients : d # c => client'[d] = client[d]
      /\ client'[c].there = client[c].there /\ client'[c].here # "none"
  <2>1. CASE ClientSends(c)
    <3> DEFINE sent == client[c].sent + 1
               up == Append(client[c].up, Data(c, sent))
    <3>1. client' = [client EXCEPT ![c].sent = sent, ![c].up = up]
      BY <2>1 DEF ClientSends
    <3>2. sent \in Nat /\ up \in Seq(Lines)
      <4>1. sent \in Nat /\ client[c].up \in Seq(Lines)
        BY <1>2 DEF HandheldEnds
      <4>2. Data(c, sent) \in Lines
        BY <4>1, LinesAreLines
      <4> QED
        BY <4>1, <4>2, AppendProperties
    <3> HIDE DEF sent, up
    <3> QED
      BY <1>1, <3>1, <3>2 DEF HandheldEnds
  <2>2. CASE ClientReads(c)
    <3> DEFINE heard == Append(client[c].heard, Head(client[c].down))
               down == Tail(client[c].down)
    <3>1. client' = [client EXCEPT ![c].heard = heard, ![c].down = down]
      BY <2>2 DEF ClientReads
    <3>2. heard \in Seq(Lines) /\ down \in Seq(Lines)
      BY <1>2, <2>2, QueueElements, AppendProperties DEF ClientReads, HandheldEnds
    <3> HIDE DEF heard, down
    <3> QED
      BY <1>1, <3>1, <3>2 DEF HandheldEnds
  <2>3. CASE ClientLeaves(c)
    <3>1. client' = [client EXCEPT ![c].here = "closed", ![c].down = <<>>]
      BY <2>3 DEF ClientLeaves
    <3>2. <<>> \in Seq(Lines)
      BY EmptySeq
    <3> QED
      BY <1>1, <3>1, <3>2 DEF HandheldEnds, HereStates
  <2>4. CASE ClientSeesEnd(c)
    <3>1. client' = [client EXCEPT ![c].here = "closed"]
      BY <2>4 DEF ClientSeesEnd
    <3> QED
      BY <1>1, <3>1 DEF HandheldEnds, HereStates
  <2> QED
    BY <2>1, <2>2, <2>3, <2>4
<1>4. /\ uplink' \in [Dials -> Uplinks]
      /\ \A i \in Dials : /\ SameNear(uplink[i], uplink'[i])
                          /\ uplink'[i].far = uplink[i].far
  BY <1>1 DEF Typed, SameNear
<1>5. ASSUME NEW d \in Clients
      PROVE  /\ client'[d].there = client[d].there
             /\ client[d].here # "none" => client'[d].here # "none"
  BY <1>3
<1>6. UNCHANGED <<relay, slot, pools, dials>>
  BY <1>1
<1> QED
  BY <1>3, <1>4, <1>5, <1>6, DataStep

LEMMA PipeStep ==
    ASSUME Typed, WaitersWereHeard, NEW i \in Dials, NEW c \in Clients,
           PipeUp(i, c) \/ PipeDown(i, c)
    PROVE  Typed' /\ SlotsKept /\ RelayKept
<1>1. /\ UNCHANGED <<relay, slot, pools, dials>>
      /\ uplink \in [Dials -> Uplinks] /\ client \in [Clients -> HandheldEnds]
  BY DEF Typed, PipeUp, PipeDown
<1>2. uplink[i] \in Uplinks /\ client[c] \in HandheldEnds
  BY <1>1
<1>3. CASE PipeUp(i, c)
  <2> DEFINE down == Sent(uplink[i].down, uplink[i].near, Head(client[c].up))
             up == Tail(client[c].up)
  <2>1. /\ uplink' = [uplink EXCEPT ![i].down = down]
        /\ client' = [client EXCEPT ![c].up = up]
    BY <1>3 DEF PipeUp
  <2>2. down \in Seq(Lines) /\ up \in Seq(Lines)
    <3>1. client[c].up \in Seq(Lines) /\ client[c].up # <<>> /\ uplink[i].down \in Seq(Lines)
      BY <1>2, <1>3 DEF PipeUp, HandheldEnds, Uplinks
    <3>2. Head(client[c].up) \in Lines /\ up \in Seq(Lines)
      BY <3>1, QueueElements
    <3> QED
      BY <3>1, <3>2, WrittenLine
  <2> HIDE DEF down, up
  <2>3. /\ uplink' \in [Dials -> Uplinks]
        /\ \A j \in Dials : /\ SameNear(uplink[j], uplink'[j])
                            /\ uplink'[j].far = uplink[j].far
    BY <1>1, <2>1, <2>2 DEF Uplinks, SameNear
  <2>4. /\ client' \in [Clients -> HandheldEnds]
        /\ \A d \in Clients : /\ client'[d].there = client[d].there
                              /\ client'[d].here = client[d].here
    BY <1>1, <2>1, <2>2 DEF HandheldEnds
  <2> QED
    BY <1>1, <2>3, <2>4, DataStep
<1>4. CASE PipeDown(i, c)
  <2> DEFINE up == Tail(uplink[i].up)
             down == Sent(client[c].down, client[c].here, Head(uplink[i].up))
  <2>1. /\ uplink' = [uplink EXCEPT ![i].up = up]
        /\ client' = client \/ client' = [client EXCEPT ![c].down = down]
    BY <1>4 DEF PipeDown
  <2>2. down \in Seq(Lines) /\ up \in Seq(Lines)
    <3>1. client[c].down \in Seq(Lines) /\ uplink[i].up # <<>> /\ uplink[i].up \in Seq(Lines)
      BY <1>2, <1>4 DEF PipeDown, HandheldEnds, Uplinks
    <3>2. Head(uplink[i].up) \in Lines /\ up \in Seq(Lines)
      BY <3>1, QueueElements
    <3> QED
      BY <3>1, <3>2, WrittenLine
  <2> HIDE DEF down, up
  <2>3. /\ uplink' \in [Dials -> Uplinks]
        /\ \A j \in Dials : /\ SameNear(uplink[j], uplink'[j])
                            /\ uplink'[j].far = uplink[j].far
    BY <1>1, <2>1, <2>2 DEF Uplinks, SameNear
  <2>4. /\ client' \in [Clients -> HandheldEnds]
        /\ \A d \in Clients : /\ client'[d].there = client[d].there
                              /\ client'[d].here = client[d].here
    <3>1. ASSUME client' = [client EXCEPT ![c].down = down]
          PROVE  /\ client' \in [Clients -> HandheldEnds]
                 /\ \A d \in Clients : /\ client'[d].there = client[d].there
                                       /\ client'[d].here = client[d].here
      BY <1>1, <2>2, <3>1 DEF HandheldEnds
    <3> QED
      BY <1>1, <2>1, <3>1
  <2> QED
    BY <1>1, <2>3, <2>4, DataStep
<1> QED
  BY <1>3, <1>4

-----------------------------------------------------------------------------
(* The inductive invariant.                                                 *)
RelayTunnelInv == Typed /\ SlotsInv /\ RelayInv

LEMMA InitHolds == Init => RelayTunnelInv
<1> SUFFICES ASSUME Init
             PROVE  RelayTunnelInv
  OBVIOUS
<1>1. /\ relay = NewRelay /\ slot = [s \in Slots |-> NoSlot] /\ pools = 0 /\ dials = 0
      /\ uplink = [i \in Dials |-> NoUplink] /\ client = [c \in Clients |-> NoClient]
  BY DEF Init
<1>2. Typed
  BY <1>1, NewRecords, TunnelAssumption DEF Typed
<1>3. ASSUME NEW i \in Dials
      PROVE  ~Busy(uplink[i]) /\ uplink[i].far = "none" /\ uplink[i].slot = 0
  BY <1>1 DEF NoUplink, Busy, Live, Closing
<1>4. ASSUME NEW s \in Slots
      PROVE  slot[s].stopped /\ slot[s].timers = 0 /\ Alive(s) = {}
  <2>1. Alive(s) = {}
    BY <1>3, OccupiedIsBusy DEF Busy
  <2> QED
    BY <2>1, <1>1 DEF NoSlot
<1>5. SlotsInv
  <2>1. Made = 0
    BY <1>1, TunnelAssumption DEF Made
  <2> QED
    BY <2>1, <1>3, <1>4 DEF SlotsInv, SlotsHoldOne, AttemptsAreCounted
<1>6. ToSet(relay.uplinks) = {} /\ ToSet(relay.clients) = {}
  <2>1. relay.uplinks = <<>> /\ relay.clients = <<>>
    BY <1>1 DEF NewRelay
  <2>2. <<>> \in Seq({})
    BY EmptySeq
  <2> QED
    BY <2>1, <2>2, QueueElements
<1>7. \A c \in Clients : client[c].there = "none"
  BY <1>1 DEF NoClient
<1>8. RelayInv
  BY <1>3, <1>6, <1>7 DEF RelayInv, NoSocketIsForgotten, NobodyWaitsForAWaiter,
                          WaitersWereHeard
<1> QED
  BY <1>2, <1>5, <1>8 DEF RelayTunnelInv

LEMMA NextKeeps == RelayTunnelInv /\ [Next]_vars => RelayTunnelInv'
<1> SUFFICES ASSUME Typed, SlotsInv, RelayInv, [Next]_vars
             PROVE  Typed' /\ SlotsInv' /\ RelayInv'
  BY DEF RelayTunnelInv
<1>1. WaitersWereHeard
  BY DEF RelayInv
<1>2. ASSUME Typed', SlotsKept, RelayKept
      PROVE  SlotsInv' /\ RelayInv'
  <2>1. dials' \in Nat
    BY <1>2 DEF Typed
  <2> QED
    BY <1>2, <2>1, SlotsAreKept, RelayIsKept
<1>3. ASSUME Typed', SlotsKept, RelayFades
      PROVE  SlotsInv' /\ RelayInv'
  <2>1. UNCHANGED dials
    BY <1>3 DEF SlotsKept
  <2> QED
    BY <1>3, <2>1, SlotsAreKept, RelayHasFaded
<1>4. ASSUME Typed', SlotsInv', RelayKept
      PROVE  RelayInv'
  <2>1. dials' \in Nat
    BY <1>4 DEF Typed
  <2> QED
    BY <1>4, <2>1, RelayIsKept
<1>5. CASE StartTunnel
  BY <1>1, <1>4, <1>5, StartTunnelStep
<1>6. CASE CloseTunnel
  BY <1>1, <1>4, <1>6, CloseTunnelStep
<1>7. CASE StartRelay
  BY <1>3, <1>7, StartRelayStep
<1>8. CASE \E s \in Slots : Redial(s)
  BY <1>1, <1>4, <1>8, RedialStep
<1>9. CASE \E i \in Dials : Connect(i)
  <2>1. Typed' /\ SlotsKept /\ RelayInv'
    BY <1>9, ConnectStep
  <2> QED
    BY <2>1, SlotsAreKept
<1>10. CASE \E i \in Dials : NearCloses(i) \/ LocalCloses(i)
  BY <1>1, <1>4, <1>10, CloseStep
<1>11. CASE \E i \in Dials :
               \/ ConnectFails(i) \/ ReadReady(i) \/ LocalConnect(i) \/ LocalFails(i)
               \/ PipeToServer(i) \/ ServerAnswers(i) \/ ServerHangsUp(i)
               \/ NearEnds(i) \/ ResetNear(i)
  BY <1>1, <1>2, <1>11, AttemptStep
<1>12. CASE \E i \in Dials : ReadGreeting(i)
  <2>1. Typed' /\ SlotsKept /\ RelayInv'
    BY <1>12, ReadGreetingStep
  <2> QED
    BY <2>1, SlotsAreKept
<1>13. CASE \E c \in Clients : AcceptClient(c)
  <2>1. Typed' /\ SlotsKept /\ RelayInv'
    BY <1>13, AcceptClientStep
  <2> QED
    BY <2>1, SlotsAreKept
<1>14. CASE \/ \E i \in Dials : FarEnds(i) \/ UplinkTimeout(i)
            \/ \E c \in Clients : ClientEnds(c) \/ ClientTimeout(c)
  BY <1>3, <1>14, EndStep
<1>15. CASE \E i \in Dials : FarCloses(i)
  BY <1>3, <1>15, FarClosesStep
<1>16. CASE \E c \in Clients : ClientCloses(c)
  BY <1>3, <1>16, ClientClosesStep
<1>17. CASE \E i \in Dials, c \in Clients : ReadConnected(i, c)
  BY <1>3, <1>17, ReadConnectedStep
<1>18. CASE \E i \in Dials, c \in Clients : PipeUp(i, c) \/ PipeDown(i, c)
  BY <1>1, <1>2, <1>18, PipeStep
<1>19. CASE \E i \in Dials, c \in Clients : ActivationTimeout(i, c) \/ ResetPiped(i, c)
  BY <1>3, <1>19, PairEndStep
<1>20. CASE StopRelay
  BY <1>3, <1>20, StopRelayStep
<1>21. CASE ResetWaiting
  BY <1>3, <1>21, ResetWaitingStep
<1>22. CASE \E c \in Clients : \/ ClientSends(c) \/ ClientReads(c)
                               \/ ClientLeaves(c) \/ ClientSeesEnd(c)
  BY <1>1, <1>2, <1>22, ClientStepIsKept
<1>23. CASE UNCHANGED vars
  <2>1. /\ UNCHANGED <<relay, slot, pools, dials>> /\ uplink' = uplink /\ client' = client
    BY <1>23 DEF vars
  <2>2. /\ uplink' \in [Dials -> Uplinks] /\ client' \in [Clients -> HandheldEnds]
        /\ \A i \in Dials : /\ SameNear(uplink[i], uplink'[i])
                            /\ uplink'[i].far = uplink[i].far
        /\ \A c \in Clients : /\ client'[c].there = client[c].there
                              /\ client[c].here # "none" => client'[c].here # "none"
    BY <2>1 DEF Typed, SameNear
  <2>3. Typed' /\ SlotsKept /\ RelayKept
    BY <2>1, <2>2, <1>1, DataStep
  <2> QED
    BY <2>3, <1>2
<1> QED
  BY <1>5, <1>6, <1>7, <1>8, <1>9, <1>10, <1>11, <1>12, <1>13, <1>14, <1>15, <1>16,
     <1>17, <1>18, <1>19, <1>20, <1>21, <1>22, <1>23
     DEF Next, TunnelStep, UplinkStep, ClientStep, Timeouts, Faults, Handheld

(* The invariant holds of every behaviour: each step of the tunnel, of the   *)
(* relay and of the 3DS keeps what the three theorems below take from it.   *)
THEOREM RelayTunnelIsInvariant == Spec => []RelayTunnelInv
BY InitHolds, NextKeeps, PTL DEF Spec

(* However its sockets and timers end, a slot of the tunnel has the one     *)
(* connection that close() knows or the one timer that will make it, and a  *)
(* slot that was stopped has nothing (bridge/src/reverse-tunnel.ts).        *)
THEOREM SlotsHoldOneHolds == Spec => []SlotsHoldOne
<1>1. RelayTunnelInv => SlotsHoldOne
  BY DEF RelayTunnelInv, SlotsInv
<1> QED
  BY <1>1, RelayTunnelIsInvariant, PTL

(* Every open socket of the relay is in a queue or in a pair: somebody will *)
(* close it (bridge/src/relay.ts).                                          *)
THEOREM NoSocketIsForgottenHolds == Spec => []NoSocketIsForgotten
<1>1. RelayTunnelInv => NoSocketIsForgotten
  BY DEF RelayTunnelInv, RelayInv
<1> QED
  BY <1>1, RelayTunnelIsInvariant, PTL

(* A client and an uplink that are both alive never both wait: #tryPair is  *)
(* called wherever it must be (bridge/src/relay.ts).                        *)
THEOREM NobodyWaitsForAWaiterHolds == Spec => []NobodyWaitsForAWaiter
<1>1. RelayTunnelInv => NobodyWaitsForAWaiter
  BY DEF RelayTunnelInv, RelayInv
<1> QED
  BY <1>1, RelayTunnelIsInvariant, PTL

-----------------------------------------------------------------------------
(* The streams.  A sequence that is what someone sent after the first a     *)
(* chunks, in order and without a gap.                                      *)
Run(chunks, who, a) ==
    \A n \in 1..Len(chunks) : chunks[n] = Data(who, a + n)

(* An attempt the relay has not paired carries nothing but its greeting.    *)
FreshUplink(u) ==
    /\ u.near \notin {"opening", "piping"} /\ u.local # "connecting"
    /\ u.near \in {"none", "dialling"} => u.far = "none"
    /\ u.served = <<>> /\ u.said = 0 /\ u.down = <<>>
    /\ Len(u.up) <= 1 /\ (u.far # "greeting" => u.up = <<>>)

(* A connection of the 3DS the relay has not paired has what the 3DS sent.  *)
FreshClient(k, c) ==
    /\ k.heard = <<>> /\ k.down = <<>>
    /\ k.here = "none" => k.there = "none"
    /\ k.there = "none" => k.sent = 0 /\ k.up = <<>>
    /\ k.there = "open" => Run(k.up, c, 0) /\ Len(k.up) = k.sent

(* What is true of a pair before its pipes are laid.                        *)
NothingPiped(u, k) ==
    /\ u.served = <<>> /\ u.said = 0 /\ k.heard = <<>> /\ k.down = <<>>
    /\ u.near = "piping" => u.down = <<>>
    /\ Len(u.up) <= 1

(* The chunks of the client that have come as far as the tunnel.            *)
Reached(u) == Len(u.served) + (IF u.near = "piping" THEN Len(u.down) ELSE 0)

(* From the client to the server: what was served, what is on its way to    *)
(* the tunnel, and what the relay has not read, until a socket goes.        *)
Upwards(u, k, c) ==
    /\ Run(u.served, c, 0)
    /\ u.near = "piping" => Run(u.down, c, Len(u.served))
    /\ k.there = "open" /\ ~Gone(u.near) =>
          Run(k.up, c, Reached(u)) /\ Reached(u) + Len(k.up) = k.sent

(* From the server to the client.                                           *)
Downwards(u, k, i, pipes) ==
    /\ Run(k.heard, i, 0)
    /\ Run(k.down, i, Len(k.heard))
    /\ pipes /\ u.far = "open" /\ k.there = "open" /\ k.here = "open" =>
          /\ Run(u.up, i, Len(k.heard) + Len(k.down))
          /\ Len(k.heard) + Len(k.down) + Len(u.up) = u.said

(* A pair of the relay, past or present.                                    *)
Joined(u, k, i, c, waits, pipes) ==
    /\ u.near \notin {"none", "dialling"} /\ u.far \notin {"none", "greeting"}
    /\ k.here # "none" /\ k.there \notin {"none", "greeting"}
    /\ ~(waits /\ pipes)
    /\ waits \/ pipes \/ (Gone(u.far) /\ Gone(k.there))
    /\ waits => NothingPiped(u, k)
    /\ Gone(u.near) => u.down = <<>>
    /\ Gone(u.far) => u.up = <<>>
    /\ u.near = "offered" => Len(u.down) <= 1 /\ u.local # "connecting"
    /\ u.near = "opening" => u.down = <<>>
    /\ u.near = "piping" => u.local # "connecting"
    /\ u.near \in {"offered", "opening"} =>
          ~pipes /\ u.served = <<>> /\ u.up = <<>>
    /\ Upwards(u, k, c)
    /\ Downwards(u, k, i, pipes)

(* No client and no uplink is in two pairs, nor in a pair and in a queue.   *)
Matching(m) ==
    /\ m \subseteq Dials \X Clients
    /\ \A i \in Dials, c \in Clients, d \in Clients :
          <<i, c>> \in m /\ <<i, d>> \in m => c = d
    /\ \A i \in Dials, j \in Dials, c \in Clients :
          <<i, c>> \in m /\ <<j, c>> \in m => i = j
    /\ relay.pairing \subseteq m /\ relay.piping \subseteq m
    /\ OnlyOnce(relay.uplinks) /\ OnlyOnce(relay.clients)
    /\ \A i \in ToSet(relay.uplinks), c \in Clients : <<i, c>> \notin m
    /\ \A c \in ToSet(relay.clients), i \in Dials : <<i, c>> \notin m

(* m holds every pair the relay has made.                                   *)
Streams(m) ==
    /\ Matching(m)
    /\ \A i \in Dials : \/ \E c \in Clients : <<i, c>> \in m
                        \/ FreshUplink(uplink[i])
    /\ \A c \in Clients : \/ \E i \in Dials : <<i, c>> \in m
                          \/ FreshClient(client[c], c)
    /\ \A i \in Dials, c \in Clients : <<i, c>> \in m =>
          Joined(uplink[i], client[c], i, c, <<i, c>> \in relay.pairing,
                 <<i, c>> \in relay.piping)

StreamsInv == \E m \in SUBSET (Dials \X Clients) : Streams(m)

-----------------------------------------------------------------------------
LEMMA EmptyRun == \A who, a : Run(<<>>, who, a)
BY DEF Run

LEMMA LongerRun ==
    ASSUME NEW q \in Seq(Lines), NEW who, NEW a \in Nat, NEW b, Run(q, who, a),
           b = a + Len(q) + 1
    PROVE  /\ Append(q, Data(who, b)) \in Seq(Lines) \/ Data(who, b) \notin Lines
           /\ Run(Append(q, Data(who, b)), who, a)
           /\ Len(Append(q, Data(who, b))) = Len(q) + 1
<1> DEFINE l == Data(who, b)
           p == Append(q, l)
           T == Lines \cup {l}
<1>1. Len(q) \in Nat /\ q \in Seq(T)
  <2>1. \A n \in 1..Len(q) : q[n] \in T
    BY ElementOfSeq
  <2> QED
    BY <2>1, SeqDef
<1> HIDE DEF l
<1>2. /\ p \in Seq(T) /\ Len(p) = Len(q) + 1 /\ p[Len(q) + 1] = l
      /\ \A k \in 1..Len(q) : p[k] = q[k]
  BY <1>1, AppendProperties
<1>3. ASSUME l \in Lines
      PROVE  p \in Seq(Lines)
  BY <1>3, AppendProperties
<1> HIDE DEF p
<1>4. ASSUME NEW n \in 1..Len(p)
      PROVE  p[n] = Data(who, a + n)
  <2>1. CASE n <= Len(q)
    <3>1. n \in 1..Len(q) /\ p[n] = q[n]
      BY <2>1, <1>1, <1>2
    <3> QED
      BY <3>1 DEF Run
  <2>2. CASE n = Len(q) + 1
    <3>1. b = a + n
      BY <2>2, <1>1
    <3> QED
      BY <2>2, <3>1, <1>2 DEF l
  <2> QED
    BY <2>1, <2>2, <1>1, <1>2
<1> QED
  BY <1>2, <1>3, <1>4 DEF l, p, Run

LEMMA ShorterRun ==
    ASSUME NEW q \in Seq(Lines), q # <<>>, NEW who, NEW a \in Nat, Run(q, who, a)
    PROVE  /\ Head(q) = Data(who, a + 1) /\ Head(q) \in Lines
           /\ Tail(q) \in Seq(Lines) /\ Len(Tail(q)) = Len(q) - 1
           /\ Run(Tail(q), who, a + 1)
<1> DEFINE t == Tail(q)
<1>1. /\ Head(q) \in Lines /\ t \in Seq(Lines) /\ Len(t) = Len(q) - 1
      /\ \A k \in 1..Len(t) : t[k] = q[k + 1]
  BY HeadTailProperties
<1>2. Len(q) \in Nat \ {0} /\ Head(q) = q[1]
  BY EmptySeq
<1> HIDE DEF t
<1>3. Head(q) = Data(who, a + 1)
  BY <1>2 DEF Run
<1>4. ASSUME NEW n \in 1..Len(t)
      PROVE  t[n] = Data(who, a + 1 + n)
  <2>1. n + 1 \in 1..Len(q) /\ a + (n + 1) = a + 1 + n
    BY <1>1, <1>2
  <2>2. q[n + 1] = Data(who, a + (n + 1))
    BY <2>1 DEF Run
  <2> QED
    BY <2>1, <2>2, <1>1
<1> QED
  BY <1>1, <1>3, <1>4 DEF t, Run

(* A chunk goes from the head of a queue to the end of another. *)
LEMMA ChunkMoves ==
    ASSUME NEW q \in Seq(Lines), NEW r \in Seq(Lines), r # <<>>, NEW who,
           NEW a \in Nat, Run(q, who, a), Run(r, who, a + Len(q))
    PROVE  LET p == Append(q, Head(r))
           IN  /\ Run(p, who, a) /\ Run(Tail(r), who, a + Len(p))
               /\ a + Len(p) + Len(Tail(r)) = a + Len(q) + Len(r)
<1> DEFINE b == Len(q)
           n == Len(r)
           x == a + b
           p == Append(q, Head(r))
<1>1. b \in Nat /\ n \in Nat
  BY LenProperties
<1>2. x \in Nat
  <2> HIDE DEF b
  <2> QED
    BY <1>1
<1> HIDE DEF x
<1>3. /\ Head(r) = Data(who, x + 1) /\ Run(Tail(r), who, x + 1)
      /\ Len(Tail(r)) = n - 1
  <2>1. Run(r, who, x)
    BY DEF x
  <2> QED
    BY <1>2, <2>1, ShorterRun
<1>4. Run(p, who, a) /\ Len(p) = b + 1
  <2>1. x + 1 = a + Len(q) + 1
    BY DEF x
  <2> HIDE DEF b
  <2>2. x + 1 = a + Len(q) + 1 /\ Run(q, who, a)
    BY <2>1
  <2>3. /\ Run(Append(q, Data(who, x + 1)), who, a)
        /\ Len(Append(q, Data(who, x + 1))) = Len(q) + 1
    BY <2>2, LongerRun
  <2> QED
    BY <1>3, <2>3 DEF b
<1>5. a + Len(p) = x + 1 /\ x + 1 + (n - 1) = a + b + n
  <2> HIDE DEF p, b, n
  <2> QED
    BY <1>1, <1>4 DEF x
<1> QED
  <2>1. Run(Tail(r), who, a + Len(p))
    BY <1>3, <1>5
  <2>2. a + Len(p) + Len(Tail(r)) = a + b + n
    BY <1>3, <1>5
  <2> QED
    BY <1>4, <2>1, <2>2

(* What is empty and what is not. *)
LEMMA ShortQueue ==
    ASSUME NEW S, NEW q \in Seq(S)
    PROVE  /\ Len(q) \in Nat /\ (Len(q) = 0 <=> q = <<>>)
           /\ (Len(q) <= 1 /\ q # <<>> => Tail(q) = <<>>)
<1>1. Len(q) \in Nat /\ (q # <<>> => Len(q) # 0) /\ Len(<<>>) = 0
  BY EmptySeq
<1>2. ASSUME Len(q) <= 1, q # <<>>
      PROVE  Tail(q) = <<>>
  <2>1. Tail(q) \in Seq(S) /\ Len(Tail(q)) = Len(q) - 1
    BY <1>2, HeadTailProperties
  <2>2. Len(q) # 0
    BY <1>1, <1>2
  <2>3. Len(Tail(q)) = 0
    BY <1>1, <1>2, <2>1, <2>2
  <2> QED
    BY <2>1, <2>3, EmptySeq
<1> QED
  BY <1>1, <1>2

-----------------------------------------------------------------------------
(* What may be lost when a socket goes, and what else is as it was.         *)

NearFades(u, v) ==
    /\ v.near = u.near \/ (u.near # "none" /\ Gone(v.near))
    /\ v.down = u.down \/ v.down = <<>>
    /\ Gone(v.near) => v.down = <<>> \/ Gone(u.near)
    /\ ~Gone(v.near) /\ v.near # "none" => v.down = u.down

FarFades(u, v) ==
    /\ v.far = u.far \/ (u.far # "none" /\ Gone(v.far))
    /\ v.up = u.up \/ v.up = <<>>
    /\ Gone(v.far) => v.up = <<>> \/ Gone(u.far)
    /\ v.far \in {"greeting", "open"} => v.up = u.up

UplinkFades(u, v) ==
    /\ v \in Uplinks
    /\ NearFades(u, v) /\ FarFades(u, v)
    /\ v.local = u.local \/ Gone(v.local)
    /\ v.served = u.served /\ v.said = u.said

ClientFades(k, l) ==
    /\ l \in HandheldEnds
    /\ l.here = k.here \/ (k.here # "none" /\ l.here = "closed")
    /\ l.there = k.there \/ (k.there # "none" /\ Gone(l.there))
    /\ l.up = k.up \/ l.up = <<>>
    /\ l.there = "open" => l.up = k.up
    /\ l.down = k.down \/ (l.down = <<>> /\ l.here # "open")
    /\ l.heard = k.heard /\ l.sent = k.sent

LEMMA NothingFades ==
    /\ \A u \in Uplinks : UplinkFades(u, u)
    /\ \A k \in HandheldEnds : ClientFades(k, k)
BY DEF UplinkFades, NearFades, FarFades, ClientFades

LEMMA FadesTwice ==
    ASSUME NEW u \in Uplinks, NEW v \in Uplinks, NEW w \in Uplinks,
           UplinkFades(u, v), UplinkFades(v, w)
    PROVE  UplinkFades(u, w)
<1>1. NearFades(u, w)
  BY DEF UplinkFades, NearFades, Gone
<1>2. FarFades(u, w)
  BY DEF UplinkFades, FarFades, Gone
<1> QED
  BY <1>1, <1>2 DEF UplinkFades

LEMMA SocketFades ==
    ASSUME NEW u \in Uplinks
    PROVE  /\ UplinkFades(u, NearGone(u)) /\ UplinkFades(u, LocalGone(u))
           /\ UplinkFades(u, FarGone(u))
           /\ UplinkFades(u, NearGone(LocalGone(u)))
<1>1. /\ \A x \in NearStates :
            /\ Destroyed(x) \in NearStates
            /\ Destroyed(x) = x \/ (x # "none" /\ Gone(Destroyed(x)))
            /\ Destroyed(x) = "none" \/ Gone(Destroyed(x))
      /\ \A x \in LocalStates :
            /\ Destroyed(x) \in LocalStates
            /\ Destroyed(x) = x \/ Gone(Destroyed(x))
      /\ \A x \in SocketStates :
            /\ Destroyed(x) \in SocketStates
            /\ Destroyed(x) = x \/ (x # "none" /\ Gone(Destroyed(x)))
            /\ Destroyed(x) \notin {"greeting", "open"}
  BY DEF Destroyed, NearStates, LocalStates, SocketStates, Gone
<1>2. ASSUME NEW v \in Uplinks
      PROVE  /\ UplinkFades(v, NearGone(v)) /\ UplinkFades(v, LocalGone(v))
             /\ UplinkFades(v, FarGone(v))
  <2> DEFINE near == Destroyed(v.near)  local == Destroyed(v.local)
             far == Destroyed(v.far)
  <2>1. v.near \in NearStates /\ v.local \in LocalStates /\ v.far \in SocketStates
    BY DEF Uplinks
  <2>2. /\ near \in NearStates /\ (near = v.near \/ (v.near # "none" /\ Gone(near)))
        /\ near = "none" \/ Gone(near)
        /\ local \in LocalStates /\ (local = v.local \/ Gone(local))
        /\ far \in SocketStates /\ (far = v.far \/ (v.far # "none" /\ Gone(far)))
        /\ far \notin {"greeting", "open"}
    BY <1>1, <2>1
  <2>3. <<>> \in Seq(Lines)
    BY EmptySeq
  <2>4. /\ NearGone(v) = [v EXCEPT !.near = near, !.down = <<>>]
        /\ LocalGone(v) = [v EXCEPT !.local = local]
        /\ FarGone(v) = [v EXCEPT !.far = far, !.up = <<>>]
    BY DEF NearGone, LocalGone, FarGone
  <2> HIDE DEF near, local, far
  <2>5. UplinkFades(v, NearGone(v))
    <3> DEFINE w == NearGone(v)
    <3>1. /\ w \in Uplinks /\ w.near = near /\ w.down = <<>> /\ w.local = v.local
          /\ w.far = v.far /\ w.up = v.up /\ w.served = v.served /\ w.said = v.said
      BY <2>2, <2>3, <2>4 DEF Uplinks
    <3> HIDE DEF w
    <3>2. UplinkFades(v, w)
      BY <3>1, <2>2 DEF UplinkFades, NearFades, FarFades, Gone
    <3> QED
      BY <3>2 DEF w
  <2>6. UplinkFades(v, LocalGone(v))
    <3> DEFINE w == LocalGone(v)
    <3>1. /\ w \in Uplinks /\ w.near = v.near /\ w.down = v.down /\ w.local = local
          /\ w.far = v.far /\ w.up = v.up /\ w.served = v.served /\ w.said = v.said
      BY <2>2, <2>4 DEF Uplinks
    <3> HIDE DEF w
    <3>2. UplinkFades(v, w)
      BY <3>1, <2>2 DEF UplinkFades, NearFades, FarFades, Gone
    <3> QED
      BY <3>2 DEF w
  <2>7. UplinkFades(v, FarGone(v))
    <3> DEFINE w == FarGone(v)
    <3>1. /\ w \in Uplinks /\ w.near = v.near /\ w.down = v.down /\ w.local = v.local
          /\ w.far = far /\ w.up = <<>> /\ w.served = v.served /\ w.said = v.said
      BY <2>2, <2>3, <2>4 DEF Uplinks
    <3> HIDE DEF w
    <3>2. UplinkFades(v, w)
      BY <3>1, <2>2 DEF UplinkFades, NearFades, FarFades, Gone
    <3> QED
      BY <3>2 DEF w
  <2> QED
    BY <2>5, <2>6, <2>7
<1>3. UplinkFades(u, NearGone(LocalGone(u)))
  <2>1. LocalGone(u) \in Uplinks /\ UplinkFades(u, LocalGone(u))
    BY <1>2 DEF UplinkFades
  <2> DEFINE v == LocalGone(u)
  <2> HIDE DEF v
  <2>2. v \in Uplinks /\ UplinkFades(u, v)
    BY <2>1 DEF v
  <2>3. NearGone(v) \in Uplinks /\ UplinkFades(v, NearGone(v))
    BY <2>2, <1>2 DEF UplinkFades
  <2>4. UplinkFades(u, NearGone(v))
    BY <2>2, <2>3, FadesTwice
  <2> QED
    BY <2>4 DEF v
<1> QED
  BY <1>2, <1>3

LEMMA ThereFades ==
    ASSUME NEW k \in HandheldEnds
    PROVE  ClientFades(k, ThereGone(k))
<1> DEFINE there == Destroyed(k.there)  l == ThereGone(k)
<1>1. /\ there \in SocketStates /\ there # "open"
      /\ there = k.there \/ (k.there # "none" /\ Gone(there))
  <2>1. k.there \in SocketStates
    BY DEF HandheldEnds
  <2> QED
    BY <2>1 DEF Destroyed, SocketStates, Gone
<1>2. l = [k EXCEPT !.there = there, !.up = <<>>] /\ <<>> \in Seq(Lines)
  BY EmptySeq DEF ThereGone
<1> HIDE DEF there, l
<1>3. /\ l \in HandheldEnds /\ l.here = k.here /\ l.there = there /\ l.up = <<>>
      /\ l.down = k.down /\ l.sent = k.sent /\ l.heard = k.heard
  BY <1>1, <1>2 DEF HandheldEnds
<1>4. ClientFades(k, l)
  BY <1>1, <1>3 DEF ClientFades
<1> QED
  BY <1>4 DEF l

LEMMA FadedIsFresh ==
    ASSUME NEW u \in Uplinks, NEW v, UplinkFades(u, v), FreshUplink(u)
    PROVE  FreshUplink(v)
<1>1. /\ v.near = u.near \/ Gone(v.near)
      /\ v.far = u.far \/ (u.far # "none" /\ Gone(v.far))
      /\ v.local = u.local \/ Gone(v.local)
      /\ v.served = u.served /\ v.said = u.said
      /\ v.down = u.down \/ v.down = <<>>
  BY DEF UplinkFades, NearFades, FarFades
<1>2. v.up = u.up \/ v.up = <<>>
  BY DEF UplinkFades, FarFades
<1>3. Len(v.up) <= 1
  <2>1. Len(<<>>) = 0
    BY EmptySeq
  <2> QED
    BY <1>2, <2>1 DEF FreshUplink
<1>4. v.far # "greeting" => v.up = <<>>
  BY <1>2 DEF UplinkFades, FarFades, FreshUplink, Gone
<1> QED
  BY <1>1, <1>3, <1>4 DEF FreshUplink, Gone

LEMMA FadedClientIsFresh ==
    ASSUME NEW k \in HandheldEnds, NEW l, NEW c, ClientFades(k, l), FreshClient(k, c)
    PROVE  FreshClient(l, c)
<1>1. l.here = "none" => l.there = "none"
  BY DEF ClientFades, FreshClient, Gone
<1>2. l.there = "none" => l.sent = 0 /\ l.up = <<>>
  BY DEF ClientFades, FreshClient, Gone
<1>3. l.there = "open" => Run(l.up, c, 0) /\ Len(l.up) = l.sent
  BY DEF ClientFades, FreshClient, Gone
<1>4. l.heard = <<>> /\ l.down = <<>>
  BY DEF ClientFades, FreshClient
<1> QED
  BY <1>1, <1>2, <1>3, <1>4 DEF FreshClient

(* A pair stays joined while its sockets fade, and is given up by the relay *)
(* only when both are gone.                                                 *)
LEMMA FadedIsJoined ==
    ASSUME NEW u \in Uplinks, NEW v, UplinkFades(u, v),
           NEW k \in HandheldEnds, NEW l, ClientFades(k, l),
           NEW i, NEW c,
           NEW waits \in BOOLEAN, NEW pipes \in BOOLEAN,
           Joined(u, k, i, c, waits, pipes),
           NEW waits1 \in BOOLEAN, NEW pipes1 \in BOOLEAN,
           waits1 => waits, pipes1 => pipes,
           (waits \/ pipes) /\ ~(waits1 \/ pipes1) => Gone(v.far) /\ Gone(l.there)
    PROVE  Joined(v, l, i, c, waits1, pipes1)
<1>1. /\ v.near = u.near \/ Gone(v.near)
      /\ v.far = u.far \/ Gone(v.far)
      /\ v.local = u.local \/ Gone(v.local)
      /\ v.served = u.served /\ v.said = u.said
      /\ v.down = u.down \/ v.down = <<>>
      /\ v.up = u.up \/ v.up = <<>>
      /\ v.far = "open" => v.up = u.up
  BY DEF UplinkFades, NearFades, FarFades
<1>2. /\ l.here = k.here \/ l.here = "closed"
      /\ l.there = k.there \/ Gone(l.there)
      /\ l.there = "open" => l.up = k.up
      /\ l.down = k.down \/ (l.down = <<>> /\ l.here # "open")
      /\ l.heard = k.heard /\ l.sent = k.sent
  BY DEF ClientFades
<1>3. Len(<<>>) = 0
  BY EmptySeq
<1>4. Gone(v.near) => v.down = <<>>
  BY DEF UplinkFades, NearFades, Joined
<1>5. Gone(v.far) => v.up = <<>>
  BY DEF UplinkFades, FarFades, Joined
<1>6. v.near \notin {"none", "dialling"} /\ ~Gone(v.near) => v.near = u.near /\ v.down = u.down
  BY <1>1 DEF UplinkFades, NearFades
<1>7. /\ v.near \notin {"none", "dialling"} /\ v.far \notin {"none", "greeting"}
      /\ l.here # "none" /\ l.there \notin {"none", "greeting"}
  BY <1>1, <1>2 DEF Joined, Gone
<1>8. waits1 => NothingPiped(v, l)
  <2> SUFFICES ASSUME waits1
               PROVE  NothingPiped(v, l)
    OBVIOUS
  <2>1. NothingPiped(u, k)
    BY DEF Joined
  <2> QED
    BY <2>1, <1>1, <1>2, <1>3 DEF NothingPiped, Gone
<1>9. /\ v.near = "offered" => Len(v.down) <= 1 /\ v.local # "connecting"
      /\ v.near = "opening" => v.down = <<>>
      /\ v.near = "piping" => v.local # "connecting"
      /\ v.near \in {"offered", "opening"} => ~pipes1 /\ v.served = <<>> /\ v.up = <<>>
  BY <1>1, <1>3 DEF Joined, Gone
<1>10. Upwards(v, l, c)
  <2>1. Upwards(u, k, c)
    BY DEF Joined
  <2>2. v.near = "piping" => u.near = "piping" /\ v.down = u.down
    BY <1>6 DEF Gone
  <2>3. ~Gone(v.near) => Reached(v) = Reached(u) /\ ~Gone(u.near)
    <3> SUFFICES ASSUME ~Gone(v.near)
                 PROVE  Reached(v) = Reached(u) /\ ~Gone(u.near)
      OBVIOUS
    <3>1. v.near = u.near /\ v.down = u.down
      BY <1>6, <1>7
    <3> QED
      BY <1>1, <3>1 DEF Reached
  <2>4. l.there = "open" => k.there = "open"
    BY <1>2 DEF Gone
  <2> QED
    BY <2>1, <2>2, <2>3, <2>4, <1>1, <1>2 DEF Upwards
<1>11. Downwards(v, l, i, pipes1)
  <2>1. Downwards(u, k, i, pipes)
    BY DEF Joined
  <2>2. v.far = "open" => u.far = "open" /\ v.up = u.up
    BY <1>1 DEF Gone
  <2>3. l.there = "open" => k.there = "open"
    BY <1>2 DEF Gone
  <2>4. l.here = "open" => k.here = "open" /\ l.down = k.down
    BY <1>2
  <2>5. Run(l.down, i, Len(k.heard))
    BY <2>1, <1>2, EmptyRun DEF Downwards
  <2> QED
    BY <2>1, <2>2, <2>3, <2>4, <2>5, <1>1, <1>2 DEF Downwards
<1>12. waits1 \/ pipes1 \/ (Gone(v.far) /\ Gone(l.there))
  BY <1>1, <1>2 DEF Joined, Gone
<1>13. ~(waits1 /\ pipes1)
  BY DEF Joined
<1> QED
  BY <1>4, <1>5, <1>7, <1>8, <1>9, <1>10, <1>11, <1>12, <1>13 DEF Joined

-----------------------------------------------------------------------------
LEMMA StreamsAre ==
    ASSUME NEW m \in SUBSET (Dials \X Clients), Matching(m)',
           \A i \in Dials : \/ \E c \in Clients : <<i, c>> \in m
                            \/ FreshUplink(uplink'[i]),
           \A c \in Clients : \/ \E i \in Dials : <<i, c>> \in m
                              \/ FreshClient(client'[c], c),
           \A i \in Dials, c \in Clients : <<i, c>> \in m =>
              Joined(uplink'[i], client'[c], i, c, <<i, c>> \in relay'.pairing,
                     <<i, c>> \in relay'.piping)
    PROVE  StreamsInv'
<1>1. Streams(m)'
  BY DEF Streams
<1> QED
  BY <1>1 DEF StreamsInv

(* The queues and the pairs only become fewer. *)
RelayShrinks ==
    /\ OnlyOnce(relay.uplinks) => OnlyOnce(relay'.uplinks)
    /\ OnlyOnce(relay.clients) => OnlyOnce(relay'.clients)
    /\ ToSet(relay'.uplinks) \subseteq ToSet(relay.uplinks)
    /\ ToSet(relay'.clients) \subseteq ToSet(relay.clients)
    /\ relay'.pairing \cup relay'.piping \subseteq relay.pairing \cup relay.piping

LEMMA MatchingShrinks ==
    ASSUME Typed, NEW m, Matching(m), RelayShrinks
    PROVE  Matching(m)'
BY DEF Matching, RelayShrinks

(* What befalls a relay, an uplink and a client whose sockets go.           *)
LEMMA StreamsFade ==
    ASSUME Typed, StreamsInv, RelayShrinks,
           relay'.pairing \subseteq relay.pairing, relay'.piping \subseteq relay.piping,
           \A i \in Dials : UplinkFades(uplink[i], uplink'[i]),
           \A c \in Clients : ClientFades(client[c], client'[c]),
           \A i \in Dials, c \in Clients :
              /\ <<i, c>> \in relay.pairing \cup relay.piping
              /\ <<i, c>> \notin relay'.pairing \cup relay'.piping
              => uplink'[i].far \notin {"greeting", "open"} /\ client'[c].there # "open"
    PROVE  StreamsInv'
<1>1. PICK m \in SUBSET (Dials \X Clients) : Streams(m)
  BY DEF StreamsInv
<1>2. Matching(m)'
  BY <1>1, MatchingShrinks DEF Streams
<1>3. ASSUME NEW i \in Dials, ~\E c \in Clients : <<i, c>> \in m
      PROVE  FreshUplink(uplink'[i])
  <2>1. uplink[i] \in Uplinks /\ FreshUplink(uplink[i])
    BY <1>1, <1>3 DEF Typed, Streams
  <2> QED
    BY <2>1, FadedIsFresh
<1>4. ASSUME NEW c \in Clients, ~\E i \in Dials : <<i, c>> \in m
      PROVE  FreshClient(client'[c], c)
  <2>1. client[c] \in HandheldEnds /\ FreshClient(client[c], c)
    BY <1>1, <1>4 DEF Typed, Streams
  <2> QED
    BY <2>1, FadedClientIsFresh
<1>5. ASSUME NEW i \in Dials, NEW c \in Clients, <<i, c>> \in m
      PROVE  Joined(uplink'[i], client'[c], i, c, <<i, c>> \in relay'.pairing,
                    <<i, c>> \in relay'.piping)
  <2> DEFINE waits == <<i, c>> \in relay.pairing
             pipes == <<i, c>> \in relay.piping
             waits1 == <<i, c>> \in relay'.pairing
             pipes1 == <<i, c>> \in relay'.piping
             u == uplink[i]  v == uplink'[i]
             k == client[c]  l == client'[c]
  <2>1. Joined(u, k, i, c, waits, pipes) /\ u \in Uplinks /\ k \in HandheldEnds
    BY <1>1, <1>5 DEF Typed, Streams
  <2>2. UplinkFades(u, v) /\ ClientFades(k, l)
    OBVIOUS
  <2>3. (waits1 => waits) /\ (pipes1 => pipes)
    OBVIOUS
  <2>4. /\ waits \in BOOLEAN /\ pipes \in BOOLEAN
        /\ waits1 \in BOOLEAN /\ pipes1 \in BOOLEAN
    OBVIOUS
  <2>5. (waits \/ pipes) /\ ~(waits1 \/ pipes1) =>
            v.far \notin {"greeting", "open"} /\ l.there # "open"
    OBVIOUS
  <2> HIDE DEF waits, pipes, waits1, pipes1, u, v, k, l
  <2>6. v.far \notin {"greeting", "open"} => Gone(v.far)
    <3>1. v.far = u.far \/ Gone(v.far)
      BY <2>2 DEF UplinkFades, FarFades
    <3>2. u.far \in SocketStates /\ u.far # "none"
      BY <2>1 DEF Uplinks, Joined
    <3> QED
      BY <3>1, <3>2 DEF SocketStates, Gone
  <2>7. l.there # "open" => Gone(l.there)
    <3>1. l.there = k.there \/ Gone(l.there)
      BY <2>2 DEF ClientFades
    <3>2. k.there \in SocketStates /\ k.there \notin {"none", "greeting"}
      BY <2>1 DEF HandheldEnds, Joined
    <3> QED
      BY <3>1, <3>2 DEF SocketStates, Gone
  <2>8. (waits \/ pipes) /\ ~(waits1 \/ pipes1) => Gone(v.far) /\ Gone(l.there)
    BY <2>5, <2>6, <2>7
  <2>9. Joined(v, l, i, c, waits1, pipes1)
    BY <2>1, <2>2, <2>3, <2>4, <2>8, FadedIsJoined
  <2> QED
    BY <2>9 DEF waits1, pipes1, v, l
<1> QED
  BY <1>2, <1>3, <1>4, <1>5, StreamsAre

LEMMA UplinksFade ==
    ASSUME Typed, StreamsInv, UNCHANGED <<relay, client>>,
           \A i \in Dials : UplinkFades(uplink[i], uplink'[i])
    PROVE  StreamsInv'
<1>1. RelayShrinks
  BY DEF RelayShrinks
<1>2. \A c \in Clients : ClientFades(client[c], client'[c])
  BY NothingFades DEF Typed
<1> QED
  BY <1>1, <1>2, StreamsFade

LEMMA ClientsFade ==
    ASSUME Typed, StreamsInv, UNCHANGED <<relay, uplink>>,
           \A c \in Clients : ClientFades(client[c], client'[c])
    PROVE  StreamsInv'
<1>1. RelayShrinks
  BY DEF RelayShrinks
<1>2. \A i \in Dials : UplinkFades(uplink[i], uplink'[i])
  BY NothingFades DEF Typed
<1> QED
  BY <1>1, <1>2, StreamsFade

(* The close events. *)
LEMMA ClosedFades ==
    ASSUME NEW u \in Uplinks
    PROVE  /\ u.near = "ending" =>
                 UplinkFades(u, [LocalGone(u) EXCEPT !.near = "closed"])
           /\ u.local = "ending" =>
                 UplinkFades(u, [NearGone(u) EXCEPT !.local = "closed"])
           /\ u.far = "ending" => UplinkFades(u, [u EXCEPT !.far = "closed"])
<1>1. ASSUME u.near = "ending"
      PROVE  UplinkFades(u, [LocalGone(u) EXCEPT !.near = "closed"])
  <2> DEFINE v == LocalGone(u)
             w == [v EXCEPT !.near = "closed"]
  <2>1. UplinkFades(u, v) /\ v \in Uplinks /\ v.near = "ending"
    BY <1>1, SocketFades, DestroyUplink
  <2> HIDE DEF v
  <2>2. UplinkFades(v, w) /\ w \in Uplinks
    BY <2>1 DEF UplinkFades, NearFades, FarFades, Uplinks, NearStates, Gone
  <2> HIDE DEF w
  <2>3. UplinkFades(u, w)
    BY <2>1, <2>2, FadesTwice
  <2> QED
    BY <2>3 DEF w, v
<1>2. ASSUME u.local = "ending"
      PROVE  UplinkFades(u, [NearGone(u) EXCEPT !.local = "closed"])
  <2> DEFINE v == NearGone(u)
             w == [v EXCEPT !.local = "closed"]
  <2>1. UplinkFades(u, v) /\ v \in Uplinks
    BY <1>2, SocketFades, DestroyUplink
  <2> HIDE DEF v
  <2>2. UplinkFades(v, w) /\ w \in Uplinks
    BY <2>1 DEF UplinkFades, NearFades, FarFades, Uplinks, LocalStates, Gone
  <2> HIDE DEF w
  <2>3. UplinkFades(u, w)
    BY <2>1, <2>2, FadesTwice
  <2> QED
    BY <2>3 DEF w, v
<1>3. ASSUME u.far = "ending"
      PROVE  UplinkFades(u, [u EXCEPT !.far = "closed"])
  BY <1>3 DEF UplinkFades, NearFades, FarFades, Uplinks, SocketStates, Gone
<1> QED
  BY <1>1, <1>2, <1>3

LEMMA UplinkFadesStreams ==
    ASSUME Typed, StreamsInv, NEW i \in Dials,
           \/ ConnectFails(i) \/ LocalFails(i) \/ ServerHangsUp(i) \/ NearEnds(i)
           \/ ResetNear(i) \/ NearCloses(i) \/ LocalCloses(i) \/ FarEnds(i)
    PROVE  StreamsInv'
<1> DEFINE u == uplink[i]
           faded == {NearGone(u), LocalGone(u), FarGone(u), NearGone(LocalGone(u))}
           closed == {w \in {[LocalGone(u) EXCEPT !.near = "closed"]} : u.near = "ending"}
                     \cup {w \in {[NearGone(u) EXCEPT !.local = "closed"]} : u.local = "ending"}
<1>1. PICK v \in faded \cup closed : uplink' = [uplink EXCEPT ![i] = v]
  BY DEF ConnectFails, LocalFails, ServerHangsUp, NearEnds, ResetNear, NearCloses,
         LocalCloses, FarEnds
<1>2. UNCHANGED <<relay, client>>
  BY DEF ConnectFails, LocalFails, ServerHangsUp, NearEnds, ResetNear, NearCloses,
         LocalCloses, FarEnds, UplinkUnchanged
<1>3. uplink \in [Dials -> Uplinks] /\ u \in Uplinks
  BY DEF Typed
<1>4. \A w \in faded : UplinkFades(u, w)
  BY <1>3, SocketFades
<1>5. \A w \in closed : UplinkFades(u, w)
  BY <1>3, ClosedFades
<1>6. UplinkFades(u, v)
  BY <1>1, <1>4, <1>5
<1> HIDE DEF faded, closed
<1>7. ASSUME NEW j \in Dials
      PROVE  UplinkFades(uplink[j], uplink'[j])
  BY <1>1, <1>3, <1>6, NothingFades
<1> QED
  BY <1>2, <1>7, UplinksFade

LEMMA CloseTunnelStreams ==
    ASSUME Typed, StreamsInv, CloseTunnel
    PROVE  StreamsInv'
<1>1. ASSUME NEW i \in Dials
      PROVE  UplinkFades(uplink[i], uplink'[i])
  <2>1. uplink[i] \in Uplinks
    BY DEF Typed
  <2>2. uplink'[i] = NearGone(LocalGone(uplink[i])) \/ uplink'[i] = uplink[i]
    BY DEF CloseTunnel
  <2> QED
    BY <2>1, <2>2, SocketFades, NothingFades
<1>2. UNCHANGED <<relay, client>>
  BY DEF CloseTunnel
<1> QED
  BY <1>1, <1>2, UplinksFade

LEMMA ClientFadesStreams ==
    ASSUME Typed, StreamsInv, NEW c \in Clients,
           ClientEnds(c) \/ ClientLeaves(c) \/ ClientSeesEnd(c)
    PROVE  StreamsInv'
<1> DEFINE k == client[c]
           left == [k EXCEPT !.here = "closed", !.down = <<>>]
           seen == [k EXCEPT !.here = "closed"]
<1>1. k \in HandheldEnds /\ client \in [Clients -> HandheldEnds]
  BY DEF Typed
<1>2. UNCHANGED <<relay, uplink>>
  BY DEF ClientEnds, ClientLeaves, ClientSeesEnd, ClientUnchanged
<1>3. k.here = "open" => ClientFades(k, left)
  <2>1. <<>> \in Seq(Lines)
    BY EmptySeq
  <2> QED
    BY <1>1, <2>1 DEF ClientFades, HandheldEnds, HereStates
<1>4. k.here = "open" => ClientFades(k, seen) \/ k.down # <<>>
  BY <1>1 DEF ClientFades, HandheldEnds, HereStates
<1>5. ClientFades(k, client'[c]) /\ \A d \in Clients : d # c => client'[d] = client[d]
  <2>1. CASE ClientEnds(c)
    BY <2>1, <1>1, ThereFades DEF ClientEnds
  <2>2. CASE ClientLeaves(c)
    <3>1. client' = [client EXCEPT ![c] = left] /\ k.here = "open"
      BY <2>2 DEF ClientLeaves
    <3> HIDE DEF left, seen
    <3> QED
      BY <3>1, <1>1, <1>3
  <2>3. CASE ClientSeesEnd(c)
    <3>1. client' = [client EXCEPT ![c] = seen] /\ k.here = "open" /\ k.down = <<>>
      BY <2>3 DEF ClientSeesEnd
    <3> HIDE DEF left, seen
    <3> QED
      BY <3>1, <1>1, <1>4
  <2> QED
    BY <2>1, <2>2, <2>3
<1>6. ASSUME NEW d \in Clients
      PROVE  ClientFades(client[d], client'[d])
  BY <1>1, <1>5, NothingFades
<1> QED
  BY <1>2, <1>6, ClientsFade

-----------------------------------------------------------------------------
(* The relay lets go of sockets. *)
LEMMA FarsFade ==
    ASSUME Typed, NEW S,
           uplink' = [i \in Dials |-> IF i \in S THEN FarGone(uplink[i]) ELSE uplink[i]]
    PROVE  /\ \A i \in Dials : UplinkFades(uplink[i], uplink'[i])
           /\ \A i \in Dials : i \in S => uplink'[i].far \notin {"greeting", "open"}
<1>1. ASSUME NEW i \in Dials
      PROVE  /\ UplinkFades(uplink[i], uplink'[i])
             /\ i \in S => uplink'[i].far \notin {"greeting", "open"}
  <2>1. uplink[i] \in Uplinks /\ uplink[i].far \in SocketStates
    BY DEF Typed, Uplinks
  <2>2. Destroyed(uplink[i].far) \notin {"greeting", "open"}
    BY <2>1, DestroyedFar
  <2> QED
    BY <2>1, <2>2, SocketFades, NothingFades, DestroyUplink
<1> QED
  BY <1>1

LEMMA TheresFade ==
    ASSUME Typed, NEW S,
           client' = [c \in Clients |-> IF c \in S THEN ThereGone(client[c]) ELSE client[c]]
    PROVE  /\ \A c \in Clients : ClientFades(client[c], client'[c])
           /\ \A c \in Clients : c \in S => client'[c].there # "open"
<1>1. ASSUME NEW c \in Clients
      PROVE  /\ ClientFades(client[c], client'[c])
             /\ c \in S => client'[c].there # "open"
  <2>1. client[c] \in HandheldEnds /\ client[c].there \in SocketStates
    BY DEF Typed, HandheldEnds
  <2>2. Destroyed(client[c].there) # "open"
    BY <2>1, DestroyedFar
  <2> QED
    BY <2>1, <2>2, ThereFades, NothingFades, DestroyClient
<1> QED
  BY <1>1

LEMMA DroppedOnce ==
    ASSUME NEW r \in Relays, NEW i, NEW c
    PROVE  /\ OnlyOnce(r.uplinks) => OnlyOnce(DropUplink(r, i).uplinks)
           /\ OnlyOnce(r.clients) => OnlyOnce(DropClient(r, c).clients)
<1> DEFINE us == RemoveFirst(r.uplinks, i)
           cs == RemoveFirst(r.clients, c)
<1>1. /\ OnlyOnce(r.uplinks) => OnlyOnce(us)
      /\ OnlyOnce(r.clients) => OnlyOnce(cs)
  BY RemovedEntry DEF Relays
<1>2. /\ DropUplink(r, i) = [r EXCEPT !.uplinks = us]
      /\ DropClient(r, c) = [r EXCEPT !.clients = cs]
  BY DEF DropUplink, DropClient
<1> HIDE DEF us, cs
<1> QED
  BY <1>1, <1>2 DEF Relays

LEMMA EmptyQueue == OnlyOnce(<<>>) /\ ToSet(<<>>) = {}
<1>1. <<>> \in Seq({}) /\ Len(<<>>) = 0
  BY EmptySeq
<1>2. ToSet(<<>>) = {}
  BY <1>1, QueueElements
<1> QED
  BY <1>1, <1>2 DEF OnlyOnce

LEMMA TimeoutStreams ==
    ASSUME Typed, StreamsInv,
           (\E i \in Dials : UplinkTimeout(i)) \/ (\E c \in Clients : ClientTimeout(c))
    PROVE  StreamsInv'
<1>1. relay \in Relays
  BY DEF Typed
<1>2. CASE \E i \in Dials : UplinkTimeout(i)
  <2>1. PICK i \in Dials : UplinkTimeout(i)
    BY <1>2
  <2>2. /\ relay' = DropUplink(relay, i) /\ client' = client
        /\ uplink' = [uplink EXCEPT ![i] = FarGone(@)]
    BY <2>1 DEF UplinkTimeout
  <2>3. /\ relay'.pairing = relay.pairing /\ relay'.piping = relay.piping
        /\ relay'.clients = relay.clients
        /\ ToSet(relay'.uplinks) \subseteq ToSet(relay.uplinks)
        /\ OnlyOnce(relay.uplinks) => OnlyOnce(relay'.uplinks)
    BY <1>1, <2>2, Dropped, DroppedOnce
  <2>4. RelayShrinks
    BY <2>3 DEF RelayShrinks
  <2>5. \A j \in Dials : UplinkFades(uplink[j], uplink'[j])
    BY <2>2, OneGone, FarsFade
  <2>6. \A c \in Clients : ClientFades(client[c], client'[c])
    BY <2>2, NothingFades DEF Typed
  <2> QED
    BY <2>3, <2>4, <2>5, <2>6, StreamsFade
<1>3. CASE \E c \in Clients : ClientTimeout(c)
  <2>1. PICK c \in Clients : ClientTimeout(c)
    BY <1>3
  <2>2. /\ relay' = DropClient(relay, c) /\ uplink' = uplink
        /\ client' = [client EXCEPT ![c] = ThereGone(@)]
    BY <2>1 DEF ClientTimeout
  <2>3. /\ relay'.pairing = relay.pairing /\ relay'.piping = relay.piping
        /\ relay'.uplinks = relay.uplinks
        /\ ToSet(relay'.clients) \subseteq ToSet(relay.clients)
        /\ OnlyOnce(relay.clients) => OnlyOnce(relay'.clients)
    BY <1>1, <2>2, Dropped, DroppedOnce
  <2>4. RelayShrinks
    BY <2>3 DEF RelayShrinks
  <2>5. \A d \in Clients : ClientFades(client[d], client'[d])
    BY <2>2, OneGone, TheresFade
  <2>6. \A j \in Dials : UplinkFades(uplink[j], uplink'[j])
    BY <2>2, NothingFades DEF Typed
  <2> QED
    BY <2>3, <2>4, <2>5, <2>6, StreamsFade
<1> QED
  BY <1>2, <1>3

LEMMA PairEndStreams ==
    ASSUME Typed, StreamsInv, NEW i \in Dials, NEW c \in Clients,
           ActivationTimeout(i, c) \/ ResetPiped(i, c)
    PROVE  StreamsInv'
<1>1. /\ uplink' = [uplink EXCEPT ![i] = FarGone(@)]
      /\ client' = [client EXCEPT ![c] = ThereGone(@)]
      /\ \/ relay' = [relay EXCEPT !.pairing = @ \ {<<i, c>>}]
         \/ relay' = [relay EXCEPT !.piping = @ \ {<<i, c>>}]
  BY DEF ActivationTimeout, ResetPiped
<1>2. /\ relay'.uplinks = relay.uplinks /\ relay'.clients = relay.clients
      /\ relay'.pairing \subseteq relay.pairing /\ relay'.piping \subseteq relay.piping
      /\ (relay.pairing \cup relay.piping) \ {<<i, c>>}
             \subseteq relay'.pairing \cup relay'.piping
  <2> DEFINE pairing == relay.pairing \ {<<i, c>>}
             piping == relay.piping \ {<<i, c>>}
  <2>1. \/ relay' = [relay EXCEPT !.pairing = pairing]
        \/ relay' = [relay EXCEPT !.piping = piping]
    BY <1>1
  <2>2. pairing \subseteq relay.pairing /\ piping \subseteq relay.piping
    OBVIOUS
  <2>3. /\ relay'.uplinks = relay.uplinks /\ relay'.clients = relay.clients
        /\ \/ relay'.pairing = pairing /\ relay'.piping = relay.piping
           \/ relay'.pairing = relay.pairing /\ relay'.piping = piping
    <3> HIDE DEF pairing, piping
    <3> QED
      BY <2>1 DEF Typed, Relays
  <2> QED
    BY <2>3
<1>3. RelayShrinks
  BY <1>2 DEF RelayShrinks
<1>4. /\ \A j \in Dials : UplinkFades(uplink[j], uplink'[j])
      /\ uplink'[i].far \notin {"greeting", "open"}
  BY <1>1, OneGone, FarsFade
<1>5. /\ \A d \in Clients : ClientFades(client[d], client'[d])
      /\ client'[c].there # "open"
  BY <1>1, OneGone, TheresFade
<1>6. ASSUME NEW j \in Dials, NEW d \in Clients,
             <<j, d>> \in relay.pairing \cup relay.piping,
             <<j, d>> \notin relay'.pairing \cup relay'.piping
      PROVE  j = i /\ d = c
  <2>1. <<j, d>> = <<i, c>>
    BY <1>2, <1>6
  <2> QED
    BY <2>1
<1> QED
  BY <1>2, <1>3, <1>4, <1>5, <1>6, StreamsFade

LEMMA FarClosesStreams ==
    ASSUME Typed, StreamsInv, NEW i \in Dials, FarCloses(i)
    PROVE  StreamsInv'
<1> DEFINE partners == {c \in Clients : <<i, c>> \in relay.piping}
           r == DropUplink(relay, i)
           piping == relay.piping \ ({i} \X partners)
<1>1. /\ uplink[i].far = "ending" /\ relay' = [r EXCEPT !.piping = @ \ ({i} \X partners)]
      /\ client' = [c \in Clients |-> IF c \in partners THEN ThereGone(client[c])
                                      ELSE client[c]]
      /\ uplink' = [uplink EXCEPT ![i].far = "closed"]
  BY DEF FarCloses
<1>2. /\ r \in Relays /\ r.pairing = relay.pairing /\ r.piping = relay.piping
      /\ r.clients = relay.clients /\ ToSet(r.uplinks) \subseteq ToSet(relay.uplinks)
      /\ OnlyOnce(relay.uplinks) => OnlyOnce(r.uplinks)
  BY Dropped, DroppedOnce DEF Typed
<1> HIDE DEF r
<1>3. /\ relay'.pairing = relay.pairing /\ relay'.piping = piping
      /\ relay'.clients = relay.clients /\ relay'.uplinks = r.uplinks
  <2>1. relay' = [r EXCEPT !.piping = piping]
    BY <1>1, <1>2
  <2> HIDE DEF piping
  <2> QED
    BY <2>1, <1>2 DEF Relays
<1>4. RelayShrinks
  BY <1>2, <1>3 DEF RelayShrinks
<1>5. \A j \in Dials : /\ UplinkFades(uplink[j], uplink'[j])
                       /\ j = i => uplink'[j].far = "closed"
  <2> DEFINE v == [uplink[i] EXCEPT !.far = "closed"]
  <2>1. uplink \in [Dials -> Uplinks] /\ uplink[i] \in Uplinks
    BY DEF Typed
  <2>2. UplinkFades(uplink[i], v) /\ v.far = "closed"
    BY <1>1, <2>1, ClosedFades DEF Uplinks
  <2>3. uplink' = [uplink EXCEPT ![i] = v]
    BY <1>1, <2>1
  <2> HIDE DEF v
  <2> QED
    BY <2>1, <2>2, <2>3, NothingFades
<1>6. /\ \A c \in Clients : ClientFades(client[c], client'[c])
      /\ \A c \in Clients : c \in partners => client'[c].there # "open"
  <2> HIDE DEF partners
  <2> QED
    BY <1>1, TheresFade
<1>7. ASSUME NEW j \in Dials, NEW d \in Clients,
             <<j, d>> \in relay.pairing \cup relay.piping,
             <<j, d>> \notin relay'.pairing \cup relay'.piping
      PROVE  j = i /\ d \in partners
  BY <1>3, <1>7
<1>8. relay'.pairing \subseteq relay.pairing /\ relay'.piping \subseteq relay.piping
  BY <1>3
<1> HIDE DEF partners, piping
<1>9. ASSUME NEW j \in Dials, NEW d \in Clients,
             <<j, d>> \in relay.pairing \cup relay.piping,
             <<j, d>> \notin relay'.pairing \cup relay'.piping
      PROVE  uplink'[j].far \notin {"greeting", "open"} /\ client'[d].there # "open"
  BY <1>5, <1>6, <1>7, <1>9
<1> QED
  BY <1>4, <1>5, <1>6, <1>8, <1>9, StreamsFade

LEMMA ClientClosesStreams ==
    ASSUME Typed, StreamsInv, NEW c \in Clients, ClientCloses(c)
    PROVE  StreamsInv'
<1> DEFINE partners == {i \in Dials : <<i, c>> \in relay.piping}
           r == DropClient(relay, c)
           piping == relay.piping \ (partners \X {c})
<1>1. /\ client[c].there = "ending" /\ relay' = [r EXCEPT !.piping = @ \ (partners \X {c})]
      /\ uplink' = [i \in Dials |-> IF i \in partners THEN FarGone(uplink[i])
                                    ELSE uplink[i]]
      /\ client' = [client EXCEPT ![c].there = "closed"]
  BY DEF ClientCloses
<1>2. /\ r \in Relays /\ r.pairing = relay.pairing /\ r.piping = relay.piping
      /\ r.uplinks = relay.uplinks /\ ToSet(r.clients) \subseteq ToSet(relay.clients)
      /\ OnlyOnce(relay.clients) => OnlyOnce(r.clients)
  BY Dropped, DroppedOnce DEF Typed
<1> HIDE DEF r
<1>3. /\ relay'.pairing = relay.pairing /\ relay'.piping = piping
      /\ relay'.uplinks = relay.uplinks /\ relay'.clients = r.clients
  <2>1. relay' = [r EXCEPT !.piping = piping]
    BY <1>1, <1>2
  <2> HIDE DEF piping
  <2> QED
    BY <2>1, <1>2 DEF Relays
<1>4. RelayShrinks
  BY <1>2, <1>3 DEF RelayShrinks
<1>5. \A d \in Clients : /\ ClientFades(client[d], client'[d])
                         /\ d = c => client'[d].there = "closed"
  <2> DEFINE l == [client[c] EXCEPT !.there = "closed"]
  <2>1. client \in [Clients -> HandheldEnds] /\ client[c] \in HandheldEnds
    BY DEF Typed
  <2>2. ClientFades(client[c], l) /\ l.there = "closed"
    BY <1>1, <2>1 DEF ClientFades, HandheldEnds, SocketStates, Gone
  <2>3. client' = [client EXCEPT ![c] = l]
    BY <1>1, <2>1
  <2> HIDE DEF l
  <2> QED
    BY <2>1, <2>2, <2>3, NothingFades
<1>6. /\ \A i \in Dials : UplinkFades(uplink[i], uplink'[i])
      /\ \A i \in Dials : i \in partners => uplink'[i].far \notin {"greeting", "open"}
  <2> HIDE DEF partners
  <2> QED
    BY <1>1, FarsFade
<1>7. ASSUME NEW j \in Dials, NEW d \in Clients,
             <<j, d>> \in relay.pairing \cup relay.piping,
             <<j, d>> \notin relay'.pairing \cup relay'.piping
      PROVE  d = c /\ j \in partners
  BY <1>3, <1>7
<1>8. relay'.pairing \subseteq relay.pairing /\ relay'.piping \subseteq relay.piping
  BY <1>3
<1> HIDE DEF partners, piping
<1>9. ASSUME NEW j \in Dials, NEW d \in Clients,
             <<j, d>> \in relay.pairing \cup relay.piping,
             <<j, d>> \notin relay'.pairing \cup relay'.piping
      PROVE  uplink'[j].far \notin {"greeting", "open"} /\ client'[d].there # "open"
  BY <1>5, <1>6, <1>7, <1>9
<1> QED
  BY <1>4, <1>5, <1>6, <1>8, <1>9, StreamsFade

LEMMA StopRelayStreams ==
    ASSUME Typed, StreamsInv, StopRelay
    PROVE  StreamsInv'
<1> DEFINE us == ToSet(relay.uplinks) \cup {p[1] : p \in relay.piping}
           cs == ToSet(relay.clients) \cup {p[2] : p \in relay.piping}
<1>1. /\ uplink' = [i \in Dials |-> IF i \in us THEN FarGone(uplink[i]) ELSE uplink[i]]
      /\ client' = [c \in Clients |-> IF c \in cs THEN ThereGone(client[c]) ELSE client[c]]
      /\ relay' = CloseService(relay)
  BY DEF StopRelay
<1>2. /\ relay'.pairing = relay.pairing /\ relay'.piping = {}
      /\ relay'.uplinks = <<>> /\ relay'.clients = <<>>
  BY <1>1 DEF Typed, Relays, CloseService
<1>3. RelayShrinks
  BY <1>2, EmptyQueue DEF RelayShrinks
<1>4. ASSUME NEW i \in Dials, NEW c \in Clients, <<i, c>> \in relay.piping
      PROVE  i \in us /\ c \in cs
  <2>1. i = <<i, c>>[1] /\ c = <<i, c>>[2]
    OBVIOUS
  <2> QED
    BY <1>4, <2>1
<1> HIDE DEF us, cs
<1>5. /\ \A i \in Dials : UplinkFades(uplink[i], uplink'[i])
      /\ \A i \in Dials : i \in us => uplink'[i].far \notin {"greeting", "open"}
  BY <1>1, FarsFade
<1>6. /\ \A c \in Clients : ClientFades(client[c], client'[c])
      /\ \A c \in Clients : c \in cs => client'[c].there # "open"
  BY <1>1, TheresFade
<1>7. ASSUME NEW i \in Dials, NEW c \in Clients,
             <<i, c>> \in relay.pairing \cup relay.piping,
             <<i, c>> \notin relay'.pairing \cup relay'.piping
      PROVE  uplink'[i].far \notin {"greeting", "open"} /\ client'[c].there # "open"
  BY <1>2, <1>4, <1>5, <1>6, <1>7
<1>8. relay'.pairing \subseteq relay.pairing /\ relay'.piping \subseteq relay.piping
  BY <1>2
<1> QED
  BY <1>3, <1>5, <1>6, <1>7, <1>8, StreamsFade

LEMMA StartRelayStreams ==
    ASSUME Typed, StreamsInv, StartRelay
    PROVE  StreamsInv'
<1>1. /\ relay' = NewRelay /\ uplink' = uplink /\ client' = client /\ RelayIsQuiet
  BY DEF StartRelay
<1>2. /\ relay'.pairing = {} /\ relay'.piping = {}
      /\ relay'.uplinks = <<>> /\ relay'.clients = <<>>
  BY <1>1 DEF NewRelay
<1>3. RelayShrinks
  BY <1>2, EmptyQueue DEF RelayShrinks
<1>4. /\ \A i \in Dials : /\ UplinkFades(uplink[i], uplink'[i])
                          /\ uplink'[i].far \notin {"greeting", "open"}
      /\ \A c \in Clients : /\ ClientFades(client[c], client'[c])
                            /\ client'[c].there # "open"
  BY <1>1, NothingFades DEF Typed, RelayIsQuiet
<1>5. relay'.pairing \subseteq relay.pairing /\ relay'.piping \subseteq relay.piping
  BY <1>2
<1> QED
  BY <1>3, <1>4, <1>5, StreamsFade

LEMMA ResetWaitingStreams ==
    ASSUME Typed, StreamsInv, ResetWaiting
    PROVE  StreamsInv'
<1>1. /\ relay' = [NewRelay EXCEPT !.closed = TRUE]
      /\ uplink' = [i \in Dials |-> [FarGone(uplink[i]) EXCEPT
                       !.far = IF @ = "ending" THEN "closed" ELSE @]]
      /\ client' = [c \in Clients |-> [ThereGone(client[c]) EXCEPT
                       !.there = IF @ = "ending" THEN "closed" ELSE @]]
  BY DEF ResetWaiting
<1>2. /\ relay'.pairing = {} /\ relay'.piping = {}
      /\ relay'.uplinks = <<>> /\ relay'.clients = <<>>
  BY <1>1 DEF NewRelay
<1>3. RelayShrinks
  BY <1>2, EmptyQueue DEF RelayShrinks
<1>4. ASSUME NEW i \in Dials
      PROVE  /\ UplinkFades(uplink[i], uplink'[i])
             /\ uplink'[i].far \notin {"greeting", "open"}
  <2> DEFINE u == uplink[i]
             v == FarGone(u)
             far == IF v.far = "ending" THEN "closed" ELSE v.far
             w == [v EXCEPT !.far = far]
  <2>1. u \in Uplinks /\ u.far \in SocketStates
    BY DEF Typed, Uplinks
  <2>2. /\ v \in Uplinks /\ UplinkFades(u, v) /\ v.far = Destroyed(u.far)
    BY <2>1, SocketFades, DestroyUplink
  <2>3. v.far \notin {"greeting", "open"}
    BY <2>1, <2>2, DestroyedFar
  <2>4. uplink'[i] = w
    BY <1>1
  <2> HIDE DEF v
  <2>5. /\ far \in SocketStates /\ far \notin {"greeting", "open"}
        /\ far = v.far \/ (Gone(v.far) /\ Gone(far))
    BY <2>2, <2>3 DEF Uplinks, SocketStates, Gone
  <2> HIDE DEF far
  <2>6. UplinkFades(v, w) /\ w \in Uplinks /\ w.far = far
    BY <2>2, <2>5 DEF UplinkFades, NearFades, FarFades, Uplinks, SocketStates, Gone
  <2> HIDE DEF w, u
  <2>7. UplinkFades(u, w)
    BY <2>1, <2>2, <2>6, FadesTwice
  <2> QED
    BY <2>4, <2>5, <2>6, <2>7 DEF u
<1>5. ASSUME NEW c \in Clients
      PROVE  ClientFades(client[c], client'[c]) /\ client'[c].there # "open"
  <2> DEFINE k == client[c]
             l == ThereGone(k)
             there == IF l.there = "ending" THEN "closed" ELSE l.there
             n == [l EXCEPT !.there = there]
  <2>1. k \in HandheldEnds /\ k.there \in SocketStates
    BY DEF Typed, HandheldEnds
  <2>2. l \in HandheldEnds /\ ClientFades(k, l) /\ l.there = Destroyed(k.there)
    BY <2>1, ThereFades, DestroyClient
  <2>3. l.there # "open"
    BY <2>1, <2>2, DestroyedFar
  <2>4. client'[c] = n
    BY <1>1
  <2> HIDE DEF l
  <2>5. /\ there \in SocketStates /\ there # "open"
        /\ there = l.there \/ (Gone(l.there) /\ Gone(there))
    BY <2>2, <2>3 DEF HandheldEnds, SocketStates, Gone
  <2> HIDE DEF there
  <2>6. /\ n \in HandheldEnds /\ n.there = there /\ n.here = l.here /\ n.up = l.up
        /\ n.down = l.down /\ n.sent = l.sent /\ n.heard = l.heard
    BY <2>2, <2>5 DEF HandheldEnds
  <2> HIDE DEF n, k
  <2>7. ClientFades(k, n)
    BY <2>2, <2>5, <2>6 DEF ClientFades, Gone
  <2> QED
    BY <2>4, <2>5, <2>6, <2>7 DEF k
<1>6. relay'.pairing \subseteq relay.pairing /\ relay'.piping \subseteq relay.piping
  BY <1>2
<1> QED
  BY <1>3, <1>4, <1>5, <1>6, StreamsFade

-----------------------------------------------------------------------------
(* One attempt moves on, and the relay does not notice.                     *)
LEMMA AttemptStreams ==
    ASSUME Typed, StreamsInv, NEW i \in Dials, UNCHANGED <<relay, client>>, Others(i),
           FreshUplink(uplink[i]) => FreshUplink(uplink'[i]),
           \A c \in Clients :
              Joined(uplink[i], client[c], i, c, <<i, c>> \in relay.pairing,
                     <<i, c>> \in relay.piping)
              => Joined(uplink'[i], client[c], i, c, <<i, c>> \in relay.pairing,
                        <<i, c>> \in relay.piping)
    PROVE  StreamsInv'
<1>1. PICK m \in SUBSET (Dials \X Clients) : Streams(m)
  BY DEF StreamsInv
<1>2. Matching(m)'
  BY <1>1 DEF Streams, Matching
<1>3. ASSUME NEW j \in Dials, ~\E c \in Clients : <<j, c>> \in m
      PROVE  FreshUplink(uplink'[j])
  BY <1>1, <1>3 DEF Streams, Others
<1>4. ASSUME NEW c \in Clients, ~\E j \in Dials : <<j, c>> \in m
      PROVE  FreshClient(client'[c], c)
  BY <1>1, <1>4 DEF Streams
<1>5. ASSUME NEW j \in Dials, NEW c \in Clients, <<j, c>> \in m
      PROVE  Joined(uplink'[j], client'[c], j, c, <<j, c>> \in relay'.pairing,
                    <<j, c>> \in relay'.piping)
  <2>1. Joined(uplink[j], client[c], j, c, <<j, c>> \in relay.pairing,
               <<j, c>> \in relay.piping)
    BY <1>1, <1>5 DEF Streams
  <2>2. CASE j = i
    BY <2>1, <2>2
  <2>3. CASE j # i
    <3>1. uplink'[j] = uplink[j]
      BY <2>3 DEF Others
    <3> QED
      BY <2>1, <3>1
  <2> QED
    BY <2>2, <2>3
<1> QED
  BY <1>2, <1>3, <1>4, <1>5, StreamsAre

LEMMA ReadyIsJoined ==
    ASSUME NEW u \in Uplinks, NEW k, NEW i, NEW c, NEW w \in BOOLEAN, NEW p \in BOOLEAN,
           u.near = "offered", u.down # <<>>, Joined(u, k, i, c, w, p), NEW v,
           v = [u EXCEPT !.near = "opening", !.local = "connecting", !.down = Tail(@)]
    PROVE  Joined(v, k, i, c, w, p)
<1> DEFINE down == Tail(u.down)
<1>1. down = <<>>
  BY ShortQueue DEF Joined, Uplinks
<1>2. v = [u EXCEPT !.near = "opening", !.local = "connecting", !.down = down]
  OBVIOUS
<1> HIDE DEF down
<1>3. /\ v.near = "opening" /\ v.local = "connecting" /\ v.down = <<>>
      /\ v.far = u.far /\ v.up = u.up /\ v.served = u.served /\ v.said = u.said
  BY <1>1, <1>2 DEF Uplinks
<1>4. NothingPiped(u, k) => NothingPiped(v, k)
  BY <1>3 DEF NothingPiped
<1>5. Upwards(u, k, c) => Upwards(v, k, c)
  <2>1. Reached(v) = Reached(u) /\ ~Gone(u.near)
    BY <1>3 DEF Reached, Gone
  <2> QED
    BY <1>3, <2>1 DEF Upwards
<1>6. Downwards(u, k, i, p) => Downwards(v, k, i, p)
  BY <1>3 DEF Downwards
<1> QED
  BY <1>3, <1>4, <1>5, <1>6 DEF Joined, Gone

Linked(u) ==
    [u EXCEPT !.local = "open", !.down = <<>>,
              !.near = IF @ = "opening" THEN "piping" ELSE @,
              !.up = IF u.near = "opening"
                     THEN Sent(@, u.far, Line("connected")) ELSE @]

LEMMA LocalIsJoined ==
    ASSUME NEW u \in Uplinks, NEW k, NEW i, NEW c, NEW w \in BOOLEAN, NEW p \in BOOLEAN,
           u.local = "connecting", Joined(u, k, i, c, w, p)
    PROVE  Joined(Linked(u), k, i, c, w, p)
<1> DEFINE v == Linked(u)
           near == IF u.near = "opening" THEN "piping" ELSE u.near
           up == IF u.near = "opening" THEN Sent(u.up, u.far, Line("connected"))
                 ELSE u.up
<1>1. v = [u EXCEPT !.local = "open", !.down = <<>>, !.near = near, !.up = up]
  BY DEF Linked
<1>2. u.near = "opening" \/ Gone(u.near)
  BY DEF Joined, Uplinks, NearStates, Gone
<1>3. u.near = "opening" =>
          /\ near = "piping" /\ Len(up) <= 1
          /\ u.down = <<>> /\ ~p /\ u.served = <<>>
          /\ Gone(u.far) => up = <<>>
  <2>1. u.near = "opening" => u.up = <<>> /\ u.down = <<>> /\ ~p /\ u.served = <<>>
    BY DEF Joined
  <2>2. u.near = "opening" => up = u.up \/ (~Gone(u.far) /\ up = Append(u.up, Line("connected")))
    BY DEF Sent
  <2>3. u.up \in Seq(Lines) /\ Line("connected") \in Lines
    BY LinesAreLines DEF Uplinks
  <2>4. Len(Append(u.up, Line("connected"))) = Len(u.up) + 1
    BY <2>3, AppendProperties
  <2>5. Len(<<>>) = 0
    BY EmptySeq
  <2>6. u.near = "opening" => near = "piping"
    OBVIOUS
  <2> HIDE DEF up, near
  <2>7. u.near = "opening" => Len(up) <= 1
    BY <2>1, <2>2, <2>4, <2>5
  <2>8. u.near = "opening" /\ Gone(u.far) => up = <<>>
    BY <2>1, <2>2
  <2> QED
    BY <2>1, <2>6, <2>7, <2>8
<1>4. u.near # "opening" => near = u.near /\ up = u.up
  OBVIOUS
<1> HIDE DEF near, up, v
<1>5. /\ v.near = near /\ v.local = "open" /\ v.down = <<>>
      /\ v.far = u.far /\ v.up = up /\ v.served = u.served /\ v.said = u.said
  BY <1>1 DEF Uplinks
<1>6. NothingPiped(u, k) => NothingPiped(v, k)
  BY <1>3, <1>4, <1>5 DEF NothingPiped
<1>7. Upwards(u, k, c) => Upwards(v, k, c)
  <2>1. u.near = "opening" => Reached(v) = Reached(u) /\ Len(u.served) = 0
    BY <1>3, <1>5 DEF Reached
  <2>2. Run(<<>>, c, Len(u.served))
    BY EmptyRun
  <2>3. Gone(u.near) => Gone(v.near) /\ v.near # "piping"
    BY <1>4, <1>5 DEF Gone
  <2> QED
    BY <1>2, <1>3, <1>5, <2>1, <2>2, <2>3 DEF Upwards, Gone
<1>8. Downwards(u, k, i, p) => Downwards(v, k, i, p)
  BY <1>2, <1>3, <1>4, <1>5 DEF Downwards, Gone
<1> QED
  BY <1>2, <1>3, <1>4, <1>5, <1>6, <1>7, <1>8 DEF Joined, Gone, v

LEMMA ServedIsJoined ==
    ASSUME NEW u \in Uplinks, NEW k, NEW i, NEW c, NEW w \in BOOLEAN, NEW p \in BOOLEAN,
           u.near = "piping", u.down # <<>>, Joined(u, k, i, c, w, p), NEW v,
           v = [u EXCEPT !.served = Append(@, Head(u.down)), !.down = Tail(@)]
    PROVE  Joined(v, k, i, c, w, p)
<1> DEFINE served == Append(u.served, Head(u.down))
           down == Tail(u.down)
<1>1. /\ u.served \in Seq(Lines) /\ u.down \in Seq(Lines)
      /\ Len(u.served) \in Nat /\ Len(u.down) \in Nat
  BY ShortQueue DEF Uplinks
<1>2. ~w
  BY DEF Joined, NothingPiped
<1>3. Run(u.served, c, 0) /\ Run(u.down, c, Len(u.served))
  BY DEF Joined, Upwards
<1>4. /\ Head(u.down) = Data(c, Len(u.served) + 1)
      /\ Run(down, c, Len(u.served) + 1) /\ Len(down) = Len(u.down) - 1
  BY <1>1, <1>3, ShorterRun
<1>5. Run(served, c, 0) /\ Len(served) = Len(u.served) + 1
  <2>1. Len(u.served) + 1 = 0 + Len(u.served) + 1
    BY <1>1
  <2> QED
    BY <1>1, <1>3, <1>4, <2>1, LongerRun
<1>6. v = [u EXCEPT !.served = served, !.down = down]
  OBVIOUS
<1> HIDE DEF served, down
<1>7. /\ v.near = "piping" /\ v.local = u.local /\ v.down = down
      /\ v.far = u.far /\ v.up = u.up /\ v.served = served /\ v.said = u.said
  BY <1>6 DEF Uplinks
<1>8. Upwards(v, k, c)
  <2>1. Reached(v) = Reached(u)
    <3>1. /\ Reached(v) = Len(served) + Len(down)
          /\ Reached(u) = Len(u.served) + Len(u.down)
      BY <1>7 DEF Reached
    <3> DEFINE a == Len(u.served)
               b == Len(u.down)
    <3>2. /\ Reached(v) = (a + 1) + (b - 1) /\ Reached(u) = a + b
      BY <1>4, <1>5, <3>1
    <3>3. a \in Nat /\ b \in Nat
      BY <1>1
    <3> HIDE DEF a, b
    <3> QED
      BY <3>2, <3>3
  <2>2. Run(down, c, Len(served))
    BY <1>4, <1>5
  <2> QED
    BY <1>5, <1>7, <2>1, <2>2 DEF Joined, Upwards
<1>9. Downwards(v, k, i, p)
  BY <1>7 DEF Joined, Downwards
<1> QED
  BY <1>2, <1>7, <1>8, <1>9 DEF Joined, Gone

Answered(u, i) ==
    [u EXCEPT !.said = @ + 1, !.up = Sent(@, u.far, Data(i, u.said + 1))]

LEMMA AnsweredIsJoined ==
    ASSUME NEW u \in Uplinks, NEW k \in HandheldEnds, NEW i, NEW c,
           NEW w \in BOOLEAN, NEW p \in BOOLEAN,
           u.near = "piping", u.said < Len(u.served), Joined(u, k, i, c, w, p)
    PROVE  Joined(Answered(u, i), k, i, c, w, p)
<1> DEFINE v == Answered(u, i)
           said == u.said + 1
           up == Sent(u.up, u.far, Data(i, said))
<1>1. /\ u.served \in Seq(Lines) /\ u.up \in Seq(Lines) /\ u.said \in Nat
      /\ Len(u.served) \in Nat /\ Len(u.up) \in Nat
      /\ Len(k.heard) \in Nat /\ Len(k.down) \in Nat
  BY ShortQueue DEF Uplinks, HandheldEnds
<1>2. ~w
  <2>1. Len(<<>>) = 0
    BY EmptySeq
  <2>2. u.served # <<>>
    BY <1>1, <2>1
  <2> QED
    BY <2>2 DEF Joined, NothingPiped
<1>3. Gone(u.far) => up = <<>>
  BY DEF Joined, Sent
<1>4. ASSUME p, u.far = "open", k.there = "open", k.here = "open"
      PROVE  /\ Run(up, i, Len(k.heard) + Len(k.down))
             /\ Len(k.heard) + Len(k.down) + Len(up) = said
  <2> DEFINE h == Len(k.heard)
             d == Len(k.down)
             told == h + d
             l == Len(u.up)
  <2>1. /\ Run(u.up, i, told) /\ told + l = u.said
    BY <1>4 DEF Joined, Downwards
  <2>2. up = Append(u.up, Data(i, said))
    BY <1>4 DEF Sent, Gone
  <2>3. told \in Nat /\ l \in Nat
    <3>1. h \in Nat /\ d \in Nat /\ l \in Nat
      BY <1>1
    <3> HIDE DEF h, d, l
    <3> QED
      BY <3>1
  <2> HIDE DEF told, l
  <2>4. said = told + l + 1
    BY <1>1, <2>1, <2>3
  <2> HIDE DEF said, up
  <2>5. said = told + Len(u.up) + 1
    BY <2>4 DEF l
  <2> DEFINE f == u.up
  <2>6. f \in Seq(Lines) /\ Run(f, i, told) /\ said = told + Len(f) + 1 /\ l = Len(f)
    BY <1>1, <2>1, <2>5 DEF l
  <2> HIDE DEF f
  <2>7. Run(Append(f, Data(i, said)), i, told) /\ Len(Append(f, Data(i, said))) = l + 1
    BY <2>3, <2>6, LongerRun
  <2>8. Run(up, i, told) /\ told + Len(up) = said
    BY <2>2, <2>3, <2>4, <2>7 DEF f
  <2> QED
    BY <2>8 DEF told
<1>5. v = [u EXCEPT !.said = said, !.up = up]
  BY DEF Answered
<1> HIDE DEF said, up, v
<1>6. /\ v.near = "piping" /\ v.local = u.local /\ v.down = u.down
      /\ v.far = u.far /\ v.up = up /\ v.served = u.served /\ v.said = said
  BY <1>5 DEF Uplinks
<1>7. Upwards(v, k, c)
  <2>1. Reached(v) = Reached(u)
    BY <1>6 DEF Reached
  <2> QED
    BY <1>6, <2>1 DEF Joined, Upwards
<1>8. Downwards(v, k, i, p)
  BY <1>4, <1>6 DEF Joined, Downwards
<1> QED
  BY <1>2, <1>3, <1>6, <1>7, <1>8 DEF Joined, Gone, v

LEMMA AttemptMovesStreams ==
    ASSUME Typed, StreamsInv, NEW i \in Dials,
           \/ Connect(i) \/ ReadReady(i) \/ LocalConnect(i)
           \/ PipeToServer(i) \/ ServerAnswers(i)
    PROVE  StreamsInv'
<1> DEFINE u == uplink[i]
           offered == [u EXCEPT !.near = "offered", !.far = "greeting",
                                !.up = <<Line("greeting")>>]
           opening == [u EXCEPT !.near = "opening", !.local = "connecting",
                                !.down = Tail(@)]
           linked == Linked(u)
           served == [u EXCEPT !.served = Append(@, Head(u.down)), !.down = Tail(@)]
           answered == Answered(u, i)
<1>1. UNCHANGED <<relay, client>> /\ uplink \in [Dials -> Uplinks] /\ u \in Uplinks
  BY DEF Typed, Connect, ReadReady, LocalConnect, PipeToServer, ServerAnswers,
         UplinkUnchanged
<1>2. ASSUME NEW c \in Clients
      PROVE  /\ client[c] \in HandheldEnds
             /\ (<<i, c>> \in relay.pairing) \in BOOLEAN
             /\ (<<i, c>> \in relay.piping) \in BOOLEAN
  BY DEF Typed
<1>3. ASSUME NEW v, uplink' = [uplink EXCEPT ![i] = v],
             FreshUplink(u) => FreshUplink(v),
             \A c \in Clients, w \in BOOLEAN, p \in BOOLEAN :
                Joined(u, client[c], i, c, w, p) => Joined(v, client[c], i, c, w, p)
      PROVE  StreamsInv'
  <2>1. uplink'[i] = v /\ Others(i)
    BY <1>1, <1>3 DEF Others
  <2>2. ASSUME NEW c \in Clients,
               Joined(u, client[c], i, c, <<i, c>> \in relay.pairing,
                      <<i, c>> \in relay.piping)
        PROVE  Joined(v, client[c], i, c, <<i, c>> \in relay.pairing,
                      <<i, c>> \in relay.piping)
    BY <1>2, <1>3, <2>2
  <2> HIDE DEF u
  <2> QED
    BY <1>1, <1>3, <2>1, <2>2, AttemptStreams DEF u
<1>4. CASE Connect(i)
  <2>1. u.near = "dialling" /\ uplink' = [uplink EXCEPT ![i] = offered]
    BY <1>4 DEF Connect
  <2>2. FreshUplink(u) => FreshUplink(offered)
    <3>1. /\ offered.near = "offered" /\ offered.far = "greeting"
          /\ offered.up = <<Line("greeting")>> /\ offered.local = u.local
          /\ offered.served = u.served /\ offered.said = u.said
          /\ offered.down = u.down
      BY <1>1 DEF Uplinks
    <3>2. Len(<<Line("greeting")>>) = 1
      OBVIOUS
    <3> HIDE DEF offered, u
    <3> QED
      BY <3>1, <3>2 DEF FreshUplink
  <2>3. \A c \in Clients, w \in BOOLEAN, p \in BOOLEAN : ~Joined(u, client[c], i, c, w, p)
    BY <2>1 DEF Joined
  <2> HIDE DEF offered, u
  <2> QED
    BY <2>1, <2>2, <2>3, <1>3
<1>5. CASE ReadReady(i)
  <2>1. u.near = "offered" /\ u.down # <<>> /\ uplink' = [uplink EXCEPT ![i] = opening]
    BY <1>5 DEF ReadReady
  <2>2. ~FreshUplink(u)
    BY <2>1 DEF FreshUplink
  <2> HIDE DEF u
  <2>3. ASSUME NEW c \in Clients, NEW w \in BOOLEAN, NEW p \in BOOLEAN,
               Joined(u, client[c], i, c, w, p)
        PROVE  Joined(opening, client[c], i, c, w, p)
    BY <2>3, <1>1, <2>1, ReadyIsJoined
  <2> HIDE DEF opening
  <2> QED
    BY <2>1, <2>2, <2>3, <1>3
<1>6. CASE LocalConnect(i)
  <2>1. u.local = "connecting" /\ uplink' = [uplink EXCEPT ![i] = linked]
    BY <1>6 DEF LocalConnect, Linked
  <2>2. ~FreshUplink(u)
    BY <2>1 DEF FreshUplink
  <2> HIDE DEF u
  <2>3. ASSUME NEW c \in Clients, NEW w \in BOOLEAN, NEW p \in BOOLEAN,
               Joined(u, client[c], i, c, w, p)
        PROVE  Joined(linked, client[c], i, c, w, p)
    BY <2>3, <1>1, <2>1, LocalIsJoined
  <2> HIDE DEF linked
  <2> QED
    BY <2>1, <2>2, <2>3, <1>3
<1>7. CASE PipeToServer(i)
  <2>1. u.near = "piping" /\ u.down # <<>> /\ uplink' = [uplink EXCEPT ![i] = served]
    BY <1>7 DEF PipeToServer
  <2>2. ~FreshUplink(u)
    BY <2>1 DEF FreshUplink
  <2> HIDE DEF u
  <2>3. ASSUME NEW c \in Clients, NEW w \in BOOLEAN, NEW p \in BOOLEAN,
               Joined(u, client[c], i, c, w, p)
        PROVE  Joined(served, client[c], i, c, w, p)
    BY <2>3, <1>1, <2>1, ServedIsJoined
  <2> HIDE DEF served
  <2> QED
    BY <2>1, <2>2, <2>3, <1>3
<1>8. CASE ServerAnswers(i)
  <2>1. /\ u.near = "piping" /\ u.said < Len(u.served)
        /\ uplink' = [uplink EXCEPT ![i] = answered]
    BY <1>8 DEF ServerAnswers, Answered
  <2>2. ~FreshUplink(u)
    BY <2>1 DEF FreshUplink
  <2> HIDE DEF u
  <2>3. ASSUME NEW c \in Clients, NEW w \in BOOLEAN, NEW p \in BOOLEAN,
               Joined(u, client[c], i, c, w, p)
        PROVE  Joined(answered, client[c], i, c, w, p)
    BY <2>3, <1>1, <1>2, <2>1, AnsweredIsJoined
  <2> HIDE DEF answered
  <2> QED
    BY <2>1, <2>2, <2>3, <1>3
<1> QED
  BY <1>4, <1>5, <1>6, <1>7, <1>8

(* The tunnel dials: an attempt the relay has not seen is in no pair.       *)
LEMMA NewAttemptStreams ==
    ASSUME Typed, WaitersWereHeard, StreamsInv, UNCHANGED <<relay, client>>,
           \A i \in Dials : \/ uplink'[i] = uplink[i]
                            \/ i > dials /\ \E s : uplink'[i] = Dialling(s)
    PROVE  StreamsInv'
<1>1. PICK m \in SUBSET (Dials \X Clients) : Streams(m)
  BY DEF StreamsInv
<1>2. Matching(m)'
  BY <1>1 DEF Streams, Matching
<1>3. ASSUME NEW s
      PROVE  FreshUplink(Dialling(s))
  <2>1. /\ Dialling(s).near = "dialling" /\ Dialling(s).far = "none"
        /\ Dialling(s).local = "none" /\ Dialling(s).served = <<>>
        /\ Dialling(s).said = 0 /\ Dialling(s).down = <<>> /\ Dialling(s).up = <<>>
    BY DEF Dialling, NoUplink
  <2>2. Len(<<>>) = 0
    BY EmptySeq
  <2> QED
    BY <2>1, <2>2 DEF FreshUplink
<1>4. ASSUME NEW i \in Dials, ~\E c \in Clients : <<i, c>> \in m
      PROVE  FreshUplink(uplink'[i])
  BY <1>1, <1>3, <1>4 DEF Streams
<1>5. ASSUME NEW c \in Clients, ~\E i \in Dials : <<i, c>> \in m
      PROVE  FreshClient(client'[c], c)
  BY <1>1, <1>5 DEF Streams
<1>6. ASSUME NEW i \in Dials, NEW c \in Clients, <<i, c>> \in m
      PROVE  Joined(uplink'[i], client'[c], i, c, <<i, c>> \in relay'.pairing,
                    <<i, c>> \in relay'.piping)
  <2>1. Joined(uplink[i], client[c], i, c, <<i, c>> \in relay.pairing,
               <<i, c>> \in relay.piping)
    BY <1>1, <1>6 DEF Streams
  <2>2. ~(i > dials)
    BY <2>1 DEF Joined, WaitersWereHeard
  <2>3. uplink'[i] = uplink[i]
    BY <2>2
  <2> QED
    BY <2>1, <2>3
<1> QED
  BY <1>2, <1>4, <1>5, <1>6, StreamsAre

LEMMA DialStreams ==
    ASSUME Typed, WaitersWereHeard, StreamsInv,
           StartTunnel \/ \E s \in Slots : Redial(s)
    PROVE  StreamsInv'
<1>1. UNCHANGED <<relay, client>> /\ dials \in Nat /\ Dials \subseteq Int
  <2>1. UNCHANGED <<relay, client>>
    BY DEF StartTunnel, Redial
  <2> QED
    BY <2>1 DEF Typed, Dials
<1>2. ASSUME NEW i \in Dials
      PROVE  \/ uplink'[i] = uplink[i]
             \/ i > dials /\ \E s : uplink'[i] = Dialling(s)
  <2>1. CASE StartTunnel
    <3>1. \/ uplink'[i] = uplink[i]
          \/ /\ i \in (dials + 1)..(dials + PoolSize)
             /\ uplink'[i] = Dialling(pools * PoolSize + i - dials)
      BY <2>1 DEF StartTunnel
    <3>2. i \in (dials + 1)..(dials + PoolSize) => i > dials
      BY <1>1, TunnelAssumption
    <3> QED
      BY <3>1, <3>2
  <2>2. CASE \E s \in Slots : Redial(s)
    <3>1. PICK s \in Slots : Redial(s)
      BY <2>2
    <3>2. uplink' = [uplink EXCEPT ![dials + 1] = Dialling(s)]
      BY <3>1 DEF Redial
    <3>3. i = dials + 1 => uplink'[i] = Dialling(s) /\ i > dials
      BY <3>2, <1>1 DEF Typed
    <3>4. i # dials + 1 => uplink'[i] = uplink[i]
      BY <3>2, <1>1 DEF Typed
    <3> QED
      BY <3>3, <3>4
  <2> QED
    BY <2>1, <2>2
<1> QED
  BY <1>1, <1>2, NewAttemptStreams

-----------------------------------------------------------------------------
(* What the relay does for a pair. *)
LEMMA PairStreams ==
    ASSUME Typed, StreamsInv, NEW i \in Dials, NEW c \in Clients,
           <<i, c>> \in relay.pairing \cup relay.piping, RelayShrinks,
           \A j \in Dials : j # i => uplink'[j] = uplink[j],
           \A d \in Clients : d # c => client'[d] = client[d],
           \A j \in Dials, d \in Clients : j # i \/ d # c =>
              /\ (<<j, d>> \in relay'.pairing) = (<<j, d>> \in relay.pairing)
              /\ (<<j, d>> \in relay'.piping) = (<<j, d>> \in relay.piping),
           Joined(uplink[i], client[c], i, c, <<i, c>> \in relay.pairing,
                  <<i, c>> \in relay.piping)
           => Joined(uplink'[i], client'[c], i, c, <<i, c>> \in relay'.pairing,
                     <<i, c>> \in relay'.piping)
    PROVE  StreamsInv'
<1>1. PICK m \in SUBSET (Dials \X Clients) : Streams(m)
  BY DEF StreamsInv
<1>2. Matching(m)'
  BY <1>1, MatchingShrinks DEF Streams
<1>3. <<i, c>> \in m
  BY <1>1 DEF Streams, Matching
<1>4. ASSUME NEW j \in Dials, ~\E d \in Clients : <<j, d>> \in m
      PROVE  FreshUplink(uplink'[j])
  <2>1. j # i /\ FreshUplink(uplink[j])
    BY <1>1, <1>3, <1>4 DEF Streams
  <2> QED
    BY <2>1
<1>5. ASSUME NEW d \in Clients, ~\E j \in Dials : <<j, d>> \in m
      PROVE  FreshClient(client'[d], d)
  <2>1. d # c /\ FreshClient(client[d], d)
    BY <1>1, <1>3, <1>5 DEF Streams
  <2> QED
    BY <2>1
<1>6. ASSUME NEW j \in Dials, NEW d \in Clients, <<j, d>> \in m
      PROVE  Joined(uplink'[j], client'[d], j, d, <<j, d>> \in relay'.pairing,
                    <<j, d>> \in relay'.piping)
  <2>1. Joined(uplink[j], client[d], j, d, <<j, d>> \in relay.pairing,
               <<j, d>> \in relay.piping)
    BY <1>1, <1>6 DEF Streams
  <2>2. CASE j = i /\ d = c
    BY <2>1, <2>2
  <2>3. CASE j # i \/ d # c
    <3>1. j # i /\ d # c
      BY <1>1, <1>3, <1>6, <2>3 DEF Streams, Matching
    <3>2. uplink'[j] = uplink[j] /\ client'[d] = client[d]
      BY <3>1
    <3>3. /\ (<<j, d>> \in relay'.pairing) = (<<j, d>> \in relay.pairing)
          /\ (<<j, d>> \in relay'.piping) = (<<j, d>> \in relay.piping)
      BY <3>1
    <3> QED
      BY <2>1, <3>2, <3>3
  <2> QED
    BY <2>2, <2>3
<1> QED
  BY <1>2, <1>4, <1>5, <1>6, StreamsAre

LEMMA ConnectedIsJoined ==
    ASSUME NEW u \in Uplinks, NEW k, NEW i, NEW c, NEW w \in BOOLEAN, NEW p \in BOOLEAN,
           NEW w1 \in BOOLEAN, NEW p1 \in BOOLEAN, w, ~w1, p1,
           u.far = "open", u.up # <<>>, Joined(u, k, i, c, w, p), NEW v,
           v = [u EXCEPT !.up = Tail(u.up)]
    PROVE  Joined(v, k, i, c, w1, p1)
<1> DEFINE up == Tail(u.up)
<1>1. NothingPiped(u, k) /\ u.near \notin {"offered", "opening"}
  BY DEF Joined
<1>2. up = <<>>
  BY <1>1, ShortQueue DEF NothingPiped, Uplinks
<1>3. v = [u EXCEPT !.up = up]
  OBVIOUS
<1> HIDE DEF up
<1>4. /\ v.near = u.near /\ v.local = u.local /\ v.down = u.down
      /\ v.far = u.far /\ v.up = <<>> /\ v.served = u.served /\ v.said = u.said
  BY <1>2, <1>3 DEF Uplinks
<1>5. Upwards(v, k, c)
  <2>1. Reached(v) = Reached(u)
    BY <1>4 DEF Reached
  <2> QED
    BY <1>4, <2>1 DEF Joined, Upwards
<1>6. Downwards(v, k, i, p1)
  <2>1. Len(<<>>) = 0
    BY EmptySeq
  <2>2. /\ v.up = <<>> /\ k.heard = <<>> /\ k.down = <<>> /\ v.said = 0
    BY <1>1, <1>4 DEF NothingPiped
  <2>3. \A a : Run(v.up, i, a) /\ Run(k.heard, i, a) /\ Run(k.down, i, a)
    BY <2>2, EmptyRun
  <2>4. Len(k.heard) + Len(k.down) + Len(v.up) = v.said
    <3>1. Len(k.heard) = 0 /\ Len(k.down) = 0 /\ Len(v.up) = 0 /\ v.said = 0
      BY <2>1, <2>2
    <3>2. 0 + 0 + 0 = 0
      OBVIOUS
    <3> QED
      BY <3>1, <3>2, Zenon
  <2> QED
    BY <2>3, <2>4 DEF Downwards
<1> QED
  BY <1>1, <1>4, <1>5, <1>6 DEF Joined, Gone

LEMMA PipedUpIsJoined ==
    ASSUME NEW u \in Uplinks, NEW k \in HandheldEnds, NEW i, NEW c,
           NEW w \in BOOLEAN, NEW p \in BOOLEAN, p,
           k.there = "open", k.up # <<>>, Joined(u, k, i, c, w, p),
           NEW v, v = [u EXCEPT !.down = Sent(u.down, u.near, Head(k.up))],
           NEW l, l = [k EXCEPT !.up = Tail(k.up)]
    PROVE  Joined(v, l, i, c, w, p)
<1> DEFINE down == Sent(u.down, u.near, Head(k.up))
           up == Tail(k.up)
<1>1. ~w /\ (u.near = "piping" \/ Gone(u.near))
  BY DEF Joined, Uplinks, NearStates, Gone
<1>2. /\ u.served \in Seq(Lines) /\ u.down \in Seq(Lines) /\ k.up \in Seq(Lines)
      /\ Len(u.served) \in Nat /\ Len(u.down) \in Nat /\ Len(k.up) \in Nat
  BY ShortQueue DEF Uplinks, HandheldEnds
<1>3. Gone(u.near) => down = u.down
  BY DEF Sent
<1>4. ASSUME u.near = "piping"
      PROVE  /\ Run(down, c, Len(u.served)) /\ Run(up, c, Len(u.served) + Len(down))
             /\ Len(u.served) + Len(down) + Len(up) = k.sent
  <2>1. down = Append(u.down, Head(k.up))
    BY <1>4 DEF Sent, Gone
  <2>2. /\ Run(u.down, c, Len(u.served)) /\ Run(k.up, c, Len(u.served) + Len(u.down))
        /\ Len(u.served) + Len(u.down) + Len(k.up) = k.sent
    BY <1>4 DEF Joined, Upwards, Reached, Gone
  <2> DEFINE f == u.down  g == k.up  a == Len(u.served)  q == Append(f, Head(g))
  <2>3. /\ f \in Seq(Lines) /\ g \in Seq(Lines) /\ g # <<>> /\ a \in Nat
        /\ Run(f, c, a) /\ Run(g, c, a + Len(f)) /\ up = Tail(g)
    BY <1>2, <2>2
  <2> HIDE DEF f, g, a, up
  <2>4. /\ Run(q, c, a) /\ Run(up, c, a + Len(q))
        /\ a + Len(q) + Len(up) = a + Len(f) + Len(g)
    BY <2>3, ChunkMoves
  <2> HIDE DEF q, down
  <2> QED
    BY <2>1, <2>2, <2>4 DEF f, g, a, q
<1>5. v = [u EXCEPT !.down = down] /\ l = [k EXCEPT !.up = up]
  OBVIOUS
<1> HIDE DEF down, up
<1>6. /\ v.near = u.near /\ v.local = u.local /\ v.down = down
      /\ v.far = u.far /\ v.up = u.up /\ v.served = u.served /\ v.said = u.said
      /\ l.here = k.here /\ l.there = k.there /\ l.up = up /\ l.down = k.down
      /\ l.sent = k.sent /\ l.heard = k.heard
  BY <1>5 DEF Uplinks, HandheldEnds
<1>7. Upwards(v, l, c)
  <2>1. Run(u.served, c, 0)
    BY DEF Joined, Upwards
  <2>2. u.near = "piping" => Reached(v) = Len(u.served) + Len(down)
    BY <1>6 DEF Reached
  <2> QED
    BY <1>1, <1>4, <1>6, <2>1, <2>2 DEF Upwards, Gone
<1>8. Downwards(v, l, i, p)
  BY <1>6 DEF Joined, Downwards
<1> QED
  BY <1>1, <1>3, <1>6, <1>7, <1>8 DEF Joined, Gone

(* The first line of a queue goes down to a client that is not released. *)
Piped(k, lines) ==
    IF k.there = "open" THEN [k EXCEPT !.down = Sent(k.down, k.here, Head(lines))]
    ELSE k

LEMMA PipedDownIsJoined ==
    ASSUME NEW u \in Uplinks, NEW k \in HandheldEnds, NEW i, NEW c,
           NEW w \in BOOLEAN, NEW p \in BOOLEAN, p,
           u.far = "open", u.up # <<>>, Joined(u, k, i, c, w, p),
           NEW v, v = [u EXCEPT !.up = Tail(u.up)]
    PROVE  Joined(v, Piped(k, u.up), i, c, w, p)
<1> DEFINE up == Tail(u.up)
           l == Piped(k, u.up)
           down == Sent(k.down, k.here, Head(u.up))
<1>1. ~w /\ u.near \notin {"offered", "opening"}
  BY DEF Joined
<1>2. /\ u.up \in Seq(Lines) /\ k.down \in Seq(Lines) /\ k.heard \in Seq(Lines)
      /\ Len(u.up) \in Nat /\ Len(k.down) \in Nat /\ Len(k.heard) \in Nat
  BY ShortQueue DEF Uplinks, HandheldEnds
<1>3. k.here # "open" => down = k.down
  BY DEF Joined, HandheldEnds, HereStates, Sent, Gone
<1>4. ASSUME k.there = "open", k.here = "open"
      PROVE  /\ Run(down, i, Len(k.heard)) /\ Run(up, i, Len(k.heard) + Len(down))
             /\ Len(k.heard) + Len(down) + Len(up) = u.said
  <2>1. down = Append(k.down, Head(u.up))
    BY <1>4 DEF Sent, Gone
  <2>2. /\ Run(k.down, i, Len(k.heard)) /\ Run(u.up, i, Len(k.heard) + Len(k.down))
        /\ Len(k.heard) + Len(k.down) + Len(u.up) = u.said
    BY <1>4 DEF Joined, Downwards
  <2> DEFINE f == k.down  g == u.up  a == Len(k.heard)  q == Append(f, Head(g))
  <2>3. /\ f \in Seq(Lines) /\ g \in Seq(Lines) /\ g # <<>> /\ a \in Nat
        /\ Run(f, i, a) /\ Run(g, i, a + Len(f)) /\ up = Tail(g)
    BY <1>2, <2>2
  <2> HIDE DEF f, g, a, up
  <2>4. /\ Run(q, i, a) /\ Run(up, i, a + Len(q))
        /\ a + Len(q) + Len(up) = a + Len(f) + Len(g)
    BY <2>3, ChunkMoves
  <2> HIDE DEF q, down
  <2> QED
    BY <2>1, <2>2, <2>4 DEF f, g, a, q
<1>5. /\ v = [u EXCEPT !.up = up]
      /\ k.there # "open" => l = k
      /\ k.there = "open" => l = [k EXCEPT !.down = down]
  BY DEF Piped
<1> HIDE DEF down, up, l
<1>6. /\ v.near = u.near /\ v.local = u.local /\ v.down = u.down
      /\ v.far = u.far /\ v.up = up /\ v.served = u.served /\ v.said = u.said
  BY <1>5 DEF Uplinks
<1>7. /\ l.here = k.here /\ l.there = k.there /\ l.up = k.up
      /\ l.sent = k.sent /\ l.heard = k.heard
      /\ l.down = k.down \/ (k.there = "open" /\ l.down = down)
      /\ k.there = "open" => l.down = down
  BY <1>5 DEF HandheldEnds
<1>8. Upwards(v, l, c)
  <2>1. Reached(v) = Reached(u)
    BY <1>6 DEF Reached
  <2> QED
    BY <1>6, <1>7, <2>1 DEF Joined, Upwards
<1>9. Downwards(v, l, i, p)
  <2>1. Run(k.heard, i, 0) /\ Run(k.down, i, Len(k.heard))
    BY DEF Joined, Downwards
  <2>2. Run(l.down, i, Len(k.heard))
    BY <1>3, <1>4, <1>7, <2>1
  <2> QED
    BY <1>4, <1>6, <1>7, <2>1, <2>2 DEF Downwards
<1> QED
  BY <1>1, <1>6, <1>7, <1>8, <1>9 DEF Joined, Gone, l

LEMMA ReadConnectedStreams ==
    ASSUME Typed, StreamsInv, NEW i \in Dials, NEW c \in Clients, ReadConnected(i, c)
    PROVE  StreamsInv'
<1> DEFINE u == uplink[i]
           pairing == relay.pairing \ {<<i, c>>}
           piping == relay.piping \cup {<<i, c>>}
           v == [u EXCEPT !.up = Tail(u.up)]
<1>1. /\ <<i, c>> \in relay.pairing /\ u.far = "open" /\ u.up # <<>>
      /\ relay' = [relay EXCEPT !.pairing = pairing, !.piping = piping]
      /\ uplink' = [uplink EXCEPT ![i] = v] /\ client' = client
  BY DEF ReadConnected, Activate
<1>2. u \in Uplinks /\ uplink \in [Dials -> Uplinks] /\ relay \in Relays
  BY DEF Typed
<1>3. /\ relay'.pairing = pairing /\ relay'.piping = piping
      /\ relay'.uplinks = relay.uplinks /\ relay'.clients = relay.clients
  <2> HIDE DEF pairing, piping
  <2> QED
    BY <1>1, <1>2 DEF Relays
<1>4. RelayShrinks
  BY <1>1, <1>3 DEF RelayShrinks
<1>5. /\ uplink'[i] = v /\ \A j \in Dials : j # i => uplink'[j] = uplink[j]
      /\ \A d \in Clients : client'[d] = client[d]
  <2> HIDE DEF v
  <2> QED
    BY <1>1, <1>2
<1>6. ASSUME NEW j \in Dials, NEW d \in Clients, j # i \/ d # c
      PROVE  /\ (<<j, d>> \in relay'.pairing) = (<<j, d>> \in relay.pairing)
             /\ (<<j, d>> \in relay'.piping) = (<<j, d>> \in relay.piping)
  BY <1>3, <1>6
<1>7. ASSUME Joined(u, client[c], i, c, <<i, c>> \in relay.pairing,
                    <<i, c>> \in relay.piping)
      PROVE  Joined(v, client[c], i, c, <<i, c>> \in relay'.pairing,
                    <<i, c>> \in relay'.piping)
  <2> DEFINE w == <<i, c>> \in relay.pairing  w1 == <<i, c>> \in relay'.pairing
             p == <<i, c>> \in relay.piping   p1 == <<i, c>> \in relay'.piping
  <2>1. /\ w \in BOOLEAN /\ w1 \in BOOLEAN /\ p \in BOOLEAN /\ p1 \in BOOLEAN
        /\ w /\ ~w1 /\ p1
    BY <1>1, <1>3
  <2> HIDE DEF w, w1, p, p1
  <2>2. Joined(u, client[c], i, c, w, p)
    BY <1>7 DEF w, p
  <2> HIDE DEF u
  <2>3. Joined(v, client[c], i, c, w1, p1)
    BY <1>1, <1>2, <2>1, <2>2, ConnectedIsJoined
  <2> QED
    BY <2>3 DEF w1, p1
<1> HIDE DEF v, pairing, piping
<1> QED
  BY <1>1, <1>4, <1>5, <1>6, <1>7, PairStreams

LEMMA PipeStreams ==
    ASSUME Typed, StreamsInv, NEW i \in Dials, NEW c \in Clients,
           PipeUp(i, c) \/ PipeDown(i, c)
    PROVE  StreamsInv'
<1> DEFINE u == uplink[i]
           k == client[c]
           w == <<i, c>> \in relay.pairing
           p == <<i, c>> \in relay.piping
<1>1. /\ p /\ u.far = "open" /\ relay' = relay
      /\ u \in Uplinks /\ uplink \in [Dials -> Uplinks]
      /\ k \in HandheldEnds /\ client \in [Clients -> HandheldEnds]
  BY DEF Typed, PipeUp, PipeDown
<1>2. RelayShrinks /\ w \in BOOLEAN /\ p \in BOOLEAN
  BY <1>1 DEF RelayShrinks
<1>3. ASSUME NEW v, uplink' = [uplink EXCEPT ![i] = v],
             NEW l, client' = [client EXCEPT ![c] = l],
             Joined(u, k, i, c, w, p) => Joined(v, l, i, c, w, p)
      PROVE  StreamsInv'
  <2>1. /\ uplink'[i] = v /\ \A j \in Dials : j # i => uplink'[j] = uplink[j]
        /\ client'[c] = l /\ \A d \in Clients : d # c => client'[d] = client[d]
    BY <1>1, <1>3
  <2>2. \A j \in Dials, d \in Clients : j # i \/ d # c =>
           /\ (<<j, d>> \in relay'.pairing) = (<<j, d>> \in relay.pairing)
           /\ (<<j, d>> \in relay'.piping) = (<<j, d>> \in relay.piping)
    BY <1>1
  <2>3. /\ (<<i, c>> \in relay'.pairing) = w /\ (<<i, c>> \in relay'.piping) = p
        /\ <<i, c>> \in relay.pairing \cup relay.piping
    BY <1>1
  <2>4. Joined(uplink[i], client[c], i, c, <<i, c>> \in relay.pairing,
               <<i, c>> \in relay.piping)
        => Joined(uplink'[i], client'[c], i, c, <<i, c>> \in relay'.pairing,
                  <<i, c>> \in relay'.piping)
    BY <1>1, <1>3, <2>1
  <2> HIDE DEF u, k, w, p
  <2> QED
    BY <1>2, <2>1, <2>2, <2>3, <2>4, PairStreams
<1>4. CASE PipeUp(i, c)
  <2> DEFINE v == [u EXCEPT !.down = Sent(u.down, u.near, Head(k.up))]
             l == [k EXCEPT !.up = Tail(k.up)]
  <2>1. /\ k.there = "open" /\ k.up # <<>>
        /\ uplink' = [uplink EXCEPT ![i] = v] /\ client' = [client EXCEPT ![c] = l]
    BY <1>4 DEF PipeUp
  <2> HIDE DEF u, k, w, p
  <2>2. ASSUME Joined(u, k, i, c, w, p)
        PROVE  Joined(v, l, i, c, w, p)
    <3>1. v = [u EXCEPT !.down = Sent(u.down, u.near, Head(k.up))]
      OBVIOUS
    <3>2. l = [k EXCEPT !.up = Tail(k.up)]
      OBVIOUS
    <3>3. /\ u \in Uplinks /\ k \in HandheldEnds /\ w \in BOOLEAN /\ p \in BOOLEAN
          /\ p /\ k.there = "open" /\ k.up # <<>>
      BY <2>1, <1>1, <1>2
    <3> HIDE DEF v, l
    <3> QED
      BY <2>2, <3>1, <3>2, <3>3, PipedUpIsJoined
  <2> HIDE DEF v, l
  <2> QED
    BY <2>1, <2>2, <1>3
<1>5. CASE PipeDown(i, c)
  <2> DEFINE v == [u EXCEPT !.up = Tail(u.up)]
             l == Piped(k, u.up)
  <2>1. /\ u.up # <<>> /\ uplink' = [uplink EXCEPT ![i] = v]
        /\ client' = [client EXCEPT ![c] = l]
    <3>1. u.up # <<>> /\ uplink' = [uplink EXCEPT ![i] = v]
      BY <1>5 DEF PipeDown
    <3>2. CASE k.there = "open"
      BY <1>5, <3>2 DEF PipeDown, Piped
    <3>3. CASE k.there # "open"
      BY <1>1, <1>5, <3>3 DEF PipeDown, Piped
    <3> QED
      BY <3>1, <3>2, <3>3
  <2> HIDE DEF u, k, w, p
  <2>2. ASSUME Joined(u, k, i, c, w, p)
        PROVE  Joined(v, l, i, c, w, p)
    <3>1. v = [u EXCEPT !.up = Tail(u.up)]
      OBVIOUS
    <3>2. /\ u \in Uplinks /\ k \in HandheldEnds /\ w \in BOOLEAN /\ p \in BOOLEAN
          /\ p /\ u.far = "open" /\ u.up # <<>>
      BY <2>1, <1>1, <1>2
    <3> HIDE DEF v
    <3> QED
      BY <2>2, <3>1, <3>2, PipedDownIsJoined
  <2> HIDE DEF v, l
  <2> QED
    BY <2>1, <2>2, <1>3
<1> QED
  BY <1>4, <1>5

-----------------------------------------------------------------------------
(* What the 3DS sends and reads. *)
LEMMA ClientStreams ==
    ASSUME Typed, StreamsInv, NEW c \in Clients, UNCHANGED <<relay, uplink>>,
           \A d \in Clients : d # c => client'[d] = client[d],
           FreshClient(client[c], c) => FreshClient(client'[c], c),
           \A i \in Dials :
              Joined(uplink[i], client[c], i, c, <<i, c>> \in relay.pairing,
                     <<i, c>> \in relay.piping)
              => Joined(uplink[i], client'[c], i, c, <<i, c>> \in relay.pairing,
                        <<i, c>> \in relay.piping)
    PROVE  StreamsInv'
<1>1. PICK m \in SUBSET (Dials \X Clients) : Streams(m)
  BY DEF StreamsInv
<1>2. Matching(m)'
  BY <1>1 DEF Streams, Matching
<1>3. ASSUME NEW i \in Dials, ~\E d \in Clients : <<i, d>> \in m
      PROVE  FreshUplink(uplink'[i])
  BY <1>1, <1>3 DEF Streams
<1>4. ASSUME NEW d \in Clients, ~\E i \in Dials : <<i, d>> \in m
      PROVE  FreshClient(client'[d], d)
  BY <1>1, <1>4 DEF Streams
<1>5. ASSUME NEW i \in Dials, NEW d \in Clients, <<i, d>> \in m
      PROVE  Joined(uplink'[i], client'[d], i, d, <<i, d>> \in relay'.pairing,
                    <<i, d>> \in relay'.piping)
  <2>1. Joined(uplink[i], client[d], i, d, <<i, d>> \in relay.pairing,
               <<i, d>> \in relay.piping)
    BY <1>1, <1>5 DEF Streams
  <2>2. CASE d = c
    BY <2>1, <2>2
  <2>3. CASE d # c
    BY <2>1, <2>3
  <2> QED
    BY <2>2, <2>3
<1> QED
  BY <1>2, <1>3, <1>4, <1>5, StreamsAre

LEMMA SentIsStreamed ==
    ASSUME NEW k \in HandheldEnds, NEW c, k.here = "open", k.there = "open", NEW l,
           l = [k EXCEPT !.sent = k.sent + 1, !.up = Append(k.up, Data(c, k.sent + 1))]
    PROVE  /\ FreshClient(k, c) => FreshClient(l, c)
           /\ \A u \in Uplinks : \A i : \A w \in BOOLEAN, p \in BOOLEAN :
                 Joined(u, k, i, c, w, p) => Joined(u, l, i, c, w, p)
<1> DEFINE sent == k.sent + 1
           up == Append(k.up, Data(c, sent))
<1>1. k.up \in Seq(Lines) /\ Len(k.up) \in Nat /\ k.sent \in Nat
  BY ShortQueue DEF HandheldEnds
<1>2. ASSUME NEW a \in Nat, Run(k.up, c, a), a + Len(k.up) = k.sent
      PROVE  Run(up, c, a) /\ a + Len(up) = sent
  <2>1. sent = a + Len(k.up) + 1
    BY <1>1, <1>2
  <2> HIDE DEF sent
  <2>2. Run(up, c, a) /\ Len(up) = Len(k.up) + 1
    BY <1>1, <1>2, <2>1, LongerRun
  <2> HIDE DEF up
  <2> QED
    BY <1>1, <2>1, <2>2
<1>3. l = [k EXCEPT !.sent = sent, !.up = up]
  OBVIOUS
<1> HIDE DEF sent, up
<1>4. /\ l.here = "open" /\ l.there = "open" /\ l.up = up /\ l.down = k.down
      /\ l.sent = sent /\ l.heard = k.heard
  BY <1>3 DEF HandheldEnds
<1>5. ASSUME FreshClient(k, c)
      PROVE  FreshClient(l, c)
  <2>1. Run(k.up, c, 0) /\ 0 + Len(k.up) = k.sent
    BY <1>1, <1>5 DEF FreshClient
  <2>2. Run(up, c, 0) /\ 0 + Len(up) = sent
    BY <1>2, <2>1
  <2>3. Len(up) = sent
    <3>1. Len(up) \in Nat
      BY <1>1, <2>2, ShortQueue DEF up, HandheldEnds
    <3> QED
      BY <2>2, <3>1
  <2> QED
    BY <2>2, <2>3, <1>4, <1>5 DEF FreshClient
<1>6. ASSUME NEW u \in Uplinks, NEW i, NEW w \in BOOLEAN, NEW p \in BOOLEAN,
             Joined(u, k, i, c, w, p)
      PROVE  Joined(u, l, i, c, w, p)
  <2>1. Reached(u) \in Nat
    <3>1. Len(u.served) \in Nat /\ Len(u.down) \in Nat
      BY ShortQueue DEF Uplinks
    <3>2. \/ Reached(u) = Len(u.served) + Len(u.down)
          \/ Reached(u) = Len(u.served) + 0
      BY DEF Reached
    <3> DEFINE a == Len(u.served)
               b == Len(u.down)
    <3> HIDE DEF a, b
    <3>3. /\ a \in Nat /\ b \in Nat
          /\ Reached(u) = a + b \/ Reached(u) = a + 0
      BY <3>1, <3>2 DEF a, b
    <3> QED
      BY <3>3
  <2>2. Upwards(u, l, c)
    <3>1. ~Gone(u.near) => Run(up, c, Reached(u)) /\ Reached(u) + Len(up) = sent
      BY <1>2, <1>6, <2>1 DEF Joined, Upwards
    <3> QED
      BY <1>4, <1>6, <3>1 DEF Joined, Upwards
  <2>3. Downwards(u, l, i, p)
    BY <1>4, <1>6 DEF Joined, Downwards
  <2>4. NothingPiped(u, k) => NothingPiped(u, l)
    BY <1>4 DEF NothingPiped
  <2> QED
    BY <1>4, <1>6, <2>2, <2>3, <2>4 DEF Joined, Gone
<1> QED
  BY <1>5, <1>6

LEMMA ReadIsStreamed ==
    ASSUME NEW k \in HandheldEnds, NEW c, k.here = "open", k.down # <<>>, NEW l,
           l = [k EXCEPT !.heard = Append(k.heard, Head(k.down)), !.down = Tail(k.down)]
    PROVE  /\ ~FreshClient(k, c)
           /\ \A u \in Uplinks : \A i : \A w \in BOOLEAN, p \in BOOLEAN :
                 Joined(u, k, i, c, w, p) => Joined(u, l, i, c, w, p)
<1> DEFINE heard == Append(k.heard, Head(k.down))
           down == Tail(k.down)
<1>1. ~FreshClient(k, c)
  BY DEF FreshClient
<1>2. /\ k.heard \in Seq(Lines) /\ k.down \in Seq(Lines)
      /\ Len(k.heard) \in Nat /\ Len(k.down) \in Nat
  BY ShortQueue DEF HandheldEnds
<1>3. ASSUME NEW i, Run(k.heard, i, 0), Run(k.down, i, Len(k.heard))
      PROVE  /\ Run(heard, i, 0) /\ Run(down, i, Len(heard))
             /\ Len(heard) + Len(down) = Len(k.heard) + Len(k.down)
  <2> DEFINE h == Len(k.heard)  d == Len(k.down)
  <2>1. Run(k.down, i, 0 + h)
    BY <1>2, <1>3
  <2>2. /\ Head(k.down) = Data(i, h + 1) /\ Run(down, i, h + 1) /\ Len(down) = d - 1
    BY <1>2, <1>3, ShorterRun
  <2>3. h + 1 = 0 + h + 1
    BY <1>2
  <2>4. Run(heard, i, 0) /\ Len(heard) = h + 1
    BY <1>2, <1>3, <2>2, <2>3, LongerRun
  <2>5. h \in Nat /\ d \in Nat
    BY <1>2
  <2> HIDE DEF h, d, heard, down
  <2>6. Len(heard) + Len(down) = h + d
    BY <2>2, <2>4, <2>5
  <2> QED
    BY <2>2, <2>4, <2>6 DEF h, d
<1>4. l = [k EXCEPT !.heard = heard, !.down = down]
  OBVIOUS
<1> HIDE DEF heard, down
<1>5. /\ l.here = "open" /\ l.there = k.there /\ l.up = k.up /\ l.down = down
      /\ l.sent = k.sent /\ l.heard = heard
  BY <1>4 DEF HandheldEnds
<1>6. ASSUME NEW u \in Uplinks, NEW i, NEW w \in BOOLEAN, NEW p \in BOOLEAN,
             Joined(u, k, i, c, w, p)
      PROVE  Joined(u, l, i, c, w, p)
  <2>1. ~w
    BY <1>6 DEF Joined, NothingPiped
  <2>2. Upwards(u, l, c)
    BY <1>5, <1>6 DEF Joined, Upwards
  <2>3. Downwards(u, l, i, p)
    <3>1. /\ Run(heard, i, 0) /\ Run(down, i, Len(heard))
          /\ Len(heard) + Len(down) = Len(k.heard) + Len(k.down)
      BY <1>3, <1>6 DEF Joined, Downwards
    <3> QED
      BY <1>5, <1>6, <3>1 DEF Joined, Downwards
  <2> QED
    BY <1>5, <1>6, <2>1, <2>2, <2>3 DEF Joined, Gone
<1> QED
  BY <1>1, <1>6

LEMMA HandheldStreams ==
    ASSUME Typed, StreamsInv, NEW c \in Clients, ClientSends(c) \/ ClientReads(c)
    PROVE  StreamsInv'
<1> DEFINE k == client[c]
           sent == [k EXCEPT !.sent = k.sent + 1, !.up = Append(k.up, Data(c, k.sent + 1))]
           read == [k EXCEPT !.heard = Append(k.heard, Head(k.down)), !.down = Tail(k.down)]
<1>1. /\ UNCHANGED <<relay, uplink>> /\ client \in [Clients -> HandheldEnds]
      /\ k \in HandheldEnds
  BY DEF Typed, ClientSends, ClientReads, ClientUnchanged
<1>2. ASSUME NEW i \in Dials
      PROVE  /\ uplink[i] \in Uplinks
             /\ (<<i, c>> \in relay.pairing) \in BOOLEAN
             /\ (<<i, c>> \in relay.piping) \in BOOLEAN
  BY DEF Typed
<1>3. ASSUME NEW l, client' = [client EXCEPT ![c] = l],
             FreshClient(k, c) => FreshClient(l, c),
             \A u \in Uplinks : \A i : \A w \in BOOLEAN, p \in BOOLEAN :
                Joined(u, k, i, c, w, p) => Joined(u, l, i, c, w, p)
      PROVE  StreamsInv'
  <2>1. client'[c] = l /\ \A d \in Clients : d # c => client'[d] = client[d]
    BY <1>1, <1>3
  <2>2. ASSUME NEW i \in Dials,
               Joined(uplink[i], client[c], i, c, <<i, c>> \in relay.pairing,
                      <<i, c>> \in relay.piping)
        PROVE  Joined(uplink[i], l, i, c, <<i, c>> \in relay.pairing,
                      <<i, c>> \in relay.piping)
    BY <1>2, <1>3, <2>2
  <2> HIDE DEF k
  <2> QED
    BY <1>1, <1>3, <2>1, <2>2, ClientStreams DEF k
<1>4. CASE ClientSends(c)
  <2>1. k.here = "open" /\ k.there = "open" /\ client' = [client EXCEPT ![c] = sent]
    BY <1>4 DEF ClientSends
  <2> HIDE DEF k
  <2>2. /\ FreshClient(k, c) => FreshClient(sent, c)
        /\ \A u \in Uplinks : \A i : \A w \in BOOLEAN, p \in BOOLEAN :
              Joined(u, k, i, c, w, p) => Joined(u, sent, i, c, w, p)
    BY <1>1, <2>1, SentIsStreamed
  <2> HIDE DEF sent
  <2> QED
    BY <2>1, <2>2, <1>3
<1>5. CASE ClientReads(c)
  <2>1. k.here = "open" /\ k.down # <<>> /\ client' = [client EXCEPT ![c] = read]
    BY <1>5 DEF ClientReads
  <2> HIDE DEF k
  <2>2. /\ ~FreshClient(k, c)
        /\ \A u \in Uplinks : \A i : \A w \in BOOLEAN, p \in BOOLEAN :
              Joined(u, k, i, c, w, p) => Joined(u, read, i, c, w, p)
    BY <1>1, <2>1, ReadIsStreamed
  <2> HIDE DEF read
  <2> QED
    BY <2>1, <2>2, <1>3
<1> QED
  BY <1>4, <1>5

-----------------------------------------------------------------------------
(* The relay pairs. *)
LEMMA AddedOnce ==
    ASSUME NEW S, NEW q \in Seq(S), NEW x \in S, x \notin ToSet(q), OnlyOnce(q)
    PROVE  OnlyOnce(Append(q, x))
<1> DEFINE p == Append(q, x)
<1>1. /\ p \in Seq(S) /\ Len(p) = Len(q) + 1 /\ p[Len(q) + 1] = x
      /\ \A k \in 1..Len(q) : p[k] = q[k]
      /\ Len(q) \in Nat
  BY AppendProperties, LenProperties
<1>2. \A k \in 1..Len(q) : q[k] # x
  BY QueueElements
<1> HIDE DEF p
<1>3. ASSUME NEW m \in 1..Len(p), NEW n \in 1..Len(p), p[m] = p[n]
      PROVE  m = n
  <2>1. \A k \in 1..Len(p) : k = Len(q) + 1 \/ (k \in 1..Len(q) /\ p[k] = q[k] /\ p[k] # x)
    BY <1>1, <1>2
  <2> QED
    BY <2>1, <1>1, <1>3 DEF OnlyOnce
<1>4. OnlyOnce(p)
  BY <1>3 DEF OnlyOnce
<1> QED
  BY <1>4 DEF p

LEMMA HeadOnce ==
    ASSUME NEW S, NEW q \in Seq(S), q # <<>>, OnlyOnce(q)
    PROVE  OnlyOnce(Tail(q)) /\ Head(q) \notin ToSet(Tail(q))
<1> DEFINE t == Tail(q)
<1>1. /\ t \in Seq(S) /\ Len(t) = Len(q) - 1 /\ Head(q) = q[1]
      /\ \A k \in 1..Len(t) : t[k] = q[k + 1]
      /\ Len(q) \in Nat \ {0}
  BY HeadTailProperties, EmptySeq
<1> HIDE DEF t
<1>2. \A k \in 1..Len(t) : k + 1 \in 1..Len(q) /\ k + 1 # 1
  BY <1>1
<1>3. ASSUME NEW m \in 1..Len(t), NEW n \in 1..Len(t), t[m] = t[n]
      PROVE  m = n
  <2>1. q[m + 1] = q[n + 1]
    BY <1>1, <1>3
  <2>2. m + 1 = n + 1
    BY <1>2, <2>1 DEF OnlyOnce
  <2> QED
    BY <2>2, <1>1
<1>4. ASSUME NEW k \in 1..Len(t)
      PROVE  t[k] # Head(q)
  <2>1. 1 \in 1..Len(q)
    BY <1>1
  <2>2. q[k + 1] # q[1]
    BY <1>2, <2>1 DEF OnlyOnce
  <2> QED
    BY <2>2, <1>1
<1>5. Head(q) \notin ToSet(t)
  BY <1>1, <1>4, QueueElements
<1> QED
  BY <1>3, <1>5 DEF OnlyOnce, t

Paired(r, t, us, cs) ==
    /\ OnlyOnce(t.uplinks) /\ OnlyOnce(t.clients) /\ t.piping = r.piping
    /\ ToSet(t.uplinks) \subseteq ToSet(r.uplinks)
    /\ ToSet(t.clients) \subseteq ToSet(r.clients)
    /\ \/ t.pairing = r.pairing
       \/ \E i \in ToSet(r.uplinks) \cap us, c \in ToSet(r.clients) \cap cs :
             /\ t.pairing = r.pairing \cup {<<i, c>>}
             /\ i \notin ToSet(t.uplinks) /\ c \notin ToSet(t.clients)

LEMMA TryPairPairs ==
    ASSUME NEW r \in Relays, NEW us, NEW cs, OnlyOnce(r.uplinks), OnlyOnce(r.clients)
    PROVE  Paired(r, TryPair(r, us, cs), us, cs)
<1> DEFINE a == FromLive(r.uplinks, us)
           b == FromLive(r.clients, cs)
           t == TryPair(r, us, cs)
           pairs == r.pairing \cup {<<Head(a), Head(b)>>}
<1>1. r.uplinks \in Seq(Dials) /\ r.clients \in Seq(Clients)
  BY DEF Relays
<1>2. /\ a \in Seq(Dials) /\ ToSet(a) \subseteq ToSet(r.uplinks) /\ OnlyOnce(a)
      /\ a # <<>> => Head(a) \in us
  BY <1>1, LiveQueue
<1>3. /\ b \in Seq(Clients) /\ ToSet(b) \subseteq ToSet(r.clients) /\ OnlyOnce(b)
      /\ b # <<>> => Head(b) \in cs
  BY <1>1, LiveQueue
<1>4. t = IF a = <<>> \/ b = <<>> THEN [r EXCEPT !.uplinks = a, !.clients = b]
          ELSE [r EXCEPT !.uplinks = Tail(a), !.clients = Tail(b), !.pairing = pairs]
  BY DEF TryPair
<1> HIDE DEF a, b, t
<1>5. CASE a = <<>> \/ b = <<>>
  <2>1. /\ t.piping = r.piping /\ t.pairing = r.pairing
        /\ t.uplinks = a /\ t.clients = b
    BY <1>4, <1>5 DEF Relays
  <2> QED
    BY <2>1, <1>2, <1>3 DEF t, Paired
<1>6. CASE a # <<>> /\ b # <<>>
  <2>1. /\ ToSet(a) = {Head(a)} \cup ToSet(Tail(a)) /\ OnlyOnce(Tail(a))
        /\ Head(a) \notin ToSet(Tail(a))
    BY <1>2, <1>6, QueueElements, HeadOnce
  <2>2. /\ ToSet(b) = {Head(b)} \cup ToSet(Tail(b)) /\ OnlyOnce(Tail(b))
        /\ Head(b) \notin ToSet(Tail(b))
    BY <1>3, <1>6, QueueElements, HeadOnce
  <2> HIDE DEF pairs
  <2>3. /\ t.piping = r.piping /\ t.pairing = pairs
        /\ t.uplinks = Tail(a) /\ t.clients = Tail(b)
    BY <1>4, <1>6 DEF Relays
  <2>4. /\ Head(a) \in ToSet(r.uplinks) \cap us /\ Head(b) \in ToSet(r.clients) \cap cs
        /\ ToSet(Tail(a)) \subseteq ToSet(r.uplinks)
        /\ ToSet(Tail(b)) \subseteq ToSet(r.clients)
    BY <2>1, <2>2, <1>2, <1>3, <1>6
  <2>5. \E i \in ToSet(r.uplinks) \cap us, c \in ToSet(r.clients) \cap cs :
           /\ t.pairing = r.pairing \cup {<<i, c>>}
           /\ i \notin ToSet(t.uplinks) /\ c \notin ToSet(t.clients)
    BY <2>1, <2>2, <2>3, <2>4 DEF pairs
  <2> QED
    BY <2>1, <2>2, <2>3, <2>4, <2>5 DEF t, Paired
<1> QED
  BY <1>5, <1>6

Readied(u) == [u EXCEPT !.down = Sent(u.down, u.near, Line("ready"))]

LEMMA NewlyJoined ==
    ASSUME NEW u \in Uplinks, FreshUplink(u), u.far = "open",
           NEW k \in HandheldEnds, NEW c, FreshClient(k, c), k.there = "open",
           NEW i, NEW v, v = Readied(u)
    PROVE  Joined(v, k, i, c, TRUE, FALSE)
<1> DEFINE down == Sent(u.down, u.near, Line("ready"))
<1>1. u.near = "offered" \/ Gone(u.near)
  BY DEF FreshUplink, Uplinks, NearStates, Gone
<1>2. /\ u.served = <<>> /\ u.said = 0 /\ u.down = <<>> /\ u.up = <<>>
      /\ u.local # "connecting" /\ k.heard = <<>> /\ k.down = <<>> /\ k.here # "none"
      /\ Run(k.up, c, 0) /\ Len(k.up) = k.sent
  BY DEF FreshUplink, FreshClient
<1>3. Gone(u.near) => down = <<>>
  BY <1>2 DEF Sent
<1>4. Len(down) <= 1
  <2>1. Len(<<>>) = 0
    BY EmptySeq
  <2>2. Line("ready") \in Lines /\ u.down \in Seq(Lines)
    BY LinesAreLines DEF Uplinks
  <2>3. Len(Append(u.down, Line("ready"))) = Len(u.down) + 1
    BY <2>2, AppendProperties
  <2>4. down = u.down \/ down = Append(u.down, Line("ready"))
    BY DEF Sent
  <2>5. Len(u.down) = 0
    BY <1>2, <2>1
  <2> DEFINE a == Len(u.down)  b == Len(Append(u.down, Line("ready")))
  <2>6. Len(down) = a \/ Len(down) = b
    BY <2>4
  <2>7. b = a + 1 /\ a = 0
    BY <2>3, <2>5
  <2> DEFINE d == Len(down)
  <2>8. d = a \/ d = b
    BY <2>6
  <2> HIDE DEF a, b, d
  <2>9. d <= 1
    BY <2>7, <2>8
  <2> QED
    BY <2>9 DEF d
<1>5. v = [u EXCEPT !.down = down]
  BY DEF Readied
<1> HIDE DEF down
<1>6. /\ v.near = u.near /\ v.local = u.local /\ v.down = down /\ v.far = "open"
      /\ v.up = <<>> /\ v.served = <<>> /\ v.said = 0
  BY <1>2, <1>5 DEF Uplinks
<1>7. NothingPiped(v, k)
  <2>1. Len(<<>>) = 0
    BY EmptySeq
  <2> QED
    BY <1>1, <1>2, <1>6, <2>1 DEF NothingPiped, Gone
<1>8. Upwards(v, k, c)
  <2>1. Reached(v) = 0
    <3>1. v.near # "piping" /\ Len(v.served) = 0
      BY <1>1, <1>6, EmptySeq DEF Gone
    <3> QED
      BY <3>1 DEF Reached
  <2>2. Run(v.served, c, 0) /\ v.near # "piping"
    BY <1>1, <1>6, EmptyRun DEF Gone
  <2>3. 0 + Len(k.up) = k.sent
    BY <1>2, ShortQueue DEF HandheldEnds
  <2> QED
    BY <1>2, <2>1, <2>2, <2>3 DEF Upwards
<1>9. Downwards(v, k, i, FALSE)
  BY <1>2, EmptyRun DEF Downwards
<1> QED
  BY <1>1, <1>2, <1>3, <1>4, <1>6, <1>7, <1>8, <1>9 DEF Joined, Gone

(* What the relay does when a socket joins a queue: perhaps one pair.       *)
LEMMA PairingStreams ==
    ASSUME Typed, Typed', NEW m \in SUBSET (Dials \X Clients), Streams(m),
           NEW us \in [Dials -> Uplinks], NEW r \in Relays,
           \A i \in Dials : \/ us[i] = uplink[i]
                            \/ FreshUplink(us[i]) /\ \A c \in Clients : <<i, c>> \notin m,
           \A i \in Dials : FreshUplink(uplink[i]) => FreshUplink(us[i]),
           \A c \in Clients :
              \/ client'[c] = client[c]
              \/ FreshClient(client'[c], c) /\ \A i \in Dials : <<i, c>> \notin m,
           \A c \in Clients : FreshClient(client[c], c) => FreshClient(client'[c], c),
           r.pairing = relay.pairing, r.piping = relay.piping,
           \A i \in ToSet(r.uplinks) :
              i \in Dials /\ \A c \in Clients : <<i, c>> \notin m,
           \A c \in ToSet(r.clients) :
              c \in Clients /\ \A i \in Dials : <<i, c>> \notin m,
           Paired(r, relay', LiveUplinks(us), LiveClients(client')),
           uplink' = Informed(us, relay')
    PROVE  StreamsInv'
<1>1. /\ Matching(m)
      /\ \A i \in Dials : (\E c \in Clients : <<i, c>> \in m) \/ FreshUplink(uplink[i])
      /\ \A c \in Clients : (\E i \in Dials : <<i, c>> \in m) \/ FreshClient(client[c], c)
      /\ \A i \in Dials, c \in Clients : <<i, c>> \in m =>
            Joined(uplink[i], client[c], i, c, <<i, c>> \in relay.pairing,
                   <<i, c>> \in relay.piping)
  BY DEF Streams
<1>2. /\ OnlyOnce(relay'.uplinks) /\ OnlyOnce(relay'.clients)
      /\ relay'.piping = relay.piping
      /\ ToSet(relay'.uplinks) \subseteq ToSet(r.uplinks)
      /\ ToSet(relay'.clients) \subseteq ToSet(r.clients)
  BY DEF Paired
<1>3. ASSUME NEW i \in Dials, \A c \in Clients : <<i, c>> \notin m
      PROVE  FreshUplink(us[i])
  BY <1>1, <1>3
<1>4. ASSUME NEW c \in Clients, \A i \in Dials : <<i, c>> \notin m
      PROVE  FreshClient(client'[c], c)
  BY <1>1, <1>4
<1>5. ASSUME NEW i \in Dials, NEW c \in Clients, <<i, c>> \in m
      PROVE  us[i] = uplink[i] /\ client'[c] = client[c]
  BY <1>5
<1>6. CASE relay'.pairing = r.pairing
  <2>1. uplink' = us
    <3>1. \A i \in Dials : uplink'[i] = us[i]
      BY <1>6 DEF Informed
    <3> QED
      BY <3>1 DEF Typed
  <2>2. Matching(m)'
    BY <1>1, <1>2, <1>6 DEF Matching
  <2>3. \A i \in Dials : (\E c \in Clients : <<i, c>> \in m) \/ FreshUplink(uplink'[i])
    BY <1>3, <2>1
  <2>4. \A c \in Clients : (\E i \in Dials : <<i, c>> \in m) \/ FreshClient(client'[c], c)
    BY <1>4
  <2>5. ASSUME NEW i \in Dials, NEW c \in Clients, <<i, c>> \in m
        PROVE  Joined(uplink'[i], client'[c], i, c, <<i, c>> \in relay'.pairing,
                      <<i, c>> \in relay'.piping)
    <3>1. uplink'[i] = uplink[i] /\ client'[c] = client[c]
      BY <1>5, <2>1, <2>5
    <3>2. relay'.pairing = relay.pairing /\ relay'.piping = relay.piping
      BY <1>2, <1>6
    <3>3. Joined(uplink[i], client[c], i, c, <<i, c>> \in relay.pairing,
                 <<i, c>> \in relay.piping)
      BY <1>1, <2>5
    <3> QED
      BY <3>1, <3>2, <3>3
  <2> QED
    BY <2>2, <2>3, <2>4, <2>5, StreamsAre
<1>7. ASSUME NEW h \in ToSet(r.uplinks) \cap LiveUplinks(us),
             NEW d \in ToSet(r.clients) \cap LiveClients(client'),
             relay'.pairing = r.pairing \cup {<<h, d>>},
             h \notin ToSet(relay'.uplinks), d \notin ToSet(relay'.clients)
      PROVE  StreamsInv'
  <2> DEFINE n == m \cup {<<h, d>>}
  <2>1. /\ h \in Dials /\ d \in Clients
        /\ \A c \in Clients : <<h, c>> \notin m
        /\ \A i \in Dials : <<i, d>> \notin m
        /\ us[h].far = "open" /\ client'[d].there = "open"
    BY <1>7 DEF LiveUplinks, LiveClients
  <2>2. <<h, d>> \notin relay.pairing /\ <<h, d>> \notin relay.piping
    BY <1>1, <2>1 DEF Matching
  <2>3. Matching(n)'
    <3>1. n \subseteq Dials \X Clients
      BY <2>1
    <3>2. \A i \in Dials, c \in Clients : <<i, c>> \in n <=> <<i, c>> \in m \/ (i = h /\ c = d)
      OBVIOUS
    <3>3. relay'.pairing \subseteq n /\ relay'.piping \subseteq n
      BY <1>1, <1>2, <1>7 DEF Matching
    <3>4. \A i \in ToSet(relay'.uplinks) :
             i \in Dials /\ i # h /\ \A c \in Clients : <<i, c>> \notin m
      BY <1>2, <1>7
    <3>5. \A c \in ToSet(relay'.clients) :
             c \in Clients /\ c # d /\ \A i \in Dials : <<i, c>> \notin m
      BY <1>2, <1>7
    <3> HIDE DEF n
    <3>6. \A i \in Dials, c \in Clients, e \in Clients : <<i, c>> \in n /\ <<i, e>> \in n => c = e
      BY <1>1, <2>1, <3>2 DEF Matching
    <3>7. \A i \in Dials, j \in Dials, c \in Clients : <<i, c>> \in n /\ <<j, c>> \in n => i = j
      BY <1>1, <2>1, <3>2 DEF Matching
    <3>8. /\ \A i \in ToSet(relay'.uplinks), c \in Clients : <<i, c>> \notin n
          /\ \A c \in ToSet(relay'.clients), i \in Dials : <<i, c>> \notin n
      BY <3>2, <3>4, <3>5
    <3> QED
      BY <1>2, <3>1, <3>3, <3>6, <3>7, <3>8 DEF Matching
  <2>4. ASSUME NEW i \in Dials
        PROVE  uplink'[i] = IF i = h THEN Readied(us[i]) ELSE us[i]
    <3>1. relay'.pairing \ relay.pairing = {<<h, d>>}
      BY <1>7, <2>2
    <3>2. <<h, d>>[1] = h
      OBVIOUS
    <3>3. (\E p \in {<<h, d>>} : p[1] = i) <=> i = h
      BY <3>2
    <3>4. (\E p \in relay'.pairing \ relay.pairing : p[1] = i) <=> i = h
      BY <3>1, <3>3
    <3>5. uplink'[i] = IF \E p \in relay'.pairing \ relay.pairing : p[1] = i
                       THEN Readied(us[i]) ELSE us[i]
      BY DEF Informed, Readied
    <3> QED
      BY <3>4, <3>5
  <2>5. ASSUME NEW i \in Dials, ~\E c \in Clients : <<i, c>> \in n
        PROVE  FreshUplink(uplink'[i])
    <3>1. i # h /\ \A c \in Clients : <<i, c>> \notin m
      BY <2>1, <2>5
    <3> QED
      BY <1>3, <2>4, <3>1
  <2>6. ASSUME NEW c \in Clients, ~\E i \in Dials : <<i, c>> \in n
        PROVE  FreshClient(client'[c], c)
    BY <1>4, <2>6
  <2>7. ASSUME NEW i \in Dials, NEW c \in Clients, <<i, c>> \in n
        PROVE  Joined(uplink'[i], client'[c], i, c, <<i, c>> \in relay'.pairing,
                      <<i, c>> \in relay'.piping)
    <3>1. CASE <<i, c>> \in m
      <4>1. i # h /\ c # d
        BY <2>1, <3>1
      <4>2. uplink'[i] = uplink[i] /\ client'[c] = client[c]
        BY <1>5, <2>4, <3>1, <4>1
      <4>3. /\ (<<i, c>> \in relay'.pairing) = (<<i, c>> \in relay.pairing)
            /\ relay'.piping = relay.piping
        BY <1>2, <1>7, <4>1
      <4>4. Joined(uplink[i], client[c], i, c, <<i, c>> \in relay.pairing,
                   <<i, c>> \in relay.piping)
        BY <1>1, <3>1
      <4> QED
        BY <4>2, <4>3, <4>4
    <3>2. CASE <<i, c>> \notin m
      <4>1. i = h /\ c = d
        BY <2>7, <3>2
      <4>2. FreshUplink(us[h]) /\ FreshClient(client'[d], d)
        BY <1>3, <1>4, <2>1
      <4>3. us[h] \in Uplinks /\ client'[d] \in HandheldEnds
        BY <2>1 DEF Typed
      <4>4. uplink'[h] = Readied(us[h])
        BY <2>1, <2>4
      <4>5. <<h, d>> \in relay'.pairing /\ <<h, d>> \notin relay'.piping
        BY <1>2, <1>7, <2>2
      <4> DEFINE w == <<h, d>> \in relay'.pairing
                 p == <<h, d>> \in relay'.piping
      <4>6. w \in BOOLEAN /\ p \in BOOLEAN /\ w /\ ~p
        BY <4>5
      <4> DEFINE u == us[h]  v == uplink'[h]  k == client'[d]
      <4>7. /\ u \in Uplinks /\ FreshUplink(u) /\ u.far = "open"
            /\ k \in HandheldEnds /\ FreshClient(k, d) /\ k.there = "open"
            /\ v = Readied(u)
        BY <2>1, <4>2, <4>3, <4>4
      <4> HIDE DEF w, p, u, v, k
      <4>8. Joined(v, k, h, d, TRUE, FALSE)
        BY <4>7, NewlyJoined
      <4>9. w = TRUE /\ p = FALSE
        BY <4>6
      <4> QED
        BY <4>1, <4>8, <4>9 DEF w, p, v, k
    <3> QED
      BY <3>1, <3>2
  <2>8. n \in SUBSET (Dials \X Clients)
    BY <2>1
  <2> HIDE DEF n
  <2> QED
    BY <2>3, <2>5, <2>6, <2>7, <2>8, StreamsAre
<1> QED
  BY <1>6, <1>7 DEF Paired

LEMMA ReadGreetingStreams ==
    ASSUME Typed, Typed', RelayInv, StreamsInv, NEW i \in Dials, ReadGreeting(i)
    PROVE  StreamsInv'
<1> DEFINE refused == Refuses(relay, relay.uplinks)
           far == IF refused THEN "ending" ELSE "open"
           u == uplink[i]
           up == Tail(u.up)
           v == [u EXCEPT !.up = up, !.far = far]
           greeted == [uplink EXCEPT ![i] = v]
           q == Append(relay.uplinks, i)
           r == [relay EXCEPT !.uplinks = q]
           t == TryPair(r, LiveUplinks(greeted), LiveClients(client))
<1>1. /\ client' = client /\ u.far = "greeting" /\ u.up # <<>>
      /\ refused => uplink' = greeted /\ relay' = relay
      /\ ~refused => uplink' = Informed(greeted, t) /\ relay' = t
  BY DEF ReadGreeting, QueueUplink
<1>2. relay \in Relays /\ uplink \in [Dials -> Uplinks] /\ u \in Uplinks
  BY DEF Typed
<1>3. PICK m \in SUBSET (Dials \X Clients) : Streams(m)
  BY DEF StreamsInv
<1>4. \A c \in Clients : <<i, c>> \notin m
  BY <1>1, <1>3 DEF Streams, Joined
<1>5. FreshUplink(u)
  BY <1>3, <1>4 DEF Streams
<1>6. /\ far \in SocketStates /\ far \in {"ending", "open"}
      /\ refused => far = "ending"
  BY DEF SocketStates
<1>7. up = <<>> /\ up \in Seq(Lines)
  <2>1. Len(u.up) <= 1 /\ u.up \in Seq(Lines)
    BY <1>2, <1>5 DEF FreshUplink, Uplinks
  <2>2. up = <<>>
    BY <1>1, <2>1, ShortQueue
  <2> QED
    BY <2>2, EmptySeq
<1>8. u.near \notin {"none", "dialling"}
  BY <1>1, <1>5 DEF FreshUplink
<1> HIDE DEF refused, far, up
<1>9. /\ v \in Uplinks /\ v.near = u.near /\ v.local = u.local /\ v.far = far
      /\ v.up = <<>> /\ v.down = u.down /\ v.served = u.served /\ v.said = u.said
  BY <1>2, <1>6, <1>7 DEF Uplinks
<1>10. FreshUplink(v)
  <2>1. Len(<<>>) <= 1
    BY EmptySeq
  <2> QED
    BY <1>5, <1>8, <1>9, <2>1 DEF FreshUplink
<1> HIDE DEF v
<1>11. /\ greeted \in [Dials -> Uplinks] /\ greeted[i] = v
       /\ \A j \in Dials : j # i => greeted[j] = uplink[j]
  BY <1>2, <1>9
<1> HIDE DEF greeted, t
<1>12. CASE refused
  <2>1. uplink' = greeted /\ relay' = relay /\ client' = client
    BY <1>1, <1>12
  <2>2. Matching(m)'
    BY <1>3, <2>1 DEF Streams, Matching
  <2>3. ASSUME NEW j \in Dials, ~\E c \in Clients : <<j, c>> \in m
        PROVE  FreshUplink(uplink'[j])
    BY <1>3, <1>10, <1>11, <2>1, <2>3 DEF Streams
  <2>4. ASSUME NEW c \in Clients, ~\E j \in Dials : <<j, c>> \in m
        PROVE  FreshClient(client'[c], c)
    BY <1>3, <2>1, <2>4 DEF Streams
  <2>5. ASSUME NEW j \in Dials, NEW c \in Clients, <<j, c>> \in m
        PROVE  Joined(uplink'[j], client'[c], j, c, <<j, c>> \in relay'.pairing,
                      <<j, c>> \in relay'.piping)
    <3>1. uplink'[j] = uplink[j]
      BY <1>4, <1>11, <2>1, <2>5
    <3>2. Joined(uplink[j], client[c], j, c, <<j, c>> \in relay.pairing,
                 <<j, c>> \in relay.piping)
      BY <1>3, <2>5 DEF Streams
    <3> QED
      BY <2>1, <3>1, <3>2
  <2> QED
    BY <2>2, <2>3, <2>4, <2>5, StreamsAre
<1>13. CASE ~refused
  <2>1. uplink' = Informed(greeted, relay') /\ relay' = t /\ client' = client
    BY <1>1, <1>13
  <2>2. relay.uplinks \in Seq(Dials) /\ relay.clients \in Seq(Clients)
    BY <1>2 DEF Relays
  <2>3. q \in Seq(Dials) /\ ToSet(q) = ToSet(relay.uplinks) \cup {i}
    BY <2>2, QueueElements, AppendProperties
  <2>4. i \notin ToSet(relay.uplinks)
    BY <1>1 DEF RelayInv, WaitersWereHeard
  <2>5. OnlyOnce(relay.uplinks) /\ OnlyOnce(relay.clients)
    BY <1>3 DEF Streams, Matching
  <2>6. OnlyOnce(q)
    BY <2>2, <2>4, <2>5, AddedOnce
  <2> HIDE DEF q
  <2>7. /\ r \in Relays /\ r.uplinks = q /\ r.clients = relay.clients
        /\ r.pairing = relay.pairing /\ r.piping = relay.piping
    BY <1>2, <2>3 DEF Relays
  <2> HIDE DEF r
  <2>8. Paired(r, relay', LiveUplinks(greeted), LiveClients(client'))
    BY <2>1, <2>5, <2>6, <2>7, TryPairPairs DEF t
  <2>9. \A j \in ToSet(r.uplinks) : j \in Dials /\ \A c \in Clients : <<j, c>> \notin m
    <3>1. \A j \in ToSet(relay.uplinks) : j \in Dials /\ \A c \in Clients : <<j, c>> \notin m
      BY <1>3, <2>2, QueueElements DEF Streams, Matching
    <3> QED
      BY <1>4, <2>3, <2>7, <3>1
  <2>10. \A c \in ToSet(r.clients) : c \in Clients /\ \A j \in Dials : <<j, c>> \notin m
    BY <1>3, <2>2, <2>7, QueueElements DEF Streams, Matching
  <2>11. /\ \A j \in Dials : \/ greeted[j] = uplink[j]
                             \/ FreshUplink(greeted[j]) /\ \A c \in Clients : <<j, c>> \notin m
         /\ \A j \in Dials : FreshUplink(uplink[j]) => FreshUplink(greeted[j])
    BY <1>4, <1>10, <1>11
  <2>12. /\ \A c \in Clients : client'[c] = client[c]
         /\ \A c \in Clients : FreshClient(client[c], c) => FreshClient(client'[c], c)
    BY <2>1
  <2> QED
    BY <1>3, <1>11, <2>1, <2>7, <2>8, <2>9, <2>10, <2>11, <2>12, PairingStreams
<1> QED
  BY <1>12, <1>13

LEMMA AcceptClientStreams ==
    ASSUME Typed, Typed', RelayInv, StreamsInv, NEW c \in Clients, AcceptClient(c)
    PROVE  StreamsInv'
<1> DEFINE refused == Refuses(relay, relay.clients)
           there == IF refused THEN "ending" ELSE "open"
           k == client[c]
           l == [k EXCEPT !.here = "open", !.there = there]
           q == Append(relay.clients, c)
           r == [relay EXCEPT !.clients = q]
           t == TryPair(r, LiveUplinks(uplink), LiveClients(client'))
<1>1. /\ k.here = "none" /\ client' = [client EXCEPT ![c] = l]
      /\ refused => uplink' = uplink /\ relay' = relay
      /\ ~refused => uplink' = Informed(uplink, t) /\ relay' = t
  BY DEF AcceptClient, QueueClient
<1>2. /\ relay \in Relays /\ uplink \in [Dials -> Uplinks]
      /\ client \in [Clients -> HandheldEnds] /\ k \in HandheldEnds
  BY DEF Typed
<1>3. PICK m \in SUBSET (Dials \X Clients) : Streams(m)
  BY DEF StreamsInv
<1>4. \A i \in Dials : <<i, c>> \notin m
  BY <1>1, <1>3 DEF Streams, Joined
<1>5. FreshClient(k, c)
  BY <1>3, <1>4 DEF Streams
<1>6. there \in SocketStates /\ there \in {"ending", "open"}
  BY DEF SocketStates
<1> HIDE DEF refused, there
<1>7. /\ l \in HandheldEnds /\ l.here = "open" /\ l.there = there /\ l.up = k.up
      /\ l.down = k.down /\ l.sent = k.sent /\ l.heard = k.heard
  BY <1>2, <1>6 DEF HandheldEnds, HereStates
<1> HIDE DEF l
<1>8. FreshClient(l, c)
  <2>1. k.sent = 0 /\ k.up = <<>> /\ k.heard = <<>> /\ k.down = <<>>
    BY <1>1, <1>5 DEF FreshClient
  <2>2. Run(<<>>, c, 0) /\ Len(<<>>) = 0
    BY EmptyRun, EmptySeq
  <2> QED
    BY <1>6, <1>7, <2>1, <2>2 DEF FreshClient
<1>9. client'[c] = l /\ \A d \in Clients : d # c => client'[d] = client[d]
  BY <1>1, <1>2, <1>7
<1> HIDE DEF t
<1>10. CASE refused
  <2>1. uplink' = uplink /\ relay' = relay
    BY <1>1, <1>10
  <2>2. Matching(m)'
    BY <1>3, <2>1 DEF Streams, Matching
  <2>3. ASSUME NEW j \in Dials, ~\E d \in Clients : <<j, d>> \in m
        PROVE  FreshUplink(uplink'[j])
    BY <1>3, <2>1, <2>3 DEF Streams
  <2>4. ASSUME NEW d \in Clients, ~\E j \in Dials : <<j, d>> \in m
        PROVE  FreshClient(client'[d], d)
    BY <1>3, <1>8, <1>9, <2>4 DEF Streams
  <2>5. ASSUME NEW j \in Dials, NEW d \in Clients, <<j, d>> \in m
        PROVE  Joined(uplink'[j], client'[d], j, d, <<j, d>> \in relay'.pairing,
                      <<j, d>> \in relay'.piping)
    <3>1. client'[d] = client[d]
      BY <1>4, <1>9, <2>5
    <3>2. Joined(uplink[j], client[d], j, d, <<j, d>> \in relay.pairing,
                 <<j, d>> \in relay.piping)
      BY <1>3, <2>5 DEF Streams
    <3> QED
      BY <2>1, <3>1, <3>2
  <2> QED
    BY <2>2, <2>3, <2>4, <2>5, StreamsAre
<1>11. CASE ~refused
  <2>1. uplink' = Informed(uplink, relay') /\ relay' = t
    BY <1>1, <1>11
  <2>2. relay.uplinks \in Seq(Dials) /\ relay.clients \in Seq(Clients)
    BY <1>2 DEF Relays
  <2>3. q \in Seq(Clients) /\ ToSet(q) = ToSet(relay.clients) \cup {c}
    BY <2>2, QueueElements, AppendProperties
  <2>4. c \notin ToSet(relay.clients)
    BY <1>1 DEF RelayInv, WaitersWereHeard
  <2>5. OnlyOnce(relay.uplinks) /\ OnlyOnce(relay.clients)
    BY <1>3 DEF Streams, Matching
  <2>6. OnlyOnce(q)
    BY <2>2, <2>4, <2>5, AddedOnce
  <2> HIDE DEF q
  <2>7. /\ r \in Relays /\ r.uplinks = relay.uplinks /\ r.clients = q
        /\ r.pairing = relay.pairing /\ r.piping = relay.piping
    BY <1>2, <2>3 DEF Relays
  <2> HIDE DEF r
  <2>8. Paired(r, relay', LiveUplinks(uplink), LiveClients(client'))
    BY <2>1, <2>5, <2>6, <2>7, TryPairPairs DEF t
  <2>9. \A j \in ToSet(r.uplinks) : j \in Dials /\ \A d \in Clients : <<j, d>> \notin m
    BY <1>3, <2>2, <2>7, QueueElements DEF Streams, Matching
  <2>10. \A d \in ToSet(r.clients) : d \in Clients /\ \A j \in Dials : <<j, d>> \notin m
    <3>1. \A d \in ToSet(relay.clients) : d \in Clients /\ \A j \in Dials : <<j, d>> \notin m
      BY <1>3, <2>2, QueueElements DEF Streams, Matching
    <3> QED
      BY <1>4, <2>3, <2>7, <3>1
  <2>11. /\ \A d \in Clients : \/ client'[d] = client[d]
                               \/ FreshClient(client'[d], d) /\ \A j \in Dials : <<j, d>> \notin m
         /\ \A d \in Clients : FreshClient(client[d], d) => FreshClient(client'[d], d)
    BY <1>4, <1>8, <1>9
  <2> QED
    BY <1>2, <1>3, <2>1, <2>7, <2>8, <2>9, <2>10, <2>11, PairingStreams
<1> QED
  BY <1>10, <1>11

-----------------------------------------------------------------------------
(* The inductive invariant of the streams, beside that of the relay.        *)
LEMMA InitStreams == Init => StreamsInv
<1> SUFFICES ASSUME Init
             PROVE  StreamsInv
  OBVIOUS
<1>1. /\ relay.uplinks = <<>> /\ relay.clients = <<>>
      /\ relay.pairing = {} /\ relay.piping = {}
      /\ uplink = [i \in Dials |-> NoUplink] /\ client = [c \in Clients |-> NoClient]
  BY DEF Init, NewRelay
<1>2. Matching({})
  BY <1>1, EmptyQueue DEF Matching
<1>3. \A i \in Dials : FreshUplink(uplink[i])
  <2>1. Len(<<>>) <= 1
    BY EmptySeq
  <2> QED
    BY <1>1, <2>1 DEF NoUplink, FreshUplink
<1>4. \A c \in Clients : FreshClient(client[c], c)
  BY <1>1 DEF NoClient, FreshClient
<1>5. Streams({})
  BY <1>2, <1>3, <1>4 DEF Streams
<1> QED
  BY <1>5 DEF StreamsInv

LEMMA NextKeepsStreams ==
    RelayTunnelInv /\ RelayTunnelInv' /\ StreamsInv /\ [Next]_vars => StreamsInv'
<1> SUFFICES ASSUME Typed, Typed', RelayInv, StreamsInv, [Next]_vars
             PROVE  StreamsInv'
  BY DEF RelayTunnelInv
<1>1. WaitersWereHeard
  BY DEF RelayInv
<1>2. CASE StartTunnel \/ \E s \in Slots : Redial(s)
  BY <1>1, <1>2, DialStreams
<1>3. CASE CloseTunnel
  BY <1>3, CloseTunnelStreams
<1>4. CASE StartRelay
  BY <1>4, StartRelayStreams
<1>5. CASE \E i \in Dials : \/ Connect(i) \/ ReadReady(i) \/ LocalConnect(i)
                            \/ PipeToServer(i) \/ ServerAnswers(i)
  BY <1>5, AttemptMovesStreams
<1>6. CASE \E i \in Dials :
              \/ ConnectFails(i) \/ LocalFails(i) \/ ServerHangsUp(i) \/ NearEnds(i)
              \/ ResetNear(i) \/ NearCloses(i) \/ LocalCloses(i) \/ FarEnds(i)
  BY <1>6, UplinkFadesStreams
<1>7. CASE \E i \in Dials : ReadGreeting(i)
  BY <1>7, ReadGreetingStreams
<1>8. CASE \E c \in Clients : AcceptClient(c)
  BY <1>8, AcceptClientStreams
<1>9. CASE \/ \E i \in Dials : UplinkTimeout(i)
           \/ \E c \in Clients : ClientTimeout(c)
  BY <1>9, TimeoutStreams
<1>10. CASE \E c \in Clients : ClientEnds(c) \/ ClientLeaves(c) \/ ClientSeesEnd(c)
  BY <1>10, ClientFadesStreams
<1>11. CASE \E i \in Dials : FarCloses(i)
  BY <1>11, FarClosesStreams
<1>12. CASE \E c \in Clients : ClientCloses(c)
  BY <1>12, ClientClosesStreams
<1>13. CASE \E i \in Dials, c \in Clients : ReadConnected(i, c)
  BY <1>13, ReadConnectedStreams
<1>14. CASE \E i \in Dials, c \in Clients : PipeUp(i, c) \/ PipeDown(i, c)
  BY <1>14, PipeStreams
<1>15. CASE \E i \in Dials, c \in Clients : ActivationTimeout(i, c) \/ ResetPiped(i, c)
  BY <1>15, PairEndStreams
<1>16. CASE StopRelay
  BY <1>16, StopRelayStreams
<1>17. CASE ResetWaiting
  BY <1>17, ResetWaitingStreams
<1>18. CASE \E c \in Clients : ClientSends(c) \/ ClientReads(c)
  BY <1>18, HandheldStreams
<1>19. CASE UNCHANGED vars
  <2>1. uplink' = uplink /\ client' = client /\ relay' = relay
    BY <1>19 DEF vars
  <2>2. \A i \in Dials : UplinkFades(uplink[i], uplink'[i])
    BY <2>1, NothingFades DEF Typed
  <2> QED
    BY <2>1, <2>2, UplinksFade
<1> QED
  BY <1>2, <1>3, <1>4, <1>5, <1>6, <1>7, <1>8, <1>9, <1>10, <1>11, <1>12, <1>13, <1>14,
     <1>15, <1>16, <1>17, <1>18, <1>19
     DEF Next, TunnelStep, UplinkStep, ClientStep, Timeouts, Faults, Handheld

LEMMA RunIsFrom ==
    ASSUME NEW chunks \in Seq(Lines), NEW who, Run(chunks, who, 0)
    PROVE  IsFrom(chunks, who)
<1>1. \A n \in 1..Len(chunks) : chunks[n] = Data(who, n)
  BY DEF Run
<1>2. chunks = [n \in 1..Len(chunks) |-> chunks[n]]
  OBVIOUS
<1> QED
  BY <1>1, <1>2 DEF IsFrom

LEMMA StreamsInvPairs == Typed /\ StreamsInv => StreamsArePaired
<1> SUFFICES ASSUME Typed, StreamsInv
             PROVE  StreamsArePaired
  OBVIOUS
<1>1. PICK m \in SUBSET (Dials \X Clients) : Streams(m)
  BY DEF StreamsInv
<1>2. ASSUME NEW i \in Dials, NEW c \in Clients, <<i, c>> \in m
      PROVE  /\ Run(uplink[i].served, c, 0) /\ IsFrom(uplink[i].served, c)
             /\ IsFrom(client[c].heard, i)
  <2>1. Joined(uplink[i], client[c], i, c, <<i, c>> \in relay.pairing,
               <<i, c>> \in relay.piping)
    BY <1>1, <1>2 DEF Streams
  <2>2. Run(uplink[i].served, c, 0) /\ Run(client[c].heard, i, 0)
    BY <2>1 DEF Joined, Upwards, Downwards
  <2>3. uplink[i].served \in Seq(Lines) /\ client[c].heard \in Seq(Lines)
    BY DEF Typed, Uplinks, HandheldEnds
  <2> QED
    BY <2>2, <2>3, RunIsFrom
<1>3. ASSUME NEW i \in Dials, uplink[i].served # <<>>
      PROVE  \E c \in Clients : <<i, c>> \in m
  BY <1>1, <1>3 DEF Streams, FreshUplink
<1>4. ASSUME NEW i \in Dials, uplink[i].served # <<>>
      PROVE  \E c \in Clients :
                /\ IsFrom(uplink[i].served, c)
                /\ \A j \in Dials \ {i} : \A n \in 1..Len(uplink[j].served) :
                       uplink[j].served[n].from # c
  <2>1. PICK c \in Clients : <<i, c>> \in m
    BY <1>3, <1>4
  <2>2. ASSUME NEW j \in Dials \ {i}, NEW n \in 1..Len(uplink[j].served)
        PROVE  uplink[j].served[n].from # c
    <3>1. uplink[j].served # <<>>
      BY EmptySeq
    <3>2. PICK d \in Clients : <<j, d>> \in m
      BY <1>3, <3>1
    <3>3. d # c
      BY <1>1, <2>1, <3>2 DEF Streams, Matching
    <3>4. uplink[j].served[n] = Data(d, 0 + n)
      BY <1>2, <3>2 DEF Run
    <3> QED
      BY <3>3, <3>4 DEF Data
  <2> QED
    BY <1>2, <2>1, <2>2
<1>5. ASSUME NEW c \in Clients, client[c].heard # <<>>
      PROVE  \E i \in Dials : IsFrom(client[c].heard, i) /\ IsFrom(uplink[i].served, c)
  <2>1. PICK i \in Dials : <<i, c>> \in m
    BY <1>1, <1>5 DEF Streams, FreshClient
  <2> QED
    BY <1>2, <2>1
<1> QED
  BY <1>4, <1>5 DEF StreamsArePaired

(* What the server of an attempt has read is the beginning of what one       *)
(* client sent, nobody else's server has read any of it, and what that       *)
(* client has heard is the beginning of what this server said: however       *)
(* sockets, timers and signals end the connections, no byte of another       *)
(* stream, no line of the tunnel and no gap comes in between                 *)
(* (bridge/src/relay.ts, bridge/src/reverse-tunnel.ts).                      *)
THEOREM StreamsArePairedHolds == Spec => []StreamsArePaired
<1>1. Init => StreamsInv
  BY InitStreams
<1>2. RelayTunnelInv /\ RelayTunnelInv' /\ StreamsInv /\ [Next]_vars => StreamsInv'
  BY NextKeepsStreams
<1>3. RelayTunnelInv /\ StreamsInv => StreamsArePaired
  BY StreamsInvPairs DEF RelayTunnelInv
<1> QED
  BY <1>1, <1>2, <1>3, RelayTunnelIsInvariant, PTL DEF Spec
=============================================================================
