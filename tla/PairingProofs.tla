---------------------------- MODULE PairingProofs ----------------------------
(***************************************************************************)
(* Proofs about pairing, for any set of machines, any bounds and anything  *)
(* the camera may see: what the bridges' stores keep, what the 3DS may     *)
(* believe of them, and what its threads may do to the decoder's image.    *)
(***************************************************************************)
EXTENDS Pairing, SequenceTheorems, FiniteSetTheorems, TLAPS

Stores ==
    [file : SUBSET Nat, mem : SUBSET Nat, stamp : Nat, offer : Nat,
     step : {"none", "write", "stamp"}, overtaken : BOOLEAN]
Issues == [machine : Machines, code : Nat]
Commands ==
    {NoCommand} \cup [phase : {"loaded"}, machine : Machines, device : Nat,
                      devices : SUBSET Nat]
Records == {NoRecord} \cup [machine : Machines, device : Nat]
Requests ==
    {NoRequest} \cup [phase : {"sent", "asked", "answered"}, machine : Machines,
                      code : Nat, device : Nat]

StoreTyped ==
    /\ store \in [Machines -> Stores]
    /\ codes \in Seq(Machines)
    /\ issued \in Seq(Issues)
    /\ command \in Commands
    /\ revoked \in SUBSET Nat /\ lost \in SUBSET Nat

(* A code that is on offer was shown by its machine, and bought no key yet. *)
OffersAreOpen ==
    /\ \A d \in Devices : issued[d].code \in 1..Len(codes)
    /\ \A m \in Machines :
          /\ store[m].offer \in 0..Len(codes)
          /\ store[m].offer # 0 =>
                /\ codes[store[m].offer] = m
                /\ \A d \in Devices : issued[d].code # store[m].offer

(* A store lists all its file does.  No file is larger than the stamp that  *)
(* was taken of it, and while it has the size of its stamp, or is not yet   *)
(* stamped, it is what the store lists, unless a write overtook the stamp.  *)
Consistent(s) ==
    /\ s \in Stores
    /\ s.file \subseteq s.mem /\ IsFiniteSet(s.mem)
    /\ s.step = "stamp" => s.overtaken \/ s.mem = s.file
    /\ s.step # "stamp" =>
          /\ FileStamp(s) <= s.stamp
          /\ FileStamp(s) = s.stamp => s.overtaken \/ s.mem = s.file

(* The operator's process read no other devices than the file still lists.  *)
FilesAreOurs ==
    /\ \A m \in Machines : Consistent(store[m])
    /\ command.phase = "loaded" =>
          /\ command.device \in command.devices
          /\ command.devices \subseteq store[command.machine].file

Stored == StoreTyped /\ OffersAreOpen /\ OneCodeOneKey /\ FilesAreOurs

(* A key, once issued, stays known or is accounted for. *)
Accounted(m) == store[m].file \cup revoked \cup lost

KeysStay ==
    /\ Len(issued) <= Len(issued')
    /\ \A d \in Devices : issued'[d] = issued[d]
    /\ \A m \in Machines : Accounted(m) \subseteq Accounted(m)'

ClientTyped ==
    /\ sd \in Records /\ record \in Records
    /\ control \in Machines \cup {Nobody}
    /\ request \in Requests
    /\ strays \subseteq [machine : Machines, code : Nat]

-----------------------------------------------------------------------------
LEMMA UnchangedStore ==
    ASSUME Stored, UNCHANGED storeVars
    PROVE  Stored' /\ KeysStay
BY DEF Stored, StoreTyped, OffersAreOpen, OneCodeOneKey, FilesAreOurs, KeysStay,
       Accounted, Devices, storeVars, Issues

(* What the calls make of a store: it stays consistent, and no device and   *)
(* no offer is dropped on the way.                                          *)
Follows(s, t) == Consistent(t) /\ s.file \subseteq t.file /\ t.offer = s.offer

LEMMA FileIsFinite ==
    ASSUME NEW s, Consistent(s)
    PROVE  IsFiniteSet(s.file) /\ FileStamp(s) \in Nat
<1>1. IsFiniteSet(s.mem) /\ s.file \in SUBSET s.mem
  BY DEF Consistent
<1>2. IsFiniteSet(s.file)
  BY <1>1, FS_Subset
<1> QED
  BY <1>2, FS_CardinalityType DEF FileStamp

LEMMA LoadedStore ==
    ASSUME NEW s, Consistent(s)
    PROVE  Follows(s, Load(s))
<1> DEFINE t == Load(s)
<1>1. s \in Stores /\ s.file \subseteq s.mem /\ IsFiniteSet(s.file)
  BY FileIsFinite DEF Consistent
<1>2. /\ t \in Stores /\ t.file = s.file /\ t.mem = s.file
      /\ t.offer = s.offer /\ t.step = "stamp"
  BY <1>1 DEF Load, Stores
<1> HIDE DEF t
<1>3. Follows(s, t)
  BY <1>1, <1>2 DEF Follows, Consistent
<1> QED
  BY <1>3 DEF t

LEMMA PersistedStore ==
    ASSUME NEW s \in Stores, s.file \subseteq s.mem, IsFiniteSet(s.mem)
    PROVE  /\ Follows(s, Persist(s))
           /\ Persist(s).file = s.mem
<1> DEFINE t == Persist(s)
<1>1. /\ t \in Stores /\ t.file = s.mem /\ t.mem = s.mem
      /\ t.offer = s.offer /\ t.step = "stamp"
  BY DEF Persist, Stores
<1> HIDE DEF t
<1>2. Follows(s, t) /\ t.file = s.mem
  BY <1>1 DEF Follows, Consistent
<1> QED
  BY <1>2 DEF t

LEMMA StampedStore ==
    ASSUME NEW s, Consistent(s), s.step = "stamp"
    PROVE  Follows(s, Stamp(s))
<1> DEFINE t == Stamp(s)
           size == FileStamp(s)
<1>1. s \in Stores /\ s.file \subseteq s.mem /\ IsFiniteSet(s.mem) /\ size \in Nat
  BY FileIsFinite DEF Consistent
<1>2. t = [s EXCEPT !.stamp = size, !.step = "none"]
  BY DEF Stamp
<1>3. s.overtaken \/ s.mem = s.file
  BY DEF Consistent
<1>4. size = Cardinality(s.file)
  BY DEF FileStamp
<1> HIDE DEF t, size
<1>5. /\ t \in Stores /\ t.file = s.file /\ t.mem = s.mem /\ t.stamp = size
      /\ t.offer = s.offer /\ t.step = "none" /\ t.overtaken = s.overtaken
  BY <1>1, <1>2 DEF Stores
<1>6. FileStamp(t) = size
  BY <1>4, <1>5 DEF FileStamp
<1>7. Follows(s, t)
  BY <1>1, <1>3, <1>5, <1>6 DEF Follows, Consistent
<1> QED
  BY <1>7 DEF t

LEMMA GoneOnStore ==
    ASSUME NEW s, Consistent(s)
    PROVE  Follows(s, GoOn(s))
<1>1. s \in Stores /\ s.file \subseteq s.mem /\ IsFiniteSet(s.mem)
  BY DEF Consistent
<1>2. CASE s.step = "none"
  BY <1>2 DEF GoOn, Follows
<1>3. CASE s.step = "write"
  BY <1>1, <1>3, PersistedStore DEF GoOn
<1>4. CASE s.step = "stamp"
  BY <1>4, StampedStore DEF GoOn
<1> QED
  BY <1>1, <1>2, <1>3, <1>4 DEF Stores

LEMMA SettledStore ==
    ASSUME NEW m, NEW s, Consistent(s)
    PROVE  Follows(s, Settled(m, s))
<1>1. Follows(s, GoOn(s))
  BY GoneOnStore
<1>2. Follows(GoOn(s), GoOn(GoOn(s)))
  BY <1>1, GoneOnStore DEF Follows
<1>3. Follows(s, s)
  BY DEF Follows
<1>4. Settled(m, s) \in {s, GoOn(GoOn(s))}
  BY DEF Settled
<1> QED
  BY <1>1, <1>2, <1>3, <1>4 DEF Follows

(* createOffer(), or the end of the offer. *)
LEMMA OfferingStore ==
    ASSUME NEW s, Consistent(s), NEW n \in Nat
    PROVE  LET t == [s EXCEPT !.offer = n]
           IN  Consistent(t) /\ t.file = s.file /\ t.offer = n
<1> DEFINE t == [s EXCEPT !.offer = n]
<1>1. s \in Stores
  BY DEF Consistent
<1>2. /\ t \in Stores /\ t.file = s.file /\ t.mem = s.mem /\ t.stamp = s.stamp
      /\ t.offer = n /\ t.step = s.step /\ t.overtaken = s.overtaken
  BY <1>1 DEF Stores
<1> HIDE DEF t
<1>3. FileStamp(t) = FileStamp(s)
  BY <1>2 DEF FileStamp
<1>4. Consistent(t)
  BY <1>2, <1>3 DEF Consistent
<1> QED
  BY <1>2, <1>4 DEF t

LEMMA RedeemedStore ==
    ASSUME NEW s, Consistent(s), NEW d \in Nat
    PROVE  LET t == Redeemed(s, d)
           IN  Consistent(t) /\ s.file \cup {d} \subseteq t.file /\ t.offer = 0
<1> DEFINE mem == s.mem \cup {d}
           x == [Add(s, d) EXCEPT !.offer = 0]
<1>1. s \in Stores /\ s.file \subseteq s.mem /\ IsFiniteSet(s.mem)
  BY DEF Consistent
<1>2. IsFiniteSet(mem) /\ mem \in SUBSET Nat
  BY <1>1, FS_AddElement DEF Stores
<1>3. x = [s EXCEPT !.mem = mem, !.offer = 0]
  BY <1>1 DEF Add, Stores
<1>4. Redeemed(s, d) = Persist(x)
  BY DEF Redeemed
<1>5. s.file \cup {d} \subseteq mem
  BY <1>1
<1> HIDE DEF mem, x
<1>6. x \in Stores /\ x.file = s.file /\ x.mem = mem /\ x.offer = 0
  BY <1>1, <1>2, <1>3 DEF Stores
<1>7. Follows(x, Persist(x)) /\ Persist(x).file = mem
  BY <1>1, <1>2, <1>5, <1>6, PersistedStore
<1> QED
  BY <1>4, <1>5, <1>6, <1>7 DEF Follows

(* A call on the store of one machine. *)
LEMMA BecomesStore ==
    ASSUME Stored, NEW m \in Machines, NEW t, Becomes(m, t), Consistent(t),
           store[m].file \subseteq t.file, t.offer \in {0, store[m].offer}
    PROVE  Stored' /\ KeysStay
<1>1. /\ store' = [store EXCEPT ![m] = t]
      /\ UNCHANGED <<codes, issued, command, revoked, lost>>
  BY DEF Becomes
<1>2. store \in [Machines -> Stores] /\ t \in Stores
  BY DEF Stored, StoreTyped, Consistent
<1>3. /\ store' \in [Machines -> Stores] /\ store'[m] = t
      /\ \A k \in Machines \ {m} : store'[k] = store[k]
  BY <1>1, <1>2
<1>4. \A k \in Machines : /\ store[k].file \subseteq store'[k].file
                          /\ store'[k].offer \in {0, store[k].offer}
  BY <1>3
<1>5. StoreTyped'
  BY <1>1, <1>3 DEF Stored, StoreTyped
<1>6. OffersAreOpen' /\ OneCodeOneKey'
  <2>1. Len(codes) \in Nat
    BY DEF Stored, StoreTyped
  <2>2. OneCodeOneKey' /\ Devices' = Devices
    BY <1>1 DEF Stored, OneCodeOneKey, Devices
  <2>3. \A d \in Devices : issued[d].code \in 1..Len(codes)
    BY DEF Stored, OffersAreOpen
  <2>4. ASSUME NEW k \in Machines
        PROVE  /\ store'[k].offer \in 0..Len(codes)
               /\ store'[k].offer # 0 =>
                     /\ codes[store'[k].offer] = k
                     /\ \A d \in Devices : issued[d].code # store'[k].offer
    BY <1>4, <2>1 DEF Stored, OffersAreOpen
  <2> QED
    BY <1>1, <2>2, <2>3, <2>4 DEF OffersAreOpen
<1>7. FilesAreOurs'
  <2>1. command.phase = "loaded" => command.machine \in Machines
    BY DEF Stored, StoreTyped, Commands, NoCommand
  <2>2. \A k \in Machines : Consistent(store'[k])
    BY <1>3 DEF Stored, FilesAreOurs
  <2>3. \A k \in Machines : Consistent(store[k])'
    BY <2>2 DEF Consistent, FileStamp
  <2> QED
    BY <1>1, <1>4, <2>1, <2>3 DEF Stored, FilesAreOurs
<1>8. KeysStay
  <2>1. Len(issued) \in Nat
    BY DEF Stored, StoreTyped
  <2> QED
    BY <1>1, <1>4, <2>1 DEF KeysStay, Accounted, Devices
<1> QED
  BY <1>5, <1>6, <1>7, <1>8 DEF Stored

(* redeem(): the new device gets the code that was on offer, and no offer   *)
(* is left that has it.                                                     *)
LEMMA RedeemStore ==
    ASSUME Stored, NEW m \in Machines, NEW code \in Nat, Redeem(m, code)
    PROVE  /\ Stored' /\ KeysStay
           /\ issued' # issued =>
                 /\ Len(issued') \in Nat \ {0}
                 /\ issued'[Len(issued')].machine = m
                 /\ Len(issued') \in store'[m].file
<1>1. CASE ~Opens(m, code)
  BY <1>1, UnchangedStore DEF Redeem, storeVars
<1>2. CASE Opens(m, code)
  <2> DEFINE n == Len(issued) + 1
             new == [machine |-> m, code |-> code]
  <2>1. /\ code # 0 /\ store[m].offer = code
        /\ issued' = Append(issued, new)
        /\ store' = [store EXCEPT ![m] = Settled(m, Redeemed(store[m], n))]
        /\ UNCHANGED <<codes, command, revoked, lost>>
    BY <1>2 DEF Redeem, Opens
  <2>2. /\ store \in [Machines -> Stores] /\ issued \in Seq(Issues)
        /\ Len(issued) \in Nat /\ n \in Nat /\ new \in Issues
        /\ codes \in Seq(Machines) /\ Len(codes) \in Nat
    BY DEF Stored, StoreTyped, Issues
  <2>3. /\ issued' \in Seq(Issues) /\ Len(issued') = n
        /\ issued'[n] = new
        /\ \A d \in Devices : issued'[d] = issued[d]
    BY <2>1, <2>2 DEF Devices
  <2>4. \A d \in Devices' : d \in Devices \/ d = n
    BY <2>2, <2>3 DEF Devices
  <2>5. /\ Consistent(store'[m]) /\ store'[m].offer = 0
        /\ store[m].file \cup {n} \subseteq store'[m].file
        /\ \A k \in Machines \ {m} : store'[k] = store[k]
        /\ store' \in [Machines -> Stores]
    <3> DEFINE x == Redeemed(store[m], n)
               t == Settled(m, x)
    <3>1. Consistent(store[m])
      BY DEF Stored, FilesAreOurs
    <3>2. Consistent(x) /\ store[m].file \cup {n} \subseteq x.file /\ x.offer = 0
      BY <3>1, <2>2, RedeemedStore
    <3>3. store' = [store EXCEPT ![m] = t]
      BY <2>1
    <3> HIDE DEF x
    <3>4. Follows(x, t)
      BY <3>2, SettledStore
    <3> HIDE DEF t
    <3>5. t \in Stores
      BY <3>4 DEF Follows, Consistent
    <3> QED
      BY <2>2, <3>2, <3>3, <3>4, <3>5 DEF Follows
  <2> HIDE DEF n, new
  <2>6. StoreTyped'
    BY <2>1, <2>3, <2>5 DEF Stored, StoreTyped
  <2>7. \A k \in Machines : k # m /\ store[k].offer # 0 => store[k].offer # code
    BY <2>1 DEF Stored, OffersAreOpen
  <2>8. issued'[n].code = code /\ code \in 1..Len(codes)
    BY <2>1, <2>2, <2>3 DEF Stored, OffersAreOpen, new
  <2>9. OffersAreOpen'
    <3>1. ASSUME NEW d \in Devices'
          PROVE  issued'[d].code \in 1..Len(codes')
      BY <2>1, <2>3, <2>4, <2>8 DEF Stored, OffersAreOpen
    <3>2. ASSUME NEW k \in Machines
          PROVE  /\ store'[k].offer \in 0..Len(codes')
                 /\ store'[k].offer # 0 =>
                       /\ codes'[store'[k].offer] = k
                       /\ \A d \in Devices' : issued'[d].code # store'[k].offer
      <4>1. CASE k = m
        BY <4>1, <2>1, <2>2, <2>5
      <4>2. CASE k # m
        <5>1. /\ store'[k] = store[k] /\ codes' = codes
              /\ store[k].offer \in 0..Len(codes)
              /\ store[k].offer # 0 =>
                    /\ codes[store[k].offer] = k
                    /\ \A d \in Devices : issued[d].code # store[k].offer
          BY <4>2, <2>1, <2>5 DEF Stored, OffersAreOpen
        <5>2. store[k].offer # 0 =>
                 \A d \in Devices' : issued'[d].code # store[k].offer
          BY <4>2, <5>1, <2>3, <2>4, <2>7, <2>8
        <5> QED
          BY <5>1, <5>2
      <4> QED
        BY <4>1, <4>2
    <3> QED
      BY <3>1, <3>2 DEF OffersAreOpen
  <2>10. OneCodeOneKey'
    <3>1. \A d \in Devices : issued[d].code # code
      BY <2>1 DEF Stored, OffersAreOpen
    <3> QED
      BY <2>3, <2>4, <2>8, <3>1 DEF Stored, OneCodeOneKey
  <2>11. FilesAreOurs'
    <3>1. \A k \in Machines : Consistent(store'[k])
      BY <2>5 DEF Stored, FilesAreOurs
    <3>2. \A k \in Machines : Consistent(store[k])'
      BY <3>1 DEF Consistent, FileStamp
    <3>3. command.phase = "loaded" => command.machine \in Machines
      BY DEF Stored, StoreTyped, Commands, NoCommand
    <3> QED
      BY <2>1, <2>5, <3>2, <3>3 DEF Stored, FilesAreOurs
  <2>12. KeysStay
    <3>2. Len(issued) <= Len(issued')
      BY <2>2, <2>3 DEF n
    <3>3. \A k \in Machines : store[k].file \subseteq store'[k].file
      BY <2>5
    <3> QED
      BY <2>1, <2>3, <3>2, <3>3 DEF KeysStay, Accounted
  <2>13. n \in Nat \ {0} /\ issued'[n].machine = m /\ n \in store'[m].file
    BY <2>2, <2>3, <2>5 DEF n, new
  <2> QED
    BY <2>3, <2>6, <2>9, <2>10, <2>11, <2>12, <2>13 DEF Stored
<1> QED
  BY <1>1, <1>2

(* verifyToken(): who passes is in the file that has the stamp, if that was  *)
(* not overtaken.                                                            *)
LEMMA VerifyStore ==
    ASSUME Stored, NEW m \in Machines, NEW device, NEW accepted \in BOOLEAN,
           VerifyToken(m, device, accepted)
    PROVE  /\ Stored' /\ KeysStay
           /\ accepted => device \in store[m].file \/ store[m].overtaken
<1>1. Consistent(store[m]) /\ store[m] \in Stores
  BY DEF Stored, FilesAreOurs, Consistent
<1>2. /\ store[m].step = "none" /\ store[m].stamp = FileStamp(store[m])
      /\ accepted = (device \in store[m].mem)
  BY DEF VerifyToken, MayTrust
<1>3. accepted => device \in store[m].file \/ store[m].overtaken
  BY <1>1, <1>2 DEF Consistent
<1>4. PICK step \in {"none", "write"} :
         Becomes(m, Settled(m, [store[m] EXCEPT !.step = step]))
  BY DEF VerifyToken
<1> DEFINE s == store[m]
           x == [s EXCEPT !.step = step]
           t == Settled(m, x)
<1>5. /\ x \in Stores /\ x.file = s.file /\ x.mem = s.mem /\ x.stamp = s.stamp
      /\ x.offer = s.offer /\ x.step = step /\ x.overtaken = s.overtaken
  BY <1>1 DEF Stores
<1>6. Becomes(m, t)
  BY <1>4
<1> HIDE DEF x
<1>7. FileStamp(x) = FileStamp(s)
  BY <1>5 DEF FileStamp
<1>8. Consistent(x)
  BY <1>1, <1>2, <1>5, <1>7 DEF Consistent
<1>9. Follows(x, t)
  BY <1>8, SettledStore
<1> HIDE DEF t
<1>10. Stored' /\ KeysStay
  BY <1>5, <1>6, <1>9, BecomesStore DEF Follows
<1> QED
  BY <1>3, <1>10

(* The bridge is started again. *)
LEMMA StartStore ==
    ASSUME Stored, NEW m \in Machines, StartBridge(m)
    PROVE  Stored' /\ KeysStay
<1> USE DEF Stored
<1>0. /\ store \in [Machines -> Stores] /\ codes \in Seq(Machines)
      /\ issued \in Seq(Issues) /\ Len(issued) \in Nat /\ Len(codes) \in Nat
      /\ command.phase = "loaded" => command.machine \in Machines
  BY DEF StoreTyped, Commands, NoCommand
<1>1. PICK pair \in BOOLEAN :
         LET offers == pair \/ store[m].file = {}
         IN  /\ store' = [store EXCEPT ![m] =
                   Settled(m, CreateOffer(Load(store[m]),
                                 IF offers THEN Len(codes) + 1 ELSE 0))]
             /\ codes' = IF offers THEN Append(codes, m) ELSE codes
  BY DEF StartBridge
<1> DEFINE offer == IF pair \/ store[m].file = {} THEN Len(codes) + 1 ELSE 0
           new == Settled(m, CreateOffer(Load(store[m]), offer))
<1>2. UNCHANGED <<issued, command, revoked, lost>>
  BY DEF StartBridge
<1>3. /\ Consistent(new) /\ new \in Stores /\ new.offer = offer
      /\ store[m].file \subseteq new.file
  <2>1. Consistent(store[m]) /\ offer \in Nat
    BY <1>0 DEF FilesAreOurs
  <2> DEFINE x == CreateOffer(Load(store[m]), offer)
  <2>2. Follows(store[m], Load(store[m]))
    BY <2>1, LoadedStore
  <2> HIDE DEF offer
  <2>3. Consistent(x) /\ x.file = Load(store[m]).file /\ x.offer = offer
    BY <2>1, <2>2, OfferingStore DEF CreateOffer, Follows
  <2> HIDE DEF x
  <2>4. Follows(x, Settled(m, x))
    BY <2>3, SettledStore
  <2> QED
    BY <2>2, <2>3, <2>4 DEF Follows, Consistent, x
<1>4. offer \in Nat /\ store' = [store EXCEPT ![m] = new]
  BY <1>0, <1>1
<1>5. /\ \/ offer = 0 /\ codes' = codes
         \/ offer = Len(codes) + 1 /\ codes' = Append(codes, m)
  BY <1>1
<1> HIDE DEF new, offer
<1>7. /\ store' \in [Machines -> Stores] /\ store'[m] = new
      /\ \A k \in Machines \ {m} : store'[k] = store[k]
  BY <1>0, <1>3, <1>4
<1>8. /\ codes' \in Seq(Machines) /\ Len(codes) <= Len(codes') /\ offer <= Len(codes')
      /\ \A i \in 1..Len(codes) : codes'[i] = codes[i]
      /\ Len(codes') \in Nat
      /\ offer # 0 => codes'[offer] = m
  <2>1. CASE offer = 0 /\ codes' = codes
    BY <1>0, <2>1
  <2>2. CASE offer = Len(codes) + 1 /\ codes' = Append(codes, m)
    <3>1. /\ Append(codes, m) \in Seq(Machines)
          /\ Len(Append(codes, m)) = Len(codes) + 1
          /\ \A i \in 1..Len(codes) : Append(codes, m)[i] = codes[i]
          /\ Append(codes, m)[Len(codes) + 1] = m
      BY <1>0
    <3> QED
      BY <1>0, <2>2, <3>1
  <2> QED
    BY <1>5, <2>1, <2>2
<1>9. StoreTyped'
  BY <1>2, <1>7, <1>8 DEF StoreTyped
<1>10. \A d \in Devices : issued[d].code \in 1..Len(codes)
  BY DEF OffersAreOpen
<1>11. ASSUME NEW k \in Machines
       PROVE  /\ store'[k].offer \in 0..Len(codes')
              /\ store'[k].offer # 0 =>
                    /\ codes'[store'[k].offer] = k
                    /\ \A d \in Devices : issued[d].code # store'[k].offer
  <2>1. CASE k = m
    <3>1. store'[k].offer = offer
      BY <2>1, <1>3, <1>7
    <3>2. offer # 0 => \A d \in Devices : issued[d].code # offer
      BY <1>5, <1>10, <1>0
    <3> QED
      BY <2>1, <3>1, <3>2, <1>4, <1>8
  <2>2. CASE k # m
    <3>1. /\ store'[k] = store[k]
          /\ store[k].offer \in 0..Len(codes)
          /\ store[k].offer # 0 =>
                /\ codes[store[k].offer] = k
                /\ \A d \in Devices : issued[d].code # store[k].offer
      BY <2>2, <1>7 DEF OffersAreOpen
    <3> QED
      BY <3>1, <1>8, <1>0
  <2> QED
    BY <2>1, <2>2
<1>12. OffersAreOpen'
  <2>1. Devices' = Devices
    BY <1>2 DEF Devices
  <2>2. \A d \in Devices : issued[d].code \in 1..Len(codes')
    BY <1>0, <1>8, <1>10
  <2> QED
    BY <2>1, <2>2, <1>2, <1>11 DEF OffersAreOpen
<1>13. OneCodeOneKey'
  BY <1>2 DEF OneCodeOneKey, Devices
<1>14. \A k \in Machines : store[k].file \subseteq store'[k].file
  BY <1>3, <1>7
<1>15. FilesAreOurs'
  <2>1. \A k \in Machines : Consistent(store'[k])
    BY <1>3, <1>7 DEF FilesAreOurs
  <2>2. \A k \in Machines : Consistent(store[k])'
    BY <2>1 DEF Consistent, FileStamp
  <2> QED
    BY <1>0, <1>2, <1>14, <2>2 DEF FilesAreOurs
<1>16. KeysStay
  BY <1>0, <1>2, <1>14 DEF KeysStay, Accounted, Devices
<1> QED
  BY <1>9, <1>12, <1>13, <1>15, <1>16

(* What the operator's process writes is smaller than what was there, so     *)
(* that no stamp of it is that of another file.                              *)
LEMMA RevokedStore ==
    ASSUME NEW s, Consistent(s), NEW file \in SUBSET s.file, file # s.file,
           NEW overtaken \in BOOLEAN, s.step = "stamp" => overtaken
    PROVE  LET t == [s EXCEPT !.file = file, !.overtaken = overtaken]
           IN  Consistent(t) /\ t.file = file /\ t.offer = s.offer
<1> DEFINE t == [s EXCEPT !.file = file, !.overtaken = overtaken]
<1>1. /\ s \in Stores /\ s.file \subseteq s.mem /\ IsFiniteSet(s.mem)
      /\ IsFiniteSet(s.file) /\ FileStamp(s) \in Nat
  BY FileIsFinite DEF Consistent
<1>2. IsFiniteSet(file) /\ Cardinality(file) < FileStamp(s)
  <2>1. /\ IsFiniteSet(file) /\ Cardinality(file) <= Cardinality(s.file)
        /\ Cardinality(file) # Cardinality(s.file)
    BY <1>1, FS_Subset
  <2>2. Cardinality(file) \in Nat /\ Cardinality(s.file) \in Nat
    BY <1>1, <2>1, FS_CardinalityType
  <2> QED
    BY <2>1, <2>2 DEF FileStamp
<1>3. file \subseteq s.mem /\ file \in SUBSET Nat
  BY <1>1 DEF Stores
<1>4. s.step # "stamp" => FileStamp(s) <= s.stamp
  BY DEF Consistent
<1>5. /\ t \in Stores /\ t.file = file /\ t.mem = s.mem /\ t.stamp = s.stamp
      /\ t.offer = s.offer /\ t.step = s.step /\ t.overtaken = overtaken
  BY <1>1, <1>3 DEF Stores
<1> HIDE DEF t
<1>6. FileStamp(t) = Cardinality(file) /\ s.stamp \in Nat
  BY <1>1, <1>5 DEF FileStamp, Stores
<1>7. Cardinality(file) \in Nat
  BY <1>2, FS_CardinalityType
<1>8. s.step # "stamp" => FileStamp(t) < t.stamp
  BY <1>1, <1>2, <1>4, <1>5, <1>6, <1>7
<1>9. FileStamp(t) \in Nat /\ t.stamp \in Nat
  BY <1>5, <1>6, <1>7
<1>10. Consistent(t)
  BY <1>1, <1>3, <1>5, <1>8, <1>9 DEF Consistent
<1> QED
  BY <1>5, <1>10 DEF t

(* The operator's process, whose revocation drops what is accounted for, and *)
(* the other calls.                                                          *)
LEMMA StoreStepStore ==
    ASSUME Stored, StoreStep
    PROVE  Stored' /\ KeysStay
<1> USE DEF Stored
<1>0. /\ store \in [Machines -> Stores] /\ codes \in Seq(Machines)
      /\ issued \in Seq(Issues) /\ Len(issued) \in Nat /\ Len(codes) \in Nat
      /\ \A m \in Machines : store[m].file \in SUBSET Nat
      /\ command.phase = "loaded" =>
            /\ command.machine \in Machines /\ command.device \in Nat
            /\ command.devices \in SUBSET Nat
  BY DEF StoreTyped, Stores, Commands, NoCommand
<1>a. \A m \in Machines : Consistent(store[m])
  BY DEF FilesAreOurs
<1>1. ASSUME NEW m \in Machines, Continue(m)
      PROVE  Stored' /\ KeysStay
  <2> DEFINE x == GoOn(store[m])
             t == Settled(m, x)
  <2>1. Follows(store[m], x)
    BY <1>a, GoneOnStore
  <2>2. Becomes(m, t)
    BY <1>1 DEF Continue
  <2> HIDE DEF x
  <2>3. Follows(x, t)
    BY <2>1, SettledStore DEF Follows
  <2> HIDE DEF t
  <2> QED
    BY <2>1, <2>2, <2>3, BecomesStore DEF Follows
<1>2. ASSUME NEW m \in Machines, ExpireOffer(m)
      PROVE  Stored' /\ KeysStay
  <2> DEFINE t == [store[m] EXCEPT !.offer = 0]
  <2>1. Consistent(t) /\ t.file = store[m].file /\ t.offer = 0
    BY <1>a, OfferingStore
  <2>2. Becomes(m, t)
    BY <1>2 DEF ExpireOffer
  <2> HIDE DEF t
  <2> QED
    BY <2>1, <2>2, BecomesStore
<1>5. ASSUME NEW m \in Machines, OthersAsk(m)
      PROVE  Stored' /\ KeysStay
  <2>1. CASE ReloadIfChanged(m)
    <3> DEFINE x == Load(store[m])
               t == Settled(m, x)
    <3>1. Follows(store[m], x)
      BY <1>a, LoadedStore
    <3>2. Becomes(m, t)
      BY <2>1 DEF ReloadIfChanged
    <3> HIDE DEF x
    <3>3. Follows(x, t)
      BY <3>1, SettledStore DEF Follows
    <3> HIDE DEF t
    <3> QED
      BY <3>1, <3>2, <3>3, BecomesStore DEF Follows
  <2>2. CASE \E device \in store[m].mem : VerifyToken(m, device, TRUE)
    BY <2>2, VerifyStore
  <2> QED
    BY <1>5, <2>1, <2>2 DEF OthersAsk
<1>3. CASE LoadCommand
  <2>a. PICK m \in Machines : \E device \in store[m].file :
           command' = [phase |-> "loaded", machine |-> m, device |-> device,
                       devices |-> store[m].file]
    BY <1>3 DEF LoadCommand
  <2>1. PICK device \in store[m].file :
           command' = [phase |-> "loaded", machine |-> m, device |-> device,
                       devices |-> store[m].file]
    BY <2>a
  <2>2. UNCHANGED <<store, codes, issued, revoked, lost>>
    BY <1>3 DEF LoadCommand
  <2>3. StoreTyped'
    BY <1>0, <2>1, <2>2 DEF StoreTyped, Commands
  <2>4. OffersAreOpen' /\ OneCodeOneKey'
    BY <2>2 DEF OffersAreOpen, OneCodeOneKey, Devices
  <2>5. FilesAreOurs'
    <3>1. \A k \in Machines : Consistent(store[k])'
      BY <1>a, <2>2 DEF Consistent, FileStamp
    <3> QED
      BY <2>1, <2>2, <3>1 DEF FilesAreOurs
  <2>6. KeysStay
    BY <1>0, <2>2 DEF KeysStay, Accounted, Devices
  <2> QED
    BY <2>3, <2>4, <2>5, <2>6
<1>4. CASE WriteCommand
  <2> DEFINE m == command.machine
             left == command.devices \ {command.device}
  <2>1. /\ store' = [store EXCEPT ![m].file = left,
                       ![m].overtaken = @ \/ store[m].step = "stamp"]
        /\ revoked' = revoked \cup {command.device}
        /\ lost' = lost \cup (store[m].file \ command.devices)
        /\ command' = NoCommand
        /\ UNCHANGED <<codes, issued>>
    BY <1>4 DEF WriteCommand
  <2>2. /\ m \in Machines /\ command.device \in Nat
        /\ command.device \in command.devices
        /\ command.devices \subseteq store[m].file
    BY <1>0, <1>4 DEF WriteCommand, FilesAreOurs
  <2> DEFINE overtaken == store[m].overtaken \/ store[m].step = "stamp"
             t == [store[m] EXCEPT !.file = left, !.overtaken = overtaken]
  <2>a. store' = [store EXCEPT ![m] = t]
    BY <1>0, <2>1, <2>2
  <2>b. Consistent(t) /\ t.file = left /\ t.offer = store[m].offer
    <3>1. Consistent(store[m]) /\ left \in SUBSET store[m].file /\ left # store[m].file
      BY <1>a, <2>2
    <3>2. overtaken \in BOOLEAN /\ (store[m].step = "stamp" => overtaken)
      BY <3>1 DEF Consistent, Stores
    <3> HIDE DEF left, m, overtaken
    <3> QED
      BY <3>1, <3>2, RevokedStore
  <2> HIDE DEF t
  <2>c. t \in Stores
    BY <2>b DEF Consistent
  <2>3. /\ store' \in [Machines -> Stores]
        /\ store'[m].file = left /\ Consistent(store'[m])
        /\ store'[m].offer = store[m].offer
        /\ \A k \in Machines \ {m} : store'[k] = store[k]
    BY <1>0, <2>2, <2>a, <2>b, <2>c
  <2>4. StoreTyped'
    BY <1>0, <2>1, <2>2, <2>3 DEF StoreTyped, Commands
  <2>5. OffersAreOpen' /\ OneCodeOneKey'
    <3>1. \A k \in Machines : store'[k].offer = store[k].offer
      BY <2>3
    <3>2. Devices' = Devices
      BY <2>1 DEF Devices
    <3>3. OneCodeOneKey'
      BY <2>1, <3>2 DEF OneCodeOneKey
    <3>4. \A d \in Devices : issued[d].code \in 1..Len(codes)
      BY DEF OffersAreOpen
    <3>5. \A k \in Machines :
             /\ store'[k].offer \in 0..Len(codes)
             /\ store'[k].offer # 0 =>
                   /\ codes[store'[k].offer] = k
                   /\ \A d \in Devices : issued[d].code # store'[k].offer
      BY <3>1 DEF OffersAreOpen
    <3> QED
      BY <2>1, <3>2, <3>3, <3>4, <3>5 DEF OffersAreOpen
  <2>6. FilesAreOurs'
    <3>1. \A k \in Machines : Consistent(store'[k])
      BY <1>a, <2>3
    <3>2. \A k \in Machines : Consistent(store[k])'
      BY <3>1 DEF Consistent, FileStamp
    <3> QED
      BY <2>1, <3>2 DEF FilesAreOurs, NoCommand
  <2>7. KeysStay
    BY <1>0, <2>1, <2>2, <2>3 DEF KeysStay, Accounted, Devices
  <2> QED
    BY <2>4, <2>5, <2>6, <2>7
<1> QED
  BY <1>1, <1>2, <1>3, <1>4, <1>5 DEF StoreStep

-----------------------------------------------------------------------------
(* A key the 3DS may believe in: issued by that machine and accounted for.  *)
Known(m, d) ==
    d # Broken => /\ m \in Machines
                  /\ d \in Devices
                  /\ issued[d].machine = m
                  /\ d \in Accounted(m)

KnownNext(m, d) ==
    d # Broken => /\ m \in Machines
                  /\ d \in Devices'
                  /\ issued'[d].machine = m
                  /\ d \in store'[m].file \cup revoked' \cup lost'

(* What is on the card, what is in memory and what a bridge has answered.   *)
Beliefs ==
    /\ Known(sd.machine, sd.device)
    /\ Known(record.machine, record.device)
    /\ at = "exchanging" =>
          /\ request.phase \in {"sent", "answered"}
          /\ request.phase = "answered" => Known(request.machine, request.device)

Client == ClientTyped /\ Beliefs

LEMMA KnownStays ==
    ASSUME Stored, KeysStay, NEW m, NEW d, Known(m, d)
    PROVE  KnownNext(m, d)
<1>1. Len(issued) \in Nat
  BY DEF Stored, StoreTyped
<1> QED
  BY <1>1 DEF Known, KnownNext, KeysStay, Accounted, Devices

LEMMA MachineTyped ==
    ASSUME ClientTyped
    PROVE  /\ ActiveMachine(record) \in Machines
           /\ request.phase # "idle" =>
                 /\ request.machine \in Machines /\ request.code \in Nat
                 /\ request.device \in Nat
                 /\ request.phase \in {"sent", "asked", "answered"}
BY PairingAssumption
   DEF ClientTyped, ActiveMachine, Records, Requests, NoRequest, NoRecord

(* Every step keeps the stores' invariant. *)
LEMMA StepStored ==
    ASSUME Stored, Client, [Next]_vars
    PROVE  Stored' /\ KeysStay
<1>1. CASE UNCHANGED storeVars
  BY <1>1, UnchangedStore
<1>2. CASE ServePairing
  <2>1. request.machine \in Machines /\ request.code \in Nat
    BY <1>2, MachineTyped DEF ServePairing, Client
  <2>2. Redeem(request.machine, request.code)
    BY <1>2 DEF ServePairing
  <2> QED
    BY <2>1, <2>2, RedeemStore
<1>3. CASE ServeStray
  <2>1. PICK stray \in strays : Redeem(stray.machine, stray.code) \/ UNCHANGED storeVars
    BY <1>3 DEF ServeStray
  <2>2. stray.machine \in Machines /\ stray.code \in Nat
    BY DEF Client, ClientTyped
  <2> QED
    BY <1>1, <2>1, <2>2, RedeemStore
<1>4. CASE OtherPairs
  <2>1. PICK m \in Machines : Redeem(m, store[m].offer)
    BY <1>4 DEF OtherPairs
  <2>2. store[m].offer \in Nat
    BY DEF Stored, StoreTyped, Stores
  <2> QED
    BY <2>1, <2>2, RedeemStore
<1>5. CASE ServeRequest \/ Hello
  <2>1. PICK m \in Machines, accepted \in BOOLEAN : Authorize(m, accepted)
    BY <1>5, MachineTyped DEF ServeRequest, Hello, Client
  <2> QED
    BY <1>1, <2>1, VerifyStore DEF Authorize
<1>6. CASE Bridges
  BY <1>6, StoreStepStore DEF Bridges
<1>a. CASE \E m \in Machines : RestartBridge(m)
  BY <1>a, StartStore DEF RestartBridge
<1>7. CASE \/ StartScan \/ BackOut \/ AimFrame \/ Service \/ Worker \/ Joined
           \/ StartTyping \/ TypingFails \/ ExchangeScanned \/ ExchangeTyped
           \/ ExchangeFails \/ Refused
  BY <1>1, <1>7
     DEF StartScan, BackOut, AimFrame, Service, Worker, Joined, StartTyping,
         TypingFails, ExchangeScanned, ExchangeTyped, ExchangeFails, Refused
<1>8. CASE \/ Paired \/ Acknowledge \/ Forget \/ Relaunch
           \/ Connect \/ Ask \/ ReadAnswer \/ Leave \/ PushStep \/ HandleCommand
  BY <1>1, <1>8
     DEF Paired, Acknowledge, Forget, Relaunch, Connect, Ask, ReadAnswer, Leave,
         PushStep, HandleCommand
<1>9. CASE UNCHANGED vars
  BY <1>1, <1>9 DEF vars
<1> QED
  BY <1>2, <1>3, <1>4, <1>5, <1>6, <1>7, <1>8, <1>9, <1>a DEF Next

(* What Apply() leaves of the transaction. *)
LEMMA StraysTyped ==
    ASSUME Client
    PROVE  Strays \subseteq [machine : Machines, code : Nat]
<1>1. request.phase = "sent" => request.machine \in Machines /\ request.code \in Nat
  BY MachineTyped DEF Client
<1> QED
  BY <1>1 DEF Client, ClientTyped, Strays

(* The step of each action of the main thread, of the bridges' answers and  *)
(* of the others.                                                           *)
ClientStep ==
    /\ ClientTyped' /\ RequestsReachTheirMachine' /\ SaidIsSaved'
    /\ \/ sd' = sd \/ sd'.device = Broken
       \/ at = "exchanging" /\ request.phase = "answered"
             /\ sd'.machine = request.machine /\ sd'.device = request.device
    /\ \/ record' \in {record, sd} \/ record'.device = Broken
       \/ at = "exchanging" /\ request.phase = "answered"
             /\ record'.machine = request.machine /\ record'.device = request.device
    /\ at' = "exchanging" =>
          \/ request'.phase = "sent"
          \/ at = "exchanging" /\ request' = request
          \/ /\ request'.phase = "answered"
             /\ KnownNext(request'.machine, request'.device)

LEMMA ExchangeClient ==
    ASSUME Client, SaidIsSaved, NEW m \in Machines, NEW code \in Nat,
           Exchange(m, code), UNCHANGED <<sd, record>>
    PROVE  ClientStep
<1>1. Strays \subseteq [machine : Machines, code : Nat]
  BY StraysTyped
<1>2. /\ control' \in Machines \cup {Nobody} /\ request' \in Requests
      /\ strays' = Strays
      /\ at' = "exchanging" => request'.phase = "sent"
      /\ at' \in {"exchanging", "told"}
      /\ told' \in {told, "failed"}
  BY DEF Exchange, Requests
<1> QED
  BY <1>1, <1>2
     DEF Client, ClientTyped, RequestsReachTheirMachine, SaidIsSaved, ClientStep

(* Of what the actions of the viewfinder do only the loop and the words on   *)
(* the screen matter here.                                                  *)
LEMMA ScanClient ==
    ASSUME Client, SaidIsSaved, RequestsReachTheirMachine,
           UNCHANGED <<sd, record, control, request, strays>>,
           at' \notin {"exchanging", "session"} \/ at' = at,
           told' \notin {"paired", "forgotten"} \/ told' = told
    PROVE  ClientStep
BY DEF Client, ClientTyped, RequestsReachTheirMachine, SaidIsSaved, ClientStep

(* Requests that are dropped with their connection. *)
LEMMA ResetClient ==
    ASSUME Client, ResetConnections
    PROVE  /\ control' \in Machines \cup {Nobody} /\ control' = Nobody
           /\ request' \in Requests
           /\ strays' \subseteq [machine : Machines, code : Nat]
BY StraysTyped DEF ResetConnections, Requests

LEMMA SavedRecord ==
    ASSUME NEW r \in [machine : Machines, device : Nat], NEW x \in Save(r)
    PROVE  /\ x.sd = sd \/ x.sd = r \/ (x.sd \in Records /\ x.sd.device = Broken)
           /\ x.saved => x.sd = r
BY DEF Save, Cut, Records, NoRecord, Broken

LEMMA PairedClient ==
    ASSUME Client, Paired
    PROVE  ClientStep
<1>1. /\ at = "exchanging" /\ request.phase = "answered" /\ request.device # 0
      /\ at' = "told"
  BY DEF Paired
<1>2. request.machine \in Machines /\ request.device \in Nat
  BY <1>1, MachineTyped DEF Client
<1> DEFINE r == [machine |-> request.machine, device |-> request.device]
<1>3. PICK result \in Save(r) :
         /\ sd' = result.sd
         /\ told' = IF result.saved THEN "paired" ELSE "unsaved"
         /\ Apply(r)
  BY DEF Paired
<1>4. r \in [machine : Machines, device : Nat] /\ r.device # Broken
  BY <1>1, <1>2 DEF Broken
<1>5. /\ record' = r /\ control' = Nobody /\ request' \in Requests
      /\ strays' \subseteq [machine : Machines, code : Nat]
  BY <1>3, ResetClient DEF Apply
<1> HIDE DEF r
<1>6. /\ sd' = sd \/ sd' = r \/ (sd' \in Records /\ sd'.device = Broken)
      /\ told' = "paired" => sd' = r
      /\ told' # "forgotten"
  BY <1>3, <1>4, SavedRecord
<1>7. ClientTyped' /\ RequestsReachTheirMachine' /\ SaidIsSaved'
  BY <1>1, <1>4, <1>5, <1>6
     DEF Client, ClientTyped, Records, RequestsReachTheirMachine, SaidIsSaved
<1> QED
  BY <1>1, <1>5, <1>6, <1>7 DEF ClientStep, r

LEMMA ServedClient ==
    ASSUME Stored, Client, SaidIsSaved, ServePairing
    PROVE  ClientStep
<1>1. /\ at = "exchanging" /\ request.phase = "sent" /\ at' = at
      /\ Redeem(request.machine, request.code)
      /\ request' = [request EXCEPT !.phase = "answered",
                       !.device = IF issued' = issued THEN 0 ELSE Len(issued')]
      /\ UNCHANGED <<sd, record, control, strays, told>>
  BY DEF ServePairing
<1>2. request.machine \in Machines /\ request.code \in Nat
  BY <1>1, MachineTyped DEF Client
<1>3. issued' # issued => /\ Len(issued') \in Nat \ {0}
                          /\ issued'[Len(issued')].machine = request.machine
                          /\ Len(issued') \in store'[request.machine].file
  BY <1>1, <1>2, RedeemStore
<1> DEFINE n == IF issued' = issued THEN 0 ELSE Len(issued')
<1>4. n \in Nat /\ request' = [request EXCEPT !.phase = "answered", !.device = n]
  BY <1>1, <1>3
<1> HIDE DEF n
<1>5. request \in [phase : {"sent", "asked", "answered"}, machine : Machines,
                   code : Nat, device : Nat]
  BY <1>1 DEF Client, ClientTyped, Requests, NoRequest
<1>6. /\ request' \in Requests /\ request'.phase = "answered"
      /\ request'.machine = request.machine /\ request'.device = n
  BY <1>4, <1>5 DEF Requests
<1>7. KnownNext(request.machine, n)
  <2>1. CASE issued' = issued
    BY <2>1 DEF KnownNext, Broken, n
  <2>2. CASE issued' # issued
    <3>1. n = Len(issued') /\ n \in 1..Len(issued')
      BY <1>3, <2>2 DEF n
    <3> QED
      BY <1>2, <1>3, <2>2, <3>1 DEF KnownNext, Devices
  <2> QED
    BY <2>1, <2>2
<1> QED
  BY <1>1, <1>6, <1>7
     DEF Client, ClientTyped, RequestsReachTheirMachine, SaidIsSaved, ClientStep

(* ForgetClient and RelaunchClient: the record is that of the card.         *)
LEMMA HomeClient ==
    ASSUME Client, SaidIsSaved, RequestsReachTheirMachine, Forget \/ Relaunch
    PROVE  ClientStep
<1>1. CASE Forget
  <2>1. CASE UNCHANGED <<sd, record, links, strays, told>>
    BY <1>1, <2>1, ScanClient DEF Forget, links
  <2>2. CASE sd' = NoRecord /\ Apply(NoRecord) /\ told' = "forgotten"
    <3>1. record' = NoRecord /\ control' = Nobody /\ request' \in Requests
          /\ strays' \subseteq [machine : Machines, code : Nat]
      BY <2>2, ResetClient DEF Apply
    <3>2. at = "home" /\ at' = at
      BY <1>1 DEF Forget
    <3> QED
      BY <2>2, <3>1, <3>2
         DEF ClientStep, ClientTyped, Records, NoRecord, RequestsReachTheirMachine,
             SaidIsSaved
  <2> QED
    BY <1>1, <2>1, <2>2 DEF Forget
<1>2. CASE Relaunch
  <2>1. record' = sd /\ sd' = sd /\ control' = Nobody /\ request' \in Requests
        /\ strays' \subseteq [machine : Machines, code : Nat]
    BY <1>2, ResetClient DEF Apply, Relaunch
  <2>2. at' = "home" /\ told' = "nothing"
    BY <1>2 DEF Relaunch
  <2> QED
    BY <2>1, <2>2
       DEF Client, ClientStep, ClientTyped, RequestsReachTheirMachine, SaidIsSaved
<1> QED
  BY <1>1, <1>2

(* A session: whatever is asked goes to the machine of the record. *)
LEMMA SessionClient ==
    ASSUME Client, SaidIsSaved, RequestsReachTheirMachine,
           \/ Connect \/ Ask \/ ServeRequest \/ ReadAnswer \/ Leave
           \/ Hello \/ PushStep \/ HandleCommand
           \/ \E m \in Machines : RestartBridge(m)
    PROVE  ClientStep
<1> USE DEF Client, ClientTyped, ClientStep, SaidIsSaved, RequestsReachTheirMachine
<1>1. CASE Connect
  BY <1>1 DEF Connect, Prepare
<1>2. CASE Ask
  <2>1. ActiveMachine(record) \in Machines
    BY MachineTyped
  <2>2. /\ at = "session" /\ at' = at
        /\ control' = IF control = Nobody THEN ActiveMachine(record) ELSE control
        /\ request' = [phase |-> "asked", machine |-> control', code |-> 0,
                       device |-> 0]
        /\ UNCHANGED <<sd, record, strays, told>>
    BY <1>2 DEF Ask
  <2>3. /\ control' \in Machines /\ control' = ActiveMachine(record)
        /\ ActiveMachine(record)' = ActiveMachine(record)
    BY <2>1, <2>2 DEF ActiveMachine
  <2>4. request' \in Requests
    BY <2>2, <2>3 DEF Requests
  <2> QED
    BY <2>2, <2>3, <2>4
<1>3. CASE ServeRequest
  <2>1. PICK accepted \in BOOLEAN :
           request' = [request EXCEPT !.phase = "answered",
                         !.device = IF accepted THEN record.device ELSE 0]
    BY <1>3 DEF ServeRequest
  <2>2. /\ request.phase = "asked" /\ at' = at
        /\ UNCHANGED <<sd, record, control, strays, told>>
    BY <1>3 DEF ServeRequest
  <2>3. at # "exchanging"
    BY <2>2 DEF Beliefs
  <2>4. request \in [phase : {"sent", "asked", "answered"}, machine : Machines,
                     code : Nat, device : Nat]
    BY <2>2 DEF Requests, NoRequest
  <2> DEFINE d == IF accepted THEN record.device ELSE 0
  <2>5. d \in Nat
    BY DEF Records, NoRecord, Broken
  <2> HIDE DEF d
  <2>6. request' \in Requests
    BY <2>1, <2>4, <2>5 DEF Requests, d
  <2>7. ActiveMachine(record)' = ActiveMachine(record)
    BY <2>2 DEF ActiveMachine
  <2> QED
    BY <2>2, <2>3, <2>6, <2>7
<1>4. CASE ReadAnswer
  BY <1>4 DEF ReadAnswer, Requests, ActiveMachine
<1>5. CASE Leave
  <2>1. control' = Nobody /\ request' \in Requests
        /\ strays' \subseteq [machine : Machines, code : Nat]
    BY <1>5, ResetClient DEF Leave
  <2> QED
    BY <1>5, <2>1 DEF Leave
<1>6. CASE \/ Hello \/ PushStep \/ HandleCommand
           \/ \E m \in Machines : RestartBridge(m)
  <2>1. UNCHANGED <<at, sd, record, control, request, strays, told>>
    BY <1>6 DEF Hello, PushStep, HandleCommand, RestartBridge
  <2> QED
    BY <2>1, ScanClient
<1> QED
  BY <1>1, <1>2, <1>3, <1>4, <1>5, <1>6

LEMMA StepClient ==
    ASSUME Stored, Client, SaidIsSaved, RequestsReachTheirMachine, [Next]_vars
    PROVE  ClientStep
<1>1. CASE StartScan \/ BackOut \/ AimFrame \/ StartTyping \/ TypingFails
  BY <1>1, ScanClient
     DEF StartScan, BackOut, AimFrame, StartTyping, TypingFails, LeaveScan,
         TakeAndParse, links
<1>2. CASE Service \/ Worker \/ OtherPairs \/ Bridges \/ UNCHANGED vars
  BY <1>2, ScanClient
     DEF Service, Worker, OtherPairs, Bridges, vars, clientVars, links
<1>3. CASE Joined
  BY <1>3, ScanClient DEF Joined, links
<1>4. CASE ExchangeScanned
  <2>1. PICK code \in 1..Len(codes) : Exchange(codes[code], code)
    BY <1>4 DEF ExchangeScanned
  <2>2. codes[code] \in Machines /\ code \in Nat
    BY DEF Stored, StoreTyped
  <2> QED
    BY <1>4, <2>1, <2>2, ExchangeClient DEF ExchangeScanned
<1>5. CASE ExchangeTyped
  <2>1. \/ \E code \in 1..Len(codes) : Exchange(codes[code], code)
        \/ \E m \in Machines, code \in 0..Len(codes) : Exchange(m, code)
    BY <1>5 DEF ExchangeTyped
  <2>2. \A code \in 1..Len(codes) : codes[code] \in Machines /\ code \in Nat
    BY DEF Stored, StoreTyped
  <2>3. \A code \in 0..Len(codes) : code \in Nat
    BY DEF Stored, StoreTyped
  <2>4. \E m \in Machines, code \in Nat : Exchange(m, code)
    BY <2>1, <2>2, <2>3
  <2> QED
    BY <1>5, <2>4, ExchangeClient DEF ExchangeTyped
<1>6. CASE ServePairing
  BY <1>6, ServedClient
<1>7. CASE ServeStray
  BY <1>7
     DEF ServeStray, Client, ClientTyped, ClientStep, SaidIsSaved,
         RequestsReachTheirMachine, ActiveMachine, links
<1>8. CASE ExchangeFails
  <2>1. control' = Nobody /\ request' \in Requests
        /\ strays' \subseteq [machine : Machines, code : Nat]
    BY <1>8, ResetClient DEF ExchangeFails
  <2> QED
    BY <1>8, <2>1
       DEF ExchangeFails, Client, ClientTyped, ClientStep, SaidIsSaved,
           RequestsReachTheirMachine
<1>9. CASE Refused \/ Acknowledge
  BY <1>9
     DEF Refused, Acknowledge, Client, ClientTyped, ClientStep, SaidIsSaved,
         RequestsReachTheirMachine, Requests, links
<1>10. CASE Paired
  BY <1>10, PairedClient
<1>11. CASE Forget \/ Relaunch
  BY <1>11, HomeClient
<1>12. CASE \/ Connect \/ Ask \/ ServeRequest \/ ReadAnswer \/ Leave
            \/ Hello \/ PushStep \/ HandleCommand
            \/ \E m \in Machines : RestartBridge(m)
  BY <1>12, SessionClient
<1> QED
  BY <1>1, <1>2, <1>3, <1>4, <1>5, <1>6, <1>7, <1>8, <1>9, <1>10, <1>11, <1>12
     DEF Next

(* What the 3DS believes after a step it knew before, or was told in it.     *)
LEMMA StepBeliefs ==
    ASSUME Stored, Client, KeysStay, ClientStep
    PROVE  Beliefs'
<1>1. \A m, d : Known(m, d) => KnownNext(m, d)
  BY KnownStays
<1>2. \A m, d : d = Broken => KnownNext(m, d)
  BY DEF KnownNext
<1>3. at = "exchanging" /\ request.phase = "answered" =>
         KnownNext(request.machine, request.device)
  BY <1>1 DEF Client, Beliefs
<1>4. KnownNext(sd'.machine, sd'.device)
  BY <1>1, <1>2, <1>3 DEF Client, Beliefs, ClientStep
<1>5. KnownNext(record'.machine, record'.device)
  BY <1>1, <1>2, <1>3 DEF Client, Beliefs, ClientStep
<1>6. at' = "exchanging" =>
         /\ request'.phase \in {"sent", "answered"}
         /\ request'.phase = "answered" =>
               KnownNext(request'.machine, request'.device)
  BY <1>3 DEF Client, Beliefs, ClientStep
<1> QED
  BY <1>4, <1>5, <1>6 DEF Beliefs, Known, KnownNext, Accounted

Inv == Stored /\ Client /\ SaidIsSaved /\ RequestsReachTheirMachine

LEMMA InitInv == Init => Inv
<1> SUFFICES ASSUME Init PROVE Inv
  OBVIOUS
<1> USE DEF Init, StoreInit
<1>1. Pristine \in Stores
  BY DEF Pristine, Stores
<1>2. StoreTyped
  <2>1. store \in [Machines -> Stores]
    BY <1>1
  <2>2. codes \in Seq(Machines) /\ issued \in Seq(Issues)
    OBVIOUS
  <2> QED
    BY <2>1, <2>2 DEF StoreTyped, Commands
<1>3. Len(codes) = 0 /\ Len(issued) = 0 /\ Devices = {}
  BY DEF Devices
<1>4. \A m \in Machines : store[m] = Pristine
  OBVIOUS
<1>5. OffersAreOpen
  BY <1>3, <1>4 DEF OffersAreOpen, Pristine
<1>6. OneCodeOneKey
  BY <1>3 DEF OneCodeOneKey
<1>7. FilesAreOurs
  <2>1. Consistent(Pristine)
    BY <1>1, FS_EmptySet DEF Consistent, Pristine, FileStamp
  <2> QED
    BY <1>4, <2>1 DEF FilesAreOurs, NoCommand
<1>8. Client
  BY DEF Client, ClientTyped, Beliefs, Known, NoRecord, NoRequest, Records,
         Requests
<1>9. SaidIsSaved /\ RequestsReachTheirMachine
  BY DEF SaidIsSaved, RequestsReachTheirMachine
<1> QED
  BY <1>2, <1>5, <1>6, <1>7, <1>8, <1>9 DEF Inv, Stored

LEMMA NextInv == Inv /\ [Next]_vars => Inv'
<1> SUFFICES ASSUME Inv, [Next]_vars PROVE Inv'
  OBVIOUS
<1>1. Stored' /\ KeysStay
  BY StepStored DEF Inv
<1>2. ClientStep
  BY StepClient DEF Inv
<1>3. Beliefs'
  BY <1>1, <1>2, StepBeliefs DEF Inv
<1> QED
  BY <1>1, <1>2, <1>3 DEF Inv, Client, ClientStep

LEMMA AlwaysInv == Spec => []Inv
BY InitInv, NextInv, PTL DEF Spec

-----------------------------------------------------------------------------
(* redeem() consumes the code before anything else can run: whatever is      *)
(* sent again, late, by another handheld or after a restart of the bridge,   *)
(* no code buys a second key.                                                *)
THEOREM CodesAreSpentOnce == Spec => []OneCodeOneKey
<1>1. Inv => OneCodeOneKey
  BY DEF Inv, Stored
<1> QED
  BY <1>1, AlwaysInv, PTL

(* A key the 3DS holds in memory was issued by the machine its record names, *)
(* and is in the file of that machine, unless a write of the operator's      *)
(* process took it out.                                                      *)
THEOREM RecordsAreKnown == Spec => []PairedIsKnown
<1>1. Inv => PairedIsKnown
  BY DEF Inv, Client, Beliefs, Known, Accounted, PairedIsKnown
<1> QED
  BY <1>1, AlwaysInv, PTL

(* The words "paired" and "forgotten" on the screen are what a relaunch will *)
(* find on the card, whatever pairing_save() met.                            *)
THEOREM ScreenMatchesCard == Spec => []SaidIsSaved
<1>1. Inv => SaidIsSaved
  BY DEF Inv
<1> QED
  BY <1>1, AlwaysInv, PTL

(* A request of a session is never sent over a connection that pairing left  *)
(* open to another machine.                                                  *)
THEOREM SessionsReachTheirMachine == Spec => []RequestsReachTheirMachine
<1>1. Inv => RequestsReachTheirMachine
  BY DEF Inv
<1> QED
  BY <1>1, AlwaysInv, PTL

AdmittedStep ==
    /\ request.phase = "asked" /\ request'.phase = "answered"
          /\ request'.device # 0
       => Lists(request.machine)
    /\ push = "waiting" /\ push' = "ready" => Lists(ActiveMachine(record))

LEMMA OnlyServingAnswers ==
    ASSUME [Next]_vars, request.phase = "asked", request'.phase = "answered"
    PROVE  ServeRequest
<1>1. request' # request /\ request'.phase # "sent" /\ request' # NoRequest
  BY DEF NoRequest
<1>2. CASE \/ StartScan \/ BackOut \/ AimFrame \/ Service \/ Worker \/ Joined
           \/ StartTyping \/ TypingFails \/ ServeStray \/ OtherPairs \/ Acknowledge
           \/ Connect \/ Bridges \/ UNCHANGED vars
  BY <1>1, <1>2
     DEF StartScan, BackOut, AimFrame, Service, Worker, Joined, StartTyping,
         TypingFails, ServeStray, OtherPairs, Acknowledge, Connect, Bridges, vars,
         clientVars, links
<1>3. CASE ExchangeScanned \/ ExchangeTyped
  <2>1. \E m, code : Exchange(m, code)
    BY <1>3 DEF ExchangeScanned, ExchangeTyped
  <2> QED
    BY <1>1, <2>1 DEF Exchange
<1>4. CASE \/ ServePairing \/ ExchangeFails \/ Refused \/ Paired \/ Forget
           \/ Relaunch \/ Ask \/ ReadAnswer \/ Leave
  BY <1>1, <1>4
     DEF ServePairing, ExchangeFails, Refused, Paired, Forget, Relaunch, Ask,
         ReadAnswer, Leave, Apply, ResetConnections, links
<1>5. CASE \/ Hello \/ PushStep \/ HandleCommand
           \/ \E m \in Machines : RestartBridge(m)
  BY <1>1, <1>5 DEF Hello, PushStep, HandleCommand, RestartBridge
<1> QED
  BY <1>2, <1>3, <1>4, <1>5 DEF Next

LEMMA OnlyHelloAdmits ==
    ASSUME [Next]_vars, push = "waiting", push' = "ready"
    PROVE  Hello
<1>1. CASE \/ StartScan \/ BackOut \/ AimFrame \/ Service \/ Worker \/ Joined
           \/ StartTyping \/ TypingFails \/ ServeStray \/ OtherPairs \/ Acknowledge
           \/ Connect \/ Bridges \/ UNCHANGED vars
  BY <1>1
     DEF StartScan, BackOut, AimFrame, Service, Worker, Joined, StartTyping,
         TypingFails, ServeStray, OtherPairs, Acknowledge, Connect, Bridges, vars,
         clientVars, links
<1>2. CASE \/ ExchangeScanned \/ ExchangeTyped \/ ServePairing \/ Refused
           \/ Ask \/ ServeRequest
  BY <1>2
     DEF ExchangeScanned, ExchangeTyped, ServePairing, Refused, Ask, ServeRequest
<1>3. CASE \/ ExchangeFails \/ Paired \/ Forget \/ Relaunch \/ ReadAnswer \/ Leave
  BY <1>3
     DEF ExchangeFails, Paired, Forget, Relaunch, ReadAnswer, Leave, Apply,
         ResetConnections, links
<1>4. CASE \/ PushStep \/ HandleCommand \/ \E m \in Machines : RestartBridge(m)
  BY <1>4 DEF PushStep, HandleCommand, RestartBridge
<1> QED
  BY <1>1, <1>2, <1>3, <1>4 DEF Next

(* authorizeToken(): who is let pass has a key that is listed. *)
LEMMA AuthorizedIsListed ==
    ASSUME Stored, NEW m \in Machines, Authorize(m, TRUE)
    PROVE  Lists(m)
<1>1. VerifyToken(m, record.device, TRUE)
  BY DEF Authorize
<1> QED
  BY <1>1, VerifyStore DEF Lists

(* verifyToken() reads the file again when another process wrote it, so that *)
(* a bridge answers a request of a device, or takes its hello, only if the   *)
(* file lists it at that moment, whatever the two processes write and read   *)
(* in between, except where a write came between what a call of the bridge   *)
(* read or wrote and the stamp it took of that.                              *)
THEOREM RevokedAreRefused == Spec => AdmittedIsListed
<1>1. ASSUME Inv, [Next]_vars, request.phase = "asked",
             request'.phase = "answered", request'.device # 0
      PROVE  Lists(request.machine)
  <2>1. ServeRequest
    BY <1>1, OnlyServingAnswers
  <2>2. PICK accepted \in BOOLEAN :
           /\ Authorize(request.machine, accepted)
           /\ request' = [request EXCEPT !.phase = "answered",
                            !.device = IF accepted THEN record.device ELSE 0]
    BY <2>1 DEF ServeRequest
  <2>3. request.machine \in Machines
    BY <1>1, MachineTyped DEF Inv, Client
  <2>4. request \in [phase : {"sent", "asked", "answered"}, machine : Machines,
                     code : Nat, device : Nat]
    BY <1>1 DEF Inv, Client, ClientTyped, Requests, NoRequest
  <2>5. accepted
    BY <1>1, <2>2, <2>4
  <2>6. Authorize(request.machine, TRUE)
    BY <2>2, <2>5
  <2> QED
    BY <1>1, <2>3, <2>6, AuthorizedIsListed DEF Inv
<1>2. ASSUME Inv, [Next]_vars, push = "waiting", push' = "ready"
      PROVE  Lists(ActiveMachine(record))
  <2>1. Hello
    BY <1>2, OnlyHelloAdmits
  <2>2. Authorize(ActiveMachine(record), TRUE)
    BY <1>2, <2>1 DEF Hello
  <2>3. ActiveMachine(record) \in Machines
    BY <1>2, MachineTyped DEF Inv, Client
  <2> QED
    BY <1>2, <2>2, <2>3, AuthorizedIsListed DEF Inv
<1>3. Inv /\ [Next]_vars => [AdmittedStep]_vars
  BY <1>1, <1>2 DEF AdmittedStep
<1>4. [][AdmittedStep]_vars <=> AdmittedIsListed
  BY DEF AdmittedStep, AdmittedIsListed
<1> QED
  BY AlwaysInv, <1>3, <1>4, PTL DEF Spec

-----------------------------------------------------------------------------
(* The decoder's image is written by qr_scanner_submit(), only while the      *)
(* worker is not busy; the worker is busy as long as it decodes.              *)
Sighted == {Ours, Newer, Partial, Stray}
Scanners ==
    [event : BOOLEAN, busy : BOOLEAN, stopping : BOOLEAN, ready : BOOLEAN,
     payload : Sighted, image : Seq(Sighted), next : Nat \ {0},
     pc : {"none", "waiting", "decoding", "ended"}]

ScannerOK(s) == s \in Scanners /\ (s.pc = "decoding" => s.busy)

Undisturbed(s, t) ==
    /\ ScannerOK(t)
    /\ s.pc = "decoding" /\ t.pc = "decoding" => t.image = s.image

LEMMA SubmitKeeps ==
    ASSUME NEW s, ScannerOK(s), NEW sight \in Sights
    PROVE  Undisturbed(s, Submit(s, sight))
<1>1. sight \in Seq(Sighted)
  BY SightsAssumption DEF Sighted
<1>2. CASE s.busy \/ s.ready
  BY <1>2 DEF Submit, Undisturbed
<1>3. CASE ~(s.busy \/ s.ready)
  <2> DEFINE t == [s EXCEPT !.image = sight, !.busy = TRUE, !.event = TRUE]
  <2>1. Submit(s, sight) = t
    BY <1>3 DEF Submit
  <2> USE DEF ScannerOK, Scanners
  <2>2. t \in Scanners
    BY <1>1
  <2>3. t.pc = s.pc /\ t.busy /\ s.pc # "decoding"
    BY <1>3
  <2> HIDE DEF t
  <2> QED
    BY <2>1, <2>2, <2>3 DEF Undisturbed
<1> QED
  BY <1>2, <1>3

LEMMA TakeKeeps ==
    ASSUME NEW s, ScannerOK(s)
    PROVE  Undisturbed(s, TakePayload(s))
<1> DEFINE t == TakePayload(s)
<1>1. t \in Scanners
  BY DEF ScannerOK, Scanners, TakePayload, Sighted
<1>2. t.pc = s.pc /\ t.busy = s.busy /\ t.image = s.image
  BY DEF ScannerOK, Scanners, TakePayload
<1> HIDE DEF t
<1> QED
  BY <1>1, <1>2 DEF Undisturbed, ScannerOK, t

LEMMA StopKeeps ==
    ASSUME NEW s, ScannerOK(s)
    PROVE  Undisturbed(s, StopScanner(s))
<1> DEFINE t == [s EXCEPT !.stopping = TRUE, !.event = TRUE]
<1>1. t \in Scanners
  BY DEF ScannerOK, Scanners
<1>2. t.pc = s.pc /\ t.busy = s.busy /\ t.image = s.image
  BY DEF ScannerOK, Scanners
<1> HIDE DEF t
<1>3. StopScanner(s) \in {s, t}
  BY DEF StopScanner, t
<1> QED
  BY <1>1, <1>2, <1>3 DEF Undisturbed, ScannerOK

LEMMA UndisturbedTwice ==
    ASSUME NEW s, NEW t, NEW u, Undisturbed(s, t), Undisturbed(t, u), t.pc = s.pc
    PROVE  Undisturbed(s, u)
BY DEF Undisturbed

LEMMA SubmitsWhereItWas ==
    ASSUME NEW s, ScannerOK(s), NEW sight
    PROVE  Submit(s, sight).pc = s.pc
BY DEF Submit, ScannerOK, Scanners

(* The worker itself only moves on in the image, or leaves it.               *)
LEMMA WorkerKeeps ==
    ASSUME NEW s, ScannerOK(s), NEW t, WorkerStep(s, t)
    PROVE  Undisturbed(s, t)
<1> USE DEF ScannerOK, Scanners
<1>1. CASE s.pc = "waiting" /\ s.event /\ t = Wake(s)
  <2> DEFINE pc == IF s.stopping THEN "ended"
                   ELSE IF s.busy THEN "decoding" ELSE "waiting"
  <2>1. /\ t = [s EXCEPT !.event = FALSE, !.pc = pc, !.next = 1]
        /\ pc \in {"waiting", "decoding", "ended"} /\ (pc = "decoding" => s.busy)
    BY <1>1 DEF Wake
  <2> HIDE DEF pc
  <2>2. 1 \in Nat \ {0}
    OBVIOUS
  <2>3. t \in Scanners
    BY <2>1, <2>2
  <2>4. t.pc = pc /\ t.busy = s.busy
    BY <2>1
  <2> QED
    BY <1>1, <2>1, <2>3, <2>4 DEF Undisturbed
<1>2. CASE s.pc = "decoding" /\ \E legible \in BOOLEAN : t = Decode(s, legible)
  <2>1. PICK legible \in BOOLEAN : t = Decode(s, legible)
    BY <1>2
  <2>2. CASE s.next > Len(s.image) \/ s.ready
    <3>1. t = [s EXCEPT !.busy = FALSE, !.pc = "waiting", !.image = <<>>, !.next = 1]
      BY <2>1, <2>2 DEF Decode
    <3>2. <<>> \in Seq(Sighted) /\ 1 \in Nat \ {0}
      OBVIOUS
    <3>3. t \in Scanners
      BY <3>1, <3>2
    <3>4. t.pc = "waiting"
      BY <3>1
    <3> QED
      BY <3>3, <3>4 DEF Undisturbed
  <2>3. CASE ~(s.next > Len(s.image) \/ s.ready)
    <3> DEFINE p == IF legible THEN s.image[s.next] ELSE s.payload
    <3>1. p \in Sighted
      <4>1. s.image \in Seq(Sighted) /\ s.next \in 1..Len(s.image)
        BY <2>3
      <4>2. s.image[s.next] \in Sighted
        BY <4>1
      <4> QED
        BY <4>2
    <3>2. t = [s EXCEPT !.next = s.next + 1, !.ready = legible, !.payload = p]
      BY <2>1, <2>3 DEF Decode
    <3> HIDE DEF p
    <3>3. s.next + 1 \in Nat \ {0}
      OBVIOUS
    <3>4. t \in Scanners
      BY <3>1, <3>2, <3>3
    <3>5. t.pc = s.pc /\ t.busy = s.busy /\ t.image = s.image
      BY <3>2
    <3> QED
      BY <3>4, <3>5 DEF Undisturbed
  <2> QED
    BY <2>2, <2>3
<1> QED
  BY <1>1, <1>2 DEF WorkerStep

LEMMA TakeAndParseKeeps ==
    ASSUME NEW s, ScannerOK(s), TakeAndParse(s)
    PROVE  Undisturbed(s, scanner')
<1>1. Undisturbed(s, TakePayload(s)) /\ Undisturbed(s, s)
  BY TakeKeeps DEF Undisturbed
<1>2. TakePayload(s).pc = s.pc
  BY DEF TakePayload, ScannerOK, Scanners
<1>3. scanner' \in {s, TakePayload(s), StopScanner(TakePayload(s))}
  BY DEF TakeAndParse, LeaveScan
<1>4. Undisturbed(TakePayload(s), StopScanner(TakePayload(s)))
  BY <1>1, StopKeeps DEF Undisturbed
<1> QED
  BY <1>1, <1>2, <1>3, <1>4, UndisturbedTwice

LEMMA NoScannerOK == ScannerOK(NoScanner) /\ ScannerOK(BeginScanner)
<1>1. NoScanner \in Scanners
  BY DEF NoScanner, Scanners, Sighted
<1>2. BeginScanner \in Scanners
  BY <1>1 DEF BeginScanner, Scanners
<1> QED
  BY <1>1, <1>2 DEF ScannerOK, NoScanner, BeginScanner, Scanners

(* One step of any of the threads. *)
LEMMA StepScanner ==
    ASSUME ScannerOK(scanner), [Next]_vars
    PROVE  Undisturbed(scanner, scanner')
<1>1. CASE UNCHANGED scanner
  BY <1>1 DEF Undisturbed
<1>2. CASE StartScan
  <2>1. scanner' = BeginScanner \/ scanner' = scanner
    BY <1>2 DEF StartScan, cameraVars
  <2>2. BeginScanner.pc = "waiting"
    BY DEF BeginScanner, NoScanner
  <2> QED
    BY <2>1, <2>2, NoScannerOK DEF Undisturbed
<1>3. CASE Joined \/ Relaunch
  <2>1. scanner' = NoScanner
    BY <1>3 DEF Joined, Relaunch
  <2> QED
    BY <2>1, NoScannerOK DEF Undisturbed, NoScanner
<1>4. CASE BackOut
  BY <1>4, StopKeeps DEF BackOut, LeaveScan
<1>5. CASE Worker
  BY <1>5, WorkerKeeps DEF Worker
<1>6. CASE AimFrame
  <2>1. \/ TakeAndParse(scanner)
        \/ scanner' = StopScanner(scanner)
        \/ \E sight \in Sights : \/ TakeAndParse(Submit(scanner, sight))
                                 \/ scanner' = StopScanner(Submit(scanner, sight))
    BY <1>6 DEF AimFrame, Seen, LeaveScan
  <2>2. ASSUME NEW sight \in Sights,
               \/ TakeAndParse(Submit(scanner, sight))
               \/ scanner' = StopScanner(Submit(scanner, sight))
        PROVE  Undisturbed(scanner, scanner')
    <3> DEFINE s == Submit(scanner, sight)
    <3>1. Undisturbed(scanner, s) /\ s.pc = scanner.pc
      BY SubmitKeeps, SubmitsWhereItWas
    <3>2. TakeAndParse(s) \/ scanner' = StopScanner(s)
      BY <2>2
    <3> HIDE DEF s
    <3>3. ScannerOK(s)
      BY <3>1 DEF Undisturbed
    <3>4. Undisturbed(s, scanner')
      BY <3>2, <3>3, TakeAndParseKeeps, StopKeeps
    <3> QED
      BY <3>1, <3>4, UndisturbedTwice
  <2> QED
    BY <2>1, <2>2, TakeAndParseKeeps, StopKeeps
<1>7. CASE \/ Service \/ StartTyping \/ TypingFails \/ ExchangeScanned
           \/ ExchangeTyped \/ ServePairing \/ ServeStray \/ OtherPairs
           \/ ExchangeFails \/ Refused \/ Paired \/ Acknowledge \/ Forget
           \/ Connect \/ Ask \/ ServeRequest \/ ReadAnswer \/ Leave \/ Hello
           \/ PushStep \/ HandleCommand \/ Bridges
           \/ (\E m \in Machines : RestartBridge(m)) \/ UNCHANGED vars
  BY <1>1, <1>7
     DEF Service, StartTyping, TypingFails, ExchangeScanned, ExchangeTyped,
         ServePairing, ServeStray, OtherPairs, ExchangeFails, Refused, Paired,
         Acknowledge, Forget, Connect, Ask, ServeRequest, ReadAnswer, Leave,
         Hello, PushStep, HandleCommand, RestartBridge, Bridges, vars, cameraVars
<1> QED
  BY <1>2, <1>3, <1>4, <1>5, <1>6, <1>7 DEF Next

ImageStep ==
    scanner.pc = "decoding" /\ scanner'.pc = "decoding"
       => scanner'.image = scanner.image

(* While qr_worker() decodes an image no frame of the main thread, however   *)
(* many it submits and whenever the loop is left, replaces it.               *)
THEOREM ImageIsNotReplaced == Spec => ImageIsStable
<1>1. Init => ScannerOK(scanner)
  BY NoScannerOK DEF Init
<1>2. ScannerOK(scanner) /\ [Next]_vars => ScannerOK(scanner)' /\ [ImageStep]_vars
  BY StepScanner DEF Undisturbed, ImageStep
<1>3. [][ImageStep]_vars <=> ImageIsStable
  BY DEF ImageStep, ImageIsStable
<1> QED
  BY <1>1, <1>2, <1>3, PTL DEF Spec
=============================================================================
