-------------------------- MODULE BridgeStateProofs --------------------------
(***************************************************************************)
(* Proofs about what the bridge keeps: the event store (EventStore), for   *)
(* every number of sessions, every history and byte limit, and every       *)
(* length of history, and the execution of commands (CommandExecution),    *)
(* for any number of callers and commands and any registry capacity.       *)
(***************************************************************************)
EXTENDS EventStore, CommandExecution, CommonLemmas, SequenceTheorems

-----------------------------------------------------------------------------
(***************************************************************************)
(* EventStore: the retained window is contiguous and within both limits,   *)
(* and a replay is exact.  First come lemmas on the operators of EventLog, *)
(* then the invariant.                                                     *)
(***************************************************************************)

(* The size of an event is a natural number. *)
LEMMA EventBytes == \A x \in EventType : x.bytes \in Nat
  BY StoreAssumption DEF EventType

(* The recursive function RunningBytes satisfies its defining equation. *)
LEMMA RunningBytesEquation ==
    ASSUME NEW e \in Seq(EventType)
    PROVE  RunningBytes(e) =
               [k \in 0 .. Len(e) |->
                   IF k = 0 THEN 0 ELSE RunningBytes(e)[k - 1] + e[k].bytes]
<1> DEFINE Equation(f, n) ==
              f = [k \in 0 .. n |-> IF k = 0 THEN 0 ELSE f[k - 1] + e[k].bytes]
           S == {n \in Nat : n <= Len(e) => \E f : Equation(f, n)}
<1>1. 0 \in S
  <2> DEFINE f == [k \in 0 .. 0 |-> 0]
  <2> QED
    BY Equation(f, 0)
<1>2. ASSUME NEW n \in Nat, n \in S
      PROVE  n + 1 \in S
  <2> SUFFICES ASSUME n + 1 <= Len(e)
               PROVE  \E g : Equation(g, n + 1)
    OBVIOUS
  <2>1. PICK f : Equation(f, n)
    BY <1>2
  <2> DEFINE g == [k \in 0 .. n + 1 |->
                      IF k <= n THEN f[k] ELSE f[n] + e[n + 1].bytes]
  <2>2. \A k \in 0 .. n + 1 :
            g[k] = IF k = 0 THEN 0 ELSE g[k - 1] + e[k].bytes
    BY <2>1
  <2>3. Equation(g, n + 1)
    BY <2>2
  <2> QED
    BY <2>3
<1>3. Len(e) \in S
  <2> HIDE DEF S
  <2> QED
    BY <1>1, <1>2, SetInduction
<1>4. PICK f : Equation(f, Len(e))
  BY <1>3
<1> QED
  BY <1>4, Zenon DEF RunningBytes

(* Running sums start at zero and grow by one event at a time. *)
LEMMA RunningBytesStep ==
    ASSUME NEW e \in Seq(EventType)
    PROVE  /\ RunningBytes(e)[0] = 0
           /\ \A k \in 1 .. Len(e) :
                  RunningBytes(e)[k] = RunningBytes(e)[k - 1] + e[k].bytes
<1> DEFINE f == RunningBytes(e)
<1>1. f = [k \in 0 .. Len(e) |-> IF k = 0 THEN 0 ELSE f[k - 1] + e[k].bytes]
  BY RunningBytesEquation
<1> HIDE DEF f
<1>2. /\ f[0] = 0
      /\ \A k \in 1 .. Len(e) : f[k] = f[k - 1] + e[k].bytes
  BY <1>1
<1> QED
  BY <1>2 DEF f

(* Sizes are naturals, so running sums are. *)
LEMMA RunningBytesType ==
    ASSUME NEW e \in Seq(EventType)
    PROVE  \A k \in 0 .. Len(e) : RunningBytes(e)[k] \in Nat
<1> DEFINE f == RunningBytes(e)
           S == {k \in Nat : k <= Len(e) => f[k] \in Nat}
<1>1. 0 \in S
  BY RunningBytesStep
<1>2. ASSUME NEW n \in Nat, n \in S
      PROVE  n + 1 \in S
  <2>1. CASE n + 1 <= Len(e)
    <3>1. n + 1 \in 1 .. Len(e) /\ f[n] \in Nat /\ (n + 1) - 1 = n
      BY <1>2, <2>1
    <3>2. f[n + 1] = f[n] + e[n + 1].bytes
      BY <3>1, RunningBytesStep
    <3>3. e[n + 1].bytes \in Nat
      BY <3>1, EventBytes
    <3> QED
      BY <3>1, <3>2, <3>3
  <2> QED
    BY <2>1
<1>3. Nat \subseteq S
  <2> HIDE DEF S
  <2> QED
    BY <1>1, <1>2, SetInduction
<1> QED
  BY <1>3

(* Appending an event leaves the earlier sums alone and adds its size. *)
LEMMA RunningBytesAppend ==
    ASSUME NEW e \in Seq(EventType), NEW x \in EventType
    PROVE  BytesOf(Append(e, x)) = BytesOf(e) + x.bytes
<1> DEFINE ex == Append(e, x)
           S  == {k \in Nat : k <= Len(e) => RunningBytes(ex)[k] = RunningBytes(e)[k]}
<1>1. ex \in Seq(EventType) /\ Len(ex) = Len(e) + 1 /\ Len(e) \in Nat
  OBVIOUS
<1>2. 0 \in S
  BY <1>1, RunningBytesStep
<1>3. ASSUME NEW n \in Nat, n \in S
      PROVE  n + 1 \in S
  <2>1. CASE n + 1 <= Len(e)
    <3>1. /\ n + 1 \in 1 .. Len(e)
          /\ n + 1 \in 1 .. Len(ex)
          /\ (n + 1) - 1 = n
          /\ RunningBytes(ex)[n] = RunningBytes(e)[n]
          /\ ex[n + 1] = e[n + 1]
      BY <1>1, <1>3, <2>1
    <3>2. RunningBytes(ex)[n + 1] = RunningBytes(ex)[n] + ex[n + 1].bytes
      BY <1>1, <3>1, RunningBytesStep
    <3>3. RunningBytes(e)[n + 1] = RunningBytes(e)[n] + e[n + 1].bytes
      BY <1>1, <3>1, RunningBytesStep
    <3> QED
      BY <3>1, <3>2, <3>3
  <2> QED
    BY <2>1
<1>4. Nat \subseteq S
  <2> HIDE DEF S
  <2> QED
    BY <1>2, <1>3, SetInduction
<1>5. RunningBytes(ex)[Len(e)] = RunningBytes(e)[Len(e)]
  BY <1>1, <1>4
<1>6. /\ Len(ex) \in 1 .. Len(ex)
      /\ Len(ex) - 1 = Len(e)
      /\ ex[Len(ex)] = x
  BY <1>1
<1>7. RunningBytes(ex)[Len(ex)] = RunningBytes(ex)[Len(e)] + x.bytes
  BY <1>1, <1>6, RunningBytesStep
<1> QED
  BY <1>5, <1>7 DEF BytesOf

(* Dropping the first k events drops exactly their sizes. *)
LEMMA RunningBytesSuffix ==
    ASSUME NEW e \in Seq(EventType), NEW k \in 0 .. Len(e)
    PROVE  BytesOf(SubSeq(e, k + 1, Len(e))) = BytesOf(e) - RunningBytes(e)[k]
<1> DEFINE r == SubSeq(e, k + 1, Len(e))
           S == {j \in Nat : j <= Len(e) - k =>
                    RunningBytes(r)[j] = RunningBytes(e)[k + j] - RunningBytes(e)[k]}
<1>1. /\ r \in Seq(EventType)
      /\ Len(r) = Len(e) - k
      /\ \A j \in 1 .. Len(r) : r[j] = e[k + j]
  OBVIOUS
<1>2. 0 \in S
  <2>1. RunningBytes(r)[0] = 0
    BY <1>1, RunningBytesStep
  <2>2. RunningBytes(e)[k] \in Nat /\ k + 0 = k
    BY RunningBytesType
  <2> QED
    BY <2>1, <2>2
<1>3. ASSUME NEW n \in Nat, n \in S
      PROVE  n + 1 \in S
  <2>1. CASE n + 1 <= Len(e) - k
    <3>1. /\ n + 1 \in 1 .. Len(r)
          /\ k + n + 1 \in 1 .. Len(e)
          /\ (n + 1) - 1 = n
          /\ (k + n + 1) - 1 = k + n
          /\ r[n + 1] = e[k + n + 1]
          /\ RunningBytes(r)[n] = RunningBytes(e)[k + n] - RunningBytes(e)[k]
      BY <1>1, <1>3, <2>1
    <3>2. RunningBytes(r)[n + 1] = RunningBytes(r)[n] + r[n + 1].bytes
      BY <1>1, <3>1, RunningBytesStep
    <3>3. RunningBytes(e)[k + n + 1] = RunningBytes(e)[k + n] + e[k + n + 1].bytes
      BY <1>1, <3>1, RunningBytesStep
    <3>4. e[k + n + 1].bytes \in Nat
      BY <3>1, EventBytes
    <3>5. RunningBytes(e)[k] \in Nat
      BY RunningBytesType
    <3>6. k + n \in 0 .. Len(e)
      BY <2>1
    <3>7. RunningBytes(e)[k + n] \in Nat
      BY <3>6, RunningBytesType
    <3> HIDE DEF r
    <3> QED
      BY <3>1, <3>2, <3>3, <3>4, <3>5, <3>7
  <2> QED
    BY <2>1
<1>4. Nat \subseteq S
  <2> HIDE DEF S
  <2> QED
    BY <1>2, <1>3, SetInduction
<1>5. /\ Len(e) - k \in Nat
      /\ k + (Len(e) - k) = Len(e)
  OBVIOUS
<1>6. RunningBytes(r)[Len(e) - k] = RunningBytes(e)[Len(e)] - RunningBytes(e)[k]
  BY <1>4, <1>5
<1> QED
  BY <1>1, <1>6 DEF BytesOf

-----------------------------------------------------------------------------
(* A log whose byte counter is exact, about to make room after an append.   *)
OverfullLog(l) ==
    /\ l \in LogType
    /\ Len(l.events) > 0
    /\ l.events[Len(l.events)].bytes <= MaxEventBytes
    /\ l.totalBytes = BytesOf(l.events)

(* The eviction loop stops before the newest event, at the first count that *)
(* fits: the newest event alone fits both limits.                           *)
LEMMA ShiftCountKeepsNewest ==
    ASSUME NEW l, OverfullLog(l)
    PROVE  /\ ShiftCount(l) \in 0 .. Len(l.events) - 1
           /\ FitsAfter(l, ShiftCount(l))
           /\ \A j \in 0 .. ShiftCount(l) - 1 : ~FitsAfter(l, j)
<1> DEFINE e    == l.events
           Fits == {k \in 0 .. Len(e) : FitsAfter(l, k)}
<1>1. e \in Seq(EventType) /\ Len(e) \in Nat /\ Len(e) \in 1 .. Len(e)
  BY DEF OverfullLog, LogType
<1>2. FitsAfter(l, Len(e) - 1)
  <2>1. Len(e) - (Len(e) - 1) <= HistoryLimit
    BY <1>1, HistoryAssumption
  <2>2. BytesOf(e) = RunningBytes(e)[Len(e) - 1] + e[Len(e)].bytes
    BY <1>1, RunningBytesStep DEF BytesOf
  <2>3. RunningBytes(e)[Len(e) - 1] \in Nat /\ e[Len(e)].bytes \in Nat
    BY <1>1, RunningBytesType, EventBytes
  <2>4. l.totalBytes - RunningBytes(e)[Len(e) - 1] <= HistoryBytesLimit
    BY <2>2, <2>3, HistoryAssumption DEF OverfullLog
  <2> QED
    BY <2>1, <2>4 DEF FitsAfter
<1>3. PICK m \in Fits : \A k \in Fits : m <= k
  <2>1. Len(e) - 1 \in Fits /\ Fits \in SUBSET Nat
    BY <1>1, <1>2
  <2> HIDE DEF Fits
  <2> QED
    BY <2>1, LeastNumber
<1>4. /\ m \in 0 .. Len(l.events)
      /\ FitsAfter(l, m)
      /\ \A j \in 0 .. m - 1 : ~FitsAfter(l, j)
  BY <1>1, <1>3
<1>5. /\ ShiftCount(l) \in 0 .. Len(l.events)
      /\ FitsAfter(l, ShiftCount(l))
      /\ \A j \in 0 .. ShiftCount(l) - 1 : ~FitsAfter(l, j)
  BY <1>4 DEF ShiftCount
<1> QED
  BY <1>1, <1>2, <1>5

(* What making room leaves: a suffix that holds the newest event, within    *)
(* both limits, with an exact byte counter.                                 *)
LEMMA EvictFacts ==
    ASSUME NEW l, OverfullLog(l)
    PROVE  LET r == Evict(l)
           IN  /\ r \in LogType
               /\ r.nextSequence = l.nextSequence
               /\ Len(r.events) > 0
               /\ EndsWith(l.events, r.events)
               /\ Len(r.events) <= HistoryLimit
               /\ r.totalBytes = BytesOf(r.events)
               /\ r.totalBytes <= HistoryBytesLimit
<1> DEFINE e == l.events
           k == ShiftCount(l)
           r == Evict(l)
           t == SubSeq(e, k + 1, Len(e))
<1>1. /\ e \in Seq(EventType) /\ Len(e) \in Nat
      /\ l.nextSequence \in Nat \ {0}
      /\ l.totalBytes = BytesOf(e)
  BY DEF OverfullLog, LogType
<1>2. k \in 0 .. Len(e) - 1 /\ FitsAfter(l, k)
  BY ShiftCountKeepsNewest
<1> HIDE DEF k
<1>3. r = [nextSequence |-> l.nextSequence, events |-> t,
           totalBytes |-> l.totalBytes - RunningBytes(e)[k]]
  <2> DEFINE rest == l.totalBytes - RunningBytes(e)[k]
  <2>1. r = [l EXCEPT !.events = t, !.totalBytes = rest]
    BY DEF Evict, k
  <2>2. l \in LogType
    BY DEF OverfullLog
  <2> HIDE DEF r, t, rest
  <2> QED
    BY <2>1, <2>2 DEF LogType, rest
<1>4. /\ t \in Seq(EventType)
      /\ Len(t) = Len(e) - k
      /\ \A i \in 1 .. Len(t) : t[i] = e[k + i]
  BY <1>1, <1>2
<1>5. /\ Len(e) - k <= HistoryLimit
      /\ l.totalBytes - RunningBytes(e)[k] <= HistoryBytesLimit
  BY <1>1, <1>2 DEF FitsAfter
<1>6. BytesOf(t) = l.totalBytes - RunningBytes(e)[k]
  BY <1>1, <1>2, RunningBytesSuffix
<1>7. BytesOf(e) \in Nat /\ RunningBytes(e)[k] \in Nat
  BY <1>1, <1>2, RunningBytesType DEF BytesOf
<1>8. l.totalBytes - RunningBytes(e)[k] \in Int
  BY <1>1, <1>7
<1>9. r \in LogType
  BY <1>1, <1>3, <1>4, <1>8 DEF LogType
<1>10. /\ r.nextSequence = l.nextSequence
       /\ r.events = t
       /\ r.totalBytes = l.totalBytes - RunningBytes(e)[k]
       /\ Len(t) > 0
  BY <1>1, <1>2, <1>3, <1>4
<1>11. EndsWith(e, t)
  <2>1. Len(e) - Len(t) = k /\ Len(t) <= Len(e)
    BY <1>1, <1>2, <1>4
  <2> HIDE DEF t
  <2> QED
    BY <1>4, <2>1 DEF EndsWith
<1> HIDE DEF r, t, e
<1>12. /\ Len(r.events) > 0
       /\ EndsWith(e, r.events)
       /\ Len(r.events) <= HistoryLimit
       /\ r.totalBytes = BytesOf(r.events)
       /\ r.totalBytes <= HistoryBytesLimit
  BY <1>4, <1>5, <1>6, <1>10, <1>11
<1> QED
  BY <1>9, <1>10, <1>12 DEF r, e

-----------------------------------------------------------------------------
(* The three invariants are inductive together.                             *)
StoreInv == StoreTypeOK /\ WindowIsSuffix /\ ByteBudget

(* Initially every log is empty. *)
LEMMA StoreInitInv == StoreInit => StoreInv
<1> SUFFICES ASSUME StoreInit
             PROVE  StoreInv
  OBVIOUS
<1>1. EmptyLog \in LogType
  BY DEF EmptyLog, LogType
<1>2. StoreTypeOK
  BY <1>1 DEF StoreInit, StoreTypeOK
<1>3. BytesOf(<<>>) = 0
  <2>1. <<>> \in Seq(EventType) /\ Len(<<>>) = 0
    OBVIOUS
  <2>2. RunningBytes(<<>>)[0] = 0
    BY <2>1, RunningBytesStep
  <2> QED
    BY <2>1, <2>2 DEF BytesOf
<1>4. WindowIsSuffix
  BY HistoryAssumption
     DEF StoreInit, WindowIsSuffix, IsWindow, EndsWith, EmptyLog
<1>5. ByteBudget
  BY <1>3, HistoryAssumption DEF StoreInit, ByteBudget, EmptyLog
<1> QED
  BY <1>2, <1>4, <1>5 DEF StoreInv
(* The log an append hands to the eviction loop. *)
Grown(l, type, bytes) ==
    [nextSequence |-> l.nextSequence + 1,
     events       |-> Append(l.events, Event(l.nextSequence, type, bytes)),
     totalBytes   |-> l.totalBytes + bytes]

(* An append to an exact log of an event that is not too large gives the    *)
(* eviction loop a log it can bring within the limits.                      *)
LEMMA GrownIsOverfull ==
    ASSUME NEW l \in LogType, NEW type \in EventTypes, NEW bytes \in EventSizes,
           bytes <= MaxEventBytes, l.totalBytes = BytesOf(l.events)
    PROVE  LET x == Event(l.nextSequence, type, bytes)
               g == Grown(l, type, bytes)
           IN  /\ x \in EventType
               /\ x.sequence = l.nextSequence
               /\ g \in LogType
               /\ g.nextSequence = l.nextSequence + 1
               /\ g.events = Append(l.events, x)
               /\ OverfullLog(g)
<1> DEFINE x  == Event(l.nextSequence, type, bytes)
           g  == Grown(l, type, bytes)
<1>1. /\ l.events \in Seq(EventType) /\ l.totalBytes \in Int
      /\ l.nextSequence \in Nat \ {0}
      /\ bytes \in Nat
  BY StoreAssumption DEF LogType
<1>2. /\ x \in EventType /\ x.bytes = bytes /\ x.sequence = l.nextSequence
  BY <1>1 DEF Event, EventType
<1>3. /\ g.events = Append(l.events, x)
      /\ g.nextSequence = l.nextSequence + 1
      /\ g.totalBytes = l.totalBytes + bytes
      /\ g \in LogType
  BY <1>1, <1>2 DEF Grown, LogType
<1>4. BytesOf(g.events) = g.totalBytes
  BY <1>1, <1>2, <1>3, RunningBytesAppend
<1>5. /\ Len(g.events) = Len(l.events) + 1
      /\ g.events[Len(g.events)] = x
      /\ Len(l.events) \in Nat
  BY <1>1, <1>2, <1>3
<1>6. OverfullLog(g)
  BY <1>2, <1>3, <1>4, <1>5 DEF OverfullLog
<1> QED
  BY <1>2, <1>3, <1>6

(* An append to a well formed log and to its history keeps the log a window *)
(* on the history, within both limits.                                      *)
LEMMA AppendKeepsWindow ==
    ASSUME NEW l \in LogType, NEW h \in Seq(EventType),
           NEW type \in EventTypes, NEW bytes \in EventSizes,
           bytes <= MaxEventBytes,
           IsWindow(l, h), l.totalBytes = BytesOf(l.events)
    PROVE  LET r == AppendEvent(l, type, bytes)
           IN  /\ r \in LogType
               /\ IsWindow(r, Append(h, Event(l.nextSequence, type, bytes)))
               /\ r.totalBytes = BytesOf(r.events)
               /\ r.totalBytes <= HistoryBytesLimit
<1> DEFINE x  == Event(l.nextSequence, type, bytes)
           hx == Append(h, x)
           g  == Grown(l, type, bytes)
           r  == Evict(g)
<1>1. /\ l.events \in Seq(EventType)
      /\ l.nextSequence = Len(h) + 1 /\ Len(h) \in Nat
  BY DEF LogType, IsWindow
<1>2. x \in EventType /\ x.sequence = Len(h) + 1
  BY <1>1, GrownIsOverfull
<1>3. /\ g.events = Append(l.events, x)
      /\ g.nextSequence = Len(h) + 2
      /\ g \in LogType
      /\ OverfullLog(g)
  BY <1>1, GrownIsOverfull
<1>5. Len(hx) = Len(h) + 1
  BY <1>1, <1>2
<1>7. /\ r \in LogType
      /\ r.nextSequence = g.nextSequence
      /\ Len(r.events) > 0
      /\ EndsWith(g.events, r.events)
      /\ Len(r.events) <= HistoryLimit
      /\ r.totalBytes = BytesOf(r.events)
      /\ r.totalBytes <= HistoryBytesLimit
  BY <1>3, EvictFacts
<1>8. r.events \in Seq(EventType) /\ hx \in Seq(EventType)
  BY <1>2, <1>7 DEF LogType
<1>9. EndsWith(hx, g.events)
  BY <1>1, <1>2, <1>3, EndsWithAppend DEF IsWindow
<1>10. \A i \in 1 .. Len(hx) : hx[i].sequence = i
  BY <1>1, <1>2 DEF IsWindow
<1> HIDE DEF x, hx, g, r
<1>11. EndsWith(hx, r.events)
  BY <1>3, <1>7, <1>8, <1>9, EndsWithTransitive DEF LogType
<1>12. r.nextSequence = Len(hx) + 1
  BY <1>1, <1>3, <1>5, <1>7
<1>13. IsWindow(r, hx)
  BY <1>7, <1>10, <1>11, <1>12 DEF IsWindow
<1>14. AppendEvent(l, type, bytes) = r
  BY DEF AppendEvent, Grown, g, r
<1> QED
  BY <1>7, <1>13, <1>14 DEF hx, x

(* Every append preserves the invariant. *)
LEMMA StoreNextInv == StoreInv /\ [StoreNext]_storeVars => StoreInv'
<1> SUFFICES ASSUME StoreInv, [StoreNext]_storeVars
             PROVE  StoreInv'
  OBVIOUS
<1>1. ASSUME NEW s \in Sessions, NEW type \in EventTypes,
             NEW bytes \in EventSizes, Publish(s, type, bytes)
      PROVE  StoreInv'
  <2> DEFINE x == Event(log[s].nextSequence, type, bytes)
             r == AppendEvent(log[s], type, bytes)
  <2>1. /\ log[s] \in LogType
        /\ history[s] \in Seq(EventType)
        /\ IsWindow(log[s], history[s])
        /\ log[s].totalBytes = BytesOf(log[s].events)
        /\ bytes <= MaxEventBytes
    BY <1>1 DEF StoreInv, StoreTypeOK, WindowIsSuffix, ByteBudget, Publish
  <2>2. /\ r \in LogType
        /\ IsWindow(r, Append(history[s], x))
        /\ r.totalBytes = BytesOf(r.events)
        /\ r.totalBytes <= HistoryBytesLimit
    BY <2>1, AppendKeepsWindow
  <2>3. x \in EventType
    BY <2>1 DEF Event, EventType, LogType
  <2> HIDE DEF r, x
  <2>4. /\ log' = [log EXCEPT ![s] = r]
        /\ history' = [history EXCEPT ![s] = Append(history[s], x)]
    BY <1>1 DEF Publish, r, x
  <2>5. Append(history[s], x) \in Seq(EventType)
    BY <2>1, <2>3
  <2>6. StoreTypeOK'
    BY <2>2, <2>4, <2>5 DEF StoreInv, StoreTypeOK
  <2>7. /\ log'[s] = r
        /\ history'[s] = Append(history[s], x)
        /\ \A o \in Sessions \ {s} : log'[o] = log[o] /\ history'[o] = history[o]
    BY <2>4 DEF StoreInv, StoreTypeOK
  <2>8. WindowIsSuffix'
    BY <2>2, <2>7 DEF StoreInv, WindowIsSuffix
  <2>9. ByteBudget'
    BY <2>2, <2>7 DEF StoreInv, ByteBudget
  <2> QED
    BY <2>6, <2>8, <2>9 DEF StoreInv
<1>2. CASE UNCHANGED storeVars
  BY <1>2 DEF StoreInv, StoreTypeOK, WindowIsSuffix, ByteBudget, storeVars
<1> QED
  BY <1>1, <1>2 DEF StoreNext

(* For every limit and every number of sessions: logs are well typed, every *)
(* retained history is a gap-free window ending at the newest event, and    *)
(* the byte counter is exact and within its budget.                         *)
THEOREM StoreCorrect == StoreSpec => [](StoreTypeOK /\ WindowIsSuffix /\ ByteBudget)
<1>1. StoreInv => StoreTypeOK /\ WindowIsSuffix /\ ByteBudget
  BY DEF StoreInv
<1> QED
  BY StoreInitInv, StoreNextInv, <1>1, PTL DEF StoreSpec
-----------------------------------------------------------------------------
(* A window answers every cursor exactly.                                   *)
LEMMA WindowReplay ==
    ASSUME NEW l \in LogType, NEW h \in Seq(EventType), IsWindow(l, h),
           NEW cursor \in Nat
    PROVE  ReplayFrom(l, h, cursor)
<1> DEFINE e       == l.events
           latest  == Len(h)
           evicted == Len(h) - Len(l.events)
           code    == CursorCode(l, cursor)
<1>1. /\ e \in Seq(EventType) /\ Len(e) \in Nat /\ latest \in Nat
      /\ evicted \in Nat /\ evicted + Len(e) = latest
      /\ LatestSequence(l) = latest
  BY DEF LogType, IsWindow, EndsWith, LatestSequence
<1>2. ASSUME NEW i \in 1 .. Len(e)
      PROVE  e[i] = h[evicted + i] /\ e[i].sequence = evicted + i
  <2>1. evicted + i \in 1 .. Len(h)
    BY <1>1
  <2>2. e[i] = h[evicted + i]
    BY DEF IsWindow, EndsWith
  <2> QED
    BY <2>1, <2>2 DEF IsWindow
<1>3. latest > 0 => Len(e) > 0
  BY DEF IsWindow
<1>4. code = IF cursor > latest THEN "EVENT_CURSOR_AHEAD"
             ELSE IF e # <<>> /\ cursor < Head(e).sequence - 1
                  THEN "EVENT_CURSOR_EXPIRED" ELSE "OK"
  BY <1>1 DEF CursorCode
<1> HIDE DEF e, evicted, latest, code
<1>5. e # <<>> => Head(e).sequence - 1 = evicted
  <2> SUFFICES ASSUME e # <<>>
               PROVE  Head(e).sequence - 1 = evicted
    OBVIOUS
  <2>1. 1 \in 1 .. Len(e) /\ Head(e) = e[1]
    BY <1>1
  <2>2. e[1].sequence = evicted + 1
    BY <1>2, <2>1
  <2> QED
    BY <1>1, <2>1, <2>2
<1>6. e = <<>> => evicted = 0 /\ latest = 0
  <2>1. e = <<>> => Len(e) = 0
    OBVIOUS
  <2> QED
    BY <1>1, <1>3, <2>1
<1>7. /\ code = "EVENT_CURSOR_AHEAD" <=> cursor > latest
      /\ code = "EVENT_CURSOR_EXPIRED" <=> cursor < evicted
  BY <1>1, <1>4, <1>5, <1>6
<1>8. ASSUME code = "OK", NEW limit \in 1 .. HistoryLimit
      PROVE  LET batch == EventsAfter(l, cursor, limit)
             IN  /\ batch = SubSeq(h, cursor + 1, cursor + Len(batch))
                 /\ Len(batch) < limit => cursor + Len(batch) = latest
  <2> DEFINE c     == cursor - evicted
             older == {i \in DOMAIN e : e[i].sequence <= cursor}
             last  == IF c + limit <= Len(e) THEN c + limit ELSE Len(e)
             batch == EventsAfter(l, cursor, limit)
             next  == SubSeq(h, cursor + 1, cursor + Len(batch))
  <2>1. cursor <= latest /\ cursor >= evicted /\ limit \in Nat \ {0}
    BY <1>1, <1>7, <1>8, HistoryAssumption
  <2>2. c \in Nat /\ c <= Len(e) /\ evicted + c = cursor
    BY <1>1, <2>1
  <2> HIDE DEF c
  <2>3. \A i \in 1 .. Len(e) : e[i].sequence <= cursor <=> i <= c
    BY <1>1, <1>2, <2>2
  <2>4. older = 1 .. c
    <3>1. DOMAIN e = 1 .. Len(e)
      BY <1>1
    <3> QED
      BY <1>1, <2>2, <2>3, <3>1
  <2>5. Cardinality(1 .. c) = c
    <3>1. Cardinality(1 .. c) = IF 1 > c THEN 0 ELSE c - 1 + 1
      BY <2>2, FS_Interval
    <3> QED
      BY <2>2, <3>1
  <2>6. batch = SubSeq(e, c + 1, last)
    BY <2>4, <2>5 DEF EventsAfter, e
  <2>7. /\ last \in Nat /\ c <= last /\ last <= Len(e)
        /\ last < c + limit => last = Len(e)
    BY <1>1, <2>1, <2>2
  <2> HIDE DEF last, batch, older
  <2>8. /\ batch \in Seq(EventType)
        /\ Len(batch) = last - c
        /\ \A i \in 1 .. last - c : batch[i] = e[c + i]
    BY <1>1, <2>2, <2>6, <2>7
  <2>9. /\ Len(batch) \in Nat
        /\ cursor + Len(batch) <= latest
        /\ Len(batch) < limit => cursor + Len(batch) = latest
    BY <1>1, <2>1, <2>2, <2>7, <2>8
  <2>10. /\ next \in Seq(EventType)
         /\ Len(next) = Len(batch)
         /\ \A i \in 1 .. Len(batch) : next[i] = h[cursor + i]
    BY <2>9 DEF latest
  <2>11. ASSUME NEW i \in 1 .. Len(batch)
         PROVE  batch[i] = next[i]
    <3>1. i \in 1 .. last - c /\ c + i \in 1 .. Len(e)
          /\ evicted + (c + i) = cursor + i
      BY <1>1, <2>2, <2>7, <2>8
    <3>2. e[c + i] = h[evicted + (c + i)]
      BY <1>2, <3>1
    <3> QED
      BY <2>8, <2>10, <3>1, <3>2
  <2>12. batch = next
    <3> HIDE DEF next
    <3> QED
      BY <2>8, <2>10, <2>11, SeqEqual
  <2> QED
    BY <2>9, <2>12 DEF batch
<1> QED
  BY <1>7, <1>8 DEF ReplayFrom, code, latest, evicted, e

(* For every limit and every cursor: a reader is told AHEAD, EXPIRED or the *)
(* exact continuation of the published history, never a gapped one.         *)
THEOREM ReplayExact == StoreSpec => []ReplayIsExact
<1>1. StoreInv => ReplayIsExact
  <2> SUFFICES ASSUME StoreInv, NEW s \in Sessions,
                      NEW cursor \in 0 .. MaxSequence + 1
               PROVE  ReplayFrom(log[s], history[s], cursor)
    BY DEF ReplayIsExact
  <2>1. /\ log[s] \in LogType
        /\ history[s] \in Seq(EventType)
        /\ IsWindow(log[s], history[s])
        /\ cursor \in Nat
    BY StoreAssumption DEF StoreInv, StoreTypeOK, WindowIsSuffix
  <2> QED
    BY <2>1, WindowReplay
<1> QED
  BY StoreInitInv, StoreNextInv, <1>1, PTL DEF StoreSpec
-----------------------------------------------------------------------------
(* One shift fewer would leave a log over one of the limits.                *)
LEMMA EvictPressure ==
    ASSUME NEW l, OverfullLog(l),
           NEW gone, gone = Len(l.events) - Len(Evict(l).events), gone > 0
    PROVE  \/ Len(Evict(l).events) + 1 > HistoryLimit
           \/ BytesOf(SubSeq(l.events, gone, Len(l.events))) > HistoryBytesLimit
<1> DEFINE e == l.events
           k == ShiftCount(l)
           r == Evict(l)
<1>1. /\ e \in Seq(EventType) /\ Len(e) \in Nat
      /\ l.totalBytes = BytesOf(e)
      /\ l \in LogType
  BY DEF OverfullLog, LogType
<1>2. /\ k \in 0 .. Len(e) - 1
      /\ \A j \in 0 .. k - 1 : ~FitsAfter(l, j)
  BY ShiftCountKeepsNewest
<1>3. r.events = SubSeq(e, k + 1, Len(e))
  BY <1>1 DEF Evict, LogType
<1> HIDE DEF k
<1>4. Len(r.events) = Len(e) - k /\ gone = k
  BY <1>1, <1>2, <1>3
<1>5. k - 1 \in 0 .. k - 1 /\ k - 1 \in 0 .. Len(e) /\ k - 1 # Len(e)
  BY <1>1, <1>2, <1>4
<1>6. ~FitsAfter(l, k - 1)
  BY <1>2, <1>5
<1>7. \/ ~(Len(e) - (k - 1) <= HistoryLimit)
      \/ ~(l.totalBytes - RunningBytes(e)[k - 1] <= HistoryBytesLimit)
  BY <1>5, <1>6 DEF FitsAfter
<1>8. BytesOf(SubSeq(e, (k - 1) + 1, Len(e))) = BytesOf(e) - RunningBytes(e)[k - 1]
  BY <1>1, <1>5, RunningBytesSuffix
<1>9. /\ (k - 1) + 1 = k
      /\ BytesOf(e) \in Nat /\ RunningBytes(e)[k - 1] \in Nat
  BY <1>1, <1>2, <1>5, RunningBytesType DEF BytesOf
<1> QED
  BY <1>1, <1>2, <1>4, <1>7, <1>8, <1>9, HistoryAssumption

(* What EvictsOnlyUnderPressure says of one step.                           *)
PressureStep ==
    \A s \in Sessions :
        LET whole == Append(log[s].events, Last(history'[s]))
            kept  == Len(log'[s].events)
            gone  == Len(whole) - kept
        IN  (log'[s] # log[s] /\ gone > 0) =>
                \/ kept + 1 > HistoryLimit
                \/ BytesOf(SubSeq(whole, gone, Len(whole))) > HistoryBytesLimit

(* For every limit: no append evicts an event it had room to keep.          *)
THEOREM EvictionMinimal == StoreSpec => EvictsOnlyUnderPressure
<1>1. StoreInv /\ [StoreNext]_storeVars => [PressureStep]_storeVars
  <2> SUFFICES ASSUME StoreInv, NEW s \in Sessions, NEW type \in EventTypes,
                      NEW bytes \in EventSizes, Publish(s, type, bytes)
               PROVE  PressureStep
    BY DEF StoreNext
  <2> DEFINE x == Event(log[s].nextSequence, type, bytes)
             g == Grown(log[s], type, bytes)
  <2>1. /\ log[s] \in LogType
        /\ history[s] \in Seq(EventType)
        /\ log[s].totalBytes = BytesOf(log[s].events)
        /\ bytes <= MaxEventBytes
    BY DEF StoreInv, StoreTypeOK, ByteBudget, Publish
  <2>2. /\ x \in EventType
        /\ g.events = Append(log[s].events, x)
        /\ OverfullLog(g)
    BY <2>1, GrownIsOverfull
  <2>3. AppendEvent(log[s], type, bytes) = Evict(g)
    BY DEF AppendEvent, Grown
  <2> HIDE DEF g, x
  <2>4. /\ log' = [log EXCEPT ![s] = Evict(g)]
        /\ history' = [history EXCEPT ![s] = Append(history[s], x)]
    BY <2>3 DEF Publish, x
  <2>5. /\ log'[s] = Evict(g)
        /\ history'[s] = Append(history[s], x)
        /\ \A o \in Sessions \ {s} : log'[o] = log[o]
    BY <2>4 DEF StoreInv, StoreTypeOK
  <2>6. Last(history'[s]) = x
    BY <2>1, <2>2, <2>5 DEF Last
  <2>7. Append(log[s].events, Last(history'[s])) = g.events
    BY <2>2, <2>6
  <2>8. LET gone == Len(g.events) - Len(Evict(g).events)
        IN  gone > 0 =>
              \/ Len(Evict(g).events) + 1 > HistoryLimit
              \/ BytesOf(SubSeq(g.events, gone, Len(g.events))) > HistoryBytesLimit
    BY <2>2, EvictPressure
  <2> QED
    BY <2>5, <2>7, <2>8 DEF PressureStep
<1>2. [][PressureStep]_storeVars <=> EvictsOnlyUnderPressure
  BY DEF PressureStep, EvictsOnlyUnderPressure
<1> QED
  BY StoreInitInv, StoreNextInv, <1>1, <1>2, PTL DEF StoreSpec

-----------------------------------------------------------------------------
(***************************************************************************)
(* CommandExecution: one run of a command at a time, answers only for what *)
(* took effect, and an exact account of why a command could take effect    *)
(* twice.                                                                  *)
(***************************************************************************)

(* What the bridge still knows: the run it works on or the entry in its     *)
(* registry vouches for one effect of a command, an excuse for every other. *)
Ledger ==
    \A c \in Commands :
        /\ c \in Ids(registry) => c \notin inFlight
        /\ (done[c] > 0 \/ c \in Ids(registry) \/ c \in acked) => performed[c] > 0
        /\ performed[c] <= excused[c] + done[c]
                           + (IF c \in Ids(registry) THEN 1 ELSE 0)

(* The invariants become inductive together with the ledger. *)
Inv ==
    /\ TypeOK
    /\ SingleRun
    /\ WaitersHaveARun
    /\ RegistryIsRecent
    /\ Ledger

(* The ids of an extended sequence are the old ones and the new one. *)
LEMMA IdsAppend ==
    ASSUME NEW r \in Seq(Commands), NEW c \in Commands
    PROVE  Ids(Append(r, c)) = Ids(r) \cup {c}
<1> DEFINE n == Append(r, c)
<1>1. /\ Len(n) = Len(r) + 1 /\ Len(r) \in Nat
      /\ \A i \in 1 .. Len(r) : n[i] = r[i]
      /\ n[Len(r) + 1] = c
  OBVIOUS
<1> HIDE DEF n
<1>2. \A i \in 1 .. Len(n) : i \in 1 .. Len(r) \/ i = Len(r) + 1
  BY <1>1
<1>3. Ids(n) \subseteq Ids(r) \cup {c}
  BY <1>1, <1>2 DEF Ids
<1>4. Len(r) + 1 \in 1 .. Len(n) /\ \A i \in 1 .. Len(r) : i \in 1 .. Len(n)
  BY <1>1
<1>5. Ids(r) \cup {c} \subseteq Ids(n)
  BY <1>1, <1>4 DEF Ids
<1> QED
  BY <1>3, <1>5 DEF n

(* Forgetting the oldest id forgets no other. *)
LEMMA IdsTail ==
    ASSUME NEW r \in Seq(Commands), r # <<>>
    PROVE  /\ Tail(r) \in Seq(Commands)
           /\ Len(Tail(r)) = Len(r) - 1
           /\ \A i \in 1 .. Len(r) - 1 : Tail(r)[i] = r[i + 1]
           /\ EndsWith(r, Tail(r))
           /\ Ids(Tail(r)) \subseteq Ids(r)
<1>1. /\ Tail(r) \in Seq(Commands)
      /\ Len(Tail(r)) = Len(r) - 1 /\ Len(r) \in Nat
      /\ \A i \in 1 .. Len(r) - 1 : Tail(r)[i] = r[i + 1]
  OBVIOUS
<1>2. Len(r) - Len(Tail(r)) = 1
  BY <1>1
<1>3. EndsWith(r, Tail(r))
  BY <1>1, <1>2 DEF EndsWith
<1>4. Ids(Tail(r)) \subseteq Ids(r)
  BY <1>1 DEF Ids
<1> QED
  BY <1>1, <1>3, <1>4

(* Ids without repetition. *)
Distinct(r) == \A i, j \in 1 .. Len(r) : r[i] = r[j] => i = j

(* Remembering a new command keeps the registry the ending of the accepted  *)
(* commands, as long as the capacity allows, without repetition.            *)
LEMMA RememberNew ==
    ASSUME NEW o \in Seq(Commands), NEW r \in Seq(Commands),
           NEW c \in Commands, c \notin Ids(r), EndsWith(o, r), Distinct(r),
           Len(r) = IF Len(o) < Capacity THEN Len(o) ELSE Capacity
    PROVE  LET n == Remember(r, c)
               p == Append(o, c)
           IN  /\ n \in Seq(Commands)
               /\ EndsWith(p, n)
               /\ Distinct(n)
               /\ Len(n) = IF Len(p) < Capacity THEN Len(p) ELSE Capacity
               /\ Ids(n) \subseteq Ids(r) \cup {c}
               /\ c \in Ids(n)
<1> DEFINE n == Remember(r, c)
           p == Append(o, c)
           old == IF Len(r) < Capacity THEN r ELSE Tail(r)
<1>1. Len(r) \in Nat /\ Len(o) \in Nat /\ Capacity \in Nat \ {0}
  BY ExecutionAssumption
<1>2. ~(Len(r) < Capacity) => r # <<>>
  BY <1>1
<1>3. /\ old \in Seq(Commands)
      /\ EndsWith(o, old)
      /\ Distinct(old)
      /\ Ids(old) \subseteq Ids(r)
      /\ Len(old) = IF Len(r) < Capacity THEN Len(r) ELSE Len(r) - 1
  <2>1. CASE Len(r) < Capacity
    BY <2>1
  <2>2. CASE ~(Len(r) < Capacity)
    <3>1. /\ Tail(r) \in Seq(Commands)
          /\ Len(Tail(r)) = Len(r) - 1
          /\ \A i \in 1 .. Len(r) - 1 : Tail(r)[i] = r[i + 1]
          /\ EndsWith(r, Tail(r))
          /\ Ids(Tail(r)) \subseteq Ids(r)
      BY <1>2, <2>2, IdsTail
    <3>2. EndsWith(o, Tail(r))
      BY <3>1, EndsWithTransitive
    <3>3. Distinct(Tail(r))
      BY <1>1, <3>1 DEF Distinct
    <3> QED
      BY <2>2, <3>1, <3>2, <3>3
  <2> QED
    BY <2>1, <2>2
<1>4. n = Append(old, c)
  BY DEF Remember
<1> HIDE DEF old, n
<1>5. /\ n \in Seq(Commands)
      /\ EndsWith(p, n)
      /\ Ids(n) = Ids(old) \cup {c}
  BY <1>3, <1>4, EndsWithAppend, IdsAppend
<1>6. /\ Len(n) = Len(old) + 1 /\ Len(old) \in Nat
      /\ \A i \in 1 .. Len(old) : n[i] = old[i]
      /\ n[Len(old) + 1] = c
  BY <1>3, <1>4
<1>7. Distinct(n)
  <2>1. \A i \in 1 .. Len(old) : old[i] # c
    BY <1>3 DEF Ids
  <2>2. \A i \in 1 .. Len(n) : i \in 1 .. Len(old) \/ i = Len(old) + 1
    BY <1>6
  <2> QED
    BY <1>3, <1>6, <2>1, <2>2 DEF Distinct
<1>8. Len(n) = IF Len(p) < Capacity THEN Len(p) ELSE Capacity
  BY <1>1, <1>3, <1>6
<1> QED
  BY <1>3, <1>5, <1>7, <1>8 DEF n
-----------------------------------------------------------------------------
(* Initially nothing is remembered, running or awaited. *)
LEMMA InitInv == Init => Inv
<1> SUFFICES ASSUME Init
             PROVE  Inv
  OBVIOUS
<1> USE DEF Init, Idle
<1>1. TypeOK
  BY DEF TypeOK
<1>2. SingleRun
  BY DEF SingleRun
<1>3. WaitersHaveARun
  BY DEF WaitersHaveARun
<1>4. RegistryIsRecent
  BY ExecutionAssumption DEF RegistryIsRecent, EndsWith
<1>5. Ledger
  BY DEF Ledger, Ids
<1> QED
  BY <1>1, <1>2, <1>3, <1>4, <1>5 DEF Inv

(* Excuses are counted per command. *)
LEMMA ExcuseType ==
    ASSUME TypeOK, NEW F
    PROVE  /\ Excuse(F) \in [Commands -> Nat]
           /\ \A c \in Commands :
                  /\ Excuse(F)[c] >= excused[c]
                  /\ c \in F => Excuse(F)[c] = excused[c] + 1
  BY DEF Excuse, TypeOK

(* A count that is taken down stays a count. *)
LEMMA TakenDown ==
    ASSUME NEW f \in [Commands -> Nat], NEW c \in Commands, f[c] > 0
    PROVE  /\ [f EXCEPT ![c] = @ - 1] \in [Commands -> Nat]
           /\ \A d \in Commands :
                  [f EXCEPT ![c] = @ - 1][d] = IF d = c THEN f[d] - 1 ELSE f[d]
<1>1. f[c] - 1 \in Nat
  OBVIOUS
<1> QED
  BY <1>1

(* A call changes nothing the ledger counts, except that a new run begins.  *)
LEMMA CallInv ==
    ASSUME Inv, NEW k \in Callers, NEW c \in Commands, Call(k, c)
    PROVE  Inv'
<1> USE DEF Inv
<1>1. CASE AnswerFromRegistry(k, c)
  <2> USE <1>1 DEF AnswerFromRegistry, execVars
  <2>1. TypeOK'
    BY DEF TypeOK
  <2>2. (SingleRun /\ WaitersHaveARun /\ RegistryIsRecent)'
    BY DEF SingleRun, WaitersHaveARun, RegistryIsRecent
  <2>3. Ledger'
    BY DEF Ledger
  <2> QED
    BY <2>1, <2>2, <2>3
<1>2. CASE JoinInFlight(k, c)
  <2> USE <1>2 DEF JoinInFlight, historyVars
  <2>1. TypeOK'
    BY DEF TypeOK
  <2>2. (SingleRun /\ RegistryIsRecent /\ Ledger)'
    BY DEF SingleRun, RegistryIsRecent, Ledger
  <2>3. WaitersHaveARun'
    BY DEF WaitersHaveARun, TypeOK
  <2> QED
    BY <2>1, <2>2, <2>3
<1>3. CASE Start(k, c)
  <2> USE <1>3 DEF Start
  <2>1. TypeOK'
    BY DEF TypeOK
  <2>2. RegistryIsRecent'
    BY DEF RegistryIsRecent
  <2>3. SingleRun'
    BY DEF SingleRun, TypeOK
  <2>4. WaitersHaveARun'
    BY DEF WaitersHaveARun, TypeOK
  <2>5. Ledger'
    BY DEF Ledger
  <2> QED
    BY <2>1, <2>2, <2>3, <2>4, <2>5
<1> QED
  BY <1>1, <1>2, <1>3 DEF Call

(* An abandoned wait leaves the run and its record alone. *)
LEMMA AbandonInv ==
    ASSUME Inv, NEW k \in Callers, Abandon(k)
    PROVE  Inv'
<1> USE DEF Inv, Abandon, historyVars
<1>1. TypeOK'
  BY DEF TypeOK
<1>2. (SingleRun /\ RegistryIsRecent /\ Ledger)'
  BY DEF SingleRun, RegistryIsRecent, Ledger
<1>3. WaitersHaveARun'
  BY DEF WaitersHaveARun, TypeOK
<1> QED
  BY <1>1, <1>2, <1>3

(* Carrying out a run turns it into the effect the ledger accounts for. *)
LEMMA PerformInv ==
    ASSUME Inv, NEW c \in Commands, Perform(c)
    PROVE  Inv'
<1> USE DEF Inv, Perform
<1>1. TypeOK'
  BY DEF TypeOK
<1>2. (RegistryIsRecent /\ WaitersHaveARun)'
  BY DEF RegistryIsRecent, WaitersHaveARun
<1>3. SingleRun'
  BY DEF SingleRun, TypeOK
<1>4. Ledger'
  <2> SUFFICES ASSUME NEW d \in Commands
               PROVE  /\ d \in Ids(registry) => d \notin inFlight
                      /\ (done'[d] > 0 \/ d \in Ids(registry) \/ d \in acked)
                            => performed'[d] > 0
                      /\ performed'[d] <= excused[d] + done'[d]
                            + (IF d \in Ids(registry) THEN 1 ELSE 0)
    BY DEF Ledger
  <2>1. CASE d = c
    BY <2>1 DEF Ledger, TypeOK
  <2>2. CASE d # c
    BY <2>2 DEF Ledger, TypeOK
  <2> QED
    BY <2>1, <2>2
<1> QED
  BY <1>1, <1>2, <1>3, <1>4

(* A settled promise leaves nobody waiting for it. *)
LEMMA SettleFacts ==
    ASSUME TypeOK, WaitersHaveARun, NEW c \in Commands, Settle(c)
    PROVE  /\ inFlight' = inFlight \ {c}
           /\ waiting' \in [Callers -> Commands \cup {NoCommand}]
           /\ \A k \in Callers : waiting'[k] # NoCommand =>
                  /\ waiting'[k] = waiting[k]
                  /\ waiting'[k] # c
  BY DEF Settle, TypeOK, Waiters

(* A success moves the effect from the run to the registry. *)
LEMMA SucceedInv ==
    ASSUME Inv, NEW c \in Commands, Succeed(c)
    PROVE  Inv'
<1> DEFINE n == Remember(registry, c)
           F == Ids(registry) \ Ids(n)
           x == Excuse(F)
<1>1. /\ done[c] = 1 /\ fresh[c] = 0 /\ c \in inFlight
      /\ c \notin Ids(registry)
  BY DEF Inv, SingleRun, Ledger, TypeOK, Succeed
<1>2. /\ n \in Seq(Commands)
      /\ EndsWith(Append(order, c), n)
      /\ Distinct(n)
      /\ Len(n) = IF Len(Append(order, c)) < Capacity
                  THEN Len(Append(order, c)) ELSE Capacity
      /\ Ids(n) \subseteq Ids(registry) \cup {c}
      /\ c \in Ids(n)
  BY <1>1, RememberNew DEF Inv, RegistryIsRecent, TypeOK, Distinct
<1>3. /\ registry' = n
      /\ order' = Append(order, c)
      /\ excused' = x
      /\ done' = [done EXCEPT ![c] = @ - 1]
      /\ acked' \subseteq acked \cup {c}
      /\ accepted' = accepted \cup {c}
      /\ Settle(c)
      /\ UNCHANGED <<fresh, adrift, performed, starts, restarts>>
  BY DEF Succeed
<1>4. /\ inFlight' = inFlight \ {c}
      /\ waiting' \in [Callers -> Commands \cup {NoCommand}]
      /\ \A k \in Callers : waiting'[k] # NoCommand =>
             waiting'[k] = waiting[k] /\ waiting'[k] # c
  BY <1>3, SettleFacts DEF Inv
<1>5. /\ x \in [Commands -> Nat]
      /\ \A d \in Commands : x[d] >= excused[d]
      /\ \A d \in Commands : d \in Ids(registry) /\ d \notin Ids(n) =>
             x[d] = excused[d] + 1
  BY ExcuseType DEF Inv
<1> HIDE DEF n, F, x
<1>6. /\ done' \in [Commands -> Nat]
      /\ \A d \in Commands : done'[d] = IF d = c THEN done[d] - 1 ELSE done[d]
  BY <1>1, <1>3, TakenDown DEF Inv, TypeOK
<1>7. TypeOK'
  <2>1. Append(order, c) \in Seq(Commands)
    BY DEF Inv, TypeOK
  <2> QED
    BY <1>2, <1>3, <1>4, <1>5, <1>6, <2>1 DEF Inv, TypeOK
<1>8. SingleRun'
  <2> SUFFICES ASSUME NEW d \in Commands
               PROVE  fresh[d] + done'[d] = IF d \in inFlight' THEN 1 ELSE 0
    BY <1>3 DEF SingleRun
  <2>1. /\ fresh[d] \in Nat /\ done[d] \in Nat
        /\ fresh[d] + done[d] = IF d \in inFlight THEN 1 ELSE 0
        /\ done'[d] = IF d = c THEN done[d] - 1 ELSE done[d]
    BY <1>6 DEF Inv, SingleRun, TypeOK
  <2> QED
    BY <1>1, <1>4, <2>1
<1>9. WaitersHaveARun'
  BY <1>2, <1>3, <1>4 DEF Inv, WaitersHaveARun
<1>10. RegistryIsRecent'
  BY <1>2, <1>3 DEF RegistryIsRecent, Distinct
<1>11. Ledger'
  <2> SUFFICES ASSUME NEW d \in Commands
               PROVE  /\ d \in Ids(n) => d \notin inFlight'
                      /\ (done'[d] > 0 \/ d \in Ids(n) \/ d \in acked')
                            => performed[d] > 0
                      /\ performed[d] <= x[d] + done'[d]
                            + (IF d \in Ids(n) THEN 1 ELSE 0)
    BY <1>3 DEF Ledger
  <2>1. /\ done[d] \in Nat /\ performed[d] \in Nat
        /\ excused[d] \in Nat /\ x[d] \in Nat /\ x[d] >= excused[d]
        /\ done'[d] = IF d = c THEN done[d] - 1 ELSE done[d]
    BY <1>5, <1>6 DEF Inv, TypeOK
  <2>2. /\ d \in Ids(registry) => d \notin inFlight
        /\ (done[d] > 0 \/ d \in Ids(registry) \/ d \in acked) => performed[d] > 0
        /\ performed[d] <= excused[d] + done[d]
              + (IF d \in Ids(registry) THEN 1 ELSE 0)
    BY DEF Inv, Ledger
  <2>3. CASE d = c
    BY <1>1, <1>2, <1>4, <2>1, <2>2, <2>3
  <2>4. CASE d # c
    <3>1. /\ d \in acked' => d \in acked
          /\ d \in inFlight' => d \in inFlight
          /\ d \in Ids(n) => d \in Ids(registry)
          /\ d \in Ids(registry) /\ d \notin Ids(n) => x[d] = excused[d] + 1
      BY <1>2, <1>3, <1>4, <1>5, <2>4
    <3> QED
      BY <2>1, <2>2, <2>4, <3>1
  <2> QED
    BY <2>3, <2>4
<1> QED
  BY <1>7, <1>8, <1>9, <1>10, <1>11 DEF Inv

(* A failure before the effect leaves the ledger as it is. *)
LEMMA FailInv ==
    ASSUME Inv, NEW c \in Commands, Fail(c)
    PROVE  Inv'
<1> USE DEF Inv, Fail, historyVars
<1>1. /\ inFlight' = inFlight \ {c}
      /\ waiting' \in [Callers -> Commands \cup {NoCommand}]
      /\ \A k \in Callers : waiting'[k] # NoCommand =>
             waiting'[k] = waiting[k] /\ waiting'[k] # c
  BY SettleFacts
<1>2. TypeOK'
  BY <1>1 DEF TypeOK
<1>3. SingleRun'
  BY <1>1 DEF SingleRun, TypeOK
<1>4. WaitersHaveARun'
  BY <1>1 DEF WaitersHaveARun
<1>5. (RegistryIsRecent /\ Ledger)'
  BY <1>1 DEF RegistryIsRecent, Ledger
<1> QED
  BY <1>2, <1>3, <1>4, <1>5

(* So does a call that is given up before its effect. *)
LEMMA GiveUpInv ==
    ASSUME Inv, NEW c \in Commands, GiveUp(c)
    PROVE  Inv'
<1> USE DEF Inv, GiveUp, historyVars
<1>1. /\ inFlight' = inFlight \ {c}
      /\ waiting' \in [Callers -> Commands \cup {NoCommand}]
      /\ \A k \in Callers : waiting'[k] # NoCommand =>
             waiting'[k] = waiting[k] /\ waiting'[k] # c
  BY SettleFacts
<1>2. TypeOK'
  <2>1. fresh' \in [Commands -> Nat]
    BY TakenDown DEF TypeOK
  <2>2. adrift' \in [Commands -> Nat]
    BY DEF TypeOK
  <2> QED
    BY <1>1, <2>1, <2>2 DEF TypeOK
<1>3. SingleRun'
  BY <1>1 DEF SingleRun, TypeOK
<1>4. WaitersHaveARun'
  BY <1>1 DEF WaitersHaveARun
<1>5. (RegistryIsRecent /\ Ledger)'
  BY <1>1 DEF RegistryIsRecent, Ledger
<1> QED
  BY <1>2, <1>3, <1>4, <1>5

(* An effect that comes after its call was given up is excused by that.     *)
LEMMA PerformAdriftInv ==
    ASSUME Inv, NEW c \in Commands, PerformAdrift(c)
    PROVE  Inv'
<1> USE DEF Inv, PerformAdrift
<1>1. /\ Excuse({c}) \in [Commands -> Nat]
      /\ \A d \in Commands : Excuse({c})[d] >= excused[d]
      /\ Excuse({c})[c] = excused[c] + 1
  BY ExcuseType
<1>2. /\ performed' \in [Commands -> Nat]
      /\ \A d \in Commands :
             performed'[d] = IF d = c THEN performed[d] + 1 ELSE performed[d]
  BY DEF TypeOK
<1>3. TypeOK'
  <2>1. adrift' \in [Commands -> Nat]
    BY TakenDown DEF TypeOK
  <2> QED
    BY <1>1, <1>2, <2>1 DEF TypeOK
<1>4. (SingleRun /\ WaitersHaveARun /\ RegistryIsRecent)'
  BY DEF SingleRun, WaitersHaveARun, RegistryIsRecent
<1>5. Ledger'
  <2> SUFFICES ASSUME NEW d \in Commands
               PROVE  /\ d \in Ids(registry) => d \notin inFlight
                      /\ (done[d] > 0 \/ d \in Ids(registry) \/ d \in acked)
                            => performed'[d] > 0
                      /\ performed'[d] <= Excuse({c})[d] + done[d]
                            + (IF d \in Ids(registry) THEN 1 ELSE 0)
    BY DEF Ledger
  <2>1. /\ done[d] \in Nat /\ performed[d] \in Nat /\ excused[d] \in Nat
        /\ Excuse({c})[d] \in Nat
        /\ performed'[d] = IF d = c THEN performed[d] + 1 ELSE performed[d]
        /\ Excuse({c})[d] >= excused[d]
        /\ d = c => Excuse({c})[d] = excused[d] + 1
    BY <1>1, <1>2 DEF TypeOK
  <2>2. /\ d \in Ids(registry) => d \notin inFlight
        /\ (done[d] > 0 \/ d \in Ids(registry) \/ d \in acked) => performed[d] > 0
        /\ performed[d] <= excused[d] + done[d]
              + (IF d \in Ids(registry) THEN 1 ELSE 0)
    BY DEF Ledger
  <2> QED
    BY <2>1, <2>2
<1> QED
  BY <1>3, <1>4, <1>5

(* A failure after the effect is the excuse for one more. *)
LEMMA FailLateInv ==
    ASSUME Inv, NEW c \in Commands, FailLate(c)
    PROVE  Inv'
<1> USE DEF Inv, FailLate
<1>1. /\ inFlight' = inFlight \ {c}
      /\ waiting' \in [Callers -> Commands \cup {NoCommand}]
      /\ \A k \in Callers : waiting'[k] # NoCommand =>
             waiting'[k] = waiting[k] /\ waiting'[k] # c
  BY SettleFacts
<1>2. /\ Excuse({c}) \in [Commands -> Nat]
      /\ \A d \in Commands : Excuse({c})[d] >= excused[d]
      /\ Excuse({c})[c] = excused[c] + 1
  BY ExcuseType
<1>3. TypeOK'
  <2>1. done' \in [Commands -> Nat]
    BY TakenDown DEF TypeOK
  <2> QED
    BY <1>1, <1>2, <2>1 DEF TypeOK
<1>4. SingleRun'
  BY <1>1 DEF SingleRun, TypeOK
<1>5. WaitersHaveARun'
  BY <1>1 DEF WaitersHaveARun
<1>6. RegistryIsRecent'
  BY DEF RegistryIsRecent
<1>7. Ledger'
  <2> SUFFICES ASSUME NEW d \in Commands
               PROVE  /\ d \in Ids(registry) => d \notin inFlight'
                      /\ (done'[d] > 0 \/ d \in Ids(registry) \/ d \in acked)
                            => performed[d] > 0
                      /\ performed[d] <= Excuse({c})[d] + done'[d]
                            + (IF d \in Ids(registry) THEN 1 ELSE 0)
    BY DEF Ledger
  <2>1. /\ done[d] \in Nat /\ performed[d] \in Nat /\ excused[d] \in Nat
        /\ Excuse({c})[d] \in Nat
        /\ done'[d] = IF d = c THEN done[d] - 1 ELSE done[d]
        /\ Excuse({c})[d] >= excused[d]
        /\ d = c => Excuse({c})[d] = excused[d] + 1
    BY <1>2 DEF TypeOK
  <2>2. /\ d \in Ids(registry) => d \notin inFlight
        /\ (done[d] > 0 \/ d \in Ids(registry) \/ d \in acked) => performed[d] > 0
        /\ performed[d] <= excused[d] + done[d]
              + (IF d \in Ids(registry) THEN 1 ELSE 0)
    BY DEF Ledger
  <2> QED
    BY <1>1, <2>1, <2>2
<1> QED
  BY <1>3, <1>4, <1>5, <1>6, <1>7

(* A restart excuses whatever only the old process knew. *)
LEMMA RestartInv ==
    ASSUME Inv, Restart
    PROVE  Inv'
<1> DEFINE F == Ids(registry) \cup {c \in Commands : done[c] > 0}
           x == Excuse(F)
<1>1. /\ x \in [Commands -> Nat]
      /\ \A d \in Commands : x[d] >= excused[d]
      /\ \A d \in Commands :
             d \in Ids(registry) \/ done[d] > 0 => x[d] = excused[d] + 1
  BY ExcuseType DEF Inv
<1>2. /\ registry' = <<>> /\ order' = <<>> /\ inFlight' = {}
      /\ waiting' = [k \in Callers |-> NoCommand]
      /\ fresh' = Idle /\ done' = Idle /\ adrift' = Idle /\ excused' = x
      /\ restarts' = restarts + 1
      /\ UNCHANGED <<performed, accepted, acked, starts>>
  BY DEF Restart
<1> HIDE DEF F, x
<1>3. Idle \in [Commands -> Nat] /\ \A d \in Commands : Idle[d] = 0
  BY DEF Idle
<1>4. TypeOK'
  BY <1>1, <1>2, <1>3 DEF Inv, TypeOK
<1>5. SingleRun'
  BY <1>2, <1>3 DEF SingleRun
<1>6. WaitersHaveARun'
  BY <1>2 DEF WaitersHaveARun
<1>7. RegistryIsRecent'
  BY <1>2, ExecutionAssumption DEF RegistryIsRecent, EndsWith
<1>8. Ledger'
  <2>1. Ids(registry') = {}
    BY <1>2 DEF Ids
  <2>2. \A d \in Commands : (d \in acked => performed[d] > 0) /\ performed[d] <= x[d]
    <3> SUFFICES ASSUME NEW d \in Commands
                 PROVE  (d \in acked => performed[d] > 0) /\ performed[d] <= x[d]
      OBVIOUS
    <3>1. /\ done[d] \in Nat /\ fresh[d] \in Nat /\ performed[d] \in Nat
          /\ excused[d] \in Nat /\ x[d] \in Nat
          /\ fresh[d] + done[d] = IF d \in inFlight THEN 1 ELSE 0
      BY <1>1 DEF Inv, TypeOK, SingleRun
    <3>2. /\ d \in Ids(registry) => d \notin inFlight
          /\ d \in acked => performed[d] > 0
          /\ performed[d] <= excused[d] + done[d]
                + (IF d \in Ids(registry) THEN 1 ELSE 0)
      BY DEF Inv, Ledger
    <3>3. /\ x[d] >= excused[d]
          /\ d \in Ids(registry) \/ done[d] > 0 => x[d] = excused[d] + 1
      BY <1>1
    <3> QED
      BY <3>1, <3>2, <3>3
  <2>3. \A d \in Commands : performed[d] \in Nat /\ x[d] \in Nat
    BY <1>1 DEF Inv, TypeOK
  <2> QED
    BY <1>2, <1>3, <2>1, <2>2, <2>3 DEF Ledger
<1> QED
  BY <1>4, <1>5, <1>6, <1>7, <1>8 DEF Inv

(* Every step preserves the invariant. *)
LEMMA NextInv == Inv /\ [Next]_vars => Inv'
<1> SUFFICES ASSUME Inv, [Next]_vars
             PROVE  Inv'
  OBVIOUS
<1>1. ASSUME NEW k \in Callers, NEW c \in Commands, Call(k, c)
      PROVE  Inv'
  BY <1>1, CallInv
<1>2. ASSUME NEW k \in Callers, Abandon(k)
      PROVE  Inv'
  BY <1>2, AbandonInv
<1>3. ASSUME NEW c \in Commands,
             Perform(c) \/ PerformAdrift(c) \/ SettleSomehow(c)
      PROVE  Inv'
  BY <1>3, PerformInv, PerformAdriftInv, SucceedInv, FailInv, GiveUpInv,
     FailLateInv DEF SettleSomehow
<1>4. CASE Restart
  BY <1>4, RestartInv
<1>5. CASE UNCHANGED vars
  BY <1>5 DEF vars, execVars, historyVars, Inv, TypeOK, SingleRun,
              WaitersHaveARun, RegistryIsRecent, Ledger
<1> QED
  BY <1>1, <1>2, <1>3, <1>4, <1>5 DEF Next

(* For any callers, commands and capacity: one run of a command at a time,  *)
(* and everybody who waits waits for a run.                                 *)
THEOREM SingleExecution == Spec => [](TypeOK /\ SingleRun /\ WaitersHaveARun)
<1>1. Inv => TypeOK /\ SingleRun /\ WaitersHaveARun
  BY DEF Inv
<1> QED
  BY InitInv, NextInv, <1>1, PTL DEF Spec

(* For any callers, commands and capacity: the registry is the ending of    *)
(* the accepted commands, and no command takes effect twice unexcused.      *)
THEOREM ExecutedOnce == Spec => [](RegistryIsRecent /\ AtMostOnce)
<1>1. Inv => RegistryIsRecent /\ AtMostOnce
  <2> SUFFICES ASSUME Inv, NEW c \in Commands
               PROVE  performed[c] <= 1 + excused[c]
    BY DEF Inv, AtMostOnce
  <2>1. /\ done[c] \in 0 .. 1 /\ performed[c] \in Nat /\ excused[c] \in Nat
        /\ fresh[c] \in Nat
        /\ done[c] > 0 => c \in inFlight
    BY DEF Inv, TypeOK, SingleRun
  <2>2. /\ c \in Ids(registry) => c \notin inFlight
        /\ performed[c] <= excused[c] + done[c]
              + (IF c \in Ids(registry) THEN 1 ELSE 0)
    BY DEF Inv, Ledger
  <2> QED
    BY <2>1, <2>2
<1> QED
  BY InitInv, NextInv, <1>1, PTL DEF Spec

(* For any callers, commands and capacity: nobody is told that a command is *)
(* accepted before it took effect.                                          *)
THEOREM NoEarlyAcknowledgement == Spec => []AckMeansPerformed
<1>1. Inv => AckMeansPerformed
  BY DEF Inv, TypeOK, Ledger, AckMeansPerformed
<1> QED
  BY InitInv, NextInv, <1>1, PTL DEF Spec
==============================================================================
