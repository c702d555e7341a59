------------------------------ MODULE EventLog ------------------------------
(***************************************************************************)
(* The bounded event history the bridge keeps for one session, as pure     *)
(* operators (bridge/src/event-store.ts).  A log is a record               *)
(*   nextSequence  the sequence number the next event will get,            *)
(*   events        the retained events, oldest first,                      *)
(*   totalBytes    the encoded size the store believes it retains.         *)
(* An event is abstracted to its sequence number, its type and its size.   *)
(***************************************************************************)
EXTENDS Integers, Sequences, FiniteSets

CONSTANTS
    HistoryLimit,       \* events retained per session (256 in the code)
    HistoryBytesLimit,  \* bytes retained per session (128 KiB in the code)
    MaxEventBytes       \* longest encoded event line, newline included (641)

(* The constructor rejects limits that are not positive.  The last conjunct *)
(* holds for the shipped constants: one event always fits the byte budget.  *)
ASSUME HistoryAssumption ==
    /\ HistoryLimit \in Nat \ {0}
    /\ HistoryBytesLimit \in Nat \ {0}
    /\ MaxEventBytes \in Nat
    /\ MaxEventBytes <= HistoryBytesLimit

Event(sequence, type, bytes) ==
    [sequence |-> sequence, type |-> type, bytes |-> bytes]

EmptyLog == [nextSequence |-> 1, events |-> <<>>, totalBytes |-> 0]

LatestSequence(log) == log.nextSequence - 1

(* The encoded size of the first k events, for every k. *)
RunningBytes(events) ==
    LET sum[k \in 0 .. Len(events)] ==
            IF k = 0 THEN 0 ELSE sum[k - 1] + events[k].bytes
    IN  sum

BytesOf(events) == RunningBytes(events)[Len(events)]

(* A faulty loop condition, off by one in either limit. *)
FitsAfterOffByOne(log, k) ==
    \/ k = Len(log.events)
    \/ /\ Len(log.events) - k <= HistoryLimit + 1
       /\ log.totalBytes - RunningBytes(log.events)[k] < HistoryBytesLimit

(* The eviction loop stops after k shifts once both limits hold, and at the *)
(* latest when nothing is left to shift.                                    *)
FitsAfter(log, k) ==
    \/ k = Len(log.events)
    \/ /\ Len(log.events) - k <= HistoryLimit
       /\ log.totalBytes - RunningBytes(log.events)[k] <= HistoryBytesLimit

(* How many events the loop shifts out: it stops at the first k that fits. *)
ShiftCount(log) ==
    CHOOSE k \in 0 .. Len(log.events) :
        /\ FitsAfter(log, k)
        /\ \A j \in 0 .. k - 1 : ~FitsAfter(log, j)

Evict(log) ==
    LET k == ShiftCount(log)
    IN  [log EXCEPT !.events = SubSeq(@, k + 1, Len(@)),
                    !.totalBytes = @ - RunningBytes(log.events)[k]]

(* append(): number the event, retain it, then make room. *)
AppendEvent(log, type, bytes) ==
    Evict([nextSequence |-> log.nextSequence + 1,
           events       |-> Append(log.events,
                                   Event(log.nextSequence, type, bytes)),
           totalBytes   |-> log.totalBytes + bytes])

(* A faulty after() that replays behind one evicted event. *)
CursorCodeOffByOne(log, cursor) ==
    IF cursor > LatestSequence(log) THEN "EVENT_CURSOR_AHEAD"
    ELSE IF /\ log.events # <<>>
            /\ cursor + 1 < Head(log.events).sequence - 1
         THEN "EVENT_CURSOR_EXPIRED"
    ELSE "OK"

(* after(): why a cursor cannot be replayed, or "OK". *)
CursorCode(log, cursor) ==
    IF cursor > LatestSequence(log) THEN "EVENT_CURSOR_AHEAD"
    ELSE IF /\ log.events # <<>>
            /\ cursor < Head(log.events).sequence - 1
         THEN "EVENT_CURSOR_EXPIRED"
    ELSE "OK"

(* after(): the retained events newer than the cursor, at most limit of     *)
(* them.  Retained events are in sequence order, so those the filter drops  *)
(* are a prefix.                                                            *)
EventsAfter(log, cursor, limit) ==
    LET older == {i \in DOMAIN log.events : log.events[i].sequence <= cursor}
        first == Cardinality(older) + 1
        last  == Cardinality(older) + limit
    IN  SubSeq(log.events, first,
               IF last <= Len(log.events) THEN last ELSE Len(log.events))
=============================================================================
