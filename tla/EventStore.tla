----------------------------- MODULE EventStore -----------------------------
(***************************************************************************)
(* The bridge's event store (bridge/src/event-store.ts): one bounded log   *)
(* per session, appended to by the agent adapter and the capture handlers, *)
(* read by cursor from the pushed link and from GET /v1/events.            *)
(***************************************************************************)
EXTENDS EventLog, Endings, SequencesExt

CONSTANTS
    Sessions,      \* session identifiers
    EventTypes,    \* event types
    EventSizes,    \* encoded sizes an event may have, newline included
    MaxSequence    \* bound: events appended per session

ASSUME StoreAssumption ==
    /\ EventSizes \subseteq Nat
    /\ MaxSequence \in Nat

VARIABLES
    log,       \* per session, the retained history and its counters
    history    \* history variable: per session, every event ever appended

storeVars == <<log, history>>

StoreInit ==
    /\ log = [s \in Sessions |-> EmptyLog]
    /\ history = [s \in Sessions |-> <<>>]

(* append() of an event that is not too large.  A larger one throws         *)
(* EVENT_TOO_LARGE before any state changes.                                *)
Publish(s, type, bytes) ==
    /\ LatestSequence(log[s]) < MaxSequence
    /\ bytes <= MaxEventBytes
    /\ log' = [log EXCEPT ![s] = AppendEvent(@, type, bytes)]
    /\ history' = [history EXCEPT
                      ![s] = Append(@, Event(log[s].nextSequence, type, bytes))]

StoreNext ==
    \E s \in Sessions, type \in EventTypes, bytes \in EventSizes :
        Publish(s, type, bytes)

StoreSpec == StoreInit /\ [][StoreNext]_storeVars

-----------------------------------------------------------------------------
(* What an event, and a session's log, look like. *)
EventType ==
    [sequence : Nat \ {0}, type : EventTypes, bytes : EventSizes]

LogType ==
    [nextSequence : Nat \ {0}, events : Seq(EventType), totalBytes : Int]

(* The type invariant: every session has a well formed log and history. *)
StoreTypeOK ==
    /\ log \in [Sessions -> LogType]
    /\ history \in [Sessions -> Seq(EventType)]

(* One log is a window on the history: its retained events are the newest   *)
(* ones published, numbered without a gap up to nextSequence, at most       *)
(* HistoryLimit of them, and the newest event is always among them.         *)
IsWindow(l, published) ==
    /\ l.nextSequence = Len(published) + 1
    /\ \A i \in 1 .. Len(published) : published[i].sequence = i
    /\ EndsWith(published, l.events)
    /\ Len(l.events) <= HistoryLimit
    /\ Len(published) > 0 => Len(l.events) > 0

(* However appends and evictions by either limit interleave, every session  *)
(* retains a gap-free window ending at its newest event.                    *)
WindowIsSuffix == \A s \in Sessions : IsWindow(log[s], history[s])

(* The running byte counter never drifts from the bytes actually retained,  *)
(* and the byte budget holds between appends.                               *)
ByteBudget ==
    \A s \in Sessions :
        /\ log[s].totalBytes = BytesOf(log[s].events)
        /\ log[s].totalBytes <= HistoryBytesLimit

(* What a reader at a cursor is told: AHEAD exactly when no such event was  *)
(* published, EXPIRED exactly when an event it has not seen was evicted,    *)
(* otherwise the next published events, in order, none skipped, up to the   *)
(* newest unless the batch is full.                                         *)
ReplayFrom(l, published, cursor) ==
    LET latest  == Len(published)
        evicted == latest - Len(l.events)
        code    == CursorCode(l, cursor)
    IN  /\ code = "EVENT_CURSOR_AHEAD" <=> cursor > latest
        /\ code = "EVENT_CURSOR_EXPIRED" <=> cursor < evicted
        /\ code = "OK" =>
             \A limit \in 1 .. HistoryLimit :
                LET batch == EventsAfter(l, cursor, limit)
                IN  /\ batch = SubSeq(published, cursor + 1,
                                      cursor + Len(batch))
                    /\ Len(batch) < limit => cursor + Len(batch) = latest

(* A replay never lies, whatever was evicted and whatever cursor a reader   *)
(* presents.                                                                *)
ReplayIsExact ==
    \A s \in Sessions : \A cursor \in 0 .. MaxSequence + 1 :
        ReplayFrom(log[s], history[s], cursor)

(* An append evicts no more than it must: had the last evicted event been   *)
(* kept, one of the two limits would be exceeded.                           *)
EvictsOnlyUnderPressure ==
    [][\A s \in Sessions :
        LET whole == Append(log[s].events, Last(history'[s]))
            kept  == Len(log'[s].events)
            gone  == Len(whole) - kept
        IN  (log'[s] # log[s] /\ gone > 0) =>
                \/ kept + 1 > HistoryLimit
                \/ BytesOf(SubSeq(whole, gone, Len(whole))) > HistoryBytesLimit
      ]_storeVars
=============================================================================
