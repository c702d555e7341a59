--------------------------- MODULE PushLinkProofs ---------------------------
(***************************************************************************)
(* Proofs about the pushed control link, for any number of connections,    *)
(* commands and events and every history limit and buffer size: the state  *)
(* is well typed, an acknowledgement on its way is true, the bridge's part *)
(* of every step is a step of CommandExecution, and, as long as the bridge *)
(* has not restarted, no event is missed without a marker.                 *)
(***************************************************************************)
EXTENDS PushLink, CommonLemmas, SequenceTheorems

(* The frames that tell the truth: an acknowledgement is for a command that *)
(* took effect.                                                             *)
TrueFrames ==
    {f \in Frames : f.type = "command.ack" => performed[f.command] > 0}

(* The bridge's end of a connection, with down frames from a given set.     *)
SocketType(allowed) ==
    [state : {"open", "ended", "closed"}, bound : BOOLEAN, sendCursor : Nat,
     blocked : BOOLEAN, reader : BOOLEAN, up : Seq(Frames),
     down : Seq(allowed)]

LinkType(allowed) ==
    [phase : {"waiting", "hello", "waiting ready", "ready"},
     conn : Connections \cup {NoConnection}, out : Frames,
     frame : allowed, command : Commands \cup {NoCommand},
     sent : BOOLEAN, ping : BOOLEAN, written : BOOLEAN]

EventType == [sequence : Nat, type : EventTypes, bytes : Nat]

(* The retained events are numbered without a gap up to the newest one.     *)
Contiguous(l) ==
    /\ l.nextSequence \in Nat \ {0}
    /\ l.events \in Seq(EventType)
    /\ Len(l.events) < l.nextSequence
    /\ \A i \in 1 .. Len(l.events) :
          l.events[i].sequence = l.nextSequence - 1 - Len(l.events) + i

(* What the bridge knows of commands: the registry holds, and a run that    *)
(* was carried out belongs to, commands that took effect.                   *)
ExecTypes ==
    /\ registry \in Seq(Commands)
    /\ waiting \in [Connections -> Commands \cup {NoCommand}]
    /\ fresh \in [Commands -> Nat]
    /\ done \in [Commands -> Nat]
    /\ adrift \in [Commands -> Nat]
    /\ performed \in [Commands -> Nat]
    /\ restarts \in Nat

Vouched ==
    /\ \A i \in 1 .. Len(registry) : performed[registry[i]] > 0
    /\ \A c \in Commands : done[c] > 0 => performed[c] > 0

(* The inductive type invariant; that acknowledgements are true is part of  *)
(* the type of the frames on their way.                                     *)
Types ==
    /\ link \in LinkType(TrueFrames)
    /\ link.phase = "waiting" <=> link.conn = NoConnection
    /\ cursor \in Nat /\ awaiting \in BOOLEAN /\ submitted \subseteq Commands
    /\ sockets \in [Connections -> SocketType(TrueFrames)]
    /\ \A k \in Connections : sockets[k].reader <=> k = link.conn
    /\ Contiguous(log)
    /\ ExecTypes
    /\ Vouched

-----------------------------------------------------------------------------
(* Frames that move the client's cursor, and where to.                      *)
Numbered(f) == f.type \in {"event", "resync.required"}

Number(f) == IF f.type = "event" THEN f.event.sequence ELSE f.lastSequence

(* The frame in the client's slot, then the frames in transit.              *)
Ahead(held, down, i) == IF i = 0 THEN held ELSE down[i]

(* What the client will see next, with held in its slot and down in         *)
(* transit, is of the bridge's first run and not from the future;           *)
Dated(held, latest, down) ==
    \A i \in 0 .. Len(down) : Numbered(Ahead(held, down, i)) =>
        /\ Number(Ahead(held, down, i)) \in Nat
        /\ Number(Ahead(held, down, i)) <= latest
        /\ Ahead(held, down, i).run = 0

(* every event that is new to a client at position is next to it or behind  *)
(* its predecessor;                                                         *)
Following(held, position, down) ==
    \A i \in 0 .. Len(down) :
        /\ Ahead(held, down, i).type = "event"
        /\ Number(Ahead(held, down, i)) > position + 1
        => \E j \in 0 .. i - 1 :
              /\ Ahead(held, down, j).type = "event"
              /\ Number(Ahead(held, down, j)) = Number(Ahead(held, down, i)) - 1

(* a marker never leads back;                                               *)
Marked(held, position, down) ==
    \A i \in 0 .. Len(down) : Ahead(held, down, i).type = "resync.required" =>
        /\ position <= Number(Ahead(held, down, i))
        /\ \A j \in 0 .. i - 1 : Numbered(Ahead(held, down, j)) =>
              Number(Ahead(held, down, j)) <= Number(Ahead(held, down, i))

(* and the event the bridge believes to have sent last is there, unless the *)
(* client has it.                                                           *)
Reached(held, position, down, sendCursor) ==
    \/ sendCursor <= position
    \/ \E i \in 0 .. Len(down) :
          /\ Ahead(held, down, i).type = "event"
          /\ Number(Ahead(held, down, i)) = sendCursor

Delivery(held, position, latest, down, sendCursor) ==
    /\ Dated(held, latest, down)
    /\ Following(held, position, down)
    /\ Marked(held, position, down)
    /\ Reached(held, position, down, sendCursor)

(* The connection the client reads, if any.                                 *)
Channel == IF link.conn = NoConnection THEN Closed ELSE sockets[link.conn]

(* A hello asks for events behind one the client has.                       *)
HelloBehind(f, position) == f.type = "connection.hello" => f.after <= position

(* The inductive invariant of the event stream, until the bridge restarts.  *)
Streaming ==
    /\ cursor <= LatestSequence(log)
    /\ HelloBehind(link.out, cursor)
    /\ \A i \in 1 .. Len(Channel.up) : HelloBehind(Channel.up[i], cursor)
    /\ Delivery(link.frame, cursor, LatestSequence(log), Channel.down,
                Channel.sendCursor)
    /\ Len(shown) > 0 /\ shown[Len(shown)].sequence = cursor
    /\ \A i \in 1 .. Len(shown) : shown[i].run = 0
    /\ \A i \in 1 .. Len(shown) - 1 :
          shown[i + 1].sequence = shown[i].sequence + 1

StreamInv == restarts = 0 => Streaming

-----------------------------------------------------------------------------
(* What the fields of a frame are, by its type.                             *)
LEMMA FrameFields ==
    \A f \in Frames :
        /\ f.type \in {"none", "connection.ready", "pong", "ping", "error",
                       "connection.hello", "command", "command.ack",
                       "resync.required", "event"}
        /\ f.type = "connection.hello" => f.after \in Nat
        /\ f.type \in {"command", "command.ack"} => f.command \in Commands
        /\ f.type = "resync.required" => f.lastSequence \in Nat /\ f.run \in Nat
        /\ f.type = "event" => f.event \in EventType /\ f.run \in Nat
  BY DEF Frames, EventType

(* What the two sides write are frames.                                     *)
LEMMA FramesMade ==
    /\ NoFrame \in Frames /\ NoFrame.type = "none"
    /\ \A n \in Nat : /\ HelloFrame(n) \in Frames
                      /\ HelloFrame(n).type = "connection.hello"
                      /\ HelloFrame(n).after = n
    /\ \A c \in Commands : /\ CommandFrame(c) \in Frames
                           /\ CommandFrame(c).type = "command"
                           /\ AckFrame(c) \in Frames
                           /\ AckFrame(c).type = "command.ack"
                           /\ AckFrame(c).command = c
    /\ PingFrame \in Frames /\ PingFrame.type = "ping"
    /\ ReadyFrame \in Frames /\ ReadyFrame.type = "connection.ready"
    /\ PongFrame \in Frames /\ PongFrame.type = "pong"
    /\ ErrorFrame \in Frames /\ ErrorFrame.type = "error"
    /\ \A e \in EventType, run \in Nat :
           /\ EventFrame(e, run) \in Frames
           /\ EventFrame(e, run).type = "event"
           /\ EventFrame(e, run).event = e
           /\ EventFrame(e, run).run = run
<1>1. /\ NoFrame \in Frames /\ NoFrame.type = "none"
      /\ PingFrame \in Frames /\ PingFrame.type = "ping"
      /\ ReadyFrame \in Frames /\ ReadyFrame.type = "connection.ready"
      /\ PongFrame \in Frames /\ PongFrame.type = "pong"
      /\ ErrorFrame \in Frames /\ ErrorFrame.type = "error"
  BY DEF NoFrame, PingFrame, ReadyFrame, PongFrame, ErrorFrame, Frames
<1>2. \A n \in Nat : /\ HelloFrame(n) \in Frames
                     /\ HelloFrame(n).type = "connection.hello"
                     /\ HelloFrame(n).after = n
  BY DEF HelloFrame, Frames
<1>3. \A c \in Commands : /\ CommandFrame(c) \in Frames
                          /\ CommandFrame(c).type = "command"
                          /\ AckFrame(c) \in Frames
                          /\ AckFrame(c).type = "command.ack"
                          /\ AckFrame(c).command = c
  BY DEF CommandFrame, AckFrame, Frames
<1>4. \A e \in EventType, run \in Nat :
           /\ EventFrame(e, run) \in Frames
           /\ EventFrame(e, run).type = "event"
           /\ EventFrame(e, run).event = e
           /\ EventFrame(e, run).run = run
  BY DEF EventFrame, EventType, Frames
<1> QED
  BY <1>1, <1>2, <1>3, <1>4

(* A resync marker carries the newest sequence number.                      *)
LEMMA ResyncMade ==
    ASSUME NEW l, Contiguous(l), NEW run \in Nat
    PROVE  /\ ResyncFrame(l, run) \in Frames
           /\ ResyncFrame(l, run).type = "resync.required"
           /\ ResyncFrame(l, run).lastSequence = LatestSequence(l)
           /\ ResyncFrame(l, run).run = run
           /\ LatestSequence(l) \in Nat
<1>1. LatestSequence(l) \in Nat
  BY DEF Contiguous, LatestSequence
<1> QED
  BY <1>1 DEF ResyncFrame, Frames

-----------------------------------------------------------------------------
(* A session begins with an empty log.                                      *)
LEMMA EmptyLogContiguous ==
    Contiguous(EmptyLog) /\ LatestSequence(EmptyLog) = 0
  BY DEF Contiguous, EmptyLog, LatestSequence

(* The eviction loop ends.                                                  *)
LEMMA ShiftCountBounds ==
    ASSUME NEW l, Len(l.events) \in Nat
    PROVE  ShiftCount(l) \in 0 .. Len(l.events)
<1> DEFINE Fits == {k \in 0 .. Len(l.events) : FitsAfter(l, k)}
<1>1. Len(l.events) \in Fits
  BY DEF FitsAfter
<1>2. PICK m \in Fits : \A k \in Fits : m <= k
  <2>1. Fits \in SUBSET Nat /\ Fits # {}
    BY <1>1
  <2> HIDE DEF Fits
  <2> QED
    BY <2>1, LeastNumber
<1>3. /\ m \in 0 .. Len(l.events)
      /\ FitsAfter(l, m)
      /\ \A j \in 0 .. m - 1 : ~FitsAfter(l, j)
  BY <1>2
<1> QED
  BY <1>3 DEF ShiftCount

(* An append leaves a log whose events are numbered without a gap.          *)
LEMMA AppendContiguous ==
    ASSUME NEW l, Contiguous(l), NEW type \in EventTypes
    PROVE  /\ Contiguous(AppendEvent(l, type, 1))
           /\ LatestSequence(AppendEvent(l, type, 1)) = LatestSequence(l) + 1
<1> DEFINE x == Event(l.nextSequence, type, 1)
           e == Append(l.events, x)
           b == l.totalBytes + 1
           g == [nextSequence |-> l.nextSequence + 1, events |-> e,
                 totalBytes |-> b]
           k == ShiftCount(g)
           t == SubSeq(e, k + 1, Len(e))
           r == Evict(g)
<1>1. /\ l.nextSequence \in Nat \ {0}
      /\ l.events \in Seq(EventType) /\ Len(l.events) \in Nat
      /\ Len(l.events) < l.nextSequence
      /\ \A i \in 1 .. Len(l.events) :
            l.events[i].sequence = l.nextSequence - 1 - Len(l.events) + i
  BY DEF Contiguous
<1>2. x \in EventType /\ x.sequence = l.nextSequence
  BY <1>1 DEF Event, EventType
<1> HIDE DEF x
<1>3. /\ e \in Seq(EventType) /\ Len(e) = Len(l.events) + 1
      /\ \A i \in 1 .. Len(e) :
            e[i].sequence = l.nextSequence - Len(e) + i
  <2>1. /\ e \in Seq(EventType) /\ Len(e) = Len(l.events) + 1
        /\ \A i \in 1 .. Len(l.events) : e[i] = l.events[i]
        /\ e[Len(e)] = x
    BY <1>1, <1>2
  <2> HIDE DEF e, b, g, k, t, r
  <2>2. l.nextSequence \in Int /\ Len(l.events) \in Nat /\ Len(e) = Len(l.events) + 1
    BY <1>1, <2>1
  <2>3. ASSUME NEW i \in 1 .. Len(e)
        PROVE  e[i].sequence = l.nextSequence - Len(e) + i
    <3>1. CASE i = Len(e)
      <4>1. e[i].sequence = l.nextSequence
        BY <1>2, <2>1, <3>1
      <4> QED
        BY <2>2, <3>1, <4>1
    <3>2. CASE i # Len(e)
      <4>1. i \in 1 .. Len(l.events)
        BY <2>2, <3>2
      <4>2. e[i].sequence = l.nextSequence - 1 - Len(l.events) + i
        BY <1>1, <2>1, <4>1
      <4> QED
        BY <2>2, <4>2
    <3> QED
      BY <3>1, <3>2
  <2> QED
    BY <2>1, <2>3
<1> HIDE DEF e, b
<1>4. g.events = e /\ g.nextSequence = l.nextSequence + 1
  OBVIOUS
<1>5. k \in 0 .. Len(e)
  BY <1>1, <1>3, <1>4, ShiftCountBounds
<1>6. r.nextSequence = l.nextSequence + 1 /\ r.events = t
  BY <1>4 DEF Evict
<1> HIDE DEF g, k, r
<1>7. /\ t \in Seq(EventType) /\ Len(t) = Len(e) - k
      /\ \A i \in 1 .. Len(t) : t[i] = e[k + i]
  BY <1>1, <1>3, <1>5
<1> HIDE DEF t
<1>8. \A i \in 1 .. Len(t) :
          t[i].sequence = r.nextSequence - 1 - Len(t) + i
  <2> TAKE i \in 1 .. Len(t)
  <2>1. k + i \in 1 .. Len(e)
    BY <1>1, <1>3, <1>5, <1>7
  <2>2. t[i].sequence = l.nextSequence - Len(e) + (k + i)
    BY <1>3, <1>7, <2>1
  <2>3. /\ i \in Nat /\ k \in Nat /\ Len(e) \in Nat
        /\ l.nextSequence \in Nat /\ Len(t) = Len(e) - k
    BY <1>1, <1>3, <1>5, <1>7
  <2> QED
    BY <1>6, <2>2, <2>3
<1>9. Contiguous(r) /\ LatestSequence(r) = LatestSequence(l) + 1
  BY <1>1, <1>3, <1>5, <1>6, <1>7, <1>8 DEF Contiguous, LatestSequence
<1>10. r = AppendEvent(l, type, 1)
  BY DEF AppendEvent, r, g, e, b, x
<1> QED
  BY <1>9, <1>10

(* A replay is the run of events behind the cursor.                         *)
LEMMA ReplayFollows ==
    ASSUME NEW l, Contiguous(l), NEW position \in Nat,
           CursorCode(l, position) = "OK",
           NEW b, b = EventsAfter(l, position, HistoryLimit)
    PROVE  /\ b \in Seq(EventType)
           /\ \A i \in 1 .. Len(b) : b[i].sequence = position + i
           /\ position + Len(b) <= LatestSequence(l)
<1> DEFINE e     == l.events
           first == l.nextSequence - Len(e)
           older == {i \in DOMAIN e : e[i].sequence <= position}
           c     == position + 1 - first
           last  == IF c + HistoryLimit <= Len(e) THEN c + HistoryLimit
                    ELSE Len(e)
<1>1. /\ l.nextSequence \in Nat \ {0} /\ e \in Seq(EventType)
      /\ Len(e) \in Nat /\ Len(e) < l.nextSequence
      /\ first \in Nat \ {0}
      /\ \A i \in 1 .. Len(e) : e[i].sequence = first - 1 + i
      /\ HistoryLimit \in Nat \ {0}
      /\ LatestSequence(l) = first - 1 + Len(e)
  BY HistoryAssumption DEF Contiguous, LatestSequence
<1>2. /\ position <= LatestSequence(l)
      /\ e # <<>> => ~(position < Head(e).sequence - 1)
  <2>1. ~(position > LatestSequence(l))
    BY DEF CursorCode
  <2>2. ~(e # <<>> /\ position < Head(e).sequence - 1)
    BY <2>1 DEF CursorCode
  <2> QED
    BY <1>1, <2>1, <2>2
<1>3. CASE e = <<>>
  <2>1. Len(e) = 0 /\ older = {}
    BY <1>3
  <2>2. Cardinality({}) = 0
    BY FS_EmptySet
  <2>3. b = SubSeq(e, 1, 0)
    <3>1. b = SubSeq(e, 0 + 1, IF 0 + HistoryLimit <= Len(e)
                               THEN 0 + HistoryLimit ELSE Len(e))
      BY <2>1, <2>2 DEF EventsAfter
    <3> HIDE DEF older, e, first, c, last
    <3> QED
      BY <1>1, <2>1, <3>1
  <2>4. b \in Seq(EventType) /\ Len(b) = 0
    BY <1>1, <2>3
  <2> QED
    BY <1>2, <2>4
<1>4. CASE e # <<>>
  <2>1. Head(e) = e[1] /\ 1 \in 1 .. Len(e)
    BY <1>1, <1>4
  <2>2. c \in Nat /\ c <= Len(e)
    <3>1. e[1].sequence = first
      BY <1>1, <2>1
    <3>2. first \in Nat /\ position >= first - 1 /\ position <= first - 1 + Len(e)
      BY <1>1, <1>2, <1>4, <2>1, <3>1
    <3> HIDE DEF first, e, older, last
    <3> QED
      BY <1>1, <3>2
  <2>3. older = 1 .. c
    <3>1. DOMAIN e = 1 .. Len(e)
      BY <1>1
    <3>2. ASSUME NEW i \in 1 .. Len(e)
          PROVE  e[i].sequence <= position <=> i <= c
      <4>1. e[i].sequence = first - 1 + i /\ first \in Nat /\ i \in Nat
        BY <1>1
      <4> HIDE DEF first, e, older, last
      <4> QED
        BY <4>1
    <3>3. \A i \in 1 .. c : i \in 1 .. Len(e)
      BY <1>1, <2>2
    <3>4. \A i \in 1 .. Len(e) : i <= c => i \in 1 .. c
      BY <1>1, <2>2
    <3>5. \A i \in 1 .. c : i <= c
      BY <2>2
    <3> HIDE DEF c, e
    <3> QED
      BY <3>1, <3>2, <3>3, <3>4, <3>5
  <2> HIDE DEF c
  <2>4. Cardinality(1 .. c) = c
    <3>1. Cardinality(1 .. c) = IF 1 > c THEN 0 ELSE c - 1 + 1
      BY <2>2, FS_Interval
    <3> QED
      BY <2>2, <3>1
  <2>5. b = SubSeq(e, c + 1, last)
    BY <2>3, <2>4 DEF EventsAfter
  <2>6. last \in Nat /\ c <= last /\ last <= Len(e)
    BY <1>1, <2>2
  <2> HIDE DEF last, older
  <2>7. /\ b \in Seq(EventType) /\ Len(b) = last - c
        /\ \A i \in 1 .. last - c : b[i] = e[c + i]
    <3> HIDE DEF e, first
    <3> QED
      BY <1>1, <2>2, <2>5, <2>6
  <2>8. ASSUME NEW i \in 1 .. Len(b)
        PROVE  b[i].sequence = position + i
    <3>1. c + i \in 1 .. Len(e) /\ i \in 1 .. last - c
      BY <1>1, <2>2, <2>6, <2>7
    <3>2. e[c + i].sequence = first - 1 + (c + i)
      BY <1>1, <3>1
    <3> QED
      <4>1. b[i] = e[c + i]
        BY <2>7, <3>1
      <4>2. c = position + 1 - first /\ first \in Nat /\ i \in Nat
        BY <1>1, <3>1 DEF c
      <4> HIDE DEF e, first
      <4> QED
        BY <3>2, <4>1, <4>2
  <2>9. position + Len(b) <= LatestSequence(l)
    BY <1>1, <2>2, <2>6, <2>7 DEF c
  <2> QED
    BY <2>7, <2>8, <2>9
<1> QED
  BY <1>3, <1>4

-----------------------------------------------------------------------------
(* How a socket looks after the bridge wrote to it or gave it up: the 3DS   *)
(* reads it as before, and what was on its way to the bridge stays or goes. *)
Kept(s, r) == r.reader = s.reader /\ r.up \in {s.up, <<>>}

(* Nothing was written.                                                     *)
Silent(s, r) == r.down = s.down /\ r.sendCursor \in {0, s.sendCursor}

(* One frame was written, if anybody reads.                                 *)
Wrote(s, r, f) == s.reader => r.down = Append(s.down, f)

(* Closed and accepted connections are well typed and silent.               *)
LEMMA FreshSockets ==
    ASSUME NEW A
    PROVE  /\ Closed \in SocketType(A) /\ Accepted \in SocketType(A)
           /\ Closed.down = <<>> /\ Closed.sendCursor = 0
           /\ Closed.up = <<>> /\ ~Closed.reader
           /\ Accepted.down = <<>> /\ Accepted.sendCursor = 0
           /\ Accepted.up = <<>> /\ Accepted.reader
<1>1. <<>> \in Seq(A) /\ <<>> \in Seq(Frames)
  OBVIOUS
<1>2. /\ Closed \in SocketType(A)
      /\ Closed.down = <<>> /\ Closed.sendCursor = 0
      /\ Closed.up = <<>> /\ ~Closed.reader
  BY <1>1 DEF Closed, SocketType
<1>3. /\ Accepted \in SocketType(A)
      /\ Accepted.down = Closed.down /\ Accepted.up = Closed.up
      /\ Accepted.sendCursor = Closed.sendCursor /\ Accepted.reader
  BY <1>2 DEF Accepted, SocketType
<1> QED
  BY <1>2, <1>3

(* Destroying a socket writes nothing.                                      *)
LEMMA DestroyFacts ==
    ASSUME NEW A, NEW s \in SocketType(A)
    PROVE  /\ Destroy(s) \in SocketType(A) /\ Kept(s, Destroy(s))
           /\ Destroy(s).state = "closed"
           /\ Destroy(s).down = s.down /\ Destroy(s).sendCursor = 0
           /\ Destroy(s).up = <<>>
<1>1. /\ Closed \in SocketType(A) /\ Closed.sendCursor = 0
      /\ Closed.up = <<>> /\ Closed.state = "closed"
  BY FreshSockets DEF Closed
<1>2. s.down \in Seq(A) /\ s.reader \in BOOLEAN
  BY DEF SocketType
<1> DEFINE d == s.down
           r == s.reader
<1> HIDE DEF d, r
<1>3. Destroy(s) = [Closed EXCEPT !.reader = r, !.down = d]
  BY DEF Destroy, r, d
<1>4. r \in BOOLEAN /\ d \in Seq(A)
  BY <1>2 DEF r, d
<1>5. /\ Destroy(s) \in SocketType(A)
      /\ Destroy(s).down = d /\ Destroy(s).reader = r
      /\ Destroy(s).up = Closed.up /\ Destroy(s).state = Closed.state
      /\ Destroy(s).sendCursor = Closed.sendCursor
  BY <1>1, <1>3, <1>4 DEF SocketType
<1> QED
  BY <1>1, <1>5 DEF Kept, r, d

(* Send() writes one frame to an open connection, or gives it up.           *)
LEMMA SendFacts ==
    ASSUME NEW A, NEW s \in SocketType(A), NEW f \in A
    PROVE  LET r == Send(s, f)
           IN  /\ r \in SocketType(A) /\ Kept(s, r)
               /\ \/ Silent(s, r) /\ r.state = "closed"
                  \/ Wrote(s, r, f) /\ r.sendCursor = s.sendCursor
                     /\ r.state = "open" /\ s.state = "open"
<1> DEFINE down == IF s.reader THEN Append(s.down, f) ELSE <<>>
           full == Len(down) >= HighWater
           r == Send(s, f)
<1>1. CASE s.state = "closed"
  BY <1>1 DEF Send, Kept, Silent
<1>2. CASE s.state # "closed" /\ (s.blocked \/ s.state = "ended")
  <2>1. r = Destroy(s)
    BY <1>2 DEF Send
  <2> QED
    BY <2>1, DestroyFacts DEF Silent
<1>3. CASE s.state # "closed" /\ ~(s.blocked \/ s.state = "ended")
  <2>1. r = [s EXCEPT !.down = down, !.blocked = full]
    BY <1>3 DEF Send
  <2>2. s.state = "open"
    BY <1>3 DEF SocketType
  <2>3. s.down \in Seq(A)
    BY DEF SocketType
  <2>4. down \in Seq(A)
    BY <2>3
  <2>5. full \in BOOLEAN
    OBVIOUS
  <2>6. s.reader => down = Append(s.down, f)
    OBVIOUS
  <2> HIDE DEF full, down, r
  <2>7. r \in SocketType(A)
    BY <2>1, <2>4, <2>5 DEF SocketType
  <2>8. /\ r.down = down /\ r.sendCursor = s.sendCursor /\ r.up = s.up
        /\ r.reader = s.reader /\ r.state = s.state
    BY <2>1 DEF SocketType
  <2> QED
    BY <2>2, <2>6, <2>7, <2>8 DEF Kept, Wrote, r
<1> QED
  BY <1>1, <1>2, <1>3

(* So does a last write.                                                    *)
LEMMA SendAndEndFacts ==
    ASSUME NEW A, NEW s \in SocketType(A), NEW f \in A
    PROVE  LET r == SendAndEnd(s, f)
           IN  /\ r \in SocketType(A) /\ Kept(s, r)
               /\ \/ Silent(s, r)
                  \/ Wrote(s, r, f) /\ r.sendCursor = s.sendCursor
<1> DEFINE t == Send(s, f)
           r == SendAndEnd(s, f)
<1>1. /\ t \in SocketType(A) /\ Kept(s, t)
      /\ \/ Silent(s, t)
         \/ Wrote(s, t, f) /\ t.sendCursor = s.sendCursor
  BY SendFacts
<1>2. r = IF t.state = "open" THEN [t EXCEPT !.state = "ended"] ELSE t
  BY DEF SendAndEnd
<1> HIDE DEF t, r
<1>3. /\ r \in SocketType(A)
      /\ r.down = t.down /\ r.sendCursor = t.sendCursor /\ r.up = t.up
      /\ r.reader = t.reader
  BY <1>1, <1>2 DEF SocketType
<1> QED
  BY <1>1, <1>3 DEF Kept, Silent, Wrote, r

(* An event is written and the send cursor moves, or nothing more is.       *)
LEMMA SendEventFacts ==
    ASSUME NEW A, NEW s \in SocketType(A), NEW e \in EventType, NEW run,
           EventFrame(e, run) \in A
    PROVE  LET r == SendEvent(s, e, run)
           IN  /\ r \in SocketType(A) /\ Kept(s, r)
               /\ \/ Silent(s, r) /\ (r.state = "closed" \/ r.blocked)
                  \/ Wrote(s, r, EventFrame(e, run))
                     /\ r.sendCursor = e.sequence
                     /\ s.state # "closed" /\ ~s.blocked
<1> DEFINE f == EventFrame(e, run)
           t == Send(s, f)
           r == SendEvent(s, e, run)
<1>1. CASE s.blocked \/ s.state = "closed"
  BY <1>1 DEF SendEvent, Kept, Silent
<1>2. CASE ~(s.blocked \/ s.state = "closed")
  <2>1. /\ t \in SocketType(A) /\ Kept(s, t)
        /\ \/ Silent(s, t) /\ t.state = "closed"
           \/ Wrote(s, t, f) /\ t.state = "open"
    BY SendFacts
  <2>2. r = IF t.state = "closed" THEN t
            ELSE [t EXCEPT !.sendCursor = e.sequence]
    BY <1>2 DEF SendEvent
  <2>3. e.sequence \in Nat
    BY DEF EventType
  <2> HIDE DEF t, f, r
  <2>4. CASE t.state = "closed"
    BY <2>1, <2>2, <2>4 DEF r
  <2>5. CASE t.state # "closed"
    <3>1. /\ r \in SocketType(A)
          /\ r.down = t.down /\ r.sendCursor = e.sequence /\ r.up = t.up
          /\ r.reader = t.reader
      BY <2>1, <2>2, <2>3, <2>5 DEF SocketType
    <3>2. Wrote(s, t, f)
      BY <2>1, <2>5
    <3> QED
      BY <1>2, <2>1, <3>1, <3>2 DEF Kept, Wrote, r, f
  <2> QED
    BY <2>4, <2>5
<1> QED
  BY <1>1, <1>2

(* The sockets a batch of events leads through.                             *)
Sockets(f, s, e, run) ==
    /\ f[0] = s
    /\ \A n \in 1 .. Len(e) : f[n] = SendEvent(f[n - 1], e[n], run)

(* SendEvents() is the repetition of SendEvent() it is defined as.          *)
LEMMA SendEventsSteps ==
    ASSUME NEW s, NEW e, Len(e) \in Nat, NEW run
    PROVE  \E f : Sockets(f, s, e, run) /\ SendEvents(s, e, run) = f[Len(e)]
<1> DEFINE Equation(f, m) ==
              f = [n \in 0 .. m |-> IF n = 0 THEN s
                                    ELSE SendEvent(f[n - 1], e[n], run)]
           S == {m \in Nat : m <= Len(e) => \E f : Equation(f, m)}
           sent == CHOOSE f : Equation(f, Len(e))
<1>1. 0 \in S
  <2> DEFINE f == [n \in 0 .. 0 |-> s]
  <2>1. Equation(f, 0)
    OBVIOUS
  <2> QED
    BY <2>1
<1>2. ASSUME NEW m \in Nat, m \in S
      PROVE  m + 1 \in S
  <2> SUFFICES ASSUME m + 1 <= Len(e)
               PROVE  \E g : Equation(g, m + 1)
    OBVIOUS
  <2>1. PICK f : Equation(f, m)
    BY <1>2
  <2> DEFINE x == SendEvent(f[m], e[m + 1], run)
             g == [n \in 0 .. m + 1 |-> IF n <= m THEN f[n] ELSE x]
  <2>2. \A n \in 0 .. m + 1 :
            g[n] = IF n = 0 THEN s ELSE SendEvent(g[n - 1], e[n], run)
    BY <2>1
  <2>3. Equation(g, m + 1)
    BY <2>2
  <2> QED
    BY <2>3
<1>3. Len(e) \in S
  <2> HIDE DEF S
  <2> QED
    BY <1>1, <1>2, SetInduction
<1>4. Equation(sent, Len(e))
  BY <1>3
<1>5. SendEvents(s, e, run) = sent[Len(e)]
  BY DEF SendEvents
<1> HIDE DEF sent
<1>6. sent[0] = s /\ \A n \in 1 .. Len(e) :
                        sent[n] = SendEvent(sent[n - 1], e[n], run)
  BY <1>4
<1> QED
  BY <1>5, <1>6 DEF Sockets

-----------------------------------------------------------------------------
(* A delivery stays one when nothing is written,                            *)
LEMMA DeliverySilent ==
    ASSUME NEW h, NEW c \in Nat, NEW l \in Nat, NEW d, NEW n,
           Delivery(h, c, l, d, n), NEW m \in {0, n}
    PROVE  Delivery(h, c, l, d, m)
  BY DEF Delivery, Reached

(* when the log grows,                                                      *)
LEMMA DeliveryGrown ==
    ASSUME NEW h, NEW c, NEW l \in Nat, NEW k \in Nat, l <= k, NEW d, NEW n,
           Delivery(h, c, l, d, n)
    PROVE  Delivery(h, c, k, d, n)
  BY DEF Delivery, Dated

(* and when the client leaves the connection.                               *)
LEMMA DeliveryCut ==
    ASSUME NEW h, NEW c \in Nat, NEW l, NEW d, Len(d) \in Nat, NEW n,
           Delivery(h, c, l, d, n)
    PROVE  Delivery(h, c, l, <<>>, 0)
<1>1. Len(<<>>) = 0
  OBVIOUS
<1>2. \A i \in 0 .. 0 : /\ i \in 0 .. Len(d)
                        /\ Ahead(h, <<>>, i) = Ahead(h, d, i)
                        /\ 0 .. i - 1 = {}
  BY DEF Ahead
<1>3. Dated(h, l, <<>>)
  BY <1>1, <1>2 DEF Delivery, Dated
<1>4. Following(h, c, <<>>)
  <2> SUFFICES ASSUME NEW i \in 0 .. Len(<<>>),
                      Ahead(h, <<>>, i).type = "event",
                      Number(Ahead(h, <<>>, i)) > c + 1
               PROVE  FALSE
    BY DEF Following
  <2>1. i \in 0 .. 0
    BY <1>1
  <2> QED
    BY <1>2, <2>1 DEF Delivery, Following
<1>5. Marked(h, c, <<>>)
  BY <1>1, <1>2 DEF Delivery, Marked
<1>6. Reached(h, c, <<>>, 0)
  BY DEF Reached
<1> QED
  BY <1>3, <1>4, <1>5, <1>6 DEF Delivery

(* What an appended frame changes about what is ahead.                      *)
LEMMA AheadAppend ==
    ASSUME NEW h, NEW A, NEW d \in Seq(A), NEW f \in A
    PROVE  /\ Len(d) \in Nat /\ Len(Append(d, f)) = Len(d) + 1
           /\ \A i \in 0 .. Len(d) : Ahead(h, Append(d, f), i) = Ahead(h, d, i)
           /\ Ahead(h, Append(d, f), Len(d) + 1) = f
           /\ \A i \in 0 .. Len(d) + 1 : i \in 0 .. Len(d) \/ i = Len(d) + 1
  BY DEF Ahead

(* A frame without a number changes nothing.                                *)
LEMMA DeliveryQuiet ==
    ASSUME NEW h, NEW c \in Nat, NEW l \in Nat, NEW A, NEW d \in Seq(A), NEW n,
           Delivery(h, c, l, d, n), NEW f \in A, ~Numbered(f)
    PROVE  Delivery(h, c, l, Append(d, f), n)
<1> DEFINE e == Append(d, f)
<1>1. /\ Len(d) \in Nat /\ Len(e) = Len(d) + 1
      /\ \A i \in 0 .. Len(d) : Ahead(h, e, i) = Ahead(h, d, i)
      /\ Ahead(h, e, Len(d) + 1) = f
      /\ \A i \in 0 .. Len(d) + 1 : i \in 0 .. Len(d) \/ i = Len(d) + 1
  BY AheadAppend
<1>2. f.type # "event" /\ f.type # "resync.required"
  BY DEF Numbered
<1> HIDE DEF e
<1>3. Dated(h, l, e)
  BY <1>1 DEF Delivery, Dated
<1>4. ASSUME NEW i \in 0 .. Len(e),
             Ahead(h, e, i).type \in {"event", "resync.required"}
      PROVE  /\ i \in 0 .. Len(d) /\ Ahead(h, e, i) = Ahead(h, d, i)
             /\ \A j \in 0 .. i - 1 : j \in 0 .. Len(d)
                                      /\ Ahead(h, e, j) = Ahead(h, d, j)
  <2>1. i \in 0 .. Len(d)
    BY <1>1, <1>2, <1>4
  <2>2. \A j \in 0 .. i - 1 : j \in 0 .. Len(d)
    BY <1>1, <2>1
  <2> QED
    BY <1>1, <2>1, <2>2
<1>5. Following(h, c, e)
  BY <1>4 DEF Delivery, Following
<1>6. Marked(h, c, e)
  BY <1>4 DEF Delivery, Marked
<1>7. Reached(h, c, e, n)
  <2>1. \A i \in 0 .. Len(d) : i \in 0 .. Len(e)
    BY <1>1
  <2> QED
    BY <1>1, <2>1 DEF Delivery, Reached
<1> QED
  BY <1>3, <1>5, <1>6, <1>7 DEF Delivery, e

(* The event behind the send cursor continues what is ahead.                *)
LEMMA DeliveryEvent ==
    ASSUME NEW h, NEW c \in Nat, NEW l \in Nat, NEW A, NEW d \in Seq(A),
           NEW n \in Nat, Delivery(h, c, l, d, n),
           NEW f \in A, f.type = "event", f.run = 0, Number(f) = n + 1,
           n + 1 <= l
    PROVE  Delivery(h, c, l, Append(d, f), n + 1)
<1> DEFINE e == Append(d, f)
<1>1. /\ Len(d) \in Nat /\ Len(e) = Len(d) + 1
      /\ \A i \in 0 .. Len(d) : Ahead(h, e, i) = Ahead(h, d, i)
      /\ Ahead(h, e, Len(d) + 1) = f
      /\ \A i \in 0 .. Len(d) + 1 : i \in 0 .. Len(d) \/ i = Len(d) + 1
  BY AheadAppend
<1> HIDE DEF e
<1>2. Dated(h, l, e)
  BY <1>1 DEF Delivery, Dated
<1>3. ASSUME NEW i \in 0 .. Len(d)
      PROVE  /\ Ahead(h, e, i) = Ahead(h, d, i)
             /\ \A j \in 0 .. i - 1 : j \in 0 .. Len(d)
                                      /\ Ahead(h, e, j) = Ahead(h, d, j)
  <2>1. \A j \in 0 .. i - 1 : j \in 0 .. Len(d)
    BY <1>1
  <2> QED
    BY <1>1, <2>1
<1>4. Following(h, c, e)
  <2> SUFFICES ASSUME NEW i \in 0 .. Len(e), Ahead(h, e, i).type = "event",
                      Number(Ahead(h, e, i)) > c + 1
               PROVE  \E j \in 0 .. i - 1 :
                         /\ Ahead(h, e, j).type = "event"
                         /\ Number(Ahead(h, e, j)) = Number(Ahead(h, e, i)) - 1
    BY DEF Following
  <2>1. CASE i \in 0 .. Len(d)
    BY <1>3, <2>1 DEF Delivery, Following
  <2>2. CASE i = Len(d) + 1
    <3>1. ~(n <= c)
      BY <1>1, <2>2
    <3>2. PICK j \in 0 .. Len(d) : /\ Ahead(h, d, j).type = "event"
                                   /\ Number(Ahead(h, d, j)) = n
      BY <3>1 DEF Delivery, Reached
    <3>3. j \in 0 .. i - 1 /\ (n + 1) - 1 = n
      BY <1>1, <2>2
    <3> QED
      BY <1>1, <2>2, <3>2, <3>3
  <2> QED
    BY <1>1, <2>1, <2>2
<1>5. Marked(h, c, e)
  <2> SUFFICES ASSUME NEW i \in 0 .. Len(e),
                      Ahead(h, e, i).type = "resync.required"
               PROVE  /\ c <= Number(Ahead(h, e, i))
                      /\ \A j \in 0 .. i - 1 : Numbered(Ahead(h, e, j)) =>
                            Number(Ahead(h, e, j)) <= Number(Ahead(h, e, i))
    BY DEF Marked
  <2>1. i \in 0 .. Len(d)
    BY <1>1
  <2> QED
    BY <1>3, <2>1 DEF Delivery, Marked
<1>6. Reached(h, c, e, n + 1)
  <2>1. Len(d) + 1 \in 0 .. Len(e)
    BY <1>1
  <2> QED
    BY <1>1, <2>1 DEF Reached
<1> QED
  BY <1>2, <1>4, <1>5, <1>6 DEF Delivery, e

(* A marker at the newest event leads nowhere back.                         *)
LEMMA DeliveryResync ==
    ASSUME NEW h, NEW c \in Nat, NEW l \in Nat, NEW A, NEW d \in Seq(A), NEW n,
           Delivery(h, c, l, d, n), c <= l,
           NEW f \in A, f.type = "resync.required", f.run = 0, Number(f) = l
    PROVE  Delivery(h, c, l, Append(d, f), n)
<1> DEFINE e == Append(d, f)
<1>1. /\ Len(d) \in Nat /\ Len(e) = Len(d) + 1
      /\ \A i \in 0 .. Len(d) : Ahead(h, e, i) = Ahead(h, d, i)
      /\ Ahead(h, e, Len(d) + 1) = f
      /\ \A i \in 0 .. Len(d) + 1 : i \in 0 .. Len(d) \/ i = Len(d) + 1
  BY AheadAppend
<1> HIDE DEF e
<1>2. Dated(h, l, e)
  BY <1>1 DEF Delivery, Dated
<1>3. ASSUME NEW i \in 0 .. Len(d)
      PROVE  /\ Ahead(h, e, i) = Ahead(h, d, i)
             /\ \A j \in 0 .. i - 1 : j \in 0 .. Len(d)
                                      /\ Ahead(h, e, j) = Ahead(h, d, j)
  <2>1. \A j \in 0 .. i - 1 : j \in 0 .. Len(d)
    BY <1>1
  <2> QED
    BY <1>1, <2>1
<1>4. Following(h, c, e)
  <2> SUFFICES ASSUME NEW i \in 0 .. Len(e), Ahead(h, e, i).type = "event",
                      Number(Ahead(h, e, i)) > c + 1
               PROVE  \E j \in 0 .. i - 1 :
                         /\ Ahead(h, e, j).type = "event"
                         /\ Number(Ahead(h, e, j)) = Number(Ahead(h, e, i)) - 1
    BY DEF Following
  <2>1. i \in 0 .. Len(d)
    BY <1>1
  <2> QED
    BY <1>3, <2>1 DEF Delivery, Following
<1>5. Marked(h, c, e)
  <2> SUFFICES ASSUME NEW i \in 0 .. Len(e),
                      Ahead(h, e, i).type = "resync.required"
               PROVE  /\ c <= Number(Ahead(h, e, i))
                      /\ \A j \in 0 .. i - 1 : Numbered(Ahead(h, e, j)) =>
                            Number(Ahead(h, e, j)) <= Number(Ahead(h, e, i))
    BY DEF Marked
  <2>1. CASE i \in 0 .. Len(d)
    BY <1>3, <2>1 DEF Delivery, Marked
  <2>2. CASE i = Len(d) + 1
    <3>1. \A j \in 0 .. i - 1 : j \in 0 .. Len(d)
      BY <1>1, <2>2
    <3> QED
      BY <1>1, <2>2, <3>1 DEF Delivery, Dated
  <2> QED
    BY <1>1, <2>1, <2>2
<1>6. Reached(h, c, e, n)
  <2>1. \A i \in 0 .. Len(d) : i \in 0 .. Len(e)
    BY <1>1
  <2> QED
    BY <1>1, <2>1 DEF Delivery, Reached
<1> QED
  BY <1>2, <1>4, <1>5, <1>6 DEF Delivery, e

(* The client takes the next frame into its empty slot: nothing is lost.    *)
LEMMA DeliveryTaken ==
    ASSUME NEW c \in Nat, NEW l \in Nat, NEW A, NEW d \in Seq(A), d # <<>>,
           NEW n, Delivery(NoFrame, c, l, d, n)
    PROVE  Delivery(Head(d), c, l, Tail(d), n)
<1> DEFINE g == Head(d)
           e == Tail(d)
<1>1. /\ Len(d) \in Nat \ {0} /\ Len(e) = Len(d) - 1
      /\ \A i \in 1 .. Len(d) - 1 : e[i] = d[i + 1]
      /\ g = d[1]
  OBVIOUS
<1> HIDE DEF g, e
<1>2. \A i \in 0 .. Len(e) : /\ i + 1 \in 0 .. Len(d) /\ i + 1 # 0
                             /\ i \in Nat /\ (i + 1) - 1 = i
                             /\ Ahead(g, e, i) = Ahead(NoFrame, d, i + 1)
  <2> TAKE i \in 0 .. Len(e)
  <2>1. i + 1 \in 0 .. Len(d) /\ i + 1 # 0 /\ i \in Nat
    BY <1>1
  <2>2. CASE i = 0
    BY <1>1, <2>1, <2>2 DEF Ahead
  <2>3. CASE i # 0
    <3>1. i \in 1 .. Len(d) - 1
      BY <1>1, <2>3
    <3> QED
      BY <1>1, <2>1, <2>3, <3>1 DEF Ahead
  <2> QED
    BY <2>1, <2>2, <2>3
<1>3. ~Numbered(Ahead(NoFrame, d, 0)) /\ Ahead(NoFrame, d, 0).type = "none"
  BY DEF Ahead, Numbered, NoFrame
<1>4. \A j \in 1 .. Len(d) : j - 1 \in 0 .. Len(e) /\ (j - 1) + 1 = j
  BY <1>1
<1>5. Dated(g, l, e)
  BY <1>2 DEF Delivery, Dated
<1>6. Following(g, c, e)
  <2> SUFFICES ASSUME NEW i \in 0 .. Len(e), Ahead(g, e, i).type = "event",
                      Number(Ahead(g, e, i)) > c + 1
               PROVE  \E j \in 0 .. i - 1 :
                         /\ Ahead(g, e, j).type = "event"
                         /\ Number(Ahead(g, e, j)) = Number(Ahead(g, e, i)) - 1
    BY DEF Following
  <2>1. PICK j \in 0 .. i :
            /\ Ahead(NoFrame, d, j).type = "event"
            /\ Number(Ahead(NoFrame, d, j)) = Number(Ahead(g, e, i)) - 1
    BY <1>2 DEF Delivery, Following
  <2>2. j # 0
    BY <1>3, <2>1
  <2>3. j - 1 \in 0 .. i - 1 /\ j - 1 \in 0 .. Len(e) /\ (j - 1) + 1 = j
    BY <1>1, <2>2
  <2>4. Ahead(g, e, j - 1) = Ahead(NoFrame, d, j)
    BY <1>2, <2>3
  <2> QED
    BY <2>1, <2>3, <2>4
<1>7. Marked(g, c, e)
  <2> SUFFICES ASSUME NEW i \in 0 .. Len(e),
                      Ahead(g, e, i).type = "resync.required"
               PROVE  /\ c <= Number(Ahead(g, e, i))
                      /\ \A j \in 0 .. i - 1 : Numbered(Ahead(g, e, j)) =>
                            Number(Ahead(g, e, j)) <= Number(Ahead(g, e, i))
    BY DEF Marked
  <2>1. /\ c <= Number(Ahead(g, e, i))
        /\ \A j \in 0 .. i : Numbered(Ahead(NoFrame, d, j)) =>
              Number(Ahead(NoFrame, d, j)) <= Number(Ahead(g, e, i))
    BY <1>2 DEF Delivery, Marked
  <2>2. \A j \in 0 .. i - 1 : j + 1 \in 0 .. i /\ j \in 0 .. Len(e)
    BY <1>1
  <2> QED
    BY <1>2, <2>1, <2>2
<1>8. Reached(g, c, e, n)
  <2>1. CASE n <= c
    BY <2>1 DEF Reached
  <2>2. CASE ~(n <= c)
    <3>1. PICK j \in 0 .. Len(d) : /\ Ahead(NoFrame, d, j).type = "event"
                                   /\ Number(Ahead(NoFrame, d, j)) = n
      BY <2>2 DEF Delivery, Reached
    <3>2. j \in 1 .. Len(d)
      BY <1>1, <1>3, <3>1
    <3>3. j - 1 \in 0 .. Len(e) /\ (j - 1) + 1 = j
      BY <1>4, <3>2
    <3>4. Ahead(g, e, j - 1) = Ahead(NoFrame, d, j)
      BY <1>2, <3>3
    <3> QED
      BY <3>1, <3>3, <3>4 DEF Reached
  <2> QED
    BY <2>1, <2>2
<1> QED
  BY <1>5, <1>6, <1>7, <1>8 DEF Delivery, g, e

(* An event in the slot that is new to the client is the next one.          *)
LEMMA DeliveryNext ==
    ASSUME NEW h, NEW c \in Nat, NEW l, NEW d, Len(d) \in Nat, NEW n,
           Delivery(h, c, l, d, n), h.type = "event", Number(h) > c
    PROVE  Number(h) = c + 1
<1>1. 0 \in 0 .. Len(d) /\ Ahead(h, d, 0) = h /\ 0 .. 0 - 1 = {}
  BY DEF Ahead
<1>2. Number(h) \in Nat
  BY <1>1 DEF Delivery, Dated, Numbered
<1>3. ~(Number(h) > c + 1)
  BY <1>1 DEF Delivery, Following
<1> QED
  BY <1>2, <1>3

(* The client handles the frame in its slot and moves its cursor to what    *)
(* the frame says, if anywhere.                                             *)
LEMMA DeliveryHandled ==
    ASSUME NEW h, NEW c \in Nat, NEW l \in Nat, NEW d, Len(d) \in Nat,
           NEW n \in Nat, Delivery(h, c, l, d, n), NEW p \in Nat,
           c <= p, p = c \/ (Numbered(h) /\ p = Number(h)),
           h.type = "event" => Number(h) <= p
    PROVE  Delivery(NoFrame, p, l, d, n)
<1>1. ~Numbered(Ahead(NoFrame, d, 0)) /\ Ahead(NoFrame, d, 0).type = "none"
  BY DEF Ahead, Numbered, NoFrame
<1>2. ASSUME NEW i \in 0 .. Len(d), Numbered(Ahead(NoFrame, d, i))
      PROVE  /\ i \in 1 .. Len(d) /\ Ahead(NoFrame, d, i) = Ahead(h, d, i)
             /\ 0 \in 0 .. i - 1 /\ \A j \in 0 .. i - 1 : j \in 0 .. Len(d)
             /\ Number(Ahead(h, d, i)) \in Nat
  <2>1. i # 0
    BY <1>1, <1>2
  <2>2. i \in 1 .. Len(d) /\ Ahead(NoFrame, d, i) = Ahead(h, d, i)
    BY <2>1 DEF Ahead
  <2>3. 0 \in 0 .. i - 1 /\ \A j \in 0 .. i - 1 : j \in 0 .. Len(d)
    BY <2>2
  <2> QED
    BY <1>2, <2>2, <2>3 DEF Delivery, Dated
<1>3. \A j \in 0 .. Len(d) :
          j # 0 => Ahead(NoFrame, d, j) = Ahead(h, d, j)
  BY DEF Ahead
<1>4. Ahead(h, d, 0) = h
  BY DEF Ahead
<1>5. \A f : f.type \in {"event", "resync.required"} => Numbered(f)
  BY DEF Numbered
<1>6. Dated(NoFrame, l, d)
  BY <1>2 DEF Delivery, Dated
<1>7. Following(NoFrame, p, d)
  <2> SUFFICES ASSUME NEW i \in 0 .. Len(d),
                      Ahead(NoFrame, d, i).type = "event",
                      Number(Ahead(NoFrame, d, i)) > p + 1
               PROVE  \E j \in 0 .. i - 1 :
                         /\ Ahead(NoFrame, d, j).type = "event"
                         /\ Number(Ahead(NoFrame, d, j)) =
                               Number(Ahead(NoFrame, d, i)) - 1
    BY DEF Following
  <2>1. /\ i \in 1 .. Len(d) /\ Ahead(NoFrame, d, i) = Ahead(h, d, i)
        /\ Number(Ahead(h, d, i)) \in Nat
        /\ \A j \in 0 .. i - 1 : j \in 0 .. Len(d)
    BY <1>2, <1>5
  <2>2. PICK j \in 0 .. i - 1 :
            /\ Ahead(h, d, j).type = "event"
            /\ Number(Ahead(h, d, j)) = Number(Ahead(h, d, i)) - 1
    BY <2>1 DEF Delivery, Following
  <2>3. j # 0
    BY <1>4, <2>1, <2>2
  <2>4. Ahead(NoFrame, d, j) = Ahead(h, d, j)
    BY <1>3, <2>1, <2>3
  <2> QED
    BY <2>1, <2>2, <2>4
<1>8. Marked(NoFrame, p, d)
  <2> SUFFICES ASSUME NEW i \in 0 .. Len(d),
                      Ahead(NoFrame, d, i).type = "resync.required"
               PROVE  /\ p <= Number(Ahead(NoFrame, d, i))
                      /\ \A j \in 0 .. i - 1 : Numbered(Ahead(NoFrame, d, j)) =>
                            Number(Ahead(NoFrame, d, j))
                               <= Number(Ahead(NoFrame, d, i))
    BY DEF Marked
  <2>1. /\ i \in 1 .. Len(d) /\ Ahead(NoFrame, d, i) = Ahead(h, d, i)
        /\ 0 \in 0 .. i - 1 /\ \A j \in 0 .. i - 1 : j \in 0 .. Len(d)
    BY <1>2, <1>5
  <2>2. /\ c <= Number(Ahead(h, d, i))
        /\ \A j \in 0 .. i - 1 : Numbered(Ahead(h, d, j)) =>
              Number(Ahead(h, d, j)) <= Number(Ahead(h, d, i))
    BY <2>1 DEF Delivery, Marked
  <2>3. p <= Number(Ahead(h, d, i))
    BY <1>4, <2>1, <2>2
  <2>4. \A j \in 0 .. i - 1 : Numbered(Ahead(NoFrame, d, j)) =>
            Ahead(NoFrame, d, j) = Ahead(h, d, j)
    BY <1>1, <1>3, <2>1
  <2> QED
    BY <2>1, <2>2, <2>3, <2>4
<1>9. Reached(NoFrame, p, d, n)
  <2>1. CASE n <= c
    BY <2>1 DEF Reached
  <2>2. CASE ~(n <= c)
    <3>1. PICK i \in 0 .. Len(d) : /\ Ahead(h, d, i).type = "event"
                                   /\ Number(Ahead(h, d, i)) = n
      BY <2>2 DEF Delivery, Reached
    <3>2. CASE i = 0
      BY <1>4, <3>1, <3>2 DEF Reached
    <3>3. CASE i # 0
      BY <1>3, <3>1, <3>3 DEF Reached
    <3> QED
      BY <3>2, <3>3
  <2> QED
    BY <2>1, <2>2
<1> QED
  BY <1>6, <1>7, <1>8, <1>9 DEF Delivery

-----------------------------------------------------------------------------
(* A set of frames the bridge may write anything in but acknowledgements.   *)
Unbiased(A) == A \subseteq Frames /\ \A f \in Frames : f.type # "command.ack" => f \in A

(* A frame without a number leaves a delivery one.                          *)
LEMMA SendDelivery ==
    ASSUME NEW h, NEW c \in Nat, NEW l \in Nat, NEW A, NEW s \in SocketType(A),
           s.reader, Delivery(h, c, l, s.down, s.sendCursor),
           NEW f \in A, ~Numbered(f)
    PROVE  /\ Delivery(h, c, l, Send(s, f).down, Send(s, f).sendCursor)
           /\ Delivery(h, c, l, SendAndEnd(s, f).down,
                       SendAndEnd(s, f).sendCursor)
<1>1. s.down \in Seq(A) /\ s.sendCursor \in Nat
  BY DEF SocketType
<1>2. Delivery(h, c, l, Append(s.down, f), s.sendCursor)
  BY <1>1, DeliveryQuiet
<1>3. \A m \in {0, s.sendCursor} : Delivery(h, c, l, s.down, m)
  BY <1>1, DeliverySilent
<1>4. \/ Silent(s, Send(s, f))
      \/ Wrote(s, Send(s, f), f) /\ Send(s, f).sendCursor = s.sendCursor
  BY SendFacts
<1>5. \/ Silent(s, SendAndEnd(s, f))
      \/ Wrote(s, SendAndEnd(s, f), f)
         /\ SendAndEnd(s, f).sendCursor = s.sendCursor
  BY SendAndEndFacts
<1> QED
  BY <1>2, <1>3, <1>4, <1>5 DEF Silent, Wrote

(* So does a marker at the newest event.                                    *)
LEMMA ResyncDelivery ==
    ASSUME NEW h, NEW c \in Nat, NEW A, NEW s \in SocketType(A), Unbiased(A),
           NEW l, Contiguous(l), c <= LatestSequence(l), s.reader,
           Delivery(h, c, LatestSequence(l), s.down, s.sendCursor)
    PROVE  LET r == SendAndEnd(s, ResyncFrame(l, 0))
           IN  Delivery(h, c, LatestSequence(l), r.down, r.sendCursor)
<1> DEFINE f == ResyncFrame(l, 0)
           r == SendAndEnd(s, f)
           k == LatestSequence(l)
<1>1. s.down \in Seq(A) /\ s.sendCursor \in Nat
  BY DEF SocketType
<1>2. /\ f \in A /\ f.type = "resync.required" /\ f.run = 0
      /\ f.lastSequence = k /\ k \in Nat
  BY ResyncMade DEF Unbiased
<1>3. Number(f) = k
  BY <1>2 DEF Number
<1> HIDE DEF f, k
<1>4. Delivery(h, c, k, Append(s.down, f), s.sendCursor)
  BY <1>1, <1>2, <1>3, DeliveryResync DEF k
<1>5. \A m \in {0, s.sendCursor} : Delivery(h, c, k, s.down, m)
  BY <1>1, <1>2, DeliverySilent DEF k
<1>6. \/ Silent(s, r)
      \/ Wrote(s, r, f) /\ r.sendCursor = s.sendCursor
  BY <1>2, SendAndEndFacts
<1> HIDE DEF r
<1> QED
  BY <1>4, <1>5, <1>6 DEF Silent, Wrote, r, f, k

(* What writing a batch of events leaves: a well typed socket and, if the   *)
(* batch follows the send cursor, a delivery.                               *)
LEMMA SendEventsFacts ==
    ASSUME NEW A, NEW s \in SocketType(A), Unbiased(A),
           NEW e \in Seq(EventType), NEW run \in Nat
    PROVE  LET r == SendEvents(s, e, run)
           IN  r \in SocketType(A) /\ Kept(s, r)
<1>0. Len(e) \in Nat
  OBVIOUS
<1>1. PICK f : Sockets(f, s, e, run) /\ SendEvents(s, e, run) = f[Len(e)]
  BY <1>0, SendEventsSteps
<1> DEFINE S == {n \in Nat : n <= Len(e) =>
                    f[n] \in SocketType(A) /\ Kept(s, f[n])}
<1>2. 0 \in S
  BY <1>1 DEF Kept, Sockets
<1>3. ASSUME NEW n \in Nat, n \in S
      PROVE  n + 1 \in S
  <2> SUFFICES ASSUME n + 1 <= Len(e)
               PROVE  f[n + 1] \in SocketType(A) /\ Kept(s, f[n + 1])
    OBVIOUS
  <2>1. f[n] \in SocketType(A) /\ Kept(s, f[n]) /\ n + 1 \in 1 .. Len(e)
    BY <1>3
  <2>2. f[n + 1] = SendEvent(f[n], e[n + 1], run) /\ e[n + 1] \in EventType
    BY <1>1, <2>1 DEF Sockets
  <2>3. EventFrame(e[n + 1], run) \in A
    BY <2>2, FramesMade DEF Unbiased
  <2>4. f[n + 1] \in SocketType(A) /\ Kept(f[n], f[n + 1])
    BY <2>1, <2>2, <2>3, SendEventFacts
  <2> QED
    BY <2>1, <2>4 DEF Kept
<1>4. Len(e) \in S
  <2> HIDE DEF S
  <2> QED
    BY <1>0, <1>2, <1>3, SetInduction
<1> QED
  BY <1>1, <1>4

LEMMA SendEventsDelivery ==
    ASSUME NEW A, NEW s \in SocketType(A), Unbiased(A), s.reader,
           NEW e \in Seq(EventType), NEW h, NEW c \in Nat, NEW l \in Nat,
           Delivery(h, c, l, s.down, s.sendCursor),
           \A i \in 1 .. Len(e) : e[i].sequence = s.sendCursor + i,
           s.sendCursor + Len(e) <= l
    PROVE  LET r == SendEvents(s, e, 0)
           IN  Delivery(h, c, l, r.down, r.sendCursor)
<1>0. Len(e) \in Nat
  OBVIOUS
<1>1. PICK f : Sockets(f, s, e, 0) /\ SendEvents(s, e, 0) = f[Len(e)]
  BY <1>0, SendEventsSteps
<1> DEFINE P(n, t) ==
              /\ t \in SocketType(A) /\ t.reader
              /\ Delivery(h, c, l, t.down, t.sendCursor)
              /\ \/ t.state = "closed" \/ t.blocked
                 \/ t.sendCursor = s.sendCursor + n
           S == {n \in Nat : n <= Len(e) => P(n, f[n])}
<1>2. 0 \in S
  <2>1. s.sendCursor \in Nat
    BY DEF SocketType
  <2> QED
    BY <1>1, <2>1 DEF Sockets
<1>3. ASSUME NEW n \in Nat, n \in S
      PROVE  n + 1 \in S
  <2> SUFFICES ASSUME n + 1 <= Len(e)
               PROVE  P(n + 1, f[n + 1])
    OBVIOUS
  <2> DEFINE t == f[n]
             x == e[n + 1]
             g == EventFrame(x, 0)
             r == SendEvent(t, x, 0)
  <2>1. P(n, t) /\ n + 1 \in 1 .. Len(e) /\ (n + 1) - 1 = n
    BY <1>3
  <2>2. f[n + 1] = r /\ x \in EventType /\ x.sequence = s.sendCursor + (n + 1)
    BY <1>1, <2>1 DEF Sockets
  <2>3. g \in A /\ g.type = "event" /\ g.run = 0 /\ g.event = x
    BY <2>2, FramesMade DEF Unbiased
  <2>4. Number(g) = s.sendCursor + (n + 1)
    BY <2>2, <2>3 DEF Number
  <2>5. /\ t.down \in Seq(A) /\ t.sendCursor \in Nat /\ s.sendCursor \in Nat
    BY <2>1 DEF SocketType
  <2> HIDE DEF r, g, x, t
  <2>6. /\ r \in SocketType(A) /\ Kept(t, r)
        /\ \/ Silent(t, r) /\ (r.state = "closed" \/ r.blocked)
           \/ Wrote(t, r, g) /\ r.sendCursor = x.sequence
              /\ t.state # "closed" /\ ~t.blocked
    BY <2>1, <2>2, <2>3, SendEventFacts DEF r, g
  <2>7. r.reader
    BY <2>1, <2>6 DEF Kept
  <2>8. CASE Silent(t, r) /\ (r.state = "closed" \/ r.blocked)
    <3>1. Delivery(h, c, l, t.down, r.sendCursor)
      BY <2>1, <2>5, <2>8, DeliverySilent DEF Silent
    <3> QED
      BY <2>2, <2>6, <2>7, <2>8, <3>1 DEF Silent
  <2>9. CASE /\ Wrote(t, r, g) /\ r.sendCursor = x.sequence
             /\ t.state # "closed" /\ ~t.blocked
    <3>1. t.sendCursor = s.sendCursor + n
      BY <2>1, <2>9
    <3>2. /\ Number(g) = t.sendCursor + 1 /\ t.sendCursor + 1 <= l
          /\ r.sendCursor = t.sendCursor + 1
      <4>1. s.sendCursor + (n + 1) = t.sendCursor + 1
        BY <1>3, <2>5, <3>1, SMT
      <4>2. s.sendCursor + (n + 1) <= l
        BY <1>0, <2>5
      <4> QED
        BY <2>2, <2>4, <2>9, <4>1, <4>2
    <3>3. Delivery(h, c, l, Append(t.down, g), t.sendCursor + 1)
      BY <2>1, <2>3, <2>5, <3>2, DeliveryEvent
    <3>4. r.down = Append(t.down, g)
      BY <2>1, <2>9 DEF Wrote
    <3> QED
      BY <2>2, <2>6, <2>7, <2>9, <3>2, <3>3, <3>4
  <2> QED
    BY <2>6, <2>8, <2>9
<1>4. Len(e) \in S
  <2> HIDE DEF S
  <2> QED
    BY <1>0, <1>2, <1>3, SetInduction
<1> QED
  BY <1>1, <1>4

(* #flushEvents(), an accepted hello and a drain keep a socket well typed,  *)
LEMMA FlushFacts ==
    ASSUME NEW A, NEW s \in SocketType(A), Unbiased(A),
           NEW l, Contiguous(l), NEW run \in Nat
    PROVE  Flush(s, l, run) \in SocketType(A) /\ Kept(s, Flush(s, l, run))
<1> DEFINE r == Flush(s, l, run)
<1>1. CASE s.state = "closed" \/ s.blocked \/ ~s.bound
  BY <1>1 DEF Flush, Kept
<1>2. CASE /\ ~(s.state = "closed" \/ s.blocked \/ ~s.bound)
           /\ CursorCode(l, s.sendCursor) # "OK"
  <2>1. r = SendAndEnd(s, ResyncFrame(l, run))
    BY <1>2 DEF Flush
  <2>2. ResyncFrame(l, run) \in A
    BY ResyncMade DEF Unbiased
  <2> QED
    BY <2>1, <2>2, SendAndEndFacts
<1>3. CASE /\ ~(s.state = "closed" \/ s.blocked \/ ~s.bound)
           /\ CursorCode(l, s.sendCursor) = "OK"
  <2> DEFINE b == EventsAfter(l, s.sendCursor, HistoryLimit)
  <2>1. r = SendEvents(s, b, run)
    BY <1>3 DEF Flush
  <2>2. s.sendCursor \in Nat
    BY DEF SocketType
  <2>3. b \in Seq(EventType)
    BY <1>3, <2>2, ReplayFollows
  <2> QED
    BY <2>1, <2>3, SendEventsFacts
<1> QED
  BY <1>1, <1>2, <1>3

(* and a flush keeps a delivery one.                                        *)
LEMMA FlushDelivery ==
    ASSUME NEW A, NEW s \in SocketType(A), Unbiased(A), s.reader,
           NEW l, Contiguous(l), NEW h, NEW c \in Nat, c <= LatestSequence(l),
           Delivery(h, c, LatestSequence(l), s.down, s.sendCursor)
    PROVE  Delivery(h, c, LatestSequence(l), Flush(s, l, 0).down,
                    Flush(s, l, 0).sendCursor)
<1> DEFINE r == Flush(s, l, 0)
<1>1. CASE s.state = "closed" \/ s.blocked \/ ~s.bound
  BY <1>1 DEF Flush
<1>2. CASE /\ ~(s.state = "closed" \/ s.blocked \/ ~s.bound)
           /\ CursorCode(l, s.sendCursor) # "OK"
  <2>1. r = SendAndEnd(s, ResyncFrame(l, 0))
    BY <1>2 DEF Flush
  <2> QED
    BY <2>1, ResyncDelivery
<1>3. CASE /\ ~(s.state = "closed" \/ s.blocked \/ ~s.bound)
           /\ CursorCode(l, s.sendCursor) = "OK"
  <2> DEFINE b == EventsAfter(l, s.sendCursor, HistoryLimit)
  <2>1. r = SendEvents(s, b, 0)
    BY <1>3 DEF Flush
  <2>2. s.sendCursor \in Nat /\ LatestSequence(l) \in Nat
    BY ResyncMade DEF SocketType
  <2>3. /\ b \in Seq(EventType)
        /\ \A i \in 1 .. Len(b) : b[i].sequence = s.sendCursor + i
        /\ s.sendCursor + Len(b) <= LatestSequence(l)
    BY <1>3, <2>2, ReplayFollows
  <2> HIDE DEF b
  <2> QED
    BY <2>1, <2>2, <2>3, SendEventsDelivery
<1> QED
  BY <1>1, <1>2, <1>3

(* An accepted hello behind the client's cursor, and a drain, do the same.  *)
LEMMA WelcomeFacts ==
    ASSUME NEW A, NEW s \in SocketType(A), Unbiased(A),
           NEW l, Contiguous(l), NEW run \in Nat, NEW after \in Nat
    PROVE  LET r == Welcome(s, after, l, run)
           IN  r \in SocketType(A) /\ Kept(s, r)
<1> DEFINE j == [s EXCEPT !.bound = TRUE, !.sendCursor = after]
           t == Send(j, ReadyFrame)
           r == Welcome(s, after, l, run)
<1>1. j \in SocketType(A) /\ Kept(s, j)
  BY DEF SocketType, Kept
<1>2. ResyncFrame(l, run) \in A /\ ReadyFrame \in A
  BY ResyncMade, FramesMade DEF Unbiased
<1>3. r = IF CursorCode(l, after) # "OK"
          THEN SendAndEnd(j, ResyncFrame(l, run)) ELSE Flush(t, l, run)
  BY DEF Welcome
<1> HIDE DEF j, r
<1>4. t \in SocketType(A) /\ Kept(j, t)
  BY <1>1, <1>2, SendFacts
<1> HIDE DEF t
<1>5. /\ Flush(t, l, run) \in SocketType(A) /\ Kept(t, Flush(t, l, run))
      /\ SendAndEnd(j, ResyncFrame(l, run)) \in SocketType(A)
      /\ Kept(j, SendAndEnd(j, ResyncFrame(l, run)))
  BY <1>1, <1>2, <1>4, FlushFacts, SendAndEndFacts
<1> QED
  BY <1>1, <1>3, <1>4, <1>5 DEF Kept, r

LEMMA WelcomeDelivery ==
    ASSUME NEW A, NEW s \in SocketType(A), Unbiased(A), s.reader,
           NEW l, Contiguous(l), NEW h, NEW c \in Nat, c <= LatestSequence(l),
           NEW after \in Nat, after <= c,
           Delivery(h, c, LatestSequence(l), s.down, s.sendCursor)
    PROVE  LET r == Welcome(s, after, l, 0)
           IN  Delivery(h, c, LatestSequence(l), r.down, r.sendCursor)
<1> DEFINE j == [s EXCEPT !.bound = TRUE, !.sendCursor = after]
           t == Send(j, ReadyFrame)
           r == Welcome(s, after, l, 0)
<1>1. /\ j \in SocketType(A) /\ j.reader = s.reader /\ j.down = s.down
      /\ j.sendCursor = after
  BY DEF SocketType
<1>2. ReadyFrame \in A /\ ~Numbered(ReadyFrame) /\ LatestSequence(l) \in Nat
  BY ResyncMade, FramesMade DEF Unbiased, Numbered
<1>3. r = IF CursorCode(l, after) # "OK"
          THEN SendAndEnd(j, ResyncFrame(l, 0)) ELSE Flush(t, l, 0)
  BY DEF Welcome
<1> HIDE DEF j, r
<1>4. Delivery(h, c, LatestSequence(l), j.down, j.sendCursor)
  BY <1>1 DEF Delivery, Reached
<1>5. t \in SocketType(A) /\ Kept(j, t)
  BY <1>1, <1>2, SendFacts
<1>6. Delivery(h, c, LatestSequence(l), t.down, t.sendCursor)
  BY <1>1, <1>2, <1>4, SendDelivery
<1> HIDE DEF t
<1>7. t.reader
  BY <1>1, <1>5 DEF Kept
<1>8. Delivery(h, c, LatestSequence(l), Flush(t, l, 0).down,
               Flush(t, l, 0).sendCursor)
  BY <1>5, <1>6, <1>7, FlushDelivery
<1>9. Delivery(h, c, LatestSequence(l),
               SendAndEnd(j, ResyncFrame(l, 0)).down,
               SendAndEnd(j, ResyncFrame(l, 0)).sendCursor)
  BY <1>1, <1>4, ResyncDelivery
<1> QED
  BY <1>3, <1>8, <1>9 DEF r

LEMMA DrainedFacts ==
    ASSUME NEW A, NEW s \in SocketType(A), Unbiased(A),
           NEW l, Contiguous(l), NEW run \in Nat
    PROVE  /\ Drained(s, l, run) \in SocketType(A) /\ Kept(s, Drained(s, l, run))
           /\ \A h \in Frames, c \in Nat :
                 /\ s.reader /\ run = 0 /\ c <= LatestSequence(l)
                 /\ Delivery(h, c, LatestSequence(l), s.down, s.sendCursor)
                 => Delivery(h, c, LatestSequence(l), Drained(s, l, run).down,
                             Drained(s, l, run).sendCursor)
<1> DEFINE j == [s EXCEPT !.blocked = FALSE]
<1>1. /\ j \in SocketType(A) /\ Kept(s, j) /\ j.reader = s.reader
      /\ j.down = s.down /\ j.sendCursor = s.sendCursor
  BY DEF SocketType, Kept
<1>2. Drained(s, l, run) = Flush(j, l, run)
  BY DEF Drained
<1> HIDE DEF j
<1>3. Flush(j, l, run) \in SocketType(A) /\ Kept(j, Flush(j, l, run))
  BY <1>1, FlushFacts
<1>4. \A h \in Frames, c \in Nat :
         /\ s.reader /\ run = 0 /\ c <= LatestSequence(l)
         /\ Delivery(h, c, LatestSequence(l), s.down, s.sendCursor)
         => Delivery(h, c, LatestSequence(l), Flush(j, l, run).down,
                     Flush(j, l, run).sendCursor)
  BY <1>1, FlushDelivery
<1>5. Kept(s, Flush(j, l, run))
  BY <1>1, <1>3 DEF Kept
<1> QED
  BY <1>2, <1>3, <1>4, <1>5

-----------------------------------------------------------------------------
(* The bridge may write anything but an early acknowledgement.              *)
LEMMA TruthIsUnbiased == Unbiased(TrueFrames)
  BY DEF Unbiased, TrueFrames

(* What was true of frames stays true while effects only add up.            *)
LEMMA TruthGrows ==
    ASSUME \A c \in Commands : performed[c] > 0 => performed'[c] > 0
    PROVE  TrueFrames \subseteq TrueFrames'
<1> SUFFICES ASSUME NEW f \in Frames,
                    f.type = "command.ack" => performed[f.command] > 0
             PROVE  f.type = "command.ack" => performed'[f.command] > 0
  BY DEF TrueFrames
<1> QED
  BY FrameFields

LEMMA SocketTypeGrows ==
    ASSUME NEW A, NEW B, A \subseteq B
    PROVE  SocketType(A) \subseteq SocketType(B)
<1>1. Seq(A) \subseteq Seq(B)
  OBVIOUS
<1> QED
  BY <1>1 DEF SocketType

(* Steps that leave the execution of commands alone, but for who waits.     *)
LEMMA ExecKept ==
    ASSUME ExecTypes, Vouched,
           UNCHANGED <<registry, fresh, done, adrift, performed, restarts>>,
           waiting' \in [Connections -> Commands \cup {NoCommand}]
    PROVE  ExecTypes' /\ Vouched' /\ TrueFrames' = TrueFrames
  BY DEF ExecTypes, Vouched, TrueFrames

(* A count goes up or down by one.                                          *)
LEMMA CountUp ==
    ASSUME NEW f \in [Commands -> Nat], NEW c \in Commands,
           NEW g, g = [f EXCEPT ![c] = @ + 1]
    PROVE  /\ g \in [Commands -> Nat] /\ g[c] = f[c] + 1
           /\ \A d \in Commands : d # c => g[d] = f[d]
  OBVIOUS

LEMMA CountDown ==
    ASSUME NEW f \in [Commands -> Nat], NEW c \in Commands, f[c] > 0,
           NEW g, g = [f EXCEPT ![c] = @ - 1]
    PROVE  /\ g \in [Commands -> Nat]
           /\ \A d \in Commands : g[d] <= f[d]
<1>1. f[c] - 1 \in Nat
  OBVIOUS
<1> QED
  BY <1>1

(* The commands in the registry took effect, and so did one that is added.  *)
LEMMA RememberVouched ==
    ASSUME NEW r \in Seq(Commands), NEW c \in Commands,
           NEW n, n = Exec!Remember(r, c)
    PROVE  /\ n \in Seq(Commands)
           /\ \A i \in 1 .. Len(n) : n[i] = c \/ \E j \in 1 .. Len(r) : n[i] = r[j]
<1>1. Len(r) \in Nat
  OBVIOUS
<1>2. CASE n = r
  BY <1>2
<1>3. CASE n = Append(r, c)
  <2>1. /\ n \in Seq(Commands) /\ Len(n) = Len(r) + 1 /\ n[Len(r) + 1] = c
        /\ \A i \in 1 .. Len(r) : n[i] = r[i]
    BY <1>3
  <2>2. \A i \in 1 .. Len(n) : i \in 1 .. Len(r) \/ i = Len(r) + 1
    BY <1>1, <2>1
  <2> QED
    BY <2>1, <2>2
<1>4. CASE n = Append(Tail(r), c) /\ r # <<>>
  <2>1. /\ Tail(r) \in Seq(Commands) /\ Len(Tail(r)) = Len(r) - 1
        /\ \A i \in 1 .. Len(r) - 1 : Tail(r)[i] = r[i + 1]
    BY <1>4
  <2>2. /\ n \in Seq(Commands) /\ Len(n) = Len(Tail(r)) + 1
        /\ n[Len(Tail(r)) + 1] = c
        /\ \A i \in 1 .. Len(Tail(r)) : n[i] = Tail(r)[i]
    BY <1>4, <2>1
  <2>3. /\ Len(n) = Len(r) /\ n[Len(r)] = c
        /\ \A i \in 1 .. Len(r) - 1 : n[i] = r[i + 1]
    BY <1>1, <2>1, <2>2
  <2>4. ASSUME NEW i \in 1 .. Len(n)
        PROVE  n[i] = c \/ \E j \in 1 .. Len(r) : n[i] = r[j]
    <3>1. CASE i = Len(r)
      BY <2>3, <3>1
    <3>2. CASE i # Len(r)
      <4>1. i \in 1 .. Len(r) - 1 /\ i + 1 \in 1 .. Len(r)
        BY <1>1, <2>3, <3>2
      <4> QED
        BY <2>3, <4>1
    <3> QED
      BY <3>1, <3>2
  <2> QED
    BY <2>2, <2>4
<1>5. n = r \/ n = Append(r, c) \/ (n = Append(Tail(r), c) /\ r # <<>>)
  BY <1>1, LinkAssumption DEF Exec!Remember
<1> QED
  BY <1>2, <1>3, <1>4, <1>5

-----------------------------------------------------------------------------
(* The invariant: types and, until the bridge restarts, the event stream.   *)
Inv == Types /\ StreamInv

(* Initially nothing is connected, shown or on its way.                     *)
LEMMA InitInv == Init => Inv
<1> SUFFICES ASSUME Init
             PROVE  Inv
  OBVIOUS
<1>1. /\ link = Stopped /\ cursor = 0 /\ awaiting = FALSE /\ submitted = {}
      /\ shown = <<Position(0, 0)>>
      /\ sockets = [k \in Connections |-> Closed] /\ log = EmptyLog
  BY DEF Init
<1>2. /\ registry = <<>> /\ waiting = [k \in Connections |-> NoCommand]
      /\ fresh = [c \in Commands |-> 0] /\ done = [c \in Commands |-> 0]
      /\ adrift = [c \in Commands |-> 0] /\ performed = [c \in Commands |-> 0]
      /\ restarts = 0
  BY DEF Init, Exec!Init, Exec!Idle
<1>3. ExecTypes
  BY <1>2 DEF ExecTypes
<1>4. Vouched
  BY <1>2 DEF Vouched
<1>5. NoFrame \in TrueFrames /\ NoFrame \in Frames /\ NoFrame.type = "none"
  BY FramesMade DEF TrueFrames
<1>6. /\ link \in LinkType(TrueFrames) /\ link.phase = "waiting"
      /\ link.conn = NoConnection /\ link.out = NoFrame /\ link.frame = NoFrame
  BY <1>1, <1>5 DEF Stopped, LinkType
<1>7. /\ sockets \in [Connections -> SocketType(TrueFrames)]
      /\ \A k \in Connections : ~sockets[k].reader
  BY <1>1, FreshSockets
<1>8. Types
  BY <1>1, <1>3, <1>4, <1>6, <1>7, EmptyLogContiguous, LinkAssumption DEF Types
<1>9. Delivery(NoFrame, 0, 0, <<>>, 0)
  <2>1. \A i \in 0 .. Len(<<>>) : Ahead(NoFrame, <<>>, i) = NoFrame
    BY DEF Ahead
  <2> QED
    BY <1>5, <2>1
       DEF Delivery, Dated, Following, Marked, Reached, Numbered
<1>10. /\ Channel.up = <<>> /\ Channel.down = <<>> /\ Channel.sendCursor = 0
  BY <1>6, FreshSockets DEF Channel
<1>11. /\ Len(shown) = 1 /\ shown[1].sequence = 0 /\ shown[1].run = 0
  BY <1>1 DEF Position
<1>12. Streaming
  BY <1>1, <1>5, <1>6, <1>9, <1>10, <1>11, EmptyLogContiguous
     DEF Streaming, HelloBehind
<1> QED
  BY <1>8, <1>12 DEF Inv, StreamInv

-----------------------------------------------------------------------------
(* What a step of the client has to show for the type invariant.            *)
LEMMA ClientKeepsTypes ==
    ASSUME Types, UNCHANGED <<log, execVars>>,
           link' \in LinkType(TrueFrames),
           link'.phase = "waiting" <=> link'.conn = NoConnection,
           cursor' \in Nat, awaiting' \in BOOLEAN, submitted' \subseteq Commands,
           sockets' \in [Connections -> SocketType(TrueFrames)],
           \A k \in Connections : sockets'[k].reader <=> k = link'.conn
    PROVE  Types'
<1>1. ExecTypes /\ Vouched /\ waiting' = waiting
  BY DEF Types, execVars
<1>2. ExecTypes' /\ Vouched' /\ TrueFrames' = TrueFrames
  BY <1>1, ExecKept DEF execVars, ExecTypes
<1>3. Contiguous(log')
  BY DEF Types
<1> QED
  BY <1>2, <1>3 DEF Types

(* What the type invariant says of the connection the client reads.         *)
LEMMA ChannelFacts ==
    ASSUME Types
    PROVE  /\ Channel \in SocketType(TrueFrames)
           /\ Channel.down \in Seq(TrueFrames) /\ Len(Channel.down) \in Nat
           /\ Channel.up \in Seq(Frames) /\ Len(Channel.up) \in Nat
           /\ Channel.sendCursor \in Nat
           /\ LatestSequence(log) \in Nat /\ cursor \in Nat
           /\ link.frame \in TrueFrames /\ link.frame \in Frames
           /\ link.conn # NoConnection =>
                 /\ link.conn \in Connections
                 /\ Channel = sockets[link.conn]
                 /\ Channel.reader
<1>1. Channel \in SocketType(TrueFrames)
  <2>1. CASE link.conn = NoConnection
    BY <2>1, FreshSockets DEF Channel
  <2>2. CASE link.conn # NoConnection
    BY <2>2 DEF Channel, Types, LinkType
  <2> QED
    BY <2>1, <2>2
<1>2. LatestSequence(log) \in Nat /\ cursor \in Nat
  BY DEF Types, Contiguous, LatestSequence
<1>3. /\ Channel.down \in Seq(TrueFrames) /\ Len(Channel.down) \in Nat
      /\ Channel.up \in Seq(Frames) /\ Len(Channel.up) \in Nat
      /\ Channel.sendCursor \in Nat
  <2>1. Channel.down \in Seq(TrueFrames) /\ Channel.up \in Seq(Frames)
        /\ Channel.sendCursor \in Nat
    BY <1>1 DEF SocketType
  <2> QED
    BY <2>1
<1>4. link.frame \in TrueFrames /\ link.frame \in Frames
  BY DEF Types, LinkType, TrueFrames
<1>5. link.conn # NoConnection =>
          /\ link.conn \in Connections
          /\ Channel = sockets[link.conn]
          /\ Channel.reader
  BY DEF Types, LinkType, Channel
<1> QED
  BY <1>1, <1>2, <1>3, <1>4, <1>5

(* The client leaves its connection, or takes up a fresh one, and keeps its *)
(* cursor; the slot is as it was or empty.                                  *)
LEMMA LeavingKeepsStream ==
    ASSUME Types, Streaming, UNCHANGED <<log, cursor, shown>>,
           link'.frame \in {link.frame, NoFrame},
           HelloBehind(link'.out, cursor),
           Channel'.down = <<>>, Channel'.up = <<>>, Channel'.sendCursor = 0
    PROVE  Streaming'
<1>1. Delivery(link.frame, cursor, LatestSequence(log), <<>>, 0)
  BY ChannelFacts, DeliveryCut DEF Streaming
<1>2. Delivery(NoFrame, cursor, LatestSequence(log), <<>>, 0)
  <2>1. \A i \in 0 .. Len(<<>>) : Ahead(NoFrame, <<>>, i).type = "none"
    BY FramesMade DEF Ahead
  <2> QED
    BY <2>1, ChannelFacts
       DEF Delivery, Dated, Following, Marked, Reached, Numbered
<1>3. Delivery(link'.frame, cursor, LatestSequence(log), <<>>, 0)
  BY <1>1, <1>2
<1>4. \A i \in 1 .. Len(Channel'.up) : HelloBehind(Channel'.up[i], cursor)
  OBVIOUS
<1> QED
  BY <1>3, <1>4 DEF Streaming

(* The slot and the transit stay; so does what is on its way to the bridge, *)
(* but for what a hello may ask.                                            *)
LEMMA TransitKeepsStream ==
    ASSUME Types, Streaming, UNCHANGED <<log, cursor, shown>>,
           link'.frame = link.frame, HelloBehind(link'.out, cursor),
           Channel'.down = Channel.down,
           Channel'.sendCursor = Channel.sendCursor,
           \A i \in 1 .. Len(Channel'.up) : HelloBehind(Channel'.up[i], cursor)
    PROVE  Streaming'
  BY DEF Streaming

(* Leave() closes the client's end of its connection.                       *)
LEMMA LeaveFacts ==
    ASSUME Types, Leave
    PROVE  /\ sockets' \in [Connections -> SocketType(TrueFrames)]
           /\ \A k \in Connections : ~sockets'[k].reader
<1>1. ASSUME NEW k \in Connections
      PROVE  /\ sockets'[k] \in SocketType(TrueFrames) /\ ~sockets'[k].reader
  <2>1. sockets[k] \in SocketType(TrueFrames) /\ (sockets[k].reader <=> k = link.conn)
    BY DEF Types
  <2>2. CASE k = link.conn
    <3> DEFINE s == sockets[k]
               A == TrueFrames
    <3>1. sockets'[k] = [s EXCEPT !.reader = FALSE, !.down = <<>>]
      BY <2>2 DEF Leave
    <3>2. <<>> \in Seq(A) /\ s \in SocketType(A)
      BY <2>1
    <3> HIDE DEF s, A
    <3>3. sockets'[k] \in SocketType(A) /\ ~sockets'[k].reader
      BY <3>1, <3>2 DEF SocketType
    <3> QED
      BY <3>3 DEF A
  <2>3. CASE k # link.conn
    BY <2>1, <2>3 DEF Leave
  <2> QED
    BY <2>2, <2>3
<1>2. DOMAIN sockets' = Connections /\ sockets' = [k \in Connections |-> sockets'[k]]
  BY DEF Leave
<1> QED
  BY <1>1, <1>2

-----------------------------------------------------------------------------
(* The client's steps keep the invariant, one by one.                       *)
LEMMA ConnectInv ==
    ASSUME Inv, NEW k \in Connections, Connect(k)
    PROVE  Inv'
<1>1. /\ link.phase = "waiting" /\ link.conn = NoConnection
      /\ link' = [link EXCEPT !.phase = "hello", !.conn = k,
                              !.out = HelloFrame(cursor)]
      /\ sockets' = [sockets EXCEPT ![k] = Accepted]
      /\ waiting' = [waiting EXCEPT ![k] = NoCommand]
      /\ UNCHANGED <<cursor, awaiting, submitted, shown, log, registry, fresh,
                     done, adrift, performed, restarts>>
  BY DEF Connect, Inv, Types
<1>2. HelloFrame(cursor) \in Frames /\ HelloFrame(cursor).after = cursor
  BY FramesMade DEF Inv, Types
<1> DEFINE out == HelloFrame(cursor)
<1> HIDE DEF out
<1>3. /\ link' \in LinkType(TrueFrames) /\ link'.phase = "hello"
      /\ link'.conn = k /\ link'.out = out /\ link'.frame = link.frame
  <2>1. link' = [link EXCEPT !.phase = "hello", !.conn = k, !.out = out]
    BY <1>1 DEF out
  <2>2. out \in Frames /\ link \in LinkType(TrueFrames)
    BY <1>2 DEF out, Inv, Types
  <2> QED
    BY <2>1, <2>2 DEF LinkType
<1>4. /\ sockets' \in [Connections -> SocketType(TrueFrames)]
      /\ sockets'[k] = Accepted /\ Accepted.reader
      /\ \A o \in Connections : o # k => ~sockets'[o].reader
  BY <1>1, FreshSockets, LinkAssumption DEF Inv, Types
<1>5. waiting' \in [Connections -> Commands \cup {NoCommand}]
  BY <1>1 DEF Inv, Types, ExecTypes
<1>6. ExecTypes' /\ Vouched' /\ TrueFrames' = TrueFrames
  BY <1>1, <1>5, ExecKept DEF Inv, Types
<1>7. Types'
  <2>1. Contiguous(log')
    BY <1>1 DEF Inv, Types
  <2>2. cursor' \in Nat /\ awaiting' \in BOOLEAN /\ submitted' \subseteq Commands
    BY <1>1 DEF Inv, Types
  <2> QED
    BY <1>3, <1>4, <1>6, <2>1, <2>2, LinkAssumption DEF Types
<1>8. StreamInv'
  <2> SUFFICES ASSUME restarts' = 0
               PROVE  Streaming'
    BY DEF StreamInv
  <2>1. Channel' = Accepted
    BY <1>3, <1>4, LinkAssumption DEF Channel
  <2>2. Types /\ Streaming
    BY <1>1 DEF Inv, StreamInv
  <2>3. HelloBehind(link'.out, cursor)
    BY <1>2, <1>3, <2>2 DEF HelloBehind, out, Types
  <2> QED
    BY <1>1, <1>3, <2>1, <2>2, <2>3, FreshSockets, LeavingKeepsStream
<1> QED
  BY <1>7, <1>8 DEF Inv

LEMMA SendOutputInv == Inv /\ SendOutput => Inv'
<1> SUFFICES ASSUME Inv, SendOutput
             PROVE  Inv'
  OBVIOUS
<1> DEFINE k     == link.conn
           s     == sockets[k]
           f     == link.out
           up    == IF s.state = "closed" THEN <<>> ELSE Append(s.up, f)
           phase == IF link.phase = "hello" THEN "waiting ready" ELSE link.phase
           sent  == link.sent \/ (link.phase # "hello" /\ link.command # NoCommand)
           written == link.written \/ link.out = CommandFrame(link.command)
<1>1. /\ k # NoConnection /\ k \in Connections
      /\ sockets \in [Connections -> SocketType(TrueFrames)]
      /\ s \in SocketType(TrueFrames) /\ s.up \in Seq(Frames)
      /\ f \in Frames /\ link \in LinkType(TrueFrames)
  BY DEF SendOutput, Inv, Types, LinkType, SocketType
<1>2. sockets' = [sockets EXCEPT ![k] = [s EXCEPT !.up = up]]
  BY <1>1 DEF SendOutput
<1>3. link' = [link EXCEPT !.out = NoFrame, !.phase = phase,
                           !.sent = sent, !.written = written]
  BY DEF SendOutput
<1>4. up \in Seq(Frames)
  BY <1>1
<1>5. phase \in {"hello", "waiting ready", "ready"} /\ phase # "waiting"
      /\ sent \in BOOLEAN /\ written \in BOOLEAN
  BY <1>1 DEF Inv, Types, LinkType
<1>6. UNCHANGED <<cursor, awaiting, submitted, shown, log, execVars>>
  BY DEF SendOutput
<1> HIDE DEF phase, sent, written
<1>7. /\ link' \in LinkType(TrueFrames) /\ link'.phase = phase
      /\ link'.conn = k /\ link'.out = NoFrame /\ link'.frame = link.frame
  BY <1>1, <1>3, <1>5, FramesMade DEF LinkType
<1>8. \A i \in 1 .. Len(up) : up[i] = f \/ \E j \in 1 .. Len(s.up) : up[i] = s.up[j]
  <2>1. CASE s.state = "closed"
    BY <2>1
  <2>2. CASE s.state # "closed"
    <3>1. /\ Len(up) = Len(s.up) + 1 /\ up[Len(s.up) + 1] = f
          /\ Len(s.up) \in Nat
          /\ \A i \in 1 .. Len(s.up) : up[i] = s.up[i]
      BY <1>1, <2>2
    <3>2. \A i \in 1 .. Len(up) : i \in 1 .. Len(s.up) \/ i = Len(s.up) + 1
      BY <3>1
    <3> QED
      BY <3>1, <3>2
  <2> QED
    BY <2>1, <2>2
<1> HIDE DEF up
<1>9. /\ sockets' \in [Connections -> SocketType(TrueFrames)]
      /\ \A o \in Connections : o # k => sockets'[o] = sockets[o]
      /\ sockets'[k].reader = s.reader /\ sockets'[k].down = s.down
      /\ sockets'[k].sendCursor = s.sendCursor /\ sockets'[k].up = up
  <2> DEFINE r == [s EXCEPT !.up = up]
  <2>1. /\ r \in SocketType(TrueFrames) /\ r.reader = s.reader
        /\ r.down = s.down /\ r.sendCursor = s.sendCursor /\ r.up = up
    <3> HIDE DEF s
    <3> QED
      BY <1>1, <1>4 DEF SocketType
  <2> HIDE DEF r
  <2> QED
    BY <1>1, <1>2, <2>1 DEF r
<1>10. Types'
  <2>1. \A o \in Connections : sockets'[o].reader <=> o = link'.conn
    BY <1>7, <1>9 DEF Inv, Types
  <2>2. cursor' \in Nat /\ awaiting' \in BOOLEAN /\ submitted' \subseteq Commands
    BY <1>6 DEF Inv, Types
  <2>3. link'.phase = "waiting" <=> link'.conn = NoConnection
    BY <1>1, <1>5, <1>7
  <2> QED
    BY <1>6, <1>7, <1>9, <2>1, <2>2, <2>3, ClientKeepsTypes DEF Inv
<1>11. StreamInv'
  <2> SUFFICES ASSUME restarts' = 0
               PROVE  Streaming'
    BY DEF StreamInv
  <2>1. Types /\ Streaming
    BY <1>6 DEF Inv, StreamInv, execVars
  <2>2. Channel = s /\ Channel' = sockets'[k]
    BY <1>1, <1>7 DEF Channel
  <2>3. HelloBehind(link'.out, cursor)
    BY <1>7, FramesMade DEF HelloBehind
  <2>4. \A i \in 1 .. Len(Channel'.up) : HelloBehind(Channel'.up[i], cursor)
    <3>1. \A i \in 1 .. Len(s.up) : HelloBehind(s.up[i], cursor)
      BY <2>1, <2>2 DEF Streaming
    <3>2. HelloBehind(f, cursor)
      BY <2>1 DEF Streaming
    <3> HIDE DEF f, s
    <3> QED
      BY <1>8, <1>9, <2>2, <3>1, <3>2
  <2> QED
    BY <1>6, <1>7, <1>9, <2>1, <2>2, <2>3, <2>4, TransitKeepsStream
<1> QED
  BY <1>10, <1>11 DEF Inv

(* A step that only fills the output buffer, or changes the command.        *)
LEMMA QuietClientInv ==
    ASSUME Inv, UNCHANGED <<cursor, shown, sockets, log, execVars>>,
           link' \in LinkType(TrueFrames), link'.phase = link.phase,
           link'.conn = link.conn, link'.frame = link.frame,
           link'.out.type # "connection.hello" \/ link'.out = link.out,
           awaiting' \in BOOLEAN, submitted' \subseteq Commands
    PROVE  Inv'
<1>1. Types'
  <2>1. /\ link'.phase = "waiting" <=> link'.conn = NoConnection
        /\ cursor' \in Nat
        /\ sockets' \in [Connections -> SocketType(TrueFrames)]
        /\ \A k \in Connections : sockets'[k].reader <=> k = link'.conn
    BY DEF Inv, Types
  <2> QED
    BY <2>1, ClientKeepsTypes DEF Inv
<1>2. StreamInv'
  <2> SUFFICES ASSUME restarts' = 0
               PROVE  Streaming'
    BY DEF StreamInv
  <2>1. Types /\ Streaming
    BY DEF Inv, StreamInv, execVars
  <2>2. Channel' = Channel
    BY DEF Channel
  <2>3. HelloBehind(link'.out, cursor)
    BY <2>1 DEF Streaming, HelloBehind
  <2>4. \A i \in 1 .. Len(Channel'.up) : HelloBehind(Channel'.up[i], cursor)
    BY <2>1, <2>2 DEF Streaming
  <2> QED
    BY <2>1, <2>2, <2>3, <2>4, TransitKeepsStream
<1> QED
  BY <1>1, <1>2 DEF Inv

LEMMA PrepareInv == Inv /\ (PrepareCommand \/ PreparePing) => Inv'
<1> SUFFICES ASSUME Inv, PrepareCommand \/ PreparePing
             PROVE  Inv'
  OBVIOUS
<1>1. /\ UNCHANGED <<cursor, shown, sockets, log, execVars>>
      /\ awaiting' \in BOOLEAN /\ submitted' \subseteq Commands
      /\ link \in LinkType(TrueFrames)
  BY DEF PrepareCommand, PreparePing, Inv, Types
<1>2. CASE PrepareCommand
  <2> DEFINE f == CommandFrame(link.command)
  <2>1. f \in Frames /\ f.type = "command"
    BY <1>1, <1>2, FramesMade DEF PrepareCommand, LinkType
  <2>2. link' = [link EXCEPT !.out = f]
    BY <1>2 DEF PrepareCommand
  <2> HIDE DEF f
  <2>3. /\ link' \in LinkType(TrueFrames) /\ link'.phase = link.phase
        /\ link'.conn = link.conn /\ link'.frame = link.frame /\ link'.out = f
    BY <1>1, <2>1, <2>2 DEF LinkType
  <2> QED
    BY <1>1, <2>1, <2>3, QuietClientInv
<1>3. CASE PreparePing
  <2> DEFINE f == PingFrame
  <2>1. f \in Frames /\ f.type = "ping"
    BY FramesMade
  <2>2. link' = [link EXCEPT !.out = f, !.ping = TRUE]
    BY <1>3 DEF PreparePing
  <2> HIDE DEF f
  <2>3. /\ link' \in LinkType(TrueFrames) /\ link'.phase = link.phase
        /\ link'.conn = link.conn /\ link'.frame = link.frame /\ link'.out = f
    BY <1>1, <2>1, <2>2 DEF LinkType
  <2> QED
    BY <1>1, <2>1, <2>3, QuietClientInv
<1> QED
  BY <1>2, <1>3

LEMMA SubmitInv ==
    ASSUME Inv, NEW c \in Commands, Submit(c)
    PROVE  Inv'
<1>1. /\ UNCHANGED <<cursor, shown, sockets, log, execVars>>
      /\ awaiting' \in BOOLEAN /\ submitted' \subseteq Commands
      /\ link \in LinkType(TrueFrames)
      /\ link' = [link EXCEPT !.command = c, !.sent = FALSE, !.written = FALSE]
  BY DEF Submit, Inv, Types
<1>2. /\ link' \in LinkType(TrueFrames) /\ link'.phase = link.phase
      /\ link'.conn = link.conn /\ link'.frame = link.frame
      /\ link'.out = link.out
  BY <1>1 DEF LinkType
<1> QED
  BY <1>1, <1>2, QuietClientInv

LEMMA ReconnectInv ==
    ASSUME Inv, Reconnect,
           UNCHANGED <<cursor, awaiting, submitted, shown, log, execVars>>
    PROVE  Inv'
<1>1. /\ link' = [link EXCEPT !.phase = "waiting", !.conn = NoConnection,
                              !.out = NoFrame, !.sent = FALSE, !.ping = FALSE,
                              !.written = FALSE]
      /\ Leave
  BY DEF Reconnect
<1>2. /\ link' \in LinkType(TrueFrames) /\ link'.phase = "waiting"
      /\ link'.conn = NoConnection /\ link'.out = NoFrame
      /\ link'.frame = link.frame
  BY <1>1, FramesMade DEF LinkType, Inv, Types
<1>3. /\ sockets' \in [Connections -> SocketType(TrueFrames)]
      /\ \A k \in Connections : ~sockets'[k].reader
  BY <1>1, LeaveFacts DEF Inv
<1>4. Types'
  <2>1. cursor' \in Nat /\ awaiting' \in BOOLEAN /\ submitted' \subseteq Commands
    BY DEF Inv, Types
  <2>2. \A k \in Connections : sockets'[k].reader <=> k = link'.conn
    BY <1>2, <1>3, LinkAssumption
  <2> QED
    BY <1>2, <1>3, <2>1, <2>2, ClientKeepsTypes DEF Inv
<1>5. StreamInv'
  <2> SUFFICES ASSUME restarts' = 0
               PROVE  Streaming'
    BY DEF StreamInv
  <2>1. Types /\ Streaming
    BY DEF Inv, StreamInv, execVars
  <2>2. Channel'.down = <<>> /\ Channel'.up = <<>> /\ Channel'.sendCursor = 0
    BY <1>2, FreshSockets DEF Channel
  <2>3. HelloBehind(link'.out, cursor)
    BY <1>2, FramesMade DEF HelloBehind
  <2> QED
    BY <1>2, <2>1, <2>2, <2>3, LeavingKeepsStream
<1> QED
  BY <1>4, <1>5 DEF Inv

LEMMA LoseInv == Inv /\ (ReadEnd \/ LoseConnection) => Inv'
<1>1. (ReadEnd \/ LoseConnection) =>
          /\ Reconnect
          /\ UNCHANGED <<cursor, awaiting, submitted, shown, log, execVars>>
  BY DEF ReadEnd, LoseConnection
<1> QED
  BY <1>1, ReconnectInv

LEMMA ExtractInv == Inv /\ Extract => Inv'
<1> SUFFICES ASSUME Inv, Extract
             PROVE  Inv'
  OBVIOUS
<1> DEFINE k     == link.conn
           s     == sockets[k]
           f     == Head(s.down)
           drops == LooksLikeError(f) /\ link.phase = "ready" /\ link.sent
           phase == IF f.type = "connection.ready" THEN "ready" ELSE link.phase
           cmd   == IF drops THEN NoCommand ELSE link.command
           sent  == link.sent /\ ~drops
           written == link.written /\ ~drops
<1>1. /\ link.phase \in {"waiting ready", "ready"} /\ link.frame = NoFrame
      /\ s.down # <<>> /\ link \in LinkType(TrueFrames)
      /\ UNCHANGED <<cursor, awaiting, submitted, shown, log, execVars>>
      /\ sockets' = [sockets EXCEPT ![k].down = Tail(@)]
  BY DEF Extract, Inv, Types
<1>2. /\ k # NoConnection /\ k \in Connections
      /\ sockets \in [Connections -> SocketType(TrueFrames)]
      /\ s \in SocketType(TrueFrames) /\ s.down \in Seq(TrueFrames)
  BY <1>1 DEF Inv, Types, LinkType, SocketType
<1>3. link' = [link EXCEPT !.frame = f, !.ping = FALSE, !.phase = phase,
                           !.command = cmd, !.sent = sent, !.written = written]
  BY DEF Extract
<1>4. f \in TrueFrames /\ Tail(s.down) \in Seq(TrueFrames)
  <2> DEFINE d == s.down
             A == TrueFrames
  <2>1. d \in Seq(A) /\ d # <<>>
    BY <1>1, <1>2
  <2> HIDE DEF d, A
  <2>2. Head(d) \in A /\ Tail(d) \in Seq(A)
    BY <2>1
  <2> QED
    BY <2>2 DEF d, A
<1>5. /\ phase \in {"waiting ready", "ready"} /\ sent \in BOOLEAN
      /\ written \in BOOLEAN /\ cmd \in Commands \cup {NoCommand}
  BY <1>1 DEF LinkType
<1> HIDE DEF phase, cmd, sent, written, drops
<1>6. /\ link' \in LinkType(TrueFrames) /\ link'.phase = phase
      /\ link'.conn = k /\ link'.out = link.out /\ link'.frame = f
  <2> HIDE DEF f
  <2> QED
    BY <1>1, <1>3, <1>4, <1>5 DEF LinkType
<1>7. /\ sockets' \in [Connections -> SocketType(TrueFrames)]
      /\ \A o \in Connections : o # k => sockets'[o] = sockets[o]
      /\ sockets'[k].reader = s.reader /\ sockets'[k].down = Tail(s.down)
      /\ sockets'[k].sendCursor = s.sendCursor /\ sockets'[k].up = s.up
  <2> DEFINE d == Tail(s.down)
             r == [s EXCEPT !.down = d]
  <2>1. /\ r \in SocketType(TrueFrames) /\ r.reader = s.reader
        /\ r.down = d /\ r.sendCursor = s.sendCursor /\ r.up = s.up
    <3> HIDE DEF s, d
    <3> QED
      BY <1>2, <1>4 DEF SocketType, d
  <2>2. sockets' = [sockets EXCEPT ![k] = r]
    BY <1>1, <1>2
  <2> HIDE DEF r
  <2> QED
    BY <1>2, <2>1, <2>2
<1>8. Types'
  <2>1. \A o \in Connections : sockets'[o].reader <=> o = link'.conn
    BY <1>6, <1>7 DEF Inv, Types
  <2>2. cursor' \in Nat /\ awaiting' \in BOOLEAN /\ submitted' \subseteq Commands
    BY <1>1 DEF Inv, Types
  <2>3. link'.phase = "waiting" <=> link'.conn = NoConnection
    BY <1>2, <1>5, <1>6
  <2> QED
    BY <1>1, <1>6, <1>7, <2>1, <2>2, <2>3, ClientKeepsTypes DEF Inv
<1>9. StreamInv'
  <2> SUFFICES ASSUME restarts' = 0
               PROVE  Streaming'
    BY DEF StreamInv
  <2>1. Types /\ Streaming
    BY <1>1 DEF Inv, StreamInv, execVars
  <2>2. Channel = s /\ Channel' = sockets'[k]
    BY <1>2, <1>6 DEF Channel
  <2>3. Delivery(f, cursor, LatestSequence(log), Tail(s.down), s.sendCursor)
    <3>1. Delivery(NoFrame, cursor, LatestSequence(log), s.down, s.sendCursor)
      BY <1>1, <2>1, <2>2 DEF Streaming
    <3> QED
      BY <1>1, <1>2, <2>1, <3>1, ChannelFacts, DeliveryTaken
  <2> HIDE DEF f, s
  <2>4. /\ link'.frame = f /\ link'.out = link.out
        /\ Channel'.down = Tail(s.down) /\ Channel'.up = Channel.up
        /\ Channel'.sendCursor = s.sendCursor
    BY <1>6, <1>7, <2>2
  <2>5. UNCHANGED <<cursor, log, shown>>
    BY <1>1
  <2> QED
    BY <2>1, <2>3, <2>4, <2>5 DEF Streaming
<1> QED
  BY <1>8, <1>9 DEF Inv

-----------------------------------------------------------------------------
(* Handling the frame in the slot moves the cursor along the delivery.      *)
LEMMA HandledKeepsStream ==
    ASSUME Types, Streaming, UNCHANGED <<sockets, log>>,
           link'.frame = NoFrame, link'.out = link.out, link'.conn = link.conn,
           cursor' \in Nat, cursor <= cursor',
           cursor' = cursor \/ (Numbered(link.frame) /\ cursor' = Number(link.frame)),
           link.frame.type = "event" => Number(link.frame) <= cursor',
           Len(shown') > 0, shown'[Len(shown')].sequence = cursor',
           \A i \in 1 .. Len(shown') : shown'[i].run = 0,
           \A i \in 1 .. Len(shown') - 1 :
               shown'[i + 1].sequence = shown'[i].sequence + 1
    PROVE  Streaming'
<1>1. Channel' = Channel /\ log' = log
  BY DEF Channel
<1>2. Delivery(NoFrame, cursor', LatestSequence(log), Channel.down,
               Channel.sendCursor)
  <2>1. /\ cursor \in Nat /\ LatestSequence(log) \in Nat
        /\ Len(Channel.down) \in Nat /\ Channel.sendCursor \in Nat
    BY ChannelFacts
  <2>2. Delivery(link.frame, cursor, LatestSequence(log), Channel.down,
                 Channel.sendCursor)
    BY DEF Streaming
  <2> QED
    BY <2>1, <2>2, DeliveryHandled
<1>3. cursor' <= LatestSequence(log)
  <2>1. 0 \in 0 .. Len(Channel.down) /\ Ahead(link.frame, Channel.down, 0) = link.frame
    BY ChannelFacts DEF Ahead
  <2>2. Numbered(link.frame) => Number(link.frame) <= LatestSequence(log)
    BY <2>1 DEF Streaming, Delivery, Dated
  <2> QED
    BY <2>2 DEF Streaming
<1>4. HelloBehind(link'.out, cursor')
  <2>1. link.out \in Frames /\ HelloBehind(link.out, cursor) /\ cursor \in Nat
    BY DEF Streaming, Types, LinkType
  <2>2. link.out.type = "connection.hello" => link.out.after \in Nat
    BY <2>1, FrameFields
  <2> QED
    BY <2>1, <2>2 DEF HelloBehind
<1>5. \A i \in 1 .. Len(Channel.up) : HelloBehind(Channel.up[i], cursor')
  <2> TAKE i \in 1 .. Len(Channel.up)
  <2>1. Channel.up[i] \in Frames /\ HelloBehind(Channel.up[i], cursor)
        /\ cursor \in Nat
    BY ChannelFacts DEF Streaming
  <2>2. Channel.up[i].type = "connection.hello" => Channel.up[i].after \in Nat
    BY <2>1, FrameFields
  <2> QED
    BY <2>1, <2>2 DEF HelloBehind
<1> QED
  BY <1>1, <1>2, <1>3, <1>4, <1>5 DEF Streaming

(* What handling a frame leaves alone, whatever it says.                    *)
LEMMA HandleTypes ==
    ASSUME Inv, UNCHANGED <<submitted, sockets, log, execVars>>,
           link' \in LinkType(TrueFrames), link'.phase = link.phase,
           link'.conn = link.conn, cursor' \in Nat, awaiting' \in BOOLEAN
    PROVE  Types'
<1>1. /\ link'.phase = "waiting" <=> link'.conn = NoConnection
      /\ submitted' \subseteq Commands
      /\ sockets' \in [Connections -> SocketType(TrueFrames)]
      /\ \A k \in Connections : sockets'[k].reader <=> k = link'.conn
  BY DEF Inv, Types
<1> QED
  BY <1>1, ClientKeepsTypes DEF Inv

LEMMA HandleFrameInv == Inv /\ HandleFrame => Inv'
<1> SUFFICES ASSUME Inv, HandleFrame
             PROVE  Inv'
  OBVIOUS
<1> DEFINE h == link.frame
<1>1. /\ h # NoFrame /\ UNCHANGED <<submitted, sockets, log, execVars>>
      /\ HandleEvent(h) \/ HandleAck(h) \/ HandleResync(h) \/ HandleOther(h)
  BY DEF HandleFrame
<1>2. /\ Types /\ link \in LinkType(TrueFrames) /\ cursor \in Nat
      /\ awaiting \in BOOLEAN /\ h \in Frames /\ NoFrame \in TrueFrames
  BY FramesMade DEF Inv, Types, LinkType, TrueFrames
<1>3. /\ h.type = "event" => h.event \in EventType /\ h.run \in Nat
      /\ h.type = "resync.required" => h.lastSequence \in Nat /\ h.run \in Nat
  BY <1>2, FrameFields
<1>4. ASSUME restarts' = 0
      PROVE  /\ Streaming
             /\ Numbered(h) => /\ Number(h) \in Nat /\ h.run = 0
             /\ h.type = "resync.required" => cursor <= Number(h)
             /\ h.type = "event" /\ Number(h) > cursor => Number(h) = cursor + 1
  <2>1. Streaming
    BY <1>1, <1>4 DEF Inv, StreamInv, execVars
  <2>2. /\ 0 \in 0 .. Len(Channel.down)
        /\ Ahead(h, Channel.down, 0) = h
    BY <1>2, ChannelFacts DEF Ahead
  <2>3. Delivery(h, cursor, LatestSequence(log), Channel.down,
                 Channel.sendCursor)
    BY <2>1 DEF Streaming
  <2>4. Numbered(h) => Number(h) \in Nat /\ h.run = 0
    BY <2>2, <2>3 DEF Delivery, Dated
  <2>5. h.type = "resync.required" => cursor <= Number(h)
    BY <2>2, <2>3 DEF Delivery, Marked
  <2>6. h.type = "event" /\ Number(h) > cursor => Number(h) = cursor + 1
    BY <1>2, <2>3, ChannelFacts, DeliveryNext
  <2> QED
    BY <2>1, <2>4, <2>5, <2>6
<1>5. Streaming => /\ Len(shown) > 0 /\ shown[Len(shown)].sequence = cursor
                   /\ \A i \in 1 .. Len(shown) : shown[i].run = 0
                   /\ \A i \in 1 .. Len(shown) - 1 :
                         shown[i + 1].sequence = shown[i].sequence + 1
  BY DEF Streaming
<1>6. CASE HandleEvent(h)
  <2>1. /\ h.type = "event" /\ awaiting' = awaiting
        /\ link' = [link EXCEPT !.frame = NoFrame]
        /\ IF h.event.sequence <= cursor
           THEN cursor' = cursor /\ shown' = shown
           ELSE /\ cursor' = h.event.sequence
                /\ shown' = Append(shown, Position(h.run, h.event.sequence))
    BY <1>6 DEF HandleEvent
  <2>2. /\ link' \in LinkType(TrueFrames) /\ link'.phase = link.phase
        /\ link'.conn = link.conn /\ link'.frame = NoFrame
        /\ link'.out = link.out
    BY <1>2, <2>1 DEF LinkType
  <2>3. Number(h) = h.event.sequence /\ h.event.sequence \in Nat /\ Numbered(h)
    BY <1>3, <2>1 DEF Number, EventType, Numbered
  <2>4. Types'
    BY <1>1, <1>2, <2>1, <2>2, <2>3, HandleTypes
  <2>5. ASSUME restarts' = 0
        PROVE  Streaming'
    <3>1. CASE h.event.sequence <= cursor
      <4>1. cursor' = cursor /\ shown' = shown
        BY <2>1, <3>1
      <4>2. /\ Len(shown') > 0 /\ shown'[Len(shown')].sequence = cursor'
            /\ \A i \in 1 .. Len(shown') : shown'[i].run = 0
            /\ \A i \in 1 .. Len(shown') - 1 :
                  shown'[i + 1].sequence = shown'[i].sequence + 1
        BY <1>4, <1>5, <2>5, <4>1
      <4>3. cursor' \in Nat /\ cursor <= cursor' /\ Number(h) <= cursor'
        BY <1>2, <2>3, <3>1, <4>1
      <4>4. /\ Types /\ Streaming /\ UNCHANGED <<sockets, log>>
            /\ link'.frame = NoFrame /\ link'.out = link.out
            /\ link'.conn = link.conn
            /\ \/ cursor' = cursor
               \/ Numbered(link.frame) /\ cursor' = Number(link.frame)
            /\ link.frame.type = "event" => Number(link.frame) <= cursor'
        BY <1>1, <1>2, <1>4, <2>2, <2>5, <4>1, <4>3
      <4> QED
        BY <4>1, <4>2, <4>3, <4>4, HandledKeepsStream
    <3>2. CASE ~(h.event.sequence <= cursor)
      <4> DEFINE p == Position(h.run, h.event.sequence)
      <4>1. /\ cursor' = cursor + 1 /\ cursor' = Number(h)
            /\ p.sequence = cursor + 1 /\ p.run = 0
        BY <1>2, <1>4, <2>1, <2>3, <2>5, <3>2 DEF Position
      <4> HIDE DEF p
      <4>2. shown' = Append(shown, p)
        BY <2>1, <3>2 DEF p
      <4>3. /\ Len(shown) > 0 /\ shown[Len(shown)].sequence = cursor
            /\ \A i \in 1 .. Len(shown) : shown[i].run = 0
            /\ \A i \in 1 .. Len(shown) - 1 :
                  shown[i + 1].sequence = shown[i].sequence + 1
        BY <1>4, <1>5, <2>5
      <4>4. /\ Len(shown') > 0 /\ shown'[Len(shown')].sequence = cursor'
            /\ \A i \in 1 .. Len(shown') : shown'[i].run = 0
            /\ \A i \in 1 .. Len(shown') - 1 :
                  shown'[i + 1].sequence = shown'[i].sequence + 1
        BY <4>1, <4>2, <4>3
      <4> QED
        BY <1>1, <1>2, <1>4, <2>2, <2>3, <2>5, <4>1, <4>4, HandledKeepsStream
    <3> QED
      BY <3>1, <3>2
  <2> QED
    BY <2>4, <2>5 DEF Inv, StreamInv
<1>7. CASE HandleAck(h) \/ HandleOther(h)
  <2>1. /\ cursor' = cursor /\ shown' = shown /\ awaiting' \in BOOLEAN
        /\ h.type \notin {"event", "resync.required"}
        /\ \/ link' = [link EXCEPT !.frame = NoFrame]
           \/ link' = [link EXCEPT !.frame = NoFrame, !.command = NoCommand,
                                   !.sent = FALSE, !.written = FALSE]
    BY <1>2, <1>7 DEF HandleAck, HandleOther
  <2>2. /\ link' \in LinkType(TrueFrames) /\ link'.phase = link.phase
        /\ link'.conn = link.conn /\ link'.frame = NoFrame
        /\ link'.out = link.out
    BY <1>2, <2>1 DEF LinkType
  <2>3. Types'
    BY <1>1, <1>2, <2>1, <2>2, HandleTypes
  <2>4. ASSUME restarts' = 0
        PROVE  Streaming'
    <3>1. /\ Len(shown') > 0 /\ shown'[Len(shown')].sequence = cursor'
          /\ \A i \in 1 .. Len(shown') : shown'[i].run = 0
          /\ \A i \in 1 .. Len(shown') - 1 :
                shown'[i + 1].sequence = shown'[i].sequence + 1
      BY <1>4, <1>5, <2>1, <2>4
    <3>2. cursor' \in Nat /\ cursor <= cursor' /\ h.type # "event"
      BY <1>2, <2>1
    <3>3. /\ Types /\ Streaming /\ UNCHANGED <<sockets, log>>
          /\ link'.frame = NoFrame /\ link'.out = link.out
          /\ link'.conn = link.conn
          /\ \/ cursor' = cursor
             \/ Numbered(link.frame) /\ cursor' = Number(link.frame)
          /\ link.frame.type = "event" => Number(link.frame) <= cursor'
      BY <1>1, <1>2, <1>4, <2>1, <2>2, <2>4, <3>2
    <3> QED
      BY <2>1, <3>1, <3>2, <3>3, HandledKeepsStream
  <2> QED
    BY <2>3, <2>4 DEF Inv, StreamInv
<1>8. CASE HandleResync(h)
  <2>1. /\ h.type = "resync.required" /\ awaiting' = awaiting
        /\ link' = [link EXCEPT !.frame = NoFrame]
        /\ cursor' = h.lastSequence
        /\ shown' = <<Position(h.run, h.lastSequence)>>
    BY <1>8 DEF HandleResync
  <2>2. /\ link' \in LinkType(TrueFrames) /\ link'.phase = link.phase
        /\ link'.conn = link.conn /\ link'.frame = NoFrame
        /\ link'.out = link.out
    BY <1>2, <2>1 DEF LinkType
  <2>3. Number(h) = h.lastSequence /\ h.lastSequence \in Nat /\ Numbered(h)
    BY <1>3, <2>1 DEF Number, Numbered
  <2>4. Types'
    BY <1>1, <1>2, <2>1, <2>2, <2>3, HandleTypes
  <2>5. ASSUME restarts' = 0
        PROVE  Streaming'
    <3>1. /\ Len(shown') = 1 /\ shown'[1].sequence = cursor' /\ shown'[1].run = 0
      BY <1>4, <2>1, <2>3, <2>5 DEF Position
    <3> QED
      BY <1>1, <1>2, <1>4, <2>1, <2>2, <2>3, <2>5, <3>1, HandledKeepsStream
  <2> QED
    BY <2>4, <2>5 DEF Inv, StreamInv
<1> QED
  BY <1>1, <1>6, <1>7, <1>8

LEMMA RestartLinkInv == Inv /\ (RestartLink \/ Attach) => Inv'
<1> SUFFICES ASSUME Inv, RestartLink \/ Attach
             PROVE  Inv'
  OBVIOUS
<1>1. /\ link' = Stopped /\ Leave
      /\ UNCHANGED <<awaiting, submitted, log, execVars>>
      /\ \/ cursor' = cursor /\ shown' = shown
         \/ cursor' = 0 /\ shown' = <<Position(restarts, 0)>>
  BY DEF RestartLink, Attach
<1>2. /\ link' \in LinkType(TrueFrames) /\ link'.phase = "waiting"
      /\ link'.conn = NoConnection /\ link'.out = NoFrame
      /\ link'.frame = NoFrame
  <2>1. NoFrame \in TrueFrames
    BY FramesMade DEF TrueFrames
  <2> QED
    BY <1>1, <2>1, FramesMade DEF Stopped, LinkType
<1>3. /\ sockets' \in [Connections -> SocketType(TrueFrames)]
      /\ \A k \in Connections : ~sockets'[k].reader
  BY <1>1, LeaveFacts DEF Inv
<1>4. Types'
  <2>1. cursor' \in Nat /\ awaiting' \in BOOLEAN /\ submitted' \subseteq Commands
    BY <1>1 DEF Inv, Types
  <2>2. \A k \in Connections : sockets'[k].reader <=> k = link'.conn
    BY <1>2, <1>3, LinkAssumption
  <2> QED
    BY <1>1, <1>2, <1>3, <2>1, <2>2, ClientKeepsTypes DEF Inv
<1>5. StreamInv'
  <2> SUFFICES ASSUME restarts' = 0
               PROVE  Streaming'
    BY DEF StreamInv
  <2>1. Types /\ Streaming /\ restarts = 0
    BY <1>1 DEF Inv, StreamInv, execVars
  <2>2. Channel'.down = <<>> /\ Channel'.up = <<>> /\ Channel'.sendCursor = 0
    BY <1>2, FreshSockets DEF Channel
  <2>3. HelloBehind(link'.out, cursor')
    BY <1>2, FramesMade DEF HelloBehind
  <2>4. CASE cursor' = cursor /\ shown' = shown
    <3>1. HelloBehind(link'.out, cursor)
      BY <2>3, <2>4
    <3> QED
      BY <1>1, <1>2, <2>1, <2>2, <2>4, <3>1, LeavingKeepsStream
  <2>5. CASE cursor' = 0 /\ shown' = <<Position(restarts, 0)>>
    <3>1. /\ Len(shown') = 1 /\ shown'[1].sequence = 0 /\ shown'[1].run = 0
      BY <2>1, <2>5 DEF Position
    <3>2. Delivery(NoFrame, 0, LatestSequence(log'), <<>>, 0)
      <4>1. \A i \in 0 .. Len(<<>>) : Ahead(NoFrame, <<>>, i).type = "none"
        BY FramesMade DEF Ahead
      <4> QED
        BY <4>1 DEF Delivery, Dated, Following, Marked, Reached, Numbered
    <3>3. 0 <= LatestSequence(log')
      BY <1>1, <2>1, ChannelFacts
    <3>4. \A i \in 1 .. Len(Channel'.up) : HelloBehind(Channel'.up[i], cursor')
      BY <2>2
    <3> QED
      BY <1>2, <2>2, <2>3, <2>5, <3>1, <3>2, <3>3, <3>4 DEF Streaming
  <2> QED
    BY <1>1, <2>4, <2>5
<1> QED
  BY <1>4, <1>5 DEF Inv

-----------------------------------------------------------------------------
(* What the bridge does to a connection: it may read from it, and the 3DS   *)
(* still reads it or not.                                                   *)
Served(s, r) ==
    /\ r.reader = s.reader
    /\ \A i \in 1 .. Len(r.up) : \E j \in 1 .. Len(s.up) : r.up[i] = s.up[j]

LEMMA KeptServed ==
    ASSUME NEW A, NEW s \in SocketType(A), NEW r, Kept(s, r)
    PROVE  Served(s, r)
<1>1. CASE r.up = s.up
  BY <1>1 DEF Kept, Served
<1>2. CASE r.up = <<>>
  BY <1>2 DEF Kept, Served
<1> QED
  BY <1>1, <1>2 DEF Kept

LEMMA ServedTwice ==
    ASSUME NEW s, NEW t, NEW r, Served(s, t), Served(t, r)
    PROVE  Served(s, r)
<1> SUFFICES ASSUME NEW i \in 1 .. Len(r.up)
             PROVE  \E j \in 1 .. Len(s.up) : r.up[i] = s.up[j]
  BY DEF Served
<1>1. PICK m \in 1 .. Len(t.up) : r.up[i] = t.up[m]
  BY DEF Served
<1>2. PICK j \in 1 .. Len(s.up) : t.up[m] = s.up[j]
  BY DEF Served
<1> QED
  BY <1>1, <1>2

(* #processInput() takes one frame from a connection.                       *)
LEMMA ReadFacts ==
    ASSUME Types, NEW k \in Connections, NEW type, Readable(k, type)
    PROVE  /\ Read(k) \in SocketType(TrueFrames)
           /\ Served(sockets[k], Read(k))
           /\ Read(k).down = sockets[k].down
           /\ Read(k).sendCursor = sockets[k].sendCursor
           /\ Head(sockets[k].up) \in Frames
           /\ Head(sockets[k].up).type = type
           /\ Len(sockets[k].up) > 0
           /\ Head(sockets[k].up) = sockets[k].up[1]
<1> DEFINE s == sockets[k]
           u == Tail(s.up)
<1>1. /\ s \in SocketType(TrueFrames) /\ s.up \in Seq(Frames) /\ s.up # <<>>
      /\ Head(s.up).type = type
  BY DEF Types, SocketType, Readable
<1>2. /\ u \in Seq(Frames) /\ Len(u) = Len(s.up) - 1 /\ Len(s.up) \in Nat
      /\ Len(s.up) > 0 /\ Head(s.up) = s.up[1] /\ Head(s.up) \in Frames
      /\ \A i \in 1 .. Len(s.up) - 1 : u[i] = s.up[i + 1]
  BY <1>1
<1>3. Read(k) = [s EXCEPT !.up = u]
  BY DEF Read
<1> HIDE DEF s, u
<1>4. /\ Read(k) \in SocketType(TrueFrames) /\ Read(k).reader = s.reader
      /\ Read(k).down = s.down /\ Read(k).sendCursor = s.sendCursor
      /\ Read(k).up = u
  BY <1>1, <1>2, <1>3 DEF SocketType
<1>5. \A i \in 1 .. Len(u) : \E j \in 1 .. Len(s.up) : u[i] = s.up[j]
  <2> TAKE i \in 1 .. Len(u)
  <2>1. u[i] = s.up[i + 1] /\ i + 1 \in 1 .. Len(s.up)
    BY <1>2
  <2> QED
    BY <2>1
<1> QED
  BY <1>1, <1>2, <1>4, <1>5 DEF Served, s

(* What a step of the bridge has to show: the knowledge of commands grows,  *)
(* so does the log, and what the connections carry fits.                    *)
LEMMA BridgeStep ==
    ASSUME Inv, UNCHANGED <<clientVars, restarts>>, ExecTypes', Vouched',
           \A c \in Commands : performed[c] > 0 => performed'[c] > 0,
           Contiguous(log'), LatestSequence(log) <= LatestSequence(log'),
           DOMAIN sockets' = Connections,
           sockets' = [k \in Connections |-> sockets'[k]],
           \A k \in Connections :
              /\ sockets'[k] \in SocketType(TrueFrames)
              /\ Served(sockets[k], sockets'[k]),
           \A k \in Connections : restarts = 0 /\ Streaming /\ k = link.conn =>
              Delivery(link.frame, cursor, LatestSequence(log'),
                       sockets'[k].down, sockets'[k].sendCursor)
    PROVE  Inv'
<1>1. TrueFrames \subseteq TrueFrames'
  BY TruthGrows
<1>2. SocketType(TrueFrames) \subseteq SocketType(TrueFrames')
  BY <1>1, SocketTypeGrows
<1>3. /\ link' = link /\ cursor' = cursor /\ awaiting' = awaiting
      /\ submitted' = submitted /\ shown' = shown /\ restarts' = restarts
  BY DEF clientVars
<1>4. link' \in LinkType(TrueFrames')
  <2>1. link \in LinkType(TrueFrames)
    BY DEF Inv, Types
  <2> QED
    BY <1>1, <1>3, <2>1 DEF LinkType
<1>5. sockets' \in [Connections -> SocketType(TrueFrames')]
  BY <1>2
<1>6. \A k \in Connections : sockets'[k].reader <=> k = link'.conn
  BY <1>3 DEF Served, Inv, Types
<1>7. Types'
  BY <1>3, <1>4, <1>5, <1>6 DEF Inv, Types
<1>8. ASSUME restarts' = 0
      PROVE  Streaming'
  <2>1. Streaming /\ Types /\ restarts = 0
    BY <1>3, <1>8 DEF Inv, StreamInv
  <2>2. LatestSequence(log') \in Nat
    BY DEF Contiguous, LatestSequence
  <2>3. Delivery(link.frame, cursor, LatestSequence(log'), Channel'.down,
                 Channel'.sendCursor)
    <3>1. CASE link.conn = NoConnection
      <4>1. Channel' = Channel
        BY <1>3, <3>1 DEF Channel
      <4> QED
        BY <2>1, <2>2, <4>1, ChannelFacts, DeliveryGrown DEF Streaming
    <3>2. CASE link.conn # NoConnection
      <4>1. link.conn \in Connections /\ Channel' = sockets'[link.conn]
        BY <1>3, <2>1, <3>2, ChannelFacts DEF Channel
      <4> QED
        BY <2>1, <4>1
    <3> QED
      BY <3>1, <3>2
  <2>4. \A i \in 1 .. Len(Channel'.up) : HelloBehind(Channel'.up[i], cursor)
    <3>1. CASE link.conn = NoConnection
      <4>1. Channel' = Channel
        BY <1>3, <3>1 DEF Channel
      <4> QED
        BY <2>1, <4>1 DEF Streaming
    <3>2. CASE link.conn # NoConnection
      <4>1. /\ link.conn \in Connections /\ Channel' = sockets'[link.conn]
            /\ Channel = sockets[link.conn]
        BY <1>3, <2>1, <3>2, ChannelFacts DEF Channel
      <4> QED
        BY <2>1, <4>1 DEF Served, Streaming
    <3> QED
      BY <3>1, <3>2
  <2>5. cursor \in Nat /\ cursor <= LatestSequence(log')
    BY <2>1, <2>2, ChannelFacts DEF Streaming
  <2> QED
    BY <1>3, <2>1, <2>3, <2>4, <2>5 DEF Streaming
<1> QED
  BY <1>7, <1>8 DEF Inv, StreamInv

(* The same for a step that touches one connection and not the log.         *)
LEMMA ServeStep ==
    ASSUME Inv, UNCHANGED <<clientVars, log, restarts>>, ExecTypes', Vouched',
           \A c \in Commands : performed[c] > 0 => performed'[c] > 0,
           NEW k \in Connections, NEW r \in SocketType(TrueFrames),
           sockets' = [sockets EXCEPT ![k] = r], Served(sockets[k], r),
           restarts = 0 /\ Streaming /\ k = link.conn =>
              Delivery(link.frame, cursor, LatestSequence(log), r.down,
                       r.sendCursor)
    PROVE  Inv'
<1>1. /\ sockets \in [Connections -> SocketType(TrueFrames)] /\ Types
      /\ LatestSequence(log) \in Nat /\ Contiguous(log)
  BY ChannelFacts DEF Inv, Types
<1>2. /\ DOMAIN sockets' = Connections
      /\ sockets' = [o \in Connections |-> sockets'[o]]
      /\ sockets'[k] = r
      /\ \A o \in Connections : o # k => sockets'[o] = sockets[o]
  BY <1>1
<1>3. ASSUME NEW o \in Connections
      PROVE  /\ sockets'[o] \in SocketType(TrueFrames)
             /\ Served(sockets[o], sockets'[o])
             /\ restarts = 0 /\ Streaming /\ o = link.conn =>
                  Delivery(link.frame, cursor, LatestSequence(log'),
                           sockets'[o].down, sockets'[o].sendCursor)
  <2>1. CASE o = k
    BY <1>2, <2>1
  <2>2. CASE o # k
    <3>1. sockets'[o] = sockets[o] /\ sockets[o] \in SocketType(TrueFrames)
      BY <1>1, <1>2, <2>2
    <3>2. Served(sockets[o], sockets'[o])
      BY <3>1 DEF Served
    <3>3. o = link.conn => Channel = sockets[o]
      BY <1>1, ChannelFacts, LinkAssumption
    <3> QED
      BY <3>1, <3>2, <3>3 DEF Streaming
  <2> QED
    BY <2>1, <2>2
<1>4. LatestSequence(log) <= LatestSequence(log') /\ Contiguous(log')
  BY <1>1
<1>5. UNCHANGED <<clientVars, restarts>>
  OBVIOUS
<1> QED
  BY <1>2, <1>3, <1>4, <1>5, BridgeStep

(* A step that does not touch commands keeps what is known of them.         *)
LEMMA ExecUntouched ==
    ASSUME Inv, UNCHANGED execVars
    PROVE  /\ ExecTypes' /\ Vouched' /\ restarts' = restarts
           /\ \A c \in Commands : performed[c] > 0 => performed'[c] > 0
<1>1. UNCHANGED <<registry, fresh, done, adrift, performed, restarts>>
      /\ waiting' = waiting
  BY DEF execVars
<1>2. waiting' \in [Connections -> Commands \cup {NoCommand}]
  BY <1>1 DEF Inv, Types, ExecTypes
<1> QED
  BY <1>1, <1>2, ExecKept DEF Inv, Types

-----------------------------------------------------------------------------
(* The bridge's steps keep the invariant, one by one.                       *)
LEMMA ReadHelloInv ==
    ASSUME Inv, NEW k \in Connections, ReadHello(k)
    PROVE  Inv'
<1> DEFINE after == Head(sockets[k].up).after
           s == Read(k)
           r == Welcome(s, after, log, restarts)
<1>1. /\ Types /\ Readable(k, "connection.hello")
      /\ sockets' = [sockets EXCEPT ![k] = r]
      /\ UNCHANGED <<clientVars, log, execVars>>
  BY DEF ReadHello, Inv
<1>2. /\ s \in SocketType(TrueFrames) /\ Served(sockets[k], s)
      /\ s.down = sockets[k].down /\ s.sendCursor = sockets[k].sendCursor
      /\ Head(sockets[k].up) \in Frames
      /\ Head(sockets[k].up).type = "connection.hello"
      /\ Len(sockets[k].up) > 0 /\ Head(sockets[k].up) = sockets[k].up[1]
  BY <1>1, ReadFacts
<1>3. after \in Nat /\ Contiguous(log) /\ restarts \in Nat
  BY <1>1, <1>2, FrameFields DEF Types, ExecTypes
<1>4. Streaming /\ k = link.conn => after <= cursor
  <2> SUFFICES ASSUME Streaming, k = link.conn
               PROVE  after <= cursor
    OBVIOUS
  <2>1. Channel = sockets[k]
    BY <1>1, ChannelFacts, LinkAssumption
  <2>2. 1 \in 1 .. Len(sockets[k].up)
    BY <1>2, <2>1, <1>1, ChannelFacts
  <2>3. HelloBehind(sockets[k].up[1], cursor)
    BY <2>1, <2>2 DEF Streaming
  <2> QED
    BY <1>2, <2>3 DEF HelloBehind
<1> HIDE DEF after, s
<1>5. r \in SocketType(TrueFrames) /\ Kept(s, r)
  BY <1>2, <1>3, TruthIsUnbiased, WelcomeFacts
<1>6. Served(sockets[k], r)
  <2>1. Served(s, r)
    BY <1>2, <1>5, KeptServed
  <2> QED
    BY <1>2, <2>1, ServedTwice
<1>7. restarts = 0 /\ Streaming /\ k = link.conn =>
          Delivery(link.frame, cursor, LatestSequence(log), r.down, r.sendCursor)
  <2> SUFFICES ASSUME restarts = 0, Streaming, k = link.conn
               PROVE  Delivery(link.frame, cursor, LatestSequence(log), r.down,
                               r.sendCursor)
    OBVIOUS
  <2>1. Channel = sockets[k] /\ Channel.reader /\ cursor \in Nat
    BY <1>1, ChannelFacts, LinkAssumption
  <2>2. /\ Delivery(link.frame, cursor, LatestSequence(log), s.down,
                    s.sendCursor)
        /\ cursor <= LatestSequence(log) /\ s.reader /\ after <= cursor
    BY <1>2, <1>4, <2>1 DEF Streaming, Served
  <2> QED
    BY <1>2, <1>3, <2>1, <2>2, TruthIsUnbiased, WelcomeDelivery
<1> HIDE DEF r
<1>8. /\ ExecTypes' /\ Vouched' /\ restarts' = restarts
      /\ \A c \in Commands : performed[c] > 0 => performed'[c] > 0
  BY <1>1, ExecUntouched
<1> QED
  BY <1>1, <1>5, <1>6, <1>7, <1>8, ServeStep

(* A frame without a number may be written at any time.                     *)
LEMMA WriteFacts ==
    ASSUME Inv, NEW k \in Connections, NEW s \in SocketType(TrueFrames),
           Served(sockets[k], s), s.down = sockets[k].down,
           s.sendCursor = sockets[k].sendCursor,
           NEW f \in TrueFrames, ~Numbered(f),
           NEW r \in {Send(s, f), SendAndEnd(s, f)}
    PROVE  /\ r \in SocketType(TrueFrames) /\ Served(sockets[k], r)
           /\ Streaming /\ k = link.conn =>
                Delivery(link.frame, cursor, LatestSequence(log), r.down,
                         r.sendCursor)
<1>1. r \in SocketType(TrueFrames) /\ Kept(s, r)
  BY SendFacts, SendAndEndFacts
<1>2. Served(sockets[k], r)
  <2>1. Served(s, r)
    BY <1>1, KeptServed
  <2> QED
    BY <2>1, ServedTwice
<1>3. ASSUME Streaming, k = link.conn
      PROVE  Delivery(link.frame, cursor, LatestSequence(log), r.down,
                      r.sendCursor)
  <2>1. /\ Channel = sockets[k] /\ Channel.reader /\ cursor \in Nat
        /\ LatestSequence(log) \in Nat
    BY <1>3, ChannelFacts, LinkAssumption DEF Inv
  <2>2. /\ Delivery(link.frame, cursor, LatestSequence(log), s.down,
                    s.sendCursor)
        /\ s.reader
    BY <1>3, <2>1 DEF Streaming, Served
  <2> QED
    BY <2>1, <2>2, SendDelivery
<1> QED
  BY <1>1, <1>2, <1>3

(* A hello is refused, a ping is answered.                                  *)
LEMMA ReadQuietInv ==
    ASSUME Inv, NEW k \in Connections, RefuseHello(k) \/ ReadPing(k)
    PROVE  Inv'
<1>1. /\ Types /\ UNCHANGED <<clientVars, log, execVars>>
      /\ Readable(k, "connection.hello") \/ Readable(k, "ping")
  BY DEF RefuseHello, ReadPing, Inv
<1>2. /\ ErrorFrame \in TrueFrames /\ ~Numbered(ErrorFrame)
      /\ PongFrame \in TrueFrames /\ ~Numbered(PongFrame)
  BY FramesMade DEF TrueFrames, Numbered
<1>3. /\ Read(k) \in SocketType(TrueFrames) /\ Served(sockets[k], Read(k))
      /\ Read(k).down = sockets[k].down
      /\ Read(k).sendCursor = sockets[k].sendCursor
  BY <1>1, ReadFacts
<1>4. PICK f \in TrueFrames :
          /\ ~Numbered(f)
          /\ \E r \in {Send(Read(k), f), SendAndEnd(Read(k), f)} :
                sockets' = [sockets EXCEPT ![k] = r]
  BY <1>2 DEF RefuseHello, ReadPing
<1>5. PICK r \in {Send(Read(k), f), SendAndEnd(Read(k), f)} :
          sockets' = [sockets EXCEPT ![k] = r]
  BY <1>4
<1>6. /\ r \in SocketType(TrueFrames) /\ Served(sockets[k], r)
      /\ Streaming /\ k = link.conn =>
            Delivery(link.frame, cursor, LatestSequence(log), r.down,
                     r.sendCursor)
  BY <1>3, <1>4, <1>5, WriteFacts
<1>7. /\ ExecTypes' /\ Vouched' /\ restarts' = restarts
      /\ \A c \in Commands : performed[c] > 0 => performed'[c] > 0
  BY <1>1, ExecUntouched
<1> QED
  BY <1>1, <1>5, <1>6, <1>7, ServeStep

(* A command is refused, answered from the registry or executed.            *)
LEMMA ReadCommandInv ==
    ASSUME Inv, NEW k \in Connections, ReadCommand(k)
    PROVE  Inv'
<1> DEFINE c == Head(sockets[k].up).command
           s == Read(k)
<1>1. /\ Types /\ Readable(k, "command") /\ UNCHANGED <<clientVars, log>>
  BY DEF ReadCommand, Inv
<1>2. /\ s \in SocketType(TrueFrames) /\ Served(sockets[k], s)
      /\ s.down = sockets[k].down /\ s.sendCursor = sockets[k].sendCursor
      /\ Head(sockets[k].up) \in Frames /\ Head(sockets[k].up).type = "command"
  BY <1>1, ReadFacts
<1>3. c \in Commands
  BY <1>2, FrameFields
<1>4. Streaming /\ k = link.conn =>
          Delivery(link.frame, cursor, LatestSequence(log), s.down, s.sendCursor)
  BY <1>1, <1>2, ChannelFacts, LinkAssumption DEF Streaming
<1> HIDE DEF c, s
<1>5. CASE sockets' = [sockets EXCEPT ![k] = Send(s, ErrorFrame)] /\ UNCHANGED execVars
  <2>1. ErrorFrame \in TrueFrames /\ ~Numbered(ErrorFrame)
    BY FramesMade DEF TrueFrames, Numbered
  <2> DEFINE r == Send(s, ErrorFrame)
  <2>2. /\ r \in SocketType(TrueFrames) /\ Served(sockets[k], r)
        /\ Streaming /\ k = link.conn =>
              Delivery(link.frame, cursor, LatestSequence(log), r.down,
                       r.sendCursor)
    BY <1>2, <2>1, WriteFacts
  <2>3. /\ ExecTypes' /\ Vouched' /\ restarts' = restarts
        /\ \A d \in Commands : performed[d] > 0 => performed'[d] > 0
    BY <1>5, ExecUntouched
  <2> HIDE DEF r
  <2>4. sockets' = [sockets EXCEPT ![k] = r]
    BY <1>5 DEF r
  <2> QED
    BY <1>1, <2>2, <2>3, <2>4, ServeStep
<1>6. CASE Exec!AnswerFromRegistry(k, c)
           /\ sockets' = [sockets EXCEPT ![k] = Send(s, AckFrame(c))]
  <2>1. /\ UNCHANGED <<registry, fresh, done, adrift, performed, restarts>>
        /\ waiting' = waiting /\ c \in Exec!Ids(registry)
    BY <1>6 DEF Exec!AnswerFromRegistry, Exec!execVars
  <2>2. performed[c] > 0
    BY <1>1, <2>1 DEF Types, Vouched, Exec!Ids
  <2>3. AckFrame(c) \in TrueFrames /\ ~Numbered(AckFrame(c))
    BY <1>3, <2>2, FramesMade DEF TrueFrames, Numbered
  <2> DEFINE r == Send(s, AckFrame(c))
  <2>4. /\ r \in SocketType(TrueFrames) /\ Served(sockets[k], r)
        /\ Streaming /\ k = link.conn =>
              Delivery(link.frame, cursor, LatestSequence(log), r.down,
                       r.sendCursor)
    BY <1>2, <2>3, WriteFacts
  <2>5. ExecTypes' /\ Vouched'
    <3>1. waiting' \in [Connections -> Commands \cup {NoCommand}]
      BY <1>1, <2>1 DEF Types, ExecTypes
    <3> QED
      BY <1>1, <2>1, <3>1, ExecKept DEF Types
  <2> HIDE DEF r
  <2>6. sockets' = [sockets EXCEPT ![k] = r]
    BY <1>6 DEF r
  <2> QED
    BY <1>1, <2>1, <2>4, <2>5, <2>6, ServeStep
<1>7. CASE (Exec!JoinInFlight(k, c) \/ Exec!Start(k, c))
           /\ sockets' = [sockets EXCEPT ![k] = s]
  <2>1. /\ UNCHANGED <<registry, done, adrift, performed, restarts>>
        /\ waiting' = [waiting EXCEPT ![k] = c]
        /\ fresh' = fresh \/ fresh' = [fresh EXCEPT ![c] = @ + 1]
    BY <1>7 DEF Exec!JoinInFlight, Exec!Start, Exec!historyVars
  <2>2. /\ registry \in Seq(Commands) /\ done \in [Commands -> Nat]
        /\ adrift \in [Commands -> Nat] /\ performed \in [Commands -> Nat]
        /\ restarts \in Nat /\ fresh \in [Commands -> Nat]
        /\ waiting \in [Connections -> Commands \cup {NoCommand}] /\ Vouched
    BY <1>1 DEF Types, ExecTypes
  <2>3. fresh' \in [Commands -> Nat]
    BY <1>3, <2>1, <2>2, CountUp
  <2>4. waiting' \in [Connections -> Commands \cup {NoCommand}]
    BY <1>3, <2>1, <2>2
  <2>5. ExecTypes'
    BY <2>1, <2>2, <2>3, <2>4 DEF ExecTypes
  <2>6. Vouched'
    BY <2>1, <2>2 DEF Vouched
  <2> QED
    BY <1>1, <1>2, <1>4, <1>7, <2>1, <2>5, <2>6, ServeStep
<1> QED
  BY <1>5, <1>6, <1>7 DEF ReadCommand, c, s

(* A drain, and a connection the bridge learns to be dead.                  *)
LEMMA DrainInv ==
    ASSUME Inv, NEW k \in Connections, Drain(k)
    PROVE  Inv'
<1> DEFINE s == sockets[k]
           r == Drained(s, log, restarts)
<1>1. /\ Types /\ UNCHANGED <<clientVars, log, execVars>>
      /\ sockets' = [sockets EXCEPT ![k] = r]
  BY DEF Drain, Inv
<1>2. s \in SocketType(TrueFrames) /\ Contiguous(log) /\ restarts \in Nat
  BY <1>1 DEF Types, ExecTypes
<1>3. k = link.conn => Channel = s /\ s.reader
  BY <1>1, ChannelFacts, LinkAssumption
<1>4. link.frame \in Frames /\ cursor \in Nat
  BY <1>1, ChannelFacts
<1>5. r \in SocketType(TrueFrames) /\ Kept(s, r)
  BY <1>2, TruthIsUnbiased, DrainedFacts
<1>6. Served(s, r)
  BY <1>2, <1>5, KeptServed
<1>7. ASSUME restarts = 0, Streaming, k = link.conn
      PROVE  Delivery(link.frame, cursor, LatestSequence(log), r.down, r.sendCursor)
  <2>1. /\ Delivery(link.frame, cursor, LatestSequence(log), s.down, s.sendCursor)
        /\ cursor <= LatestSequence(log) /\ s.reader
    BY <1>3, <1>7 DEF Streaming
  <2> HIDE DEF s
  <2> QED
    BY <1>2, <1>4, <1>7, <2>1, TruthIsUnbiased, DrainedFacts
<1>8. /\ ExecTypes' /\ Vouched' /\ restarts' = restarts
      /\ \A c \in Commands : performed[c] > 0 => performed'[c] > 0
  BY <1>1, ExecUntouched
<1> HIDE DEF r
<1> QED
  BY <1>1, <1>5, <1>6, <1>7, <1>8, ServeStep

LEMMA DropInv ==
    ASSUME Inv, NEW k \in Connections, NoticeLeft(k) \/ DropPeer(k)
    PROVE  Inv'
<1> DEFINE s == sockets[k]
           r == Destroy(s)
<1>1. /\ Types /\ UNCHANGED <<clientVars, log, execVars>>
      /\ sockets' = [sockets EXCEPT ![k] = r]
  BY DEF NoticeLeft, DropPeer, Inv
<1>2. s \in SocketType(TrueFrames)
  BY <1>1 DEF Types
<1>3. k = link.conn => Channel = s
  BY <1>1, ChannelFacts, LinkAssumption
<1>4. /\ r \in SocketType(TrueFrames) /\ Kept(s, r) /\ r.down = s.down
      /\ r.sendCursor = 0
  BY <1>2, DestroyFacts
<1>5. Served(s, r)
  BY <1>2, <1>4, KeptServed
<1>6. ASSUME Streaming, k = link.conn
      PROVE  Delivery(link.frame, cursor, LatestSequence(log), r.down, r.sendCursor)
  <2>1. Delivery(link.frame, cursor, LatestSequence(log), s.down, s.sendCursor)
    BY <1>3, <1>6 DEF Streaming
  <2>2. cursor \in Nat /\ LatestSequence(log) \in Nat
    BY <1>1, ChannelFacts
  <2> HIDE DEF s, r
  <2> QED
    BY <1>4, <2>1, <2>2, DeliverySilent
<1>7. /\ ExecTypes' /\ Vouched' /\ restarts' = restarts
      /\ \A c \in Commands : performed[c] > 0 => performed'[c] > 0
  BY <1>1, ExecUntouched
<1> HIDE DEF r
<1> QED
  BY <1>1, <1>4, <1>5, <1>6, <1>7, ServeStep

(* An event is appended and told to every connection.                       *)
LEMMA PublishInv ==
    ASSUME Inv, NEW type \in EventTypes, Publish(type)
    PROVE  Inv'
<1>1. /\ Types /\ UNCHANGED <<clientVars, execVars>>
      /\ log' = AppendEvent(log, type, 1)
      /\ sockets' = [k \in Connections |-> Flush(sockets[k], log', restarts)]
  BY DEF Publish, Inv
<1>2. /\ Contiguous(log') /\ LatestSequence(log') = LatestSequence(log) + 1
      /\ LatestSequence(log) \in Nat /\ restarts \in Nat
  BY <1>1, AppendContiguous, ChannelFacts DEF Types, ExecTypes
<1> DEFINE l == log'
<1>3. Contiguous(l) /\ LatestSequence(l) = LatestSequence(log) + 1
      /\ \A k \in Connections : sockets'[k] = Flush(sockets[k], l, restarts)
  BY <1>1, <1>2
<1> HIDE DEF l
<1>4. ASSUME NEW k \in Connections
      PROVE  /\ sockets'[k] \in SocketType(TrueFrames)
             /\ Served(sockets[k], sockets'[k])
             /\ restarts = 0 /\ Streaming /\ k = link.conn =>
                  Delivery(link.frame, cursor, LatestSequence(l),
                           sockets'[k].down, sockets'[k].sendCursor)
  <2> DEFINE s == sockets[k]
             r == Flush(s, l, restarts)
  <2>1. s \in SocketType(TrueFrames) /\ sockets'[k] = r
    BY <1>1, <1>3 DEF Types
  <2>2. k = link.conn => Channel = s /\ s.reader
    BY <1>1, ChannelFacts, LinkAssumption
  <2> HIDE DEF s
  <2>3. r \in SocketType(TrueFrames) /\ Kept(s, r)
    BY <1>2, <1>3, <2>1, TruthIsUnbiased, FlushFacts
  <2>4. Served(s, r)
    BY <2>1, <2>3, KeptServed
  <2>5. ASSUME restarts = 0, Streaming, k = link.conn
        PROVE  Delivery(link.frame, cursor, LatestSequence(l), r.down,
                        r.sendCursor)
    <3>1. /\ Delivery(link.frame, cursor, LatestSequence(log), s.down,
                      s.sendCursor)
          /\ cursor <= LatestSequence(log) /\ s.reader /\ cursor \in Nat
      BY <1>1, <2>2, <2>5, ChannelFacts DEF Streaming
    <3>2. /\ LatestSequence(l) \in Nat /\ LatestSequence(log) <= LatestSequence(l)
          /\ cursor <= LatestSequence(l)
      BY <1>2, <1>3, <3>1
    <3>3. Delivery(link.frame, cursor, LatestSequence(l), s.down, s.sendCursor)
      BY <1>2, <3>1, <3>2, DeliveryGrown
    <3> QED
      BY <1>3, <2>1, <2>5, <3>1, <3>2, <3>3, TruthIsUnbiased, FlushDelivery
  <2> QED
    BY <2>1, <2>3, <2>4, <2>5 DEF s
<1>5. /\ ExecTypes' /\ Vouched' /\ restarts' = restarts
      /\ \A c \in Commands : performed[c] > 0 => performed'[c] > 0
  BY <1>1, ExecUntouched
<1>6. DOMAIN sockets' = Connections
      /\ sockets' = [k \in Connections |-> sockets'[k]]
  BY <1>1
<1> QED
  BY <1>1, <1>2, <1>4, <1>5, <1>6, BridgeStep DEF l

-----------------------------------------------------------------------------
(* The agent's part of commands.                                            *)
LEMMA SettledTypes ==
    ASSUME Types, NEW c \in Commands, Exec!Settle(c)
    PROVE  waiting' \in [Connections -> Commands \cup {NoCommand}]
  BY LinkAssumption DEF Types, ExecTypes, Exec!Settle

(* A run is carried out, or one given up before.                            *)
LEMMA PerformedTypes ==
    ASSUME Types, NEW c \in Commands, Exec!Perform(c) \/ Exec!PerformAdrift(c)
    PROVE  /\ ExecTypes' /\ Vouched' /\ restarts' = restarts
           /\ \A d \in Commands : performed[d] > 0 => performed'[d] > 0
<1>1. /\ registry \in Seq(Commands) /\ done \in [Commands -> Nat]
      /\ adrift \in [Commands -> Nat] /\ performed \in [Commands -> Nat]
      /\ restarts \in Nat /\ fresh \in [Commands -> Nat]
      /\ waiting \in [Connections -> Commands \cup {NoCommand}] /\ Vouched
  BY DEF Types, ExecTypes
<1>2. /\ UNCHANGED <<registry, waiting, restarts>>
      /\ performed' = [performed EXCEPT ![c] = @ + 1]
      /\ \/ fresh[c] > 0 /\ fresh' = [fresh EXCEPT ![c] = @ - 1]
            /\ done' = [done EXCEPT ![c] = @ + 1] /\ adrift' = adrift
         \/ adrift[c] > 0 /\ adrift' = [adrift EXCEPT ![c] = @ - 1]
            /\ fresh' = fresh /\ done' = done
  BY DEF Exec!Perform, Exec!PerformAdrift
<1>3. /\ performed' \in [Commands -> Nat] /\ performed'[c] > 0
      /\ \A d \in Commands : performed[d] > 0 => performed'[d] > 0
  BY <1>1, <1>2
<1>4. /\ fresh' \in [Commands -> Nat] /\ done' \in [Commands -> Nat]
      /\ adrift' \in [Commands -> Nat]
      /\ \A d \in Commands : d # c => done'[d] = done[d]
  <2>1. CASE fresh[c] > 0 /\ fresh' = [fresh EXCEPT ![c] = @ - 1]
             /\ done' = [done EXCEPT ![c] = @ + 1] /\ adrift' = adrift
    BY <1>1, <2>1, CountUp, CountDown
  <2>2. CASE adrift[c] > 0 /\ adrift' = [adrift EXCEPT ![c] = @ - 1]
             /\ fresh' = fresh /\ done' = done
    BY <1>1, <2>2, CountDown
  <2> QED
    BY <1>2, <2>1, <2>2
<1>5. ExecTypes'
  BY <1>1, <1>2, <1>3, <1>4 DEF ExecTypes
<1>6. Vouched'
  <2>1. \A i \in 1 .. Len(registry) : registry[i] \in Commands
    BY <1>1
  <2>2. \A i \in 1 .. Len(registry') : performed'[registry'[i]] > 0
    BY <1>1, <1>2, <1>3, <2>1 DEF Vouched
  <2>3. \A d \in Commands : done'[d] > 0 => performed'[d] > 0
    BY <1>1, <1>3, <1>4 DEF Vouched
  <2> QED
    BY <2>2, <2>3 DEF Vouched
<1> QED
  BY <1>2, <1>3, <1>5, <1>6

(* A run settles: what is remembered took effect.                           *)
LEMMA SettlementTypes ==
    ASSUME Types, NEW c \in Commands,
           \/ Exec!Succeed(c)
           \/ Exec!Fail(c) \/ Exec!GiveUp(c) \/ Exec!FailLate(c)
    PROVE  /\ ExecTypes' /\ Vouched' /\ restarts' = restarts
           /\ performed' = performed
           /\ Exec!Succeed(c) => performed[c] > 0
<1>1. /\ registry \in Seq(Commands) /\ done \in [Commands -> Nat]
      /\ adrift \in [Commands -> Nat] /\ performed \in [Commands -> Nat]
      /\ restarts \in Nat /\ fresh \in [Commands -> Nat] /\ Vouched
  BY DEF Types, ExecTypes
<1>2. /\ performed' = performed /\ restarts' = restarts /\ Exec!Settle(c)
      /\ \/ done[c] > 0 /\ registry' = Exec!Remember(registry, c)
         \/ registry' = registry
      /\ \/ done' = done
         \/ done[c] > 0 /\ done' = [done EXCEPT ![c] = @ - 1]
      /\ \/ fresh' = fresh
         \/ fresh[c] > 0 /\ fresh' = [fresh EXCEPT ![c] = @ - 1]
      /\ \/ adrift' = adrift
         \/ adrift' = [adrift EXCEPT ![c] = @ + 1]
      /\ Exec!Succeed(c) => done[c] > 0
  BY DEF Exec!Succeed, Exec!Fail, Exec!GiveUp, Exec!FailLate,
         Exec!historyVars
<1>3. waiting' \in [Connections -> Commands \cup {NoCommand}]
  BY <1>2, SettledTypes
<1>4. done' \in [Commands -> Nat] /\ \A d \in Commands : done'[d] <= done[d]
  <2>1. done' = done \/ (done[c] > 0 /\ done' = [done EXCEPT ![c] = @ - 1])
    BY <1>2
  <2>2. CASE done' = done
    BY <1>1, <2>2
  <2>3. CASE done[c] > 0 /\ done' = [done EXCEPT ![c] = @ - 1]
    BY <1>1, <2>3, CountDown
  <2> QED
    BY <2>1, <2>2, <2>3
<1>5. fresh' \in [Commands -> Nat]
  BY <1>1, <1>2, CountDown
<1>6. adrift' \in [Commands -> Nat]
  BY <1>1, <1>2, CountUp
<1>7. /\ registry' \in Seq(Commands)
      /\ \A i \in 1 .. Len(registry') : performed[registry'[i]] > 0
  <2>1. CASE registry' = registry
    BY <1>1, <2>1 DEF Vouched
  <2>2. CASE done[c] > 0 /\ registry' = Exec!Remember(registry, c)
    <3> DEFINE n == Exec!Remember(registry, c)
    <3>1. registry' = n
      BY <2>2
    <3>2. /\ n \in Seq(Commands)
          /\ \A i \in 1 .. Len(n) :
                n[i] = c \/ \E j \in 1 .. Len(registry) : n[i] = registry[j]
      BY <1>1, RememberVouched
    <3> HIDE DEF n
    <3>3. performed[c] > 0
      BY <1>1, <2>2 DEF Vouched
    <3>4. \A i \in 1 .. Len(n) : performed[n[i]] > 0
      BY <1>1, <3>2, <3>3 DEF Vouched
    <3> QED
      BY <3>1, <3>2, <3>4
  <2> QED
    BY <1>2, <2>1, <2>2
<1>8. ExecTypes'
  BY <1>1, <1>2, <1>3, <1>4, <1>5, <1>6, <1>7 DEF ExecTypes
<1>9. Vouched'
  <2>1. \A d \in Commands : done'[d] > 0 => performed[d] > 0
    BY <1>1, <1>4 DEF Vouched
  <2> QED
    BY <1>2, <1>7, <2>1 DEF Vouched
<1> QED
  BY <1>1, <1>2, <1>8, <1>9 DEF Vouched

(* Every connection that waits may get an answer.                           *)
LEMMA AnswerInv ==
    ASSUME Inv, UNCHANGED <<clientVars, log, restarts>>, ExecTypes', Vouched',
           performed' = performed, NEW c, NEW f \in TrueFrames, ~Numbered(f),
           Answer(c, f)
    PROVE  Inv'
<1>1. /\ Types /\ sockets \in [Connections -> SocketType(TrueFrames)]
      /\ Contiguous(log) /\ LatestSequence(log) \in Nat
  BY ChannelFacts DEF Inv, Types
<1>2. /\ DOMAIN sockets' = Connections
      /\ sockets' = [k \in Connections |-> sockets'[k]]
      /\ \A k \in Connections :
            sockets'[k] = sockets[k] \/ sockets'[k] = Send(sockets[k], f)
  BY DEF Answer
<1>3. ASSUME NEW k \in Connections
      PROVE  /\ sockets'[k] \in SocketType(TrueFrames)
             /\ Served(sockets[k], sockets'[k])
             /\ restarts = 0 /\ Streaming /\ k = link.conn =>
                  Delivery(link.frame, cursor, LatestSequence(log'),
                           sockets'[k].down, sockets'[k].sendCursor)
  <2>1. sockets[k] \in SocketType(TrueFrames) /\ Served(sockets[k], sockets[k])
    BY <1>1 DEF Served
  <2>2. CASE sockets'[k] = sockets[k]
    <3>1. k = link.conn => Channel = sockets[k]
      BY <1>1, ChannelFacts, LinkAssumption
    <3> QED
      BY <2>1, <2>2, <3>1 DEF Streaming
  <2>3. CASE sockets'[k] = Send(sockets[k], f)
    BY <2>1, <2>3, WriteFacts
  <2> QED
    BY <1>2, <2>2, <2>3
<1>4. /\ Contiguous(log') /\ LatestSequence(log) <= LatestSequence(log')
      /\ \A d \in Commands : performed[d] > 0 => performed'[d] > 0
      /\ UNCHANGED <<clientVars, restarts>>
  BY <1>1
<1> QED
  BY <1>2, <1>3, <1>4, BridgeStep

(* Nothing happens on any connection.                                       *)
LEMMA SocketsRest ==
    ASSUME Inv, UNCHANGED <<clientVars, sockets, log, restarts>>, ExecTypes',
           Vouched', \A c \in Commands : performed[c] > 0 => performed'[c] > 0
    PROVE  Inv'
<1>1. /\ Types /\ sockets \in [Connections -> SocketType(TrueFrames)]
      /\ Contiguous(log) /\ LatestSequence(log) \in Nat
  BY ChannelFacts DEF Inv, Types
<1>2. ASSUME NEW k \in Connections
      PROVE  /\ sockets'[k] \in SocketType(TrueFrames)
             /\ Served(sockets[k], sockets'[k])
             /\ restarts = 0 /\ Streaming /\ k = link.conn =>
                  Delivery(link.frame, cursor, LatestSequence(log'),
                           sockets'[k].down, sockets'[k].sendCursor)
  <2>1. sockets'[k] = sockets[k] /\ sockets[k] \in SocketType(TrueFrames)
    BY <1>1
  <2>2. Served(sockets[k], sockets'[k])
    BY <2>1 DEF Served
  <2>3. k = link.conn => Channel = sockets[k]
    BY <1>1, ChannelFacts, LinkAssumption
  <2> QED
    BY <2>1, <2>2, <2>3 DEF Streaming
<1>3. /\ Contiguous(log') /\ LatestSequence(log) <= LatestSequence(log')
      /\ UNCHANGED <<clientVars, restarts>>
  BY <1>1
<1>4. DOMAIN sockets' = Connections
      /\ sockets' = [k \in Connections |-> sockets'[k]]
  BY <1>1
<1> QED
  BY <1>2, <1>3, <1>4, BridgeStep

LEMMA ExecuteInv ==
    ASSUME Inv, NEW c \in Commands, Execute(c) \/ ExecuteAdrift(c)
    PROVE  Inv'
<1>1. Types /\ UNCHANGED <<clientVars, log>>
  BY DEF Inv, Execute, ExecuteAdrift
<1>2. CASE (Exec!Perform(c) \/ Exec!PerformAdrift(c)) /\ UNCHANGED sockets
  BY <1>1, <1>2, PerformedTypes, SocketsRest
<1>3. CASE Exec!Succeed(c) /\ Answer(c, AckFrame(c))
  <2>1. /\ ExecTypes' /\ Vouched' /\ restarts' = restarts
        /\ performed' = performed /\ performed[c] > 0
    BY <1>1, <1>3, SettlementTypes
  <2>2. AckFrame(c) \in TrueFrames /\ ~Numbered(AckFrame(c))
    BY <2>1, FramesMade DEF TrueFrames, Numbered
  <2> QED
    BY <1>1, <1>3, <2>1, <2>2, AnswerInv
<1>4. CASE (Exec!Fail(c) \/ Exec!GiveUp(c) \/ Exec!FailLate(c))
           /\ Answer(c, ErrorFrame)
  <2>1. /\ ExecTypes' /\ Vouched' /\ restarts' = restarts
        /\ performed' = performed
    BY <1>1, <1>4, SettlementTypes
  <2>2. ErrorFrame \in TrueFrames /\ ~Numbered(ErrorFrame)
    BY FramesMade DEF TrueFrames, Numbered
  <2> QED
    BY <1>1, <1>4, <2>1, <2>2, AnswerInv
<1> QED
  BY <1>2, <1>3, <1>4 DEF Execute, ExecuteAdrift

(* A restart of the bridge: nothing remembered, nothing promised.           *)
LEMMA RestartBridgeInv == Inv /\ RestartBridge => Inv'
<1> SUFFICES ASSUME Inv, RestartBridge
             PROVE  Inv'
  OBVIOUS
<1>1. /\ Types /\ UNCHANGED clientVars /\ log' = EmptyLog
      /\ sockets' = [k \in Connections |-> Destroy(sockets[k])]
      /\ restarts' = restarts + 1 /\ registry' = <<>>
      /\ waiting' = [k \in Connections |-> NoCommand]
      /\ fresh' = [c \in Commands |-> 0] /\ done' = [c \in Commands |-> 0]
      /\ adrift' = [c \in Commands |-> 0] /\ performed' = performed
  BY DEF Inv, RestartBridge, Exec!Restart, Exec!Idle
<1>2. ExecTypes'
  BY <1>1 DEF Types, ExecTypes
<1>3. Vouched'
  BY <1>1 DEF Vouched
<1>4. \A k \in Connections :
          /\ sockets'[k] \in SocketType(TrueFrames)
          /\ sockets'[k].reader = sockets[k].reader
  <2> TAKE k \in Connections
  <2>1. sockets[k] \in SocketType(TrueFrames) /\ sockets'[k] = Destroy(sockets[k])
    BY <1>1 DEF Types
  <2> DEFINE s == sockets[k]
  <2> HIDE DEF s
  <2>2. Destroy(s) \in SocketType(TrueFrames) /\ Kept(s, Destroy(s))
    BY <2>1, DestroyFacts DEF s
  <2> QED
    BY <2>1, <2>2 DEF s, Kept
<1>5. TrueFrames' = TrueFrames
  BY <1>1 DEF TrueFrames
<1>6. sockets' \in [Connections -> SocketType(TrueFrames)]
  BY <1>1, <1>4
<1>7. Types'
  BY <1>1, <1>2, <1>3, <1>4, <1>5, <1>6, EmptyLogContiguous
     DEF Types, clientVars
<1>8. StreamInv'
  BY <1>1 DEF StreamInv, Types, ExecTypes
<1> QED
  BY <1>7, <1>8 DEF Inv

-----------------------------------------------------------------------------
(* Every step keeps the invariant.                                          *)
LEMMA NextInv == Inv /\ [Next]_vars => Inv'
<1> SUFFICES ASSUME Inv, [Next]_vars
             PROVE  Inv'
  OBVIOUS
<1>1. CASE Pump
  <2>1. ASSUME NEW k \in Connections, Connect(k)
        PROVE  Inv'
    BY <2>1, ConnectInv
  <2>2. CASE SendOutput
    BY <2>2, SendOutputInv
  <2>3. CASE PrepareCommand
    BY <2>3, PrepareInv
  <2>4. CASE Extract
    BY <2>4, ExtractInv
  <2>5. CASE ReadEnd
    BY <2>5, LoseInv
  <2> QED
    BY <1>1, <2>1, <2>2, <2>3, <2>4, <2>5 DEF Pump
<1>2. CASE PreparePing
  BY <1>2, PrepareInv
<1>3. CASE LoseConnection
  BY <1>3, LoseInv
<1>4. CASE HandleFrame
  BY <1>4, HandleFrameInv
<1>5. ASSUME NEW c \in Commands, Submit(c)
      PROVE  Inv'
  BY <1>5, SubmitInv
<1>6. ASSUME NEW c \in Commands, Execute(c) \/ ExecuteAdrift(c)
      PROVE  Inv'
  BY <1>6, ExecuteInv
<1>7. CASE RestartLink \/ Attach
  BY <1>7, RestartLinkInv
<1>8. CASE RestartBridge
  BY <1>8, RestartBridgeInv
<1>9. ASSUME NEW k \in Connections, Serve(k) \/ RefuseHello(k) \/ DropPeer(k)
      PROVE  Inv'
  <2>1. CASE ReadHello(k)
    BY <2>1, ReadHelloInv
  <2>2. CASE ReadPing(k) \/ RefuseHello(k)
    BY <2>2, ReadQuietInv
  <2>3. CASE ReadCommand(k)
    BY <2>3, ReadCommandInv
  <2>4. CASE Drain(k)
    BY <2>4, DrainInv
  <2>5. CASE NoticeLeft(k) \/ DropPeer(k)
    BY <2>5, DropInv
  <2> QED
    BY <1>9, <2>1, <2>2, <2>3, <2>4, <2>5 DEF Serve
<1>10. ASSUME NEW type \in EventTypes, Publish(type)
       PROVE  Inv'
  BY <1>10, PublishInv
<1>11. CASE UNCHANGED vars
  <2>1. UNCHANGED <<clientVars, sockets, log, execVars>>
    BY <1>11 DEF vars
  <2>2. UNCHANGED <<clientVars, sockets, log, restarts>>
    BY <2>1 DEF execVars
  <2> QED
    BY <2>1, <2>2, ExecUntouched, SocketsRest
<1> QED
  BY <1>1, <1>2, <1>3, <1>4, <1>5, <1>6, <1>7, <1>8, <1>9, <1>10, <1>11
     DEF Next

THEOREM Invariant == Spec => []Inv
<1>1. Init => Inv
  BY InitInv
<1>2. Inv /\ [Next]_vars => Inv'
  BY NextInv
<1> QED
  BY <1>1, <1>2, PTL DEF Spec

-----------------------------------------------------------------------------
(* What the client has not handled is the slot and the transit.             *)
LEMMA ComingIsAhead ==
    ASSUME Types
    PROVE  /\ Len(Coming) \in Nat
           /\ \A i \in 1 .. Len(Coming) :
                 \E j \in 0 .. Len(Channel.down) :
                    Coming[i] = Ahead(link.frame, Channel.down, j)
           /\ \A j \in 0 .. Len(Channel.down) :
                 Ahead(link.frame, Channel.down, j) # NoFrame =>
                    \E i \in 1 .. Len(Coming) :
                       Coming[i] = Ahead(link.frame, Channel.down, j)
<1> DEFINE h == link.frame
           d == Channel.down
           held == IF h = NoFrame THEN <<>> ELSE <<h>>
<1>1. d \in Seq(Frames) /\ Len(d) \in Nat /\ h \in Frames
  BY ChannelFacts DEF TrueFrames
<1>2. Coming = held \o d
  <2>1. CASE link.conn = NoConnection
    <3>1. d = <<>> /\ held \in Seq(Frames) /\ Coming = held
      BY <1>1, <2>1, FreshSockets DEF Coming, Channel
    <3> QED
      BY <3>1
  <2>2. CASE link.conn # NoConnection
    BY <2>2, ChannelFacts DEF Coming
  <2> QED
    BY <2>1, <2>2
<1> HIDE DEF h, d
<1>3. CASE h = NoFrame
  <2>1. Coming = d
    BY <1>1, <1>2, <1>3
  <2>2. \A j \in 1 .. Len(d) : Ahead(h, d, j) = d[j]
    BY DEF Ahead
  <2>3. Ahead(h, d, 0) = NoFrame
    BY <1>3 DEF Ahead
  <2> QED
    BY <1>1, <2>1, <2>2, <2>3 DEF h, d
<1>4. CASE h # NoFrame
  <2>1. held = <<h>> /\ held \in Seq(Frames) /\ Len(held) = 1
    BY <1>1, <1>4
  <2> HIDE DEF held
  <2>2. /\ Len(Coming) = Len(d) + 1
        /\ \A i \in 1 .. Len(d) + 1 :
              Coming[i] = IF i = 1 THEN h ELSE d[i - 1]
    BY <1>1, <1>2, <2>1
  <2>3. \A i \in 1 .. Len(Coming) :
            i - 1 \in 0 .. Len(d) /\ Coming[i] = Ahead(h, d, i - 1)
    BY <1>1, <2>2 DEF Ahead
  <2>4. \A j \in 0 .. Len(d) :
            j + 1 \in 1 .. Len(Coming) /\ Coming[j + 1] = Ahead(h, d, j)
    BY <1>1, <2>2 DEF Ahead
  <2> QED
    BY <1>1, <2>2, <2>3, <2>4 DEF h, d
<1> QED
  BY <1>3, <1>4

(* A set of numbers above a bound that holds the predecessor of each of its *)
(* members, but for the one next to the bound, is an interval.              *)
LEMMA DownClosedIsInterval ==
    ASSUME NEW c \in Nat, NEW l \in Nat, NEW S, S \subseteq c + 1 .. l,
           \A n \in S : n > c + 1 => n - 1 \in S
    PROVE  S = {} \/ \E m \in S : S = c + 1 .. m
<1> SUFFICES ASSUME S # {}
             PROVE  \E m \in S : S = c + 1 .. m
  OBVIOUS
<1>1. PICK m \in S : \A n \in S : n <= m
  <2> DEFINE T == {k \in Nat : l - k \in S}
  <2>1. PICK n \in S : TRUE
    OBVIOUS
  <2>2. n \in Nat /\ l - n \in Nat /\ l - (l - n) = n
    BY <2>1
  <2>3. T \in SUBSET Nat /\ l - n \in T
    BY <2>1, <2>2
  <2>4. \A k \in T : k \in Nat /\ l - k \in S
    OBVIOUS
  <2>5. \A o \in S : o \in Nat /\ l - o \in T
    OBVIOUS
  <2> HIDE DEF T
  <2>6. PICK k \in T : \A o \in T : k <= o
    BY <2>3, LeastNumber
  <2>7. l - k \in S /\ k \in Nat
    BY <2>4, <2>6
  <2>8. ASSUME NEW o \in S
        PROVE  o <= l - k
    BY <2>5, <2>6, <2>7
  <2> QED
    BY <2>7, <2>8
<1>2. m \in Nat /\ c < m
  OBVIOUS
<1> DEFINE D == {k \in Nat : k <= m - (c + 1) => m - k \in S}
<1>3. 0 \in D
  BY <1>2
<1>4. ASSUME NEW k \in Nat, k \in D
      PROVE  k + 1 \in D
  <2> SUFFICES ASSUME k + 1 <= m - (c + 1)
               PROVE  m - (k + 1) \in S
    OBVIOUS
  <2>1. m - k \in S /\ m - k > c + 1 /\ (m - k) - 1 = m - (k + 1)
    BY <1>2, <1>4
  <2> HIDE DEF D
  <2> QED
    BY <2>1
<1>5. Nat \subseteq D
  <2>1. \A k \in Nat : k \in D => k + 1 \in D
    BY <1>4
  <2> HIDE DEF D
  <2> QED
    BY <1>3, <2>1, SetInduction
<1>6. ASSUME NEW n \in c + 1 .. m
      PROVE  n \in S
  <2>1. m - n \in Nat /\ m - n <= m - (c + 1) /\ m - (m - n) = n
    BY <1>2
  <2>2. m - n \in D
    BY <1>5, <2>1
  <2> QED
    BY <2>1, <2>2
<1>7. S \subseteq c + 1 .. m
  BY <1>1, <1>2
<1> QED
  BY <1>6, <1>7

(* The invariant says what the runs check of the transit.                   *)
LEMMA StreamingIsContiguous ==
    ASSUME Types, Streaming
    PROVE  TransitIsContiguous
<1> DEFINE h == link.frame
           d == Channel.down
           l == LatestSequence(log)
           sent == IF link.conn = NoConnection THEN 0
                   ELSE sockets[link.conn].sendCursor
           news == {j \in 1 .. Len(Coming) :
                       /\ Coming[j].type = "event"
                       /\ Coming[j].event.sequence > cursor}
           ahead == {Coming[i].event.sequence : i \in news}
<1>1. /\ cursor \in Nat /\ l \in Nat /\ Len(d) \in Nat /\ cursor <= l
      /\ Delivery(h, cursor, l, d, Channel.sendCursor)
  BY ChannelFacts DEF Streaming
<1>2. /\ Len(Coming) \in Nat
      /\ \A i \in 1 .. Len(Coming) :
            \E j \in 0 .. Len(d) : Coming[i] = Ahead(h, d, j)
      /\ \A j \in 0 .. Len(d) : Ahead(h, d, j) # NoFrame =>
            \E i \in 1 .. Len(Coming) : Coming[i] = Ahead(h, d, j)
  BY ComingIsAhead
<1>3. sent = Channel.sendCursor
  BY ChannelFacts, FreshSockets DEF Channel
<1>4. \A f : f.type = "event" => Number(f) = f.event.sequence /\ f # NoFrame
  BY DEF Number, NoFrame
<1>5. ASSUME NEW j \in 0 .. Len(d), Ahead(h, d, j).type = "event",
             Number(Ahead(h, d, j)) > cursor
      PROVE  Number(Ahead(h, d, j)) \in ahead
  <2>1. PICK i \in 1 .. Len(Coming) : Coming[i] = Ahead(h, d, j)
    BY <1>2, <1>4, <1>5
  <2>2. /\ Coming[i].type = "event" /\ Coming[i].event.sequence > cursor
        /\ Number(Ahead(h, d, j)) = Coming[i].event.sequence
    BY <1>4, <1>5, <2>1
  <2> QED
    BY <2>2
<1>6. ASSUME NEW n \in ahead
      PROVE  \E j \in 0 .. Len(d) :
                /\ Ahead(h, d, j).type = "event"
                /\ Number(Ahead(h, d, j)) = n /\ n > cursor
  <2>1. PICK i \in news : n = Coming[i].event.sequence
    OBVIOUS
  <2>2. PICK j \in 0 .. Len(d) : Coming[i] = Ahead(h, d, j)
    BY <1>2
  <2> QED
    BY <1>4, <2>1, <2>2
<1> HIDE DEF ahead, h, d, l
<1>7. ahead \subseteq cursor + 1 .. l
  <2> SUFFICES ASSUME NEW n \in ahead
               PROVE  n \in cursor + 1 .. l
    OBVIOUS
  <2>1. PICK j \in 0 .. Len(d) :
            /\ Ahead(h, d, j).type = "event"
            /\ Number(Ahead(h, d, j)) = n /\ n > cursor
    BY <1>6
  <2>2. n \in Nat /\ n <= l
    BY <1>1, <2>1 DEF Delivery, Dated, Numbered
  <2> QED
    BY <1>1, <2>1, <2>2
<1>8. ASSUME NEW n \in ahead, n > cursor + 1
      PROVE  n - 1 \in ahead
  <2>1. PICK j \in 0 .. Len(d) :
            /\ Ahead(h, d, j).type = "event"
            /\ Number(Ahead(h, d, j)) = n /\ n > cursor
    BY <1>6
  <2>2. PICK i \in 0 .. j - 1 : /\ Ahead(h, d, i).type = "event"
                                /\ Number(Ahead(h, d, i)) = n - 1
    BY <1>1, <1>8, <2>1 DEF Delivery, Following
  <2>3. i \in 0 .. Len(d) /\ n - 1 > cursor
    BY <1>1, <1>7, <1>8
  <2> QED
    BY <1>5, <2>2, <2>3
<1>9. sent <= cursor \/ sent \in ahead
  <2>1. CASE Channel.sendCursor <= cursor
    BY <1>3, <2>1
  <2>2. CASE ~(Channel.sendCursor <= cursor)
    <3>1. PICK i \in 0 .. Len(d) :
              /\ Ahead(h, d, i).type = "event"
              /\ Number(Ahead(h, d, i)) = Channel.sendCursor
      BY <1>1, <2>2 DEF Delivery, Reached
    <3>2. Channel.sendCursor > cursor
      BY <1>1, <2>2, ChannelFacts
    <3> QED
      BY <1>3, <1>5, <3>1, <3>2
  <2> QED
    BY <2>1, <2>2
<1> HIDE DEF sent
<1>10. \E last \in cursor .. l :
           ahead = cursor + 1 .. last /\ (sent <= last \/ sent <= cursor)
  <2>1. CASE ahead = {}
    <3>1. cursor \in cursor .. l /\ cursor + 1 .. cursor = {}
      BY <1>1
    <3> QED
      BY <1>9, <2>1, <3>1
  <2>2. CASE ahead # {}
    <3>1. PICK m \in ahead : ahead = cursor + 1 .. m
      BY <1>1, <1>7, <1>8, <2>2, DownClosedIsInterval
    <3>2. m \in cursor .. l
      BY <1>1, <1>7
    <3>3. sent \in ahead => sent <= m
      BY <3>1
    <3> QED
      BY <1>9, <3>1, <3>2, <3>3
  <2> QED
    BY <2>1, <2>2
<1> QED
  BY <1>10 DEF TransitIsContiguous, ahead, sent, l

-----------------------------------------------------------------------------
(* The link's own state is well typed.                                      *)
THEOREM TypeCorrect == Spec => []TypeOK
<1>1. Inv => TypeOK
  <2> SUFFICES ASSUME Types
               PROVE  TypeOK
    BY DEF Inv
  <2>1. link \in LinkType(Frames)
    BY DEF Types, LinkType, TrueFrames
  <2>2. ASSUME NEW k \in Connections
        PROVE  /\ sockets[k].state \in {"open", "ended", "closed"}
               /\ sockets[k].reader <=> k = link.conn
               /\ sockets[k].bound \in BOOLEAN /\ sockets[k].blocked \in BOOLEAN
               /\ sockets[k].sendCursor \in Nat
               /\ \A i \in 1 .. Len(sockets[k].up) : sockets[k].up[i] \in Frames
               /\ \A i \in 1 .. Len(sockets[k].down) :
                     sockets[k].down[i] \in Frames
    <3>1. /\ sockets[k] \in SocketType(TrueFrames)
          /\ sockets[k].reader <=> k = link.conn
      BY DEF Types
    <3>2. sockets[k].up \in Seq(Frames) /\ sockets[k].down \in Seq(TrueFrames)
      BY <3>1 DEF SocketType
    <3>3. \A i \in 1 .. Len(sockets[k].down) : sockets[k].down[i] \in Frames
      BY <3>2 DEF TrueFrames
    <3> QED
      BY <3>1, <3>2, <3>3 DEF SocketType
  <2> QED
    BY <2>1, <2>2 DEF Types, TypeOK, LinkType
<1> QED
  BY <1>1, Invariant, PTL

(* No acknowledgement that is on its way, on any connection that was lost,  *)
(* resumed or answered twice, is for a command that did not take effect.    *)
THEOREM AcknowledgementsAreTrue == Spec => []AcksAreTrue
<1>1. Inv => AcksAreTrue
  <2> SUFFICES ASSUME Types, NEW i \in 1 .. Len(Coming),
                      Coming[i].type = "command.ack"
               PROVE  performed[Coming[i].command] > 0
    BY DEF Inv, AcksAreTrue
  <2>1. PICK j \in 0 .. Len(Channel.down) :
            Coming[i] = Ahead(link.frame, Channel.down, j)
    BY ComingIsAhead
  <2>2. Coming[i] \in TrueFrames
    <3>1. \A m \in 1 .. Len(Channel.down) : Channel.down[m] \in TrueFrames
      BY ChannelFacts
    <3>2. j # 0 => j \in 1 .. Len(Channel.down)
      BY ChannelFacts
    <3> QED
      BY <2>1, <3>1, <3>2, ChannelFacts DEF Ahead
  <2> QED
    BY <2>2 DEF TrueFrames
<1> QED
  BY <1>1, Invariant, PTL

(* Until the bridge restarts, what the client has not applied yet continues *)
(* at its cursor without a gap, however often the link was lost, resumed,   *)
(* backpressured or sent to a resync.                                       *)
THEOREM TransitContinues == Spec => [](restarts = 0 => TransitIsContiguous)
<1>1. Inv => (restarts = 0 => TransitIsContiguous)
  BY StreamingIsContiguous DEF Inv, StreamInv
<1> QED
  BY <1>1, Invariant, PTL

(* Until the bridge restarts, the reader of the response area never misses  *)
(* an event unknowingly.                                                    *)
THEOREM GapsAreMarked == Spec => [](restarts = 0 => NoSilentGap)
<1>1. Inv => (restarts = 0 => NoSilentGap)
  <2> SUFFICES ASSUME Streaming, NEW i \in 1 .. Len(shown) - 1
               PROVE  /\ shown[i + 1].sequence = shown[i].sequence + 1
                      /\ shown[i + 1].run = shown[i].run
    BY DEF Inv, StreamInv, NoSilentGap
  <2>1. i \in 1 .. Len(shown) /\ i + 1 \in 1 .. Len(shown)
    OBVIOUS
  <2> QED
    BY <2>1 DEF Streaming
<1> QED
  BY <1>1, Invariant, PTL

-----------------------------------------------------------------------------
(* The bridge's part of the link is CommandExecution: whatever happens on   *)
(* the connections, each step of the link starts, joins, answers, carries   *)
(* out, settles or abandons one command the way that module says, restarts  *)
(* the bridge, or leaves its commands alone.                                *)
LEMMA StepsExecute == Inv /\ [Next]_vars => [Exec!Next]_(Exec!vars)
<1> SUFFICES ASSUME Inv, [Next]_vars
             PROVE  Exec!Next \/ UNCHANGED Exec!vars
  OBVIOUS
<1>1. UNCHANGED execVars => UNCHANGED Exec!vars
  BY DEF execVars, Exec!vars, Exec!execVars, Exec!historyVars
<1>2. ASSUME NEW k \in Connections, Connect(k)
      PROVE  Exec!Next \/ UNCHANGED Exec!vars
  <2>1. /\ waiting' = [waiting EXCEPT ![k] = NoCommand]
        /\ waiting \in [Connections -> Commands \cup {NoCommand}]
        /\ UNCHANGED <<registry, inFlight, fresh, done, adrift, performed,
                       accepted, order, excused, acked, starts, restarts>>
    BY <1>2 DEF Connect, Inv, Types, ExecTypes
  <2>2. CASE waiting[k] = NoCommand
    <3>1. waiting' = waiting
      BY <2>1, <2>2
    <3> QED
      BY <2>1, <3>1 DEF Exec!vars, Exec!execVars, Exec!historyVars
  <2>3. CASE waiting[k] # NoCommand
    <3>1. Exec!Abandon(k)
      BY <2>1, <2>3 DEF Exec!Abandon, Exec!historyVars
    <3> QED
      BY <3>1 DEF Exec!Next
  <2> QED
    BY <2>2, <2>3
<1>3. ASSUME NEW k \in Connections, ReadCommand(k)
      PROVE  Exec!Next \/ UNCHANGED Exec!vars
  <2> DEFINE c == Head(sockets[k].up).command
  <2>1. c \in Commands
    BY <1>3, ReadFacts, FrameFields DEF ReadCommand, Inv
  <2>2. UNCHANGED execVars \/ Exec!Call(k, c)
    BY <1>3 DEF ReadCommand, Exec!Call
  <2> HIDE DEF c
  <2>3. Exec!Call(k, c) => Exec!Next
    BY <2>1 DEF Exec!Next
  <2> QED
    BY <1>1, <2>2, <2>3
<1>4. ASSUME NEW c \in Commands, Execute(c) \/ ExecuteAdrift(c)
      PROVE  Exec!Next
  BY <1>4 DEF Execute, ExecuteAdrift, Exec!Next, Exec!SettleSomehow
<1>5. CASE RestartBridge
  BY <1>5 DEF RestartBridge, Exec!Next
<1>6. CASE \/ SendOutput \/ PrepareCommand \/ Extract \/ ReadEnd
           \/ PreparePing \/ LoseConnection \/ HandleFrame
           \/ RestartLink \/ Attach
  <2>1. UNCHANGED execVars
    BY <1>6 DEF SendOutput, PrepareCommand, Extract, ReadEnd, PreparePing,
                LoseConnection, HandleFrame, RestartLink, Attach
  <2> QED
    BY <1>1, <2>1
<1>7. ASSUME NEW c \in Commands, Submit(c)
      PROVE  UNCHANGED Exec!vars
  BY <1>1, <1>7 DEF Submit
<1>8. ASSUME NEW k \in Connections,
             \/ ReadHello(k) \/ ReadPing(k) \/ Drain(k) \/ NoticeLeft(k)
             \/ RefuseHello(k) \/ DropPeer(k)
      PROVE  UNCHANGED Exec!vars
  BY <1>1, <1>8 DEF ReadHello, ReadPing, Drain, NoticeLeft, RefuseHello,
                    DropPeer
<1>9. ASSUME NEW type \in EventTypes, Publish(type)
      PROVE  UNCHANGED Exec!vars
  BY <1>1, <1>9 DEF Publish
<1>10. CASE UNCHANGED vars
  BY <1>1, <1>10 DEF vars
<1> QED
  BY <1>2, <1>3, <1>4, <1>5, <1>6, <1>7, <1>8, <1>9, <1>10
     DEF Next, Pump, Serve

THEOREM LinkExecutesCommands == Spec => Exec!Init /\ [][Exec!Next]_(Exec!vars)
<1>1. Init => Exec!Init
  BY DEF Init
<1>2. Inv /\ [Next]_vars => [Exec!Next]_(Exec!vars)
  BY StepsExecute
<1> QED
  BY <1>1, <1>2, Invariant, PTL DEF Spec
=============================================================================
