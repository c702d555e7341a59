-------------------------- MODULE TransactionProofs --------------------------
(***************************************************************************)
(* Proofs about the two transactions of the 3DS: the control transaction   *)
(* with the task list (ClientTasks), for any tasks of the bridge and any   *)
(* size of the list and of its windows, and the media transaction          *)
(* (MediaStream), for any size of the ring, of the buffer, of a photo and  *)
(* of the longest recording.                                               *)
(***************************************************************************)
EXTENDS ClientTasks, MediaStream, CommonLemmas, SequenceTheorems

-----------------------------------------------------------------------------
(***************************************************************************)
(* ClientTasks: the control transaction has one owner, what succeeded is   *)
(* the answer to its request, and the rail shows the task that is open.    *)
(*                                                                         *)
(* The argument: the connection never holds more than the one request that *)
(* is outstanding, or its answer, for whatever abandons a request that was *)
(* sent closes the connection.  So a loop that finds its request done has  *)
(* the rows or the session it asked for.                                   *)
(***************************************************************************)

Requests == SlotRequests \ {NoRequest}

(* What the bridge lists: known tasks, each once. *)
Bodies ==
    {body \in Seq([id : Sessions, last : 0..MaxSequence]) :
        \A i, j \in DOMAIN body : body[i].id = body[j].id => i = j}

Refusals(r) == [to : {r}, ok : {FALSE}, reusable : {TRUE}]

(* What the bridge may answer to a request. *)
Grants(r) ==
    CASE r.type = "list" ->
            [to : {r}, ok : {TRUE}, reusable : BOOLEAN, rows : Bodies]
      [] r.type = "resume" -> [to : {r}, ok : {TRUE}, reusable : {TRUE}]
      [] r.type = "start" ->
            [to : {r}, ok : {TRUE}, reusable : {TRUE}, session : Sessions]

AnswersTo(r) == Refusals(r) \cup Grants(r)

Answers == {NoAnswer, EndOfLine} \cup UNION {AnswersTo(r) : r \in Requests}

Slots ==
    [phase : {"idle", "connecting", "sending", "receiving", "succeeded", "failed"},
     request : SlotRequests, answer : Answers, open : BOOLEAN,
     up : Seq(SlotRequests), down : Seq(Answers)]

(* What is on the line: nothing of an earlier request, and of the present   *)
(* one either the request or its answer; the end of the line may follow.    *)
Quiet(s) == s.up = <<>> /\ s.down \in {<<>>, <<EndOfLine>>}

Outstanding(s) ==
    \/ s.up = <<s.request>> /\ s.down \in {<<>>, <<EndOfLine>>}
    \/ s.up = <<>> /\ s.down = <<EndOfLine>>
    \/ /\ s.up = <<>>
       /\ \E a \in AnswersTo(s.request) : s.down \in {<<a>>, <<a, EndOfLine>>}

SlotOK(s) ==
    /\ s \in Slots
    /\ ~s.open => s.up = <<>> /\ s.down = <<>>
    /\ InProgress(s) => s.open
    /\ s.phase # "idle" => s.request \in Requests
    /\ s.phase = "receiving" => Outstanding(s)
    /\ s.phase # "receiving" => Quiet(s)
    /\ s.phase = "succeeded" => s.answer \in Grants(s.request)

-----------------------------------------------------------------------------
(* The rest of the client and the bridge.                                   *)
Rowset == [id : Sessions, unread : BOOLEAN, seen : Nat]

Lists ==
    {rows \in Seq(Rowset) :
        /\ Len(rows) <= TaskLimit
        /\ \A i, j \in DOMAIN rows : rows[i].id = rows[j].id => i = j}

Orders == {o \in Seq(Sessions) : \A i, j \in DOMAIN o : o[i] = o[j] => i = j}

Types ==
    /\ screen \in {"home", "manager", "retry", "agent"}
    /\ wait \in [for : {"nothing", "load", "resume", "start", "relist"},
                 begun : BOOLEAN, target : Nat]
    /\ SlotOK(slot)
    /\ refreshing \in BOOLEAN
    /\ tasks \in Lists
    /\ active \in 0..Len(tasks) /\ selected \in 1..TaskLimit + 1
    /\ current \in Sessions \cup {NoSession}
    /\ link \in Sessions \cup {NoSession}
    /\ cursor \in 0..MaxSequence
    /\ order \in Orders
    /\ last \in [Sessions -> 0..MaxSequence]

(* The one transaction has one owner. *)
Owned ==
    /\ slot.phase # "idle" => wait.begun \/ refreshing
    /\ wait.begun => slot.phase # "idle"
    /\ wait # NotWaiting => ~refreshing
    /\ refreshing => screen = "home" \/ slot.phase # "idle"

(* The owner's request is the one in the slot. *)
Asked ==
    /\ wait.for = "nothing" => wait = NotWaiting
    /\ wait # NotWaiting => screen \in {"manager", "agent"}
    /\ wait.for = "load" => screen = "manager"
    /\ wait.for = "resume" => wait.target \in DOMAIN tasks
    /\ wait.for = "relist" => current \in Sessions
    /\ wait.begun =>
          /\ wait.for \in {"load", "relist"} => slot.request = ListRequest
          /\ wait.for = "resume" =>
                slot.request = ResumeRequest(tasks[wait.target].id)
          /\ wait.for = "start" => slot.request = StartRequest
    /\ refreshing /\ slot.phase # "idle" => slot.request = ListRequest

(* The agent loop is about the open task, also while it waits to leave it:  *)
(* only when a new one was started is the rail behind.                      *)
Open ==
    /\ screen = "agent" => current \in Sessions
    /\ Running => link = current
    /\ screen = "agent" /\ wait.for # "relist" /\ active # 0 =>
          tasks[active].id = current /\ ~tasks[active].unread

Inv == Types /\ Owned /\ Asked /\ Open

-----------------------------------------------------------------------------
(* The connection and the transaction.                                      *)

(* Answers are answers, and none is the end of the line.                    *)
LEMMA AnswerFacts ==
    ASSUME NEW r \in Requests, NEW a \in AnswersTo(r)
    PROVE  /\ a \in Answers /\ a # EndOfLine /\ a.to = r
           /\ a.ok \in BOOLEAN /\ a.reusable \in BOOLEAN
           /\ a.ok => a \in Grants(r)
<1>1. r # NoRequest /\ r.type \in {"list", "resume", "start"}
  <2>1. \/ r = ListRequest \/ r = StartRequest
        \/ \E s \in Sessions : r = ResumeRequest(s)
    BY DEF Requests, SlotRequests
  <2>2. r.type \in {"list", "resume", "start"}
    BY <2>1 DEF ListRequest, StartRequest, ResumeRequest
  <2> QED
    BY <2>2 DEF Requests
<1>2. a \in Answers
  BY DEF Answers
<1>3. CASE a \in Refusals(r)
  <2>1. a.to = r /\ a.ok = FALSE /\ a.reusable = TRUE
    BY <1>3 DEF Refusals
  <2>2. a # EndOfLine
    BY <1>1, <2>1 DEF EndOfLine
  <2> QED
    BY <1>2, <2>1, <2>2
<1>4. CASE a \in Grants(r)
  <2>1. a.to = r /\ a.ok = TRUE /\ a.reusable \in BOOLEAN
    <3>1. CASE r.type = "list"
      BY <1>4, <3>1 DEF Grants
    <3>2. CASE r.type = "resume"
      BY <1>4, <3>2 DEF Grants
    <3>3. CASE r.type = "start"
      BY <1>4, <3>3 DEF Grants
    <3> QED
      BY <1>1, <3>1, <3>2, <3>3
  <2>2. a # EndOfLine
    BY <1>1, <2>1 DEF EndOfLine
  <2> QED
    BY <1>2, <1>4, <2>1, <2>2
<1> QED
  BY <1>3, <1>4 DEF AnswersTo

(* A slot that is cleared and whose line is quiet is free.                  *)
LEMMA ClearHolds ==
    ASSUME NEW s \in Slots, Quiet(s), ~s.open => s.down = <<>>
    PROVE  SlotOK(Clear(s)) /\ Clear(s).phase = "idle"
<1>1. NoRequest \in SlotRequests /\ NoAnswer \in Answers
  BY DEF SlotRequests, Answers
<1>2. Clear(s) \in Slots
  BY <1>1 DEF Clear, Slots
<1> DEFINE c == Clear(s)
<1>3. /\ c \in Slots /\ c.phase = "idle" /\ c.open = s.open
      /\ c.up = s.up /\ c.down = s.down
  BY <1>2 DEF Clear, Slots
<1> HIDE DEF c
<1>4. SlotOK(c) /\ c.phase = "idle"
  BY <1>3 DEF SlotOK, Quiet, InProgress
<1> QED
  BY <1>4 DEF c

(* Closing it empties it. *)
LEMMA CloseLineHolds ==
    ASSUME NEW s \in Slots
    PROVE  LET c == CloseLine(s)
           IN  /\ c \in Slots
               /\ ~c.open /\ c.up = <<>> /\ c.down = <<>>
               /\ c.phase = s.phase /\ c.request = s.request /\ c.answer = s.answer
<1>1. <<>> \in Seq(SlotRequests) /\ <<>> \in Seq(Answers)
  OBVIOUS
<1>2. CloseLine(s) \in Slots
  BY <1>1 DEF CloseLine, Slots
<1>3. /\ ~CloseLine(s).open
      /\ CloseLine(s).up = <<>> /\ CloseLine(s).down = <<>>
  BY DEF CloseLine, Slots
<1>4. /\ CloseLine(s).phase = s.phase /\ CloseLine(s).request = s.request
      /\ CloseLine(s).answer = s.answer
  BY DEF CloseLine, Slots
<1> QED
  BY <1>2, <1>3, <1>4

(* Cancelling frees the slot.                                               *)
LEMMA CancelHolds ==
    ASSUME NEW s, SlotOK(s)
    PROVE  SlotOK(Cancel(s)) /\ Cancel(s).phase = "idle"
<1>1. s \in Slots
  BY DEF SlotOK
<1>2. CASE InProgress(s)
  <2> DEFINE c == CloseLine(s)
  <2>1. c \in Slots /\ c.up = <<>> /\ c.down = <<>>
    BY <1>1, CloseLineHolds
  <2>2. Cancel(s) = Clear(c)
    BY <1>2 DEF Cancel
  <2> HIDE DEF c
  <2> QED
    BY <2>1, <2>2, ClearHolds DEF Quiet
<1>3. CASE ~InProgress(s)
  <2>1. Quiet(s) /\ (~s.open => s.down = <<>>)
    BY <1>3 DEF SlotOK, InProgress
  <2>2. Cancel(s) = Clear(s)
    BY <1>3 DEF Cancel
  <2> QED
    BY <1>1, <2>1, <2>2, ClearHolds
<1> QED
  BY <1>2, <1>3

(* So does taking the result of one that is done.                           *)
LEMMA ConsumeHolds ==
    ASSUME NEW s, SlotOK(s), s.phase \in {"succeeded", "failed"}
    PROVE  SlotOK(Consume(s)) /\ Consume(s).phase = "idle"
<1>1. s \in Slots /\ Quiet(s) /\ (~s.open => s.down = <<>>)
  BY DEF SlotOK
<1>2. Consume(s) = Clear(s)
  BY DEF Consume
<1> QED
  BY <1>1, <1>2, ClearHolds

(* So does leaving for the start screen.                                    *)
LEMMA ResetHolds ==
    ASSUME NEW s, SlotOK(s)
    PROVE  SlotOK(Reset(s)) /\ Reset(s).phase = "idle"
<1> DEFINE c == Cancel(s)
<1>1. SlotOK(c) /\ c.phase = "idle"
  BY CancelHolds
<1>2. Reset(s) = CloseLine(c)
  BY DEF Reset
<1> HIDE DEF c
<1> DEFINE e == CloseLine(c)
<1>3. e \in Slots /\ e.up = <<>> /\ e.down = <<>> /\ e.phase = c.phase
  BY <1>1, CloseLineHolds DEF SlotOK
<1> HIDE DEF e
<1>4. SlotOK(e) /\ e.phase = "idle"
  BY <1>1, <1>3 DEF SlotOK, Quiet, InProgress
<1> QED
  BY <1>2, <1>4 DEF e

(* A request that begins is the one in the slot; one that does not leaves   *)
(* the slot as it was.                                                      *)
LEMMA BeginHolds ==
    ASSUME NEW s, SlotOK(s), s.phase = "idle", NEW r \in Requests,
           NEW b \in BeginRequest(s, r)
    PROVE  /\ SlotOK(b.slot) /\ b.ok \in BOOLEAN
           /\ b.ok => b.slot.phase # "idle" /\ b.slot.request = r
           /\ ~b.ok => b.slot = s
<1> DEFINE taken == [s EXCEPT !.request = r, !.open = TRUE,
                              !.phase = IF s.open THEN "sending"
                                        ELSE "connecting"]
<1>1. s \in Slots /\ Quiet(s) /\ r \in SlotRequests
  BY DEF SlotOK, Requests
<1>2. taken \in Slots
  BY <1>1 DEF Slots
<1>3. /\ taken.request = r /\ taken.open = TRUE
      /\ taken.phase \in {"sending", "connecting"}
      /\ taken.up = s.up /\ taken.down = s.down
  BY <1>1 DEF Slots
<1>4. b \in {[ok |-> TRUE, slot |-> taken], [ok |-> FALSE, slot |-> s]}
  BY DEF BeginRequest
<1> HIDE DEF taken
<1>5. SlotOK(taken)
  BY <1>1, <1>2, <1>3 DEF SlotOK, Quiet, InProgress
<1>6. CASE b = [ok |-> TRUE, slot |-> taken]
  BY <1>3, <1>5, <1>6
<1>7. CASE b = [ok |-> FALSE, slot |-> s]
  BY <1>7
<1> QED
  BY <1>4, <1>6, <1>7

(* A failure closes the connection.                                         *)
LEMMA FailHolds ==
    ASSUME NEW s \in Slots, s.request \in Requests
    PROVE  /\ SlotOK(Fail(s)) /\ Fail(s).phase = "failed"
           /\ Fail(s).request = s.request
<1> DEFINE c == CloseLine(s)
           f == [c EXCEPT !.phase = "failed"]
<1>1. c \in Slots /\ ~c.open /\ c.up = <<>> /\ c.down = <<>> /\ c.request = s.request
  BY CloseLineHolds
<1>2. Fail(s) = f
  BY DEF Fail
<1> HIDE DEF c
<1>3. /\ f \in Slots /\ f.phase = "failed" /\ f.open = c.open /\ f.up = c.up
      /\ f.down = c.down /\ f.request = c.request
  BY <1>1 DEF Slots
<1> HIDE DEF f
<1>4. SlotOK(f)
  BY <1>1, <1>3 DEF SlotOK, Quiet, InProgress
<1> QED
  BY <1>1, <1>2, <1>3, <1>4

(* Pumping keeps the request; a done request is an answered one.            *)
LEMMA SentHolds ==
    ASSUME NEW s, SlotOK(s), s.phase = "sending"
    PROVE  /\ SlotOK(Sent(s)) /\ Sent(s).phase = "receiving"
           /\ Sent(s).request = s.request
<1> DEFINE u == Append(s.up, s.request)
           n == [s EXCEPT !.phase = "receiving", !.up = u]
<1>1. /\ s \in Slots /\ s.open /\ s.up = <<>> /\ s.down \in {<<>>, <<EndOfLine>>}
      /\ s.request \in Requests /\ s.request \in SlotRequests
  BY DEF SlotOK, Quiet, InProgress, Requests
<1>2. u \in Seq(SlotRequests) /\ u = <<s.request>>
  BY <1>1
<1>3. Sent(s) = n
  BY DEF Sent, Slots
<1> HIDE DEF u
<1>4. n \in Slots
  BY <1>1, <1>2 DEF Slots
<1>5. /\ n.phase = "receiving" /\ n.up = u /\ n.down = s.down
      /\ n.open = s.open /\ n.request = s.request
  BY <1>1 DEF Slots
<1> HIDE DEF n
<1>6. Outstanding(n)
  BY <1>1, <1>2, <1>5 DEF Outstanding
<1>7. SlotOK(n)
  BY <1>1, <1>4, <1>5, <1>6 DEF SlotOK, InProgress
<1> QED
  BY <1>3, <1>5, <1>7

(* Reading what has come keeps the line in order and the request.           *)
LEMMA ReceivedHolds ==
    ASSUME NEW s, SlotOK(s), s.phase = "receiving", s.down # <<>>
    PROVE  /\ SlotOK(Received(s)) /\ Received(s).phase # "idle"
           /\ Received(s).request = s.request
<1> DEFINE a == Head(s.down)
           t == Tail(s.down)
           read == [s EXCEPT !.down = t, !.answer = a]
<1>1. s \in Slots /\ s.open /\ s.request \in Requests /\ Outstanding(s)
  BY DEF SlotOK, InProgress
<1>2. a \in Answers /\ t \in Seq(Answers)
  BY <1>1 DEF Slots
<1>3. ~a.ok \/ (/\ s.up = <<>> /\ t \in {<<>>, <<EndOfLine>>}
                /\ a \in AnswersTo(s.request))
  <2>1. CASE s.down = <<EndOfLine>>
    BY <2>1 DEF EndOfLine
  <2>2. CASE s.down # <<EndOfLine>>
    <3>1. s.up = <<>>
      BY <1>1, <2>2 DEF Outstanding
    <3>2. PICK x \in AnswersTo(s.request) : s.down \in {<<x>>, <<x, EndOfLine>>}
      BY <1>1, <2>2 DEF Outstanding
    <3>3. a = x /\ t \in {<<>>, <<EndOfLine>>}
      <4>1. CASE s.down = <<x>>
        BY <4>1
      <4>2. CASE s.down = <<x, EndOfLine>>
        BY <4>2
      <4> QED
        BY <3>2, <4>1, <4>2
    <3> QED
      BY <3>1, <3>2, <3>3
  <2> QED
    BY <2>1, <2>2
<1> HIDE DEF a, t
<1>4. /\ read \in Slots
      /\ read.down = t /\ read.answer = a /\ read.up = s.up
      /\ read.request = s.request /\ read.open = s.open
  BY <1>1, <1>2 DEF Slots
<1> HIDE DEF read
<1>5. Received(s) =
          IF ~a.ok THEN Fail(read)
          ELSE [(IF a.reusable THEN read ELSE CloseLine(read))
                   EXCEPT !.phase = "succeeded"]
  BY DEF Received, a, t, read
<1>6. CASE ~a.ok
  BY <1>1, <1>4, <1>5, <1>6, FailHolds
<1>7. CASE a.ok
  <2> DEFINE l == IF a.reusable THEN read ELSE CloseLine(read)
             n == [l EXCEPT !.phase = "succeeded"]
  <2>1. a \in Grants(s.request) /\ s.up = <<>> /\ t \in {<<>>, <<EndOfLine>>}
    BY <1>1, <1>3, <1>7, AnswerFacts
  <2>2. /\ l \in Slots /\ Quiet(l) /\ (~l.open => l.down = <<>>)
        /\ l.request = s.request /\ l.answer = a
    <3>1. CASE a.reusable
      BY <1>1, <1>4, <2>1, <3>1 DEF Quiet
    <3>2. CASE ~a.reusable
      BY <1>4, <3>2, CloseLineHolds DEF Quiet
    <3> QED
      BY <3>1, <3>2
  <2>3. Received(s) = n
    BY <1>5, <1>7
  <2> HIDE DEF l
  <2>4. /\ n \in Slots /\ n.phase = "succeeded" /\ n.open = l.open
        /\ n.up = l.up /\ n.down = l.down /\ n.request = l.request
        /\ n.answer = l.answer
    BY <2>2 DEF Slots
  <2> HIDE DEF n
  <2>5. SlotOK(n)
    BY <1>1, <2>1, <2>2, <2>4 DEF SlotOK, Quiet, InProgress
  <2> QED
    BY <2>2, <2>3, <2>4, <2>5
<1> QED
  BY <1>6, <1>7

(* One step of pump_control() keeps the line in order and the request.      *)
LEMMA PumpHolds ==
    ASSUME NEW s, SlotOK(s), NEW n \in Pump(s)
    PROVE  SlotOK(n) /\ n.phase # "idle" /\ n.request = s.request
<1>1. s \in Slots /\ InProgress(s) /\ s.request \in Requests
  BY DEF Pump, Progress, InProgress, SlotOK
<1>2. CASE s.phase = "connecting" /\ n = [s EXCEPT !.phase = "sending"]
  <2> DEFINE m == [s EXCEPT !.phase = "sending"]
  <2>1. /\ m \in Slots /\ m.phase = "sending" /\ m.open = s.open /\ m.up = s.up
        /\ m.down = s.down /\ m.request = s.request
    BY <1>1 DEF Slots
  <2> HIDE DEF m
  <2>2. SlotOK(m)
    BY <1>2, <2>1 DEF SlotOK, Quiet, InProgress
  <2> QED
    BY <1>2, <2>1, <2>2 DEF m
<1>3. CASE s.phase = "sending" /\ n = Sent(s)
  BY <1>3, SentHolds
<1>4. CASE s.phase = "receiving" /\ s.down # <<>> /\ n = Received(s)
  BY <1>4, ReceivedHolds
<1>5. CASE n = Fail(s)
  BY <1>1, <1>5, FailHolds
<1> QED
  BY <1>1, <1>2, <1>3, <1>4, <1>5 DEF Pump, Progress, InProgress

(* The bridge answers the request of the transaction, which waits for it.   *)
LEMMA ServeHolds ==
    ASSUME NEW s, SlotOK(s), s.up # <<>>, ~Ended(s)
    PROVE  /\ Head(s.up) = s.request /\ s.request \in Requests
           /\ \A a \in AnswersTo(s.request) :
                 /\ SlotOK(Serve(s, a))
                 /\ Serve(s, a).phase = s.phase
                 /\ Serve(s, a).request = s.request
<1>1. /\ s \in Slots /\ s.phase = "receiving" /\ s.open
      /\ s.request \in Requests /\ Outstanding(s)
  BY DEF SlotOK, Quiet, InProgress
<1>2. s.down # <<EndOfLine>>
  BY DEF Ended, Last
<1>3. s.up = <<s.request>> /\ s.down = <<>>
  BY <1>1, <1>2 DEF Outstanding
<1>4. ASSUME NEW a \in AnswersTo(s.request)
      PROVE  /\ SlotOK(Serve(s, a))
             /\ Serve(s, a).phase = s.phase
             /\ Serve(s, a).request = s.request
  <2> DEFINE u == Tail(s.up)
             d == Append(s.down, a)
             n == [s EXCEPT !.up = u, !.down = d]
  <2>1. a \in Answers
    BY <1>1, AnswerFacts
  <2>2. /\ u \in Seq(SlotRequests) /\ u = <<>>
        /\ d \in Seq(Answers) /\ d = <<a>>
    BY <1>3, <2>1
  <2>3. Serve(s, a) = n
    BY DEF Serve
  <2> HIDE DEF u, d
  <2>4. /\ n \in Slots /\ n.phase = s.phase /\ n.open = s.open
        /\ n.up = u /\ n.down = d /\ n.request = s.request
    BY <1>1, <2>2 DEF Slots
  <2> HIDE DEF n
  <2>5. SlotOK(n)
    BY <1>1, <2>2, <2>4 DEF SlotOK, Outstanding, InProgress
  <2> QED
    BY <2>3, <2>4, <2>5
<1> QED
  BY <1>1, <1>3, <1>4

LEMMA PairByAppend ==
    ASSUME NEW S, NEW a \in S, NEW b \in S
    PROVE  Append(<<a>>, b) = <<a, b>>
<1> DEFINE n == Append(<<a>>, b)
<1>1. n \in Seq(S) /\ Len(n) = 2 /\ n[1] = a /\ n[2] = b
  BY <<a>> \in Seq(S)
<1> HIDE DEF n
<1>2. n = <<a, b>>
  BY <1>1
<1> QED
  BY <1>2 DEF n

(* A connection that ends brings no answer it had not brought before.       *)
LEMMA EndLineHolds ==
    ASSUME NEW s, SlotOK(s)
    PROVE  /\ SlotOK(EndLine(s)) /\ EndLine(s).phase = s.phase
           /\ EndLine(s).request = s.request
<1>1. CASE ~s.open \/ Ended(s)
  BY <1>1 DEF EndLine
<1>2. CASE s.open /\ ~Ended(s)
  <2> DEFINE d == Append(s.down, EndOfLine)
             n == [s EXCEPT !.up = <<>>, !.down = d]
  <2>1. s \in Slots /\ EndOfLine \in Answers /\ <<>> \in Seq(SlotRequests)
    BY DEF SlotOK, Answers
  <2>2. s.down # <<EndOfLine>>
    BY <1>2 DEF Ended, Last
  <2>3. d \in Seq(Answers)
    BY <2>1 DEF Slots
  <2>4. EndLine(s) = n
    BY <1>2 DEF EndLine
  <2>5. /\ s.phase # "receiving" => d = <<EndOfLine>>
        /\ s.phase = "receiving" =>
              \/ d = <<EndOfLine>>
              \/ \E a \in AnswersTo(s.request) : d = <<a, EndOfLine>>
    <3>1. CASE s.phase # "receiving"
      <4>1. s.down = <<>>
        BY <2>2, <3>1 DEF SlotOK, Quiet
      <4>2. d = <<EndOfLine>>
        BY <4>1
      <4> QED
        BY <3>1, <4>2
    <3>2. CASE s.phase = "receiving" /\ s.down = <<>>
      BY <3>2
    <3>3. CASE s.phase = "receiving" /\ s.down # <<>>
      <4>1. PICK a \in AnswersTo(s.request) : s.down \in {<<a>>, <<a, EndOfLine>>}
        BY <2>2, <3>3 DEF SlotOK, Outstanding
      <4>2. s.down # <<a, EndOfLine>>
        BY <1>2 DEF Ended, Last
      <4>3. s.down = <<a>> /\ EndOfLine \in Answers /\ a \in Answers
        BY <2>1, <3>3, <4>1, <4>2, AnswerFacts DEF SlotOK
      <4>4. d = <<a, EndOfLine>>
        BY <4>3, PairByAppend
      <4> QED
        BY <3>3, <4>4
    <3> QED
      BY <3>1, <3>2, <3>3
  <2> HIDE DEF d
  <2>6. /\ n \in Slots /\ n.phase = s.phase /\ n.open = s.open
        /\ n.up = <<>> /\ n.down = d /\ n.request = s.request /\ n.answer = s.answer
    BY <2>1, <2>3 DEF Slots
  <2> HIDE DEF n
  <2>7. n.phase = "receiving" => Outstanding(n)
    BY <2>5, <2>6 DEF Outstanding
  <2>8. SlotOK(n)
    BY <1>2, <2>5, <2>6, <2>7 DEF SlotOK, Quiet, InProgress
  <2> QED
    BY <2>4, <2>6, <2>8
<1> QED
  BY <1>1, <1>2

-----------------------------------------------------------------------------
(* The task list.                                                           *)

LEMMA MinOfTwo ==
    ASSUME NEW m \in Int, NEW n \in Int
    PROVE  Min({m, n}) = IF m <= n THEN m ELSE n
<1>1. CASE m <= n
  BY <1>1 DEF Min
<1>2. CASE ~(m <= n)
  BY <1>2 DEF Min
<1> QED
  BY <1>1, <1>2

(* The row of a task is a row of that task.                                 *)
LEMMA IndexOfFacts ==
    ASSUME NEW rows \in Lists, NEW id
    PROVE  /\ IndexOf(rows, id) \in 0..Len(rows)
           /\ IndexOf(rows, id) # 0 => rows[IndexOf(rows, id)].id = id
<1> DEFINE I == {i \in DOMAIN rows : rows[i].id = id}
<1>1. IndexOf(rows, id) = IF I = {} THEN 0 ELSE Min(I)
  BY DEF IndexOf
<1>2. Len(rows) \in Nat /\ DOMAIN rows = 1..Len(rows)
  BY DEF Lists
<1>3. CASE I = {}
  BY <1>1, <1>2, <1>3
<1>4. CASE I # {}
  <2>1. I \in SUBSET Nat
    BY <1>2
  <2>2. PICK m \in I : \A k \in I : m <= k
    BY <1>4, <2>1, LeastNumber
  <2> HIDE DEF I
  <2>3. Min(I) \in I
    BY <2>2 DEF Min
  <2> QED
    BY <1>1, <1>2, <1>4, <2>3 DEF I
<1> QED
  BY <1>3, <1>4

(* The rows of a response: each task once, and the open one read.           *)
LEMMA ApplyRowsFacts ==
    ASSUME NEW rows \in Lists, NEW open \in 0..Len(rows), NEW body \in Bodies
    PROVE  LET n == ApplyRows(rows, open, body)
           IN  /\ n \in Lists
               /\ \A i \in DOMAIN n :
                      open # 0 /\ n[i].id = rows[open].id => ~n[i].unread
<1> DEFINE m == Min({Len(body), TaskLimit})
           seen(i) == SeenOf(rows, open, body[i])
           n == [i \in 1..m |-> Row(body[i].id, body[i].last > seen(i), seen(i))]
<1>1. /\ body \in Seq([id : Sessions, last : 0..MaxSequence])
      /\ Len(body) \in Nat /\ DOMAIN body = 1..Len(body)
      /\ \A i \in 1..Len(body) : body[i].id \in Sessions /\ body[i].last \in Nat
  <2>1. body \in Seq([id : Sessions, last : 0..MaxSequence])
    BY DEF Bodies
  <2>2. \A i \in 1..Len(body) : body[i] \in [id : Sessions, last : 0..MaxSequence]
    BY <2>1, ElementOfSeq
  <2>3. MaxSequence \in Nat
    BY ClientTasksAssumption
  <2>4. \A i \in 1..Len(body) : body[i].id \in Sessions /\ body[i].last \in Nat
    BY <2>2, <2>3
  <2> QED
    BY <2>1, <2>4
<1>2. /\ rows \in Seq(Rowset) /\ Len(rows) \in Nat /\ DOMAIN rows = 1..Len(rows)
      /\ \A i \in DOMAIN rows : rows[i].seen \in Nat
  <2>1. rows \in Seq(Rowset)
    BY DEF Lists
  <2>2. \A i \in 1..Len(rows) : rows[i] \in Rowset
    BY <2>1, ElementOfSeq
  <2> QED
    BY <2>1, <2>2 DEF Rowset
<1>3. m \in Nat /\ m <= Len(body) /\ m <= TaskLimit
  <2>1. Len(body) \in Int /\ Len(body) \in Nat /\ TaskLimit \in Int /\ TaskLimit \in Nat
    BY <1>1, TaskListAssumption
  <2> QED
    BY <2>1, MinOfTwo
<1>4. ASSUME NEW i \in 1..m
      PROVE  /\ seen(i) \in Nat
             /\ open # 0 /\ body[i].id = rows[open].id => seen(i) = body[i].last
  <2> DEFINE k == IndexOf(rows, body[i].id)
  <2>1. body[i].last \in Nat
    BY <1>1, <1>3
  <2>2. k \in 0..Len(rows)
    BY IndexOfFacts
  <2>3. k # 0 => rows[k].seen \in Nat
    BY <1>2, <2>2
  <2>4. seen(i) = IF body[i].id = IdAt(rows, open) \/ k = 0 THEN body[i].last
                  ELSE rows[k].seen
    BY DEF SeenOf
  <2> HIDE DEF seen, k
  <2>5. open # 0 => IdAt(rows, open) = rows[open].id
    BY <1>2 DEF IdAt
  <2> QED
    BY <2>1, <2>3, <2>4, <2>5
<1>5. ApplyRows(rows, open, body) = n
  BY DEF ApplyRows
<1> HIDE DEF m, seen
<1>6. \A i \in 1..m : /\ n[i] \in Rowset /\ n[i].id = body[i].id
                      /\ n[i].unread = (body[i].last > seen(i))
  <2> SUFFICES ASSUME NEW i \in 1..m
               PROVE  /\ n[i] \in Rowset /\ n[i].id = body[i].id
                      /\ n[i].unread = (body[i].last > seen(i))
    OBVIOUS
  <2>1. n[i] = Row(body[i].id, body[i].last > seen(i), seen(i))
    OBVIOUS
  <2>2. body[i].id \in Sessions /\ seen(i) \in Nat
    BY <1>1, <1>3, <1>4
  <2>3. (body[i].last > seen(i)) \in BOOLEAN
    OBVIOUS
  <2> QED
    BY <2>1, <2>2, <2>3 DEF Row, Rowset
<1>7. n \in Seq(Rowset) /\ Len(n) = m /\ DOMAIN n = 1..m
  BY <1>3, <1>6
<1> HIDE DEF n
<1>8. n \in Lists
  <2>1. \A i, j \in 1..m : body[i].id = body[j].id => i = j
    BY <1>1, <1>3 DEF Bodies
  <2> QED
    BY <1>3, <1>6, <1>7, <2>1 DEF Lists
<1>9. ASSUME NEW i \in DOMAIN n, open # 0, n[i].id = rows[open].id
      PROVE  ~n[i].unread
  <2>0. i \in 1..m /\ i \in 1..Len(body)
    BY <1>1, <1>3, <1>7, <1>9
  <2>1. body[i].id = rows[open].id /\ body[i].last \in Nat
    BY <1>1, <1>6, <1>9, <2>0
  <2>2. seen(i) = body[i].last
    BY <1>4, <1>9, <2>0, <2>1
  <2>3. ~(body[i].last > seen(i))
    BY <2>1, <2>2
  <2>4. n[i].unread = (body[i].last > seen(i))
    BY <1>6, <2>0
  <2> QED
    BY <2>3, <2>4, Zenon
<1> QED
  BY <1>5, <1>8, <1>9

(* In the new rows the active one is the open task, or there is none.       *)
LEMMA ActiveAfterFacts ==
    ASSUME NEW rows \in Lists, NEW open \in 0..Len(rows), NEW n \in Lists
    PROVE  /\ ActiveAfter(rows, open, n) \in 0..Len(n)
           /\ ActiveAfter(rows, open, n) # 0 =>
                 open # 0 /\ n[ActiveAfter(rows, open, n)].id = rows[open].id
<1>1. DOMAIN rows = 1..Len(rows) /\ Len(rows) \in Nat /\ Len(n) \in Nat
  BY DEF Lists
<1>2. CASE open = 0
  <2>1. ActiveAfter(rows, open, n) = 0
    BY <1>1, <1>2 DEF ActiveAfter, IdAt
  <2> QED
    BY <1>1, <2>1
<1>3. CASE open # 0
  <2>1. IdAt(rows, open) = rows[open].id
    BY <1>1, <1>3 DEF IdAt
  <2>2. ActiveAfter(rows, open, n) \in {0, IndexOf(n, rows[open].id)}
    BY <2>1 DEF ActiveAfter
  <2> QED
    BY <1>1, <1>3, <2>2, IndexOfFacts
<1> QED
  BY <1>2, <1>3

LEMMA SelectedAfterFacts ==
    ASSUME NEW chosen \in 1..TaskLimit + 1, NEW n \in Lists
    PROVE  SelectedAfter(chosen, n) \in 1..TaskLimit + 1
<1>1. Len(n) \in Nat /\ TaskLimit \in Nat
  BY TaskListAssumption DEF Lists
<1>2. chosen \in Int /\ Len(n) + 1 \in Int
  BY <1>1
<1> QED
  BY <1>1, <1>2, MinOfTwo DEF SelectedAfter

(* The row that is left keeps its task, the row that is opened is read.     *)
LEMMA LeftAtFacts ==
    ASSUME NEW rows \in Lists, NEW was, NEW at \in Nat
    PROVE  LET n == LeftAt(rows, was, at)
           IN  /\ n \in Lists /\ Len(n) = Len(rows)
               /\ \A i \in DOMAIN rows : n[i].id = rows[i].id
<1>1. rows \in Seq(Rowset) /\ DOMAIN rows = 1..Len(rows) /\ Len(rows) \in Nat
  BY DEF Lists
<1>2. CASE was \in DOMAIN rows
  <2> DEFINE e == [rows[was] EXCEPT !.seen = at]
             n == [rows EXCEPT ![was] = e]
  <2>0. rows[was] \in Rowset
    BY <1>1, <1>2
  <2>1. e \in Rowset /\ e.id = rows[was].id
    BY <2>0 DEF Rowset
  <2>2. LeftAt(rows, was, at) = n
    BY <1>2 DEF LeftAt
  <2> HIDE DEF e
  <2>3. /\ n \in Seq(Rowset) /\ Len(n) = Len(rows) /\ DOMAIN n = DOMAIN rows
        /\ \A i \in DOMAIN rows : n[i] = IF i = was THEN e ELSE rows[i]
    BY <1>1, <1>2, <2>1, ExceptSeq
  <2> HIDE DEF n
  <2>4. \A i \in DOMAIN rows : n[i].id = rows[i].id
    BY <2>1, <2>3
  <2>5. n \in Lists
    BY <2>3, <2>4 DEF Lists
  <2> QED
    BY <2>2, <2>3, <2>4, <2>5
<1>3. CASE was \notin DOMAIN rows
  BY <1>3 DEF LeftAt
<1> QED
  BY <1>2, <1>3

(* A row that is opened is read, and the rows stay the same tasks.          *)
LEMMA OpenedAtFacts ==
    ASSUME NEW rows \in Lists, NEW at \in 0..Len(rows)
    PROVE  LET n == OpenedAt(rows, at)
           IN  /\ n \in Lists /\ Len(n) = Len(rows)
               /\ \A i \in DOMAIN rows : n[i].id = rows[i].id
               /\ at # 0 => ~n[at].unread
<1>1. /\ rows \in Seq(Rowset) /\ DOMAIN rows = 1..Len(rows) /\ Len(rows) \in Nat
      /\ Everything \in Nat
  BY TaskListAssumption DEF Lists
<1>2. CASE at # 0
  <2> DEFINE e == [rows[at] EXCEPT !.unread = FALSE, !.seen = Everything]
             n == [rows EXCEPT ![at] = e]
  <2>1. at \in DOMAIN rows
    BY <1>1, <1>2
  <2>0. rows[at] \in Rowset
    BY <1>1, <2>1
  <2>2. e \in Rowset /\ e.id = rows[at].id /\ ~e.unread
    BY <1>1, <2>0 DEF Rowset
  <2>3. OpenedAt(rows, at) = n
    BY <1>1, <1>2, <2>1 DEF OpenedAt
  <2> HIDE DEF e
  <2>4. /\ n \in Seq(Rowset) /\ Len(n) = Len(rows) /\ DOMAIN n = DOMAIN rows
        /\ \A i \in DOMAIN rows : n[i] = IF i = at THEN e ELSE rows[i]
    BY <1>1, <2>1, <2>2, ExceptSeq
  <2> HIDE DEF n
  <2>5. (\A i \in DOMAIN rows : n[i].id = rows[i].id) /\ ~n[at].unread
    BY <2>1, <2>2, <2>4
  <2>6. n \in Lists
    BY <2>4, <2>5 DEF Lists
  <2> QED
    BY <2>3, <2>4, <2>5, <2>6
<1>3. CASE at = 0
  BY <1>3 DEF OpenedAt
<1> QED
  BY <1>2, <1>3

-----------------------------------------------------------------------------
(* The bridge.                                                              *)

(* What it lists is each of its tasks at most once.                         *)
LEMMA RowsFacts ==
    ASSUME order \in Orders, last \in [Sessions -> 0..MaxSequence]
    PROVE  Rows \in Bodies
<1> DEFINE m == Min({Len(order), TaskLimit})
           n == [i \in 1..m |-> [id |-> order[i], last |-> last[order[i]]]]
<1>1. /\ order \in Seq(Sessions) /\ Len(order) \in Nat /\ DOMAIN order = 1..Len(order)
      /\ \A i, j \in 1..Len(order) : order[i] = order[j] => i = j
      /\ \A i \in 1..Len(order) : order[i] \in Sessions
  BY DEF Orders
<1>2. m \in Nat /\ m <= Len(order)
  <2>1. /\ Len(order) \in Int /\ Len(order) \in Nat
        /\ TaskLimit \in Int /\ TaskLimit \in Nat
    BY <1>1, TaskListAssumption
  <2> QED
    BY <2>1, MinOfTwo
<1>3. Rows = n
  BY DEF Rows
<1> HIDE DEF m
<1> DEFINE T == [id : Sessions, last : 0..MaxSequence]
<1>4. ASSUME NEW i \in 1..m
      PROVE  n[i] \in T /\ n[i].id = order[i]
  <2>1. n[i] = [id |-> order[i], last |-> last[order[i]]]
    OBVIOUS
  <2>2. order[i] \in Sessions
    BY <1>1, <1>2
  <2>3. last[order[i]] \in 0..MaxSequence
    BY <2>2
  <2> QED
    BY <2>1, <2>2, <2>3
<1>5. n \in Seq(T) /\ DOMAIN n = 1..m
  <2> HIDE DEF T
  <2> QED
    BY <1>2, <1>4
<1> HIDE DEF n
<1>6. \A i, j \in DOMAIN n : n[i].id = n[j].id => i = j
  BY <1>1, <1>2, <1>4, <1>5
<1> QED
  BY <1>3, <1>5, <1>6 DEF Bodies

(* A new task and a restart leave each task once in the Map of the bridge.  *)
LEMMA OrderFacts ==
    ASSUME order \in Orders
    PROVE  /\ \A s \in Sessions : Added(s) \in Orders
           /\ \A o \in SetToSeqs(Known) : o \in Orders
<1>1. /\ order \in Seq(Sessions) /\ Len(order) \in Nat /\ DOMAIN order = 1..Len(order)
      /\ \A i, j \in 1..Len(order) : order[i] = order[j] => i = j
      /\ \A i \in 1..Len(order) : order[i] \in Sessions
      /\ Known = {order[i] : i \in 1..Len(order)}
  BY DEF Orders, Known, Range
<1>2. ASSUME NEW s \in Sessions
      PROVE  Added(s) \in Orders
  <2>1. CASE s \in Known
    BY <2>1 DEF Added
  <2>2. CASE s \notin Known
    <3> DEFINE n == Append(order, s)
    <3>1. /\ n \in Seq(Sessions) /\ DOMAIN n = 1..Len(order) + 1
          /\ \A i \in 1..Len(order) : n[i] = order[i]
          /\ n[Len(order) + 1] = s
      BY <1>1, AppendProperties
    <3> HIDE DEF n
    <3>2. ASSUME NEW i \in DOMAIN n, NEW j \in DOMAIN n, n[i] = n[j]
          PROVE  i = j
      <4>1. i \in 1..Len(order) => n[i] \in Known
        BY <1>1, <3>1
      <4>2. j \in 1..Len(order) => n[j] \in Known
        BY <1>1, <3>1
      <4>3. i \in 1..Len(order) \/ i = Len(order) + 1
        BY <1>1, <3>1
      <4>4. j \in 1..Len(order) \/ j = Len(order) + 1
        BY <1>1, <3>1
      <4> QED
        BY <1>1, <2>2, <3>1, <3>2, <4>1, <4>2, <4>3, <4>4
    <3>3. n \in Orders
      BY <3>1, <3>2 DEF Orders
    <3> QED
      BY <2>2, <3>3 DEF Added, n
  <2> QED
    BY <2>1, <2>2
<1>3. ASSUME NEW o \in SetToSeqs(Known)
      PROVE  o \in Orders
  <2> DEFINE c == Cardinality(Known)
  <2>1. IsFiniteSet(1..Len(order))
    BY <1>1, FS_Interval
  <2>2. order \in Surjection(1..Len(order), Known)
    BY <1>1 DEF Surjection
  <2>3. IsFiniteSet(Known)
    BY <2>1, <2>2, FS_Surjection
  <2>4. c \in Nat
    BY <2>3, FS_CardinalityType
  <2>5. o \in [1..c -> Known] /\ \A i, j \in 1..c : i # j => o[i] # o[j]
    BY DEF SetToSeqs
  <2>6. Known \subseteq Sessions
    BY <1>1
  <2> HIDE DEF c
  <2>7. o \in Seq(Sessions) /\ DOMAIN o = 1..c
    BY <2>4, <2>5, <2>6
  <2> QED
    BY <2>5, <2>7 DEF Orders
<1> QED
  BY <1>2, <1>3

LEMMA NewsFacts ==
    ASSUME last \in [Sessions -> 0..MaxSequence], NEW s
    PROVE  News(s) \in [Sessions -> 0..MaxSequence]
<1>1. MaxSequence \in Nat /\ MaxSequence \in Int
  BY ClientTasksAssumption
<1>2. CASE s \in Sessions
  <2>1. last[s] + 1 \in Int /\ last[s] \in 0..MaxSequence
    BY <1>1, <1>2
  <2> DEFINE v == Min({last[s] + 1, MaxSequence})
  <2>2. v = IF last[s] + 1 <= MaxSequence THEN last[s] + 1 ELSE MaxSequence
    BY <1>1, <2>1, MinOfTwo
  <2> HIDE DEF v
  <2>3. v \in 0..MaxSequence
    BY <1>1, <2>1, <2>2
  <2>4. News(s) = [last EXCEPT ![s] = v]
    BY DEF News, v
  <2> QED
    BY <2>3, <2>4
<1>3. CASE s \notin Sessions
  BY <1>3 DEF News
<1> QED
  BY <1>2, <1>3

(* What it answers is an answer to the request.                             *)
LEMMA AnswersHold ==
    ASSUME Types, NEW r \in Requests
    PROVE  /\ Answer(r, FALSE) \in AnswersTo(r)
           /\ r.type = "list" =>
                 \A reusable \in BOOLEAN : ListAnswer(r, reusable) \in AnswersTo(r)
           /\ r.type = "resume" => Answer(r, TRUE) \in AnswersTo(r)
           /\ r.type = "start" =>
                 \A s \in Sessions : StartAnswer(r, s) \in AnswersTo(r)
<1>1. Answer(r, FALSE) \in Refusals(r)
  BY DEF Answer, Refusals
<1>2. ASSUME r.type = "list", NEW reusable \in BOOLEAN
      PROVE  ListAnswer(r, reusable) \in Grants(r)
  <2>1. Rows \in Bodies
    BY RowsFacts DEF Types
  <2> QED
    BY <1>2, <2>1 DEF ListAnswer, Grants
<1>3. r.type = "resume" => Answer(r, TRUE) \in Grants(r)
  BY DEF Answer, Grants
<1>4. ASSUME r.type = "start", NEW s \in Sessions
      PROVE  StartAnswer(r, s) \in Grants(r)
  BY <1>4 DEF StartAnswer, Grants
<1> QED
  BY <1>1, <1>2, <1>3, <1>4 DEF AnswersTo

-----------------------------------------------------------------------------
(* The actions.                                                             *)

(* The client starts with no task and a free slot.                          *)
LEMMA InitInv == Init => Inv
<1> SUFFICES ASSUME Init
             PROVE  Inv
  OBVIOUS
<1>1. SlotOK(slot) /\ slot.phase = "idle"
  <2> DEFINE f == FreeSlot
  <2>1. NoRequest \in SlotRequests /\ NoAnswer \in Answers
    BY DEF SlotRequests, Answers
  <2>2. f \in Slots /\ f.phase = "idle" /\ f.open = FALSE /\ f.up = <<>> /\ f.down = <<>>
    BY <2>1 DEF FreeSlot, Slots
  <2> HIDE DEF f
  <2>3. SlotOK(f)
    BY <2>2 DEF SlotOK, Quiet, InProgress
  <2> QED
    BY <2>2, <2>3 DEF Init, f
<1>2. tasks \in Lists /\ Len(tasks) = 0
  BY TaskListAssumption DEF Init, Lists
<1>3. order \in Orders
  <2>1. FirstSessions \in Seq(Sessions) /\ IsInjective(FirstSessions)
    BY ClientTasksAssumption
  <2> QED
    BY <2>1 DEF Init, Orders, IsInjective
<1>4. last \in [Sessions -> 0..MaxSequence] /\ cursor \in 0..MaxSequence
  BY ClientTasksAssumption DEF Init
<1>5. selected \in 1..TaskLimit + 1 /\ active \in 0..Len(tasks)
  BY <1>2, TaskListAssumption DEF Init
<1>6. Types
  BY <1>1, <1>2, <1>3, <1>4, <1>5 DEF Init, Types, NotWaiting
<1>7. Owned /\ Asked /\ Open
  BY <1>1 DEF Init, Owned, Asked, Open, NotWaiting, Running
<1> QED
  BY <1>6, <1>7 DEF Inv

(* What is asked for, and by what.                                          *)
AskedFor(p, r, t) ==
    \/ p = "load" /\ screen' = "manager" /\ r = ListRequest
    \/ p = "relist" /\ r = ListRequest /\ current' \in Sessions
    \/ p = "start" /\ r = StartRequest
    \/ p = "resume" /\ t \in DOMAIN tasks /\ r = ResumeRequest(tasks[t].id)

(* While a loop waits, the agent loop keeps its task and its rail.          *)
StaysOpen(p) ==
    screen' = "agent" =>
        /\ screen = "agent" /\ current' \in Sessions
        /\ p # "relist" => current' = current /\ wait.for # "relist"

(* A loop begins to wait.                                                   *)
LEMMA Begins ==
    ASSUME Inv, NEW freed, SlotOK(freed), freed.phase = "idle",
           NEW r \in Requests, NEW p, NEW t \in Nat,
           BeginAndWait(freed, r, p, t), refreshing' = FALSE,
           UNCHANGED <<tasks, active, cursor, order>>,
           last' \in [Sessions -> 0..MaxSequence],
           screen' \in {"manager", "agent"}, selected' \in 1..TaskLimit + 1,
           {current', link'} \subseteq Sessions \cup {NoSession},
           AskedFor(p, r, t), StaysOpen(p)
    PROVE  Inv'
<1>1. PICK b \in BeginRequest(freed, r) :
          /\ slot' = b.slot
          /\ wait' = [for |-> p, begun |-> b.ok, target |-> t]
  BY DEF BeginAndWait
<1>2. /\ SlotOK(slot') /\ b.ok \in BOOLEAN
      /\ b.ok => slot'.phase # "idle" /\ slot'.request = r
      /\ ~b.ok => slot'.phase = "idle"
  BY <1>1, BeginHolds
<1>3. p \in {"load", "relist", "start", "resume"}
  BY DEF AskedFor
<1>4. wait'.for = p /\ wait'.begun = b.ok /\ wait'.target = t
  BY <1>1
<1>5. wait' # NotWaiting
  BY <1>3, <1>4 DEF NotWaiting
<1>6. Types'
  <2>1. wait' \in [for : {"nothing", "load", "resume", "start", "relist"},
                   begun : BOOLEAN, target : Nat]
    BY <1>1, <1>2, <1>3
  <2> QED
    BY <1>2, <2>1 DEF Inv, Types
<1>7. Owned'
  BY <1>2, <1>4, <1>5 DEF Owned
<1>8. Asked'
  BY <1>2, <1>3, <1>4, <1>5 DEF Asked, AskedFor
<1>9. Open'
  <2>1. ~Running'
    BY <1>5 DEF Running
  <2>2. screen' = "agent" => current' \in Sessions
    BY DEF StaysOpen
  <2>3. screen' = "agent" /\ wait'.for # "relist" /\ active' # 0 =>
            tasks'[active'].id = current' /\ ~tasks'[active'].unread
    BY <1>4 DEF StaysOpen, Inv, Open
  <2> QED
    BY <2>1, <2>2, <2>3 DEF Open
<1> QED
  BY <1>6, <1>7, <1>8, <1>9 DEF Inv

(* A loop that does not wait finds the slot free once the refresh is gone.  *)
LEMMA WithoutRefreshHolds ==
    ASSUME Inv, wait = NotWaiting
    PROVE  SlotOK(WithoutRefresh) /\ WithoutRefresh.phase = "idle"
<1>1. SlotOK(slot) /\ ~wait.begun
  BY DEF Inv, Types, NotWaiting
<1>2. CASE refreshing
  BY <1>1, <1>2, CancelHolds DEF WithoutRefresh
<1>3. CASE ~refreshing
  BY <1>1, <1>3 DEF WithoutRefresh, Inv, Owned
<1> QED
  BY <1>2, <1>3

(* What the loops ask for are requests.                                     *)
LEMMA RequestFacts ==
    /\ ListRequest \in Requests /\ StartRequest \in Requests
    /\ \A s \in Sessions : ResumeRequest(s) \in Requests
<1>1. /\ ListRequest \in SlotRequests /\ StartRequest \in SlotRequests
      /\ \A s \in Sessions : ResumeRequest(s) \in SlotRequests
  BY DEF SlotRequests
<1>2. /\ ListRequest.type = "list" /\ StartRequest.type = "start"
      /\ \A s \in Sessions : ResumeRequest(s).type = "resume"
      /\ NoRequest.type = "none"
  BY DEF ListRequest, StartRequest, ResumeRequest, NoRequest
<1>3. /\ ListRequest # NoRequest /\ StartRequest # NoRequest
      /\ \A s \in Sessions : ResumeRequest(s) # NoRequest
  BY <1>2
<1> QED
  BY <1>1, <1>3 DEF Requests

(* The steps of the loops, one by one.                                      *)
LEMMA ConnectInv == ASSUME Inv, Connect PROVE Inv'
<1> DEFINE w == WithoutRefresh
           freed == CloseLine(w)
<1>1. SlotOK(w) /\ w.phase = "idle"
  BY WithoutRefreshHolds DEF Connect
<1>2. BeginAndWait(freed, ListRequest, "load", 0)
  BY DEF Connect
<1> HIDE DEF w
<1>3. /\ freed \in Slots /\ freed.up = <<>> /\ freed.down = <<>>
      /\ freed.phase = "idle"
  BY <1>1, CloseLineHolds DEF SlotOK
<1> HIDE DEF freed
<1>4. SlotOK(freed)
  BY <1>3 DEF SlotOK, Quiet, InProgress
<1>5. AskedFor("load", ListRequest, 0) /\ StaysOpen("load")
  BY DEF Connect, AskedFor, StaysOpen
<1>6. /\ refreshing' = FALSE /\ screen' = "manager"
      /\ UNCHANGED <<tasks, active, selected, cursor, order, current, link, last>>
  BY DEF Connect, listVars, taskVars, bridgeVars
<1> QED
  BY <1>2, <1>3, <1>4, <1>5, <1>6, RequestFacts, Begins DEF Inv, Types

LEMMA EnterManagerInv ==
    ASSUME Inv, wait = NotWaiting, EnterManager
    PROVE  Inv'
<1>1. SlotOK(WithoutRefresh) /\ WithoutRefresh.phase = "idle"
  BY WithoutRefreshHolds
<1>2. /\ BeginAndWait(WithoutRefresh, ListRequest, "load", 0)
      /\ refreshing' = FALSE /\ screen' = "manager"
      /\ UNCHANGED <<tasks, active, selected, cursor, order, current, link, last>>
  BY DEF EnterManager, listVars, taskVars, bridgeVars
<1>3. AskedFor("load", ListRequest, 0) /\ StaysOpen("load")
  BY <1>2 DEF AskedFor, StaysOpen
<1> QED
  BY <1>1, <1>2, <1>3, RequestFacts, Begins DEF Inv, Types

LEMMA LeaveForHomeInv ==
    ASSUME Inv, wait = NotWaiting, LeaveForHome
    PROVE  Inv'
<1>1. SlotOK(slot') /\ slot'.phase = "idle"
  BY ResetHolds DEF LeaveForHome, Inv, Types
<1>2. /\ screen' = "home" /\ tasks' = <<>> /\ active' = 0
      /\ current' = NoSession /\ link' = NoSession
      /\ UNCHANGED <<wait, refreshing, selected, cursor, order, last>>
  BY DEF LeaveForHome, bridgeVars
<1>3. tasks' \in Lists /\ Len(tasks') = 0
  BY <1>2, TaskListAssumption DEF Lists
<1>4. Types'
  BY <1>1, <1>2, <1>3 DEF Inv, Types
<1>5. Owned' /\ Asked' /\ Open'
  BY <1>1, <1>2 DEF Inv, Owned, Asked, Open, NotWaiting, Running
<1> QED
  BY <1>4, <1>5 DEF Inv

(* One of the rows that is chosen or tapped is resumed.                     *)
LEMMA ResumeRow ==
    ASSUME Types, NEW index \in DOMAIN tasks
    PROVE  /\ index \in Nat /\ index \in 1..TaskLimit + 1
           /\ tasks[index].id \in Sessions
           /\ ResumeRequest(tasks[index].id) \in Requests
<1>1. tasks \in Seq(Rowset) /\ Len(tasks) <= TaskLimit /\ TaskLimit \in Nat
  BY TaskListAssumption DEF Types, Lists
<1>2. tasks[index] \in Rowset /\ index \in 1..Len(tasks) /\ Len(tasks) \in Nat
  BY <1>1
<1>3. tasks[index].id \in Sessions
  BY <1>2 DEF Rowset
<1> QED
  BY <1>1, <1>2, <1>3, RequestFacts

LEMMA ResumeInv ==
    ASSUME Inv, wait = NotWaiting, NEW index \in DOMAIN tasks,
           ResumeSession(index),
           UNCHANGED <<screen, tasks, active, cursor, order, current, last>>,
           screen \in {"manager", "agent"}, selected' \in 1..TaskLimit + 1,
           link' \in Sessions \cup {NoSession}
    PROVE  Inv'
<1> DEFINE r == ResumeRequest(tasks[index].id)
<1>1. SlotOK(WithoutRefresh) /\ WithoutRefresh.phase = "idle"
  BY WithoutRefreshHolds
<1>2. BeginAndWait(WithoutRefresh, r, "resume", index) /\ refreshing' = FALSE
  BY DEF ResumeSession
<1>3. index \in Nat /\ r \in Requests
  BY ResumeRow DEF Inv
<1>4. AskedFor("resume", r, index)
  BY DEF AskedFor
<1>5. StaysOpen("resume")
  BY DEF StaysOpen, Inv, Open, NotWaiting
<1> HIDE DEF r
<1> QED
  BY <1>1, <1>2, <1>3, <1>4, <1>5, Begins DEF Inv, Types

LEMMA StartInv ==
    ASSUME Inv, wait = NotWaiting, StartNewSession,
           UNCHANGED <<screen, tasks, active, cursor, order, current, last>>,
           screen \in {"manager", "agent"}, selected' \in 1..TaskLimit + 1,
           link' \in Sessions \cup {NoSession}
    PROVE  Inv'
<1>1. SlotOK(WithoutRefresh) /\ WithoutRefresh.phase = "idle"
  BY WithoutRefreshHolds
<1>2. BeginAndWait(WithoutRefresh, StartRequest, "start", 0) /\ refreshing' = FALSE
  BY DEF StartNewSession
<1>3. AskedFor("start", StartRequest, 0)
  BY DEF AskedFor
<1>4. StaysOpen("start")
  BY DEF StaysOpen, Inv, Open, NotWaiting
<1> QED
  BY <1>1, <1>2, <1>3, <1>4, Begins, RequestFacts DEF Inv, Types

(* The rows a window shows are rows.                                        *)
LEMMA VisibleRows ==
    ASSUME Types, NEW first \in Nat, NEW size \in Nat,
           NEW row \in Visible(tasks, first, size)
    PROVE  row \in DOMAIN tasks
<1>1. Len(tasks) \in Nat /\ Len(tasks) \in Int /\ DOMAIN tasks = 1..Len(tasks)
  BY DEF Types, Lists
<1>2. first + size \in Int
  OBVIOUS
<1> DEFINE end == Min({first + size, Len(tasks)})
<1>3. end \in Int /\ end <= Len(tasks)
  BY <1>1, <1>2, MinOfTwo
<1>4. row \in first + 1 .. end
  BY DEF Visible
<1> HIDE DEF end
<1> QED
  BY <1>1, <1>3, <1>4

LEMMA WindowFirstType ==
    ASSUME NEW count \in Nat, NEW size \in Nat, NEW anchor \in Nat
    PROVE  WindowFirst(count, size, anchor) \in Nat
<1> DEFINE above == IF anchor > size THEN anchor - size ELSE 0
<1>1. CASE count <= size
  BY <1>1 DEF WindowFirst
<1>2. CASE ~(count <= size)
  <2>1. above \in Nat /\ above \in Int /\ count - size \in Nat /\ count - size \in Int
    BY <1>2
  <2>2. WindowFirst(count, size, anchor) = Min({above, count - size})
    BY <1>2 DEF WindowFirst
  <2> HIDE DEF above
  <2>3. Min({above, count - size}) \in Nat
    BY <2>1, MinOfTwo
  <2> QED
    BY <2>2, <2>3
<1> QED
  BY <1>1, <1>2

(* What a window shows are rows of the list.                                *)
LEMMA WindowsShowRows ==
    ASSUME Types
    PROVE  /\ Visible(tasks, TaskListFirst(tasks, selected, TaskRows), TaskRows)
                 \subseteq DOMAIN tasks
           /\ Visible(tasks, RailFirst(tasks, active, RailTabs), RailTabs)
                 \subseteq DOMAIN tasks
<1>1. /\ Len(tasks) \in Nat /\ Len(tasks) \in Int /\ selected \in Nat /\ selected \in Int
      /\ active \in Nat /\ RailTabs \in Nat /\ TaskRows \in Nat
  <2>1. TaskLimit \in Nat /\ RailTabs \in Nat /\ TaskRows \in Nat
    BY TaskListAssumption, ClientTasksAssumption
  <2>2. Len(tasks) \in Nat
    BY DEF Types, Lists
  <2> QED
    BY <2>1, <2>2 DEF Types
<1>2. TaskListFirst(tasks, selected, TaskRows) \in Nat
  <2> DEFINE anchor == Min({selected, Len(tasks)})
  <2>1. anchor \in Nat
    BY <1>1, MinOfTwo
  <2> HIDE DEF anchor
  <2> QED
    BY <1>1, <2>1, WindowFirstType DEF TaskListFirst, anchor
<1>3. RailFirst(tasks, active, RailTabs) \in Nat
  BY <1>1, WindowFirstType DEF RailFirst
<1> QED
  BY <1>1, <1>2, <1>3, VisibleRows

LEMMA ChooseRowInv == ASSUME Inv, ChooseRow PROVE Inv'
<1>1. /\ screen = "manager" /\ wait = NotWaiting
      /\ UNCHANGED <<screen, tasks, active, cursor, order, current, last, link>>
  BY DEF ChooseRow, taskVars, bridgeVars
<1>2. PICK row \in {selected} \cup
               Visible(tasks, TaskListFirst(tasks, selected, TaskRows), TaskRows) :
          /\ selected' = row
          /\ IF row \in DOMAIN tasks THEN ResumeSession(row) ELSE StartNewSession
  BY DEF ChooseRow
<1>3. selected' \in 1..TaskLimit + 1 /\ link' \in Sessions \cup {NoSession}
  BY <1>1, <1>2, WindowsShowRows, ResumeRow DEF Inv, Types
<1>4. CASE row \in DOMAIN tasks
  BY <1>1, <1>2, <1>3, <1>4, ResumeInv
<1>5. CASE row \notin DOMAIN tasks
  BY <1>1, <1>2, <1>3, <1>5, StartInv
<1> QED
  BY <1>4, <1>5

LEMMA ManagerKeysInv == ASSUME Inv, ManagerKeys PROVE Inv'
<1>1. screen = "manager" /\ wait = NotWaiting
  BY DEF ManagerKeys
<1>2. CASE /\ StartNewSession
           /\ UNCHANGED <<screen, listVars, taskVars, bridgeVars>>
  <2>1. UNCHANGED <<screen, tasks, active, selected, cursor, order, current, last, link>>
    BY <1>2 DEF listVars, taskVars, bridgeVars
  <2> QED
    BY <1>1, <1>2, <2>1, StartInv DEF Inv, Types
<1>3. CASE LeaveForHome
  BY <1>1, <1>3, LeaveForHomeInv
<1> QED
  BY <1>2, <1>3 DEF ManagerKeys

LEMMA OpenTaskInv ==
    ASSUME Inv, screen = "agent", wait = NotWaiting, NEW index, OpenTask(index)
    PROVE  Inv'
<1>1. /\ index \in DOMAIN tasks /\ ResumeSession(index) /\ link' = NoSession
      /\ UNCHANGED <<screen, tasks, active, selected, cursor, order, current, last>>
  BY DEF OpenTask, listVars, bridgeVars
<1> QED
  BY <1>1, ResumeInv DEF Inv, Types

LEMMA NewTaskInv == ASSUME Inv, NewTask PROVE Inv'
<1>1. /\ screen = "agent" /\ wait = NotWaiting /\ StartNewSession /\ link' = NoSession
      /\ UNCHANGED <<screen, tasks, active, selected, cursor, order, current, last>>
  BY DEF NewTask, listVars, bridgeVars
<1> QED
  BY <1>1, StartInv DEF Inv, Types

LEMMA MoveSelectionInv == ASSUME Inv, MoveSelection PROVE Inv'
<1>1. PICK step \in {-1, 1} :
          selected' = ((selected - 1 + step) % (Len(tasks) + 1)) + 1
  BY DEF MoveSelection
<1>2. /\ Len(tasks) \in Nat /\ Len(tasks) <= TaskLimit /\ TaskLimit \in Nat
      /\ selected \in Int
  BY TaskListAssumption DEF Inv, Types, Lists
<1>3. selected' \in 1..TaskLimit + 1
  <2> DEFINE d == selected - 1 + step
             c == Len(tasks) + 1
  <2>1. d \in Int /\ c \in Nat /\ c > 0 /\ c <= TaskLimit + 1
    BY <1>2
  <2>2. selected' = (d % c) + 1
    BY <1>1
  <2> HIDE DEF d, c
  <2>3. d % c \in 0..c - 1
    BY <2>1
  <2> QED
    BY <1>2, <2>1, <2>2, <2>3
<1>4. UNCHANGED <<screen, wait, slot, refreshing, tasks, active, current, cursor,
                  link, order, last>>
  BY DEF MoveSelection, taskVars, bridgeVars
<1> QED
  BY <1>3, <1>4 DEF Inv, Types, Owned, Asked, Open, Running

(* A loop has what it waited for, or not.                                   *)
LEMMA WaitEnds ==
    ASSUME Inv, wait # NotWaiting, wait' = NotWaiting,
           SlotOK(slot'), slot'.phase = "idle",
           UNCHANGED <<refreshing, order, last>>,
           tasks' \in Lists, active' \in 0..Len(tasks'),
           selected' \in 1..TaskLimit + 1,
           {current', link'} \subseteq Sessions \cup {NoSession},
           cursor' \in 0..MaxSequence, screen' \in {"manager", "retry", "agent"},
           screen' = "agent" =>
              /\ current' \in Sessions /\ link' = current'
              /\ active' # 0 => /\ tasks'[active'].id = current'
                                /\ ~tasks'[active'].unread
    PROVE  Inv'
<1>1. wait'.for = "nothing" /\ wait'.begun = FALSE
  BY DEF NotWaiting
<1>2. ~refreshing'
  BY DEF Inv, Owned
<1>3. Types'
  BY DEF Inv, Types, NotWaiting
<1>4. Owned'
  BY <1>1, <1>2 DEF Owned
<1>5. Asked'
  BY <1>1, <1>2 DEF Asked
<1>6. Open'
  BY <1>1 DEF Open, Running
<1> QED
  BY <1>3, <1>4, <1>5, <1>6 DEF Inv

(* After attach_to_current_session() the link and the row that is marked    *)
(* are those of the session.                                                *)
LEMMA AttachFacts ==
    ASSUME NEW rows \in Lists, NEW was, NEW chosen \in 1..TaskLimit + 1,
           NEW session \in Sessions, cursor \in 0..MaxSequence,
           Attach(rows, was, chosen, session)
    PROVE  /\ tasks' \in Lists /\ active' \in 0..Len(tasks')
           /\ selected' \in 1..TaskLimit + 1
           /\ cursor' \in 0..MaxSequence /\ screen' = "agent"
           /\ current' = session /\ link' = session
           /\ active' # 0 => /\ tasks'[active'].id = session
                             /\ ~tasks'[active'].unread
<1> DEFINE left == LeftAt(rows, was, cursor)
           index == IndexOf(left, session)
           n == OpenedAt(left, index)
<1>1. MaxSequence \in Nat /\ TaskLimit \in Nat /\ cursor \in Nat
  BY ClientTasksAssumption, TaskListAssumption
<1>2. left \in Lists
  BY <1>1, LeftAtFacts
<1>3. /\ tasks' = n /\ active' = index /\ cursor' = 0 /\ screen' = "agent"
      /\ selected' = IF index = 0 THEN chosen ELSE index
      /\ current' = session /\ link' = session
  BY DEF Attach
<1> HIDE DEF left
<1>4. index \in 0..Len(left) /\ (index # 0 => left[index].id = session)
  BY <1>2, IndexOfFacts
<1> HIDE DEF index
<1>5. /\ n \in Lists /\ Len(n) = Len(left)
      /\ \A i \in DOMAIN left : n[i].id = left[i].id
      /\ index # 0 => ~n[index].unread
  BY <1>2, <1>4, OpenedAtFacts
<1>6. Len(left) \in Nat /\ DOMAIN left = 1..Len(left) /\ Len(left) <= TaskLimit
  BY <1>2 DEF Lists
<1> HIDE DEF n
<1>7. index # 0 => index \in DOMAIN left
  BY <1>4, <1>6
<1>8. index # 0 => n[index].id = session /\ ~n[index].unread
  BY <1>4, <1>5, <1>7
<1>9. selected' \in 1..TaskLimit + 1
  BY <1>1, <1>3, <1>4, <1>6
<1>10. active' \in 0..Len(tasks') /\ tasks' \in Lists
  BY <1>3, <1>4, <1>5
<1>11. cursor' \in 0..MaxSequence
  BY <1>1, <1>3
<1>12. active' # 0 => tasks'[active'].id = session /\ ~tasks'[active'].unread
  BY <1>3, <1>8
<1> QED
  BY <1>3, <1>9, <1>10, <1>11, <1>12

LEMMA WaitFailsInv == ASSUME Inv, WaitFails PROVE Inv'
<1>1. /\ wait # NotWaiting /\ Over /\ wait' = NotWaiting
      /\ UNCHANGED <<refreshing, order, last>>
  BY DEF WaitFails, bridgeVars
<1>2. SlotOK(slot') /\ slot'.phase = "idle"
  <2>1. SlotOK(slot)
    BY DEF Inv, Types
  <2>2. CASE ~wait.begun /\ slot' = slot
    BY <1>1, <2>1, <2>2 DEF Inv, Owned
  <2>3. CASE slot.phase = "failed" /\ slot' = Consume(slot)
    BY <2>1, <2>3, ConsumeHolds
  <2>4. CASE slot' = Cancel(slot)
    BY <2>1, <2>4, CancelHolds
  <2> QED
    BY <1>1, <2>2, <2>3, <2>4 DEF Over
<1>3. screen \in {"manager", "agent"}
  BY <1>1 DEF Inv, Asked
<1>4. CASE /\ wait.for = "load" /\ screen' = "retry"
           /\ tasks' = <<>> /\ active' = 0
           /\ UNCHANGED <<selected, taskVars>>
  <2>1. UNCHANGED <<selected, current, cursor, link>>
    BY <1>4 DEF taskVars
  <2>2. tasks' \in Lists /\ Len(tasks') = 0
    BY <1>4, TaskListAssumption DEF Lists
  <2>3. active' \in 0..Len(tasks')
    BY <1>4, <2>2
  <2> QED
    BY <1>1, <1>2, <1>4, <2>1, <2>2, <2>3, WaitEnds DEF Inv, Types
<1>5. CASE /\ wait.for \in {"resume", "start"}
           /\ link' = IF screen = "agent" THEN current ELSE link
           /\ UNCHANGED <<screen, listVars, current, cursor>>
  <2>1. UNCHANGED <<screen, tasks, active, selected, current, cursor>>
    BY <1>5 DEF listVars
  <2>2. screen = "agent" =>
            /\ current \in Sessions
            /\ active # 0 => tasks[active].id = current /\ ~tasks[active].unread
    BY <1>5 DEF Inv, Open
  <2>3. {current', link'} \subseteq Sessions \cup {NoSession}
    BY <1>5, <2>1 DEF Inv, Types
  <2>4. screen' = "agent" =>
            /\ current' \in Sessions /\ link' = current'
            /\ active' # 0 => /\ tasks'[active'].id = current'
                              /\ ~tasks'[active'].unread
    BY <1>5, <2>1, <2>2
  <2> QED
    BY <1>1, <1>2, <1>3, <2>1, <2>3, <2>4, WaitEnds DEF Inv, Types
<1>6. CASE wait.for = "relist" /\ Attach(tasks, active, selected, current)
  <2>1. /\ current \in Sessions /\ tasks \in Lists /\ cursor \in 0..MaxSequence
        /\ selected \in 1..TaskLimit + 1
    BY <1>6 DEF Inv, Asked, Types
  <2>2. /\ tasks' \in Lists /\ active' \in 0..Len(tasks')
        /\ selected' \in 1..TaskLimit + 1
        /\ cursor' \in 0..MaxSequence /\ screen' = "agent"
        /\ current' = current /\ link' = current
        /\ active' # 0 => /\ tasks'[active'].id = current
                          /\ ~tasks'[active'].unread
    BY <1>6, <2>1, AttachFacts
  <2> QED
    BY <1>1, <1>2, <2>1, <2>2, WaitEnds
<1> QED
  BY <1>4, <1>5, <1>6 DEF WaitFails

(* The answer to a request for the list brings a list, that for a new task  *)
(* its session.                                                             *)
LEMMA AnswerBrings ==
    ASSUME Inv, slot.phase = "succeeded"
    PROVE  /\ slot.request = ListRequest => slot.answer.rows \in Bodies
           /\ slot.request = StartRequest => slot.answer.session \in Sessions
<1>1. slot.answer \in Grants(slot.request)
  BY DEF Inv, Types, SlotOK
<1>2. ListRequest.type = "list" /\ StartRequest.type = "start"
  BY DEF ListRequest, StartRequest
<1>3. ASSUME slot.request = ListRequest
      PROVE  slot.answer.rows \in Bodies
  BY <1>1, <1>2, <1>3 DEF Grants
<1>4. ASSUME slot.request = StartRequest
      PROVE  slot.answer.session \in Sessions
  BY <1>1, <1>2, <1>4 DEF Grants
<1> QED
  BY <1>3, <1>4

(* A list the bridge sent gives distinct rows and marks the open task.      *)
LEMMA LoadedFacts ==
    ASSUME Inv, NEW body \in Bodies
    PROVE  LET n == Loaded(body)
               a == ActiveAfter(tasks, active, n)
           IN  /\ n \in Lists /\ a \in 0..Len(n)
               /\ SelectedAfter(selected, n) \in 1..TaskLimit + 1
               /\ a # 0 => active # 0 /\ n[a].id = tasks[active].id /\ ~n[a].unread
<1> DEFINE n == Loaded(body)
           a == ActiveAfter(tasks, active, n)
<1>1. tasks \in Lists /\ active \in 0..Len(tasks) /\ selected \in 1..TaskLimit + 1
  BY DEF Inv, Types
<1>2. /\ n \in Lists
      /\ \A i \in DOMAIN n : active # 0 /\ n[i].id = tasks[active].id => ~n[i].unread
  BY <1>1, ApplyRowsFacts DEF Loaded
<1> HIDE DEF n
<1>3. a \in 0..Len(n) /\ (a # 0 => active # 0 /\ n[a].id = tasks[active].id)
  BY <1>1, <1>2, ActiveAfterFacts
<1>4. SelectedAfter(selected, n) \in 1..TaskLimit + 1
  BY <1>1, <1>2, SelectedAfterFacts
<1> HIDE DEF a
<1>5. a # 0 => a \in DOMAIN n
  <2>1. Len(n) \in Nat /\ DOMAIN n = 1..Len(n)
    BY <1>2 DEF Lists
  <2> QED
    BY <1>3, <2>1
<1>6. a # 0 => ~n[a].unread
  BY <1>2, <1>3, <1>5
<1> QED
  BY <1>2, <1>3, <1>4, <1>6 DEF n, a

LEMMA WaitSucceedsInv == ASSUME Inv, WaitSucceeds PROVE Inv'
<1>1. /\ wait.begun /\ slot.phase = "succeeded" /\ wait # NotWaiting
      /\ ~refreshing /\ UNCHANGED <<refreshing, order, last>>
      /\ screen \in {"manager", "agent"}
  BY DEF WaitSucceeds, bridgeVars, Inv, Owned, Asked, NotWaiting
<1>2. SlotOK(Consume(slot)) /\ Consume(slot).phase = "idle"
  BY <1>1, ConsumeHolds DEF Inv, Types
<1>3. /\ current \in Sessions \cup {NoSession} /\ link \in Sessions \cup {NoSession}
      /\ tasks \in Lists /\ active \in 0..Len(tasks) /\ selected \in 1..TaskLimit + 1
      /\ cursor \in 0..MaxSequence
  BY DEF Inv, Types
<1>4. ASSUME wait.for = "load", tasks' = Loaded(slot.answer.rows),
             active' = ActiveAfter(tasks, active, tasks'),
             selected' = SelectedAfter(selected, tasks'),
             slot' = Consume(slot), wait' = NotWaiting,
             UNCHANGED <<screen, taskVars>>
      PROVE  Inv'
  <2>1. screen' = "manager" /\ UNCHANGED <<current, cursor, link>>
    BY <1>4 DEF taskVars, Inv, Asked
  <2>2. slot.answer.rows \in Bodies
    BY <1>1, <1>4, AnswerBrings DEF Inv, Asked
  <2>3. /\ tasks' \in Lists /\ active' \in 0..Len(tasks')
        /\ selected' \in 1..TaskLimit + 1
    BY <1>4, <2>2, LoadedFacts
  <2>4. screen' # "agent" /\ screen' \in {"manager", "retry", "agent"}
    BY <2>1
  <2> QED
    BY <1>1, <1>2, <1>3, <1>4, <2>1, <2>3, <2>4, WaitEnds
<1>5. ASSUME wait.for = "resume",
             Attach(tasks, active, selected, tasks[wait.target].id),
             slot' = Consume(slot), wait' = NotWaiting
      PROVE  Inv'
  <2> DEFINE session == tasks[wait.target].id
  <2>1. session \in Sessions
    BY <1>5, ResumeRow DEF Inv, Asked
  <2>2. Attach(tasks, active, selected, session)
    BY <1>5
  <2> HIDE DEF session
  <2>3. /\ tasks' \in Lists /\ active' \in 0..Len(tasks')
        /\ selected' \in 1..TaskLimit + 1
        /\ cursor' \in 0..MaxSequence /\ screen' = "agent"
        /\ current' = session /\ link' = session
        /\ active' # 0 => tasks'[active'].id = session /\ ~tasks'[active'].unread
    BY <1>3, <2>1, <2>2, AttachFacts
  <2> QED
    BY <1>1, <1>2, <1>5, <2>1, <2>3, WaitEnds
<1>6. ASSUME wait.for = "start", current' = slot.answer.session,
             BeginAndWait(Consume(slot), ListRequest, "relist", 0),
             UNCHANGED <<screen, listVars, cursor, link>>
      PROVE  Inv'
  <2>1. current' \in Sessions
    BY <1>1, <1>6, AnswerBrings DEF Inv, Asked
  <2>2. UNCHANGED <<screen, tasks, active, selected, cursor, link, order, last>>
        /\ refreshing' = FALSE
    BY <1>1, <1>6 DEF listVars
  <2>3. AskedFor("relist", ListRequest, 0) /\ StaysOpen("relist")
    BY <1>1, <2>1, <2>2 DEF AskedFor, StaysOpen
  <2>4. last' \in [Sessions -> 0..MaxSequence]
    BY <2>2 DEF Inv, Types
  <2> HIDE DEF Consume
  <2> QED
    BY <1>1, <1>2, <1>3, <1>6, <2>1, <2>2, <2>3, <2>4, RequestFacts, Begins
<1>7. ASSUME wait.for = "relist",
             Attach(Loaded(slot.answer.rows),
                    ActiveAfter(tasks, active, Loaded(slot.answer.rows)),
                    SelectedAfter(selected, Loaded(slot.answer.rows)), current),
             slot' = Consume(slot), wait' = NotWaiting
      PROVE  Inv'
  <2> DEFINE rows == Loaded(slot.answer.rows)
             was == ActiveAfter(tasks, active, rows)
             chosen == SelectedAfter(selected, rows)
  <2>1. slot.answer.rows \in Bodies /\ current \in Sessions
    BY <1>1, <1>7, AnswerBrings DEF Inv, Asked
  <2>2. rows \in Lists /\ chosen \in 1..TaskLimit + 1
    BY <2>1, LoadedFacts
  <2>3. Attach(rows, was, chosen, current)
    BY <1>7
  <2> HIDE DEF rows, was, chosen
  <2>4. /\ tasks' \in Lists /\ active' \in 0..Len(tasks')
        /\ selected' \in 1..TaskLimit + 1
        /\ cursor' \in 0..MaxSequence /\ screen' = "agent"
        /\ current' = current /\ link' = current
        /\ active' # 0 => tasks'[active'].id = current /\ ~tasks'[active'].unread
    BY <1>3, <2>1, <2>2, <2>3, AttachFacts
  <2> QED
    BY <1>1, <1>2, <1>7, <2>1, <2>4, WaitEnds
<1> QED
  BY <1>4, <1>5, <1>6, <1>7 DEF WaitSucceeds

LEMMA RefreshBeginsInv == ASSUME Inv, RefreshBegins PROVE Inv'
<1>1. /\ screen = "agent" /\ wait = NotWaiting /\ ~refreshing /\ slot.phase = "idle"
      /\ UNCHANGED <<screen, wait, tasks, active, selected, current, cursor, link,
                     order, last>>
  BY DEF RefreshBegins, listVars, taskVars, bridgeVars
<1>2. PICK b \in BeginRequest(slot, ListRequest) :
          slot' = b.slot /\ refreshing' = b.ok
  BY DEF RefreshBegins
<1>3. SlotOK(slot)
  BY DEF Inv, Types
<1>4. /\ SlotOK(slot') /\ b.ok \in BOOLEAN
      /\ b.ok => slot'.phase # "idle" /\ slot'.request = ListRequest
      /\ ~b.ok => slot'.phase = "idle"
  BY <1>1, <1>2, <1>3, RequestFacts, BeginHolds
<1>5. refreshing' \in BOOLEAN
  BY <1>2, <1>4
<1>6. Types'
  BY <1>1, <1>4, <1>5 DEF Inv, Types
<1>7. wait' = NotWaiting /\ wait'.for = "nothing" /\ ~wait'.begun
  BY <1>1 DEF NotWaiting
<1>8. Owned'
  BY <1>2, <1>4, <1>7, Zenon DEF Owned
<1>9. Asked'
  <2>1. refreshing' /\ slot'.phase # "idle" => slot'.request = ListRequest
    BY <1>4
  <2> QED
    BY <1>7, <2>1 DEF Asked
<1>10. Open'
  BY <1>1 DEF Inv, Open, Running
<1> QED
  BY <1>6, <1>8, <1>9, <1>10 DEF Inv

LEMMA RefreshEndsInv == ASSUME Inv, RefreshEnds PROVE Inv'
<1>1. /\ screen = "agent" /\ wait = NotWaiting /\ refreshing /\ refreshing' = FALSE
      /\ slot.phase \in {"succeeded", "failed"} /\ slot' = Consume(slot)
      /\ UNCHANGED <<screen, wait, current, cursor, link, order, last>>
  BY DEF RefreshEnds, taskVars, bridgeVars
<1>2. SlotOK(slot') /\ slot'.phase = "idle"
  BY <1>1, ConsumeHolds DEF Inv, Types
<1>3. wait' = NotWaiting /\ wait'.for = "nothing" /\ ~wait'.begun
      /\ wait.for # "relist"
  BY <1>1 DEF NotWaiting
<1>4. Owned' /\ Asked'
  BY <1>1, <1>2, <1>3 DEF Owned, Asked
<1>5. CASE slot.phase = "failed"
  <2>1. UNCHANGED <<tasks, active, selected>>
    BY <1>5 DEF RefreshEnds, listVars
  <2>2. Types'
    BY <1>1, <1>2, <2>1 DEF Inv, Types
  <2>3. Open'
    BY <1>1, <2>1 DEF Inv, Open, Running
  <2> QED
    BY <1>4, <2>2, <2>3 DEF Inv
<1>6. CASE slot.phase = "succeeded"
  <2>1. /\ tasks' = Loaded(slot.answer.rows)
        /\ active' = ActiveAfter(tasks, active, tasks')
        /\ selected' = SelectedAfter(selected, tasks')
    BY <1>6 DEF RefreshEnds
  <2>2. slot.answer.rows \in Bodies
    BY <1>1, <1>6, AnswerBrings DEF Inv, Asked
  <2>3. /\ tasks' \in Lists /\ active' \in 0..Len(tasks')
        /\ selected' \in 1..TaskLimit + 1
        /\ active' # 0 => /\ active # 0 /\ ~tasks'[active'].unread
                          /\ tasks'[active'].id = tasks[active].id
    BY <2>1, <2>2, LoadedFacts
  <2>4. Types'
    BY <1>1, <1>2, <2>3 DEF Inv, Types
  <2>5. active # 0 => tasks[active].id = current
    BY <1>1, <1>3 DEF Inv, Open
  <2>6. Open'
    BY <1>1, <2>3, <2>5 DEF Inv, Open, Running
  <2> QED
    BY <1>4, <2>4, <2>6 DEF Inv
<1> QED
  BY <1>1, <1>5, <1>6

LEMMA ApplyEventInv == ASSUME Inv, ApplyEvent PROVE Inv'
<1>1. /\ link # NoSession /\ cursor # last[link]
      /\ \/ cursor < last[link] /\ cursor' = cursor + 1
         \/ cursor' = last[link]
      /\ UNCHANGED <<screen, wait, slot, refreshing, tasks, active, selected,
                     current, link, order, last>>
  BY DEF ApplyEvent, listVars, bridgeVars
<1>2. link \in Sessions /\ cursor \in 0..MaxSequence /\ last[link] \in 0..MaxSequence
  BY <1>1 DEF Inv, Types
<1>3. cursor' \in 0..MaxSequence
  BY <1>1, <1>2, ClientTasksAssumption
<1>4. Types'
  BY <1>1, <1>3 DEF Inv, Types
<1>5. Owned' /\ Asked' /\ Open'
  BY <1>1 DEF Inv, Owned, Asked, Open, Running
<1> QED
  BY <1>4, <1>5 DEF Inv

(* What changes in the slot but its owner changes nothing else.             *)
LEMMA SlotMoves ==
    ASSUME Inv, SlotOK(slot'), slot'.request = slot.request,
           (slot'.phase = "idle") <=> (slot.phase = "idle"),
           order' \in Orders, last' \in [Sessions -> 0..MaxSequence],
           UNCHANGED <<screen, wait, refreshing, listVars, taskVars>>
    PROVE  Inv'
<1>1. UNCHANGED <<screen, wait, refreshing, tasks, active, selected, current,
                  cursor, link>>
  BY DEF listVars, taskVars
<1>2. Types'
  BY <1>1 DEF Inv, Types
<1>3. Owned'
  BY <1>1 DEF Inv, Owned
<1>4. Asked'
  <2>1. slot'.phase # "idle" => slot.phase # "idle"
    OBVIOUS
  <2>2. Asked
    BY DEF Inv
  <2>3. wait' = wait /\ tasks' = tasks /\ screen' = screen /\ current' = current
        /\ refreshing' = refreshing
    BY <1>1
  <2>4. slot'.request = slot.request
    OBVIOUS
  <2> QED
    BY <2>1, <2>2, <2>3, <2>4 DEF Asked
<1>5. Open'
  BY <1>1 DEF Inv, Open, Running
<1> QED
  BY <1>2, <1>3, <1>4, <1>5 DEF Inv

LEMMA PumpControlInv == ASSUME Inv, PumpControl PROVE Inv'
<1>1. /\ slot' \in Pump(slot) /\ UNCHANGED <<order, last>>
      /\ UNCHANGED <<screen, wait, refreshing, listVars, taskVars>>
  BY DEF PumpControl, bridgeVars
<1>2. /\ SlotOK(slot) /\ order \in Orders /\ last \in [Sessions -> 0..MaxSequence]
  BY DEF Inv, Types
<1>3. SlotOK(slot') /\ slot'.phase # "idle" /\ slot'.request = slot.request
  BY <1>1, <1>2, PumpHolds
<1>4. slot.phase # "idle"
  BY <1>1 DEF Pump, Progress, InProgress
<1> QED
  BY <1>1, <1>2, <1>3, <1>4, SlotMoves

LEMMA ServeControlInv == ASSUME Inv, ServeControl PROVE Inv'
<1> DEFINE r == Head(slot.up)
<1>1. /\ slot.up # <<>> /\ ~Ended(slot)
      /\ UNCHANGED <<screen, wait, refreshing, listVars, taskVars>>
  BY DEF ServeControl
<1>2. /\ SlotOK(slot) /\ order \in Orders /\ last \in [Sessions -> 0..MaxSequence]
  BY DEF Inv, Types
<1>3. /\ r = slot.request /\ r \in Requests
      /\ \A a \in AnswersTo(r) :
            /\ SlotOK(Serve(slot, a)) /\ Serve(slot, a).phase = slot.phase
            /\ Serve(slot, a).request = slot.request
  BY <1>1, <1>2, ServeHolds
<1>4. \/ slot' = Serve(slot, Answer(r, FALSE)) /\ UNCHANGED <<order, last>>
      \/ /\ r.type = "list" /\ UNCHANGED <<order, last>>
         /\ \E reusable \in BOOLEAN : slot' = Serve(slot, ListAnswer(r, reusable))
      \/ /\ r.type = "resume" /\ slot' = Serve(slot, Answer(r, TRUE))
         /\ last' = News(r.session) /\ UNCHANGED order
      \/ /\ r.type = "start"
         /\ \E s \in Sessions \ Known :
               /\ order' = Added(s) /\ last' = News(s)
               /\ slot' = Serve(slot, StartAnswer(r, s))
  BY DEF ServeControl, bridgeVars
<1> HIDE DEF r
<1> DEFINE Served ==
              /\ order' \in Orders /\ last' \in [Sessions -> 0..MaxSequence]
              /\ \E a \in AnswersTo(r) : slot' = Serve(slot, a)
<1>5. Served
  <2>1. CASE slot' = Serve(slot, Answer(r, FALSE)) /\ UNCHANGED <<order, last>>
    BY <1>2, <1>3, <2>1, AnswersHold DEF Inv
  <2>2. ASSUME r.type = "list", UNCHANGED <<order, last>>, NEW reusable \in BOOLEAN,
               slot' = Serve(slot, ListAnswer(r, reusable))
        PROVE  Served
    BY <1>2, <1>3, <2>2, AnswersHold DEF Inv
  <2>3. CASE /\ r.type = "resume" /\ slot' = Serve(slot, Answer(r, TRUE))
             /\ last' = News(r.session) /\ UNCHANGED order
    BY <1>2, <1>3, <2>3, AnswersHold, NewsFacts DEF Inv
  <2>4. ASSUME r.type = "start", NEW s \in Sessions \ Known,
               order' = Added(s), last' = News(s),
               slot' = Serve(slot, StartAnswer(r, s))
        PROVE  Served
    BY <1>2, <1>3, <2>4, AnswersHold, NewsFacts, OrderFacts DEF Inv
  <2> HIDE DEF Served
  <2> QED
    BY <1>4, <2>1, <2>2, <2>3, <2>4
<1>6. SlotOK(slot') /\ slot'.phase = slot.phase /\ slot'.request = slot.request
  BY <1>3, <1>5
<1> QED
  BY <1>1, <1>5, <1>6, SlotMoves

LEMMA PublishInv == ASSUME Inv, Publish PROVE Inv'
<1>1. PICK s \in Sessions : last' = News(s) /\ order' = Added(s)
  BY DEF Publish
<1>2. UNCHANGED <<screen, wait, refreshing, listVars, taskVars>> /\ slot' = slot
  BY DEF Publish
<1>3. /\ SlotOK(slot) /\ order \in Orders /\ last \in [Sessions -> 0..MaxSequence]
  BY DEF Inv, Types
<1>4. order' \in Orders /\ last' \in [Sessions -> 0..MaxSequence]
  BY <1>1, <1>3, OrderFacts, NewsFacts
<1>5. SlotOK(slot')
  BY <1>2, <1>3
<1> QED
  BY <1>2, <1>4, <1>5, SlotMoves

LEMMA RestartBridgeInv == ASSUME Inv, RestartBridge PROVE Inv'
<1>1. /\ slot' = EndLine(slot) /\ order' \in SetToSeqs(Known)
      /\ last' = [s \in Sessions |-> 0]
      /\ UNCHANGED <<screen, wait, refreshing, listVars, taskVars>>
  BY DEF RestartBridge
<1>2. SlotOK(slot) /\ order \in Orders
  BY DEF Inv, Types
<1>3. SlotOK(slot') /\ slot'.phase = slot.phase /\ slot'.request = slot.request
  BY <1>1, <1>2, EndLineHolds
<1>4. order' \in Orders
  BY <1>1, <1>2, OrderFacts
<1>5. last' \in [Sessions -> 0..MaxSequence]
  BY <1>1, ClientTasksAssumption
<1> QED
  BY <1>1, <1>3, <1>4, <1>5, SlotMoves

LEMMA NextInv == Inv /\ [Next]_vars => Inv'
<1> SUFFICES ASSUME Inv, [Next]_vars
             PROVE  Inv'
  OBVIOUS
<1>1. CASE Connect
  BY <1>1, ConnectInv
<1>2. CASE Retry
  BY <1>2, EnterManagerInv, LeaveForHomeInv DEF Retry
<1>3. CASE MoveSelection
  BY <1>3, MoveSelectionInv
<1>4. CASE ChooseRow
  BY <1>4, ChooseRowInv
<1>5. CASE ManagerKeys
  BY <1>5, ManagerKeysInv
<1>6. CASE WaitFails
  BY <1>6, WaitFailsInv
<1>7. CASE WaitSucceeds
  BY <1>7, WaitSucceedsInv
<1>8. CASE RefreshBegins
  BY <1>8, RefreshBeginsInv
<1>9. CASE RefreshEnds
  BY <1>9, RefreshEndsInv
<1>10. CASE StepToAdjacentTask
  BY <1>10, OpenTaskInv DEF StepToAdjacentTask
<1>11. CASE TapRail
  BY <1>11, OpenTaskInv DEF TapRail
<1>12. CASE NewTask
  BY <1>12, NewTaskInv
<1>13. CASE LeaveAgent
  BY <1>13, EnterManagerInv, LeaveForHomeInv DEF LeaveAgent
<1>14. CASE ApplyEvent
  BY <1>14, ApplyEventInv
<1>15. CASE PumpControl
  BY <1>15, PumpControlInv
<1>16. CASE ServeControl
  BY <1>16, ServeControlInv
<1>17. CASE Publish
  BY <1>17, PublishInv
<1>18. CASE RestartBridge
  BY <1>18, RestartBridgeInv
<1>19. CASE UNCHANGED vars
  <2>1. UNCHANGED <<screen, wait, slot, refreshing, tasks, active, selected,
                    current, cursor, link, order, last>>
    BY <1>19 DEF vars, listVars, taskVars, bridgeVars
  <2> QED
    BY <2>1 DEF Inv, Types, Owned, Asked, Open, Running
<1> QED
  BY <1>1, <1>2, <1>3, <1>4, <1>5, <1>6, <1>7, <1>8, <1>9, <1>10, <1>11, <1>12,
     <1>13, <1>14, <1>15, <1>16, <1>17, <1>18, <1>19 DEF Next

LEMMA AlwaysInv == Spec => []Inv
  BY InitInv, NextInv, PTL DEF Spec

-----------------------------------------------------------------------------
(* The slot, the screens and the list are of their types: the active row is *)
(* a row or none, the list and the selection stay within MAX_SESSION_CHOICES*)
(* of main.c, and the event cursor within the counted events.               *)
THEOREM TasksTyped == Spec => []TypeOK
<1>1. Inv => TypeOK
  <2> SUFFICES ASSUME Inv
               PROVE  TypeOK
    OBVIOUS
  <2>1. /\ slot.phase \in {"idle", "connecting", "sending", "receiving",
                           "succeeded", "failed"}
        /\ slot.request \in SlotRequests /\ slot.open \in BOOLEAN
    BY DEF Inv, Types, SlotOK, Slots
  <2>2. Len(tasks) <= TaskLimit
    BY DEF Inv, Types, Lists
  <2> QED
    BY <2>1, <2>2 DEF Inv, Types, TypeOK
<1> QED
  BY <1>1, AlwaysInv, PTL

(* The control transaction of network.c belongs to the request that a loop  *)
(* of main.c waits for or to the refresh of the agent loop: never to both,  *)
(* and never to nobody.                                                     *)
THEOREM SlotHasOneOwner == Spec => []SlotIsOwned
<1>1. Inv => SlotIsOwned
  <2> SUFFICES ASSUME Inv
               PROVE  SlotIsOwned
    OBVIOUS
  <2>1. wait.begun \in BOOLEAN /\ refreshing \in BOOLEAN
    BY DEF Inv, Types
  <2>2. wait.begun => wait # NotWaiting
    BY DEF NotWaiting
  <2> QED
    BY <2>1, <2>2 DEF Inv, Owned, SlotIsOwned, Running
<1> QED
  BY <1>1, AlwaysInv, PTL

(* However requests are cancelled, time out or lose their connection, and   *)
(* whatever the bridge answers and when: a transaction that succeeded holds *)
(* the answer to its own request.                                           *)
THEOREM AnswersAreTheirs == Spec => []AnswersMatch
<1>1. Inv => AnswersMatch
  <2> SUFFICES ASSUME Inv, slot.phase = "succeeded"
               PROVE  slot.answer.to = slot.request
    BY DEF AnswersMatch
  <2>1. slot.request \in Requests /\ slot.answer \in Grants(slot.request)
    BY DEF Inv, Types, SlotOK
  <2> QED
    BY <2>1, AnswerFacts DEF AnswersTo
<1> QED
  BY <1>1, AlwaysInv, PTL

(* In the agent loop of main.c the pushed link is that of the current task, *)
(* the row that is marked as open is that task's and is read, and no task   *)
(* has two rows: for any number of tasks of the bridge, any limit of the    *)
(* list, and any order in which the bridge lists them.                      *)
THEOREM RailIsRight == Spec => []RailShowsTheOpenTask
<1>1. Inv => RailShowsTheOpenTask
  <2> SUFFICES ASSUME Inv, Running
               PROVE  /\ link = current /\ current # NoSession
                      /\ active # 0 => /\ tasks[active].id = current
                                       /\ ~tasks[active].unread
                      /\ \A i, j \in DOMAIN tasks : tasks[i].id = tasks[j].id => i = j
    BY DEF RailShowsTheOpenTask
  <2>1. screen = "agent" /\ wait.for # "relist"
    BY DEF Running, NotWaiting
  <2>2. link = current /\ current # NoSession
    BY <2>1, ClientTasksAssumption DEF Inv, Open
  <2>3. active # 0 => tasks[active].id = current /\ ~tasks[active].unread
    BY <2>1 DEF Inv, Open
  <2>4. \A i, j \in DOMAIN tasks : tasks[i].id = tasks[j].id => i = j
    BY DEF Inv, Types, Lists
  <2> QED
    BY <2>2, <2>3, <2>4
<1> QED
  BY <1>1, AlwaysInv, PTL

-----------------------------------------------------------------------------
(***************************************************************************)
(* MediaStream: what the bridge saves of an upload is the whole of it, and *)
(* what the client is told was accepted was saved.                         *)
(*                                                                         *)
(* The argument: the blocks of an upload are numbered as they were spoken, *)
(* and the file the bridge writes, the chunks on the connection, the chunk *)
(* that waits to be sent and the buffer of the microphone are one run of   *)
(* numbers, from the first block to the last that was read.                *)
(***************************************************************************)

Phases == {"idle", "connecting", "header", "streaming", "end", "receiving",
           "succeeded", "failed"}

Data == Seq(Int)

Frames ==
    [type : {"header"}, kind : Kinds] \cup [type : {"chunk"}, data : Data]
        \cup [type : {"end"}]

Microphones ==
    [written : Nat, read : 0..RingSize - 1, stopped : 0..RingSize - 1, total : Nat,
     sampling : BOOLEAN, open : BOOLEAN, full : BOOLEAN, lapped : BOOLEAN]

Transactions ==
    [phase : Phases, kind : Kinds \cup {"none"}, output : Data, finish : BOOLEAN]

MediaTypes ==
    /\ mic \in Microphones
    /\ buffer \in Data
    /\ rec \in [active : BOOLEAN, stop : BOOLEAN, finish : BOOLEAN]
    /\ photo \in [active : BOOLEAN, offset : 0..PhotoSize, finish : BOOLEAN]
    /\ tx \in Transactions
    /\ up \in Seq(Frames)
    /\ down \in Seq([ok : BOOLEAN, reusable : BOOLEAN])
    /\ serving \in [phase : {"idle", "reading", "working", "refused"},
                    kind : Kinds \cup {"none"}, body : Data]
    /\ saved \in Data

(* What is known of the microphone while a recording is made.               *)
Hears(m) ==
    /\ m.read = m.total % RingSize
    /\ m.total <= PcmCapacity /\ (m.total = PcmCapacity <=> m.full)
    /\ ~m.sampling /\ ~m.full => m.stopped = m.written % RingSize
    /\ m.full => ~m.sampling
    /\ ~m.lapped => m.total <= m.written /\ m.written - m.total < RingSize

(* Consecutive blocks after the one with that number. *)
RunOf(data, from) == data = [i \in 1..Len(data) |-> from + i]

Whole == tx.kind = "photo" \/ ~mic.lapped

Runs(data, from, whole) == whole => RunOf(data, from)

(* The frames carry the blocks from one number to another, and end with     *)
(* the end of the upload if that was sent.                                  *)
Carries(q, from, to, ended, whole) ==
    /\ ended => q # <<>> /\ q[Len(q)].type = "end"
    /\ \E pos \in [1..Len(q) + 1 -> 0..to] :
          /\ pos[1] = from /\ pos[Len(q) + 1] = to
          /\ \A k \in 1..Len(q) :
                \/ /\ q[k].type = "chunk" /\ Runs(q[k].data, pos[k], whole)
                   /\ pos[k + 1] = pos[k] + Len(q[k].data)
                \/ /\ q[k].type = "end" /\ k = Len(q) /\ ended
                   /\ pos[k + 1] = pos[k]

-----------------------------------------------------------------------------
(* The invariant.                                                           *)

(* Whose the transaction is. *)
Roles ==
    /\ ~(rec.active /\ photo.active)
    /\ tx.phase # "idle" =>
          \/ rec.active /\ tx.kind = "audio"
          \/ photo.active /\ tx.kind = "photo"

Recording ==
    /\ rec.active => Hears(mic) /\ Len(buffer) <= BufferSize
    /\ rec.active /\ rec.stop => ~mic.sampling
    /\ rec.active /\ rec.finish =>
          /\ rec.stop /\ buffer = <<>> /\ mic.total > 0
          /\ Readable(mic, BufferSize) = 0

(* What the client has of the upload, in the transaction and before it.     *)
Size == IF tx.kind = "photo" THEN photo.offset ELSE mic.total
Kept == IF tx.kind = "photo" THEN <<>> ELSE buffer

Flows(sent) ==
    /\ sent + Len(tx.output) + Len(Kept) = Size
    /\ Runs(tx.output, sent, Whole)
    /\ Runs(Kept, sent + Len(tx.output), Whole)

Finishing ==
    /\ tx.finish =>
          IF tx.kind = "photo" THEN photo.offset = PhotoSize ELSE rec.finish
    /\ tx.phase \in {"end", "receiving"} => tx.finish /\ tx.output = <<>>

MediaQuiet == up = <<>> /\ down = <<>> /\ serving.phase = "idle"

(* Where the upload is: its header is on the way, the bridge reads it, the  *)
(* bridge refused it, or the bridge has it and may have answered.           *)
HeaderOnTheWay(sent) ==
    /\ serving.phase = "idle" /\ down = <<>> /\ saved = <<>>
    /\ up # <<>> /\ Head(up).type = "header"
    /\ Carries(Tail(up), 0, sent, tx.phase = "receiving", Whole)

BeingRead(sent) ==
    /\ serving.phase = "reading" /\ down = <<>> /\ saved = <<>>
    /\ Runs(serving.body, 0, Whole)
    /\ Carries(up, Len(serving.body), sent, tx.phase = "receiving", Whole)

Refused ==
    /\ serving.phase \in {"idle", "refused"} /\ down = <<Refusal>> /\ saved = <<>>
    /\ \A k \in 1..Len(up) : up[k].type # "header"

Done ==
    /\ tx.phase = "receiving" /\ up = <<>> /\ saved # <<>>
    /\ \/ serving.phase = "working" /\ down = <<>>
       \/ serving.phase = "idle" /\ Len(down) = 1

Upload ==
    \E sent \in 0..Size :
        /\ Flows(sent)
        /\ \/ /\ tx.phase \in {"connecting", "header"}
              /\ MediaQuiet /\ sent = 0 /\ tx.output = <<>> /\ saved = <<>>
           \/ /\ tx.phase \in {"streaming", "end", "receiving"}
              /\ HeaderOnTheWay(sent) \/ BeingRead(sent) \/ Refused \/ Done

Line ==
    /\ Uploading => Upload
    /\ ~Uploading => MediaQuiet

(* What is saved is whole, and stays so while the upload lasts.             *)
Saved ==
    /\ tx.phase = "succeeded" => saved # <<>>
    /\ photo.active /\ saved # <<>> => saved = Numbered(PhotoSize)
    /\ rec.active /\ saved # <<>> =>
          rec.finish /\ (~mic.lapped => saved = Numbered(mic.total))

MediaInv == MediaTypes /\ Roles /\ Recording /\ Finishing /\ Line /\ Saved

-----------------------------------------------------------------------------
(* The ring.                                                                *)

LEMMA RemainderRange ==
    ASSUME NEW R \in Nat, R > 0, NEW x \in Nat
    PROVE  x % R \in 0..R - 1
  OBVIOUS

LEMMA Remainder ==
    ASSUME NEW R \in Nat, R > 0, NEW x \in Nat
    PROVE  x = R * (x \div R) + (x % R) /\ x \div R \in Nat
  OBVIOUS

(* Division by R has one quotient, and so one remainder.                    *)
LEMMA QuotientIs ==
    ASSUME NEW R \in Nat, R > 0, NEW a \in Int, NEW b \in Int,
           NEW r \in 0..R - 1, NEW s \in 0..R - 1, R * a + r = R * b + s
    PROVE  a = b
  OBVIOUS

Divided(x, R, a, r) == x = R * a + r

LEMMA RemainderIs ==
    ASSUME NEW R \in Nat, R > 0, NEW x \in Nat, NEW a \in Int,
           NEW r \in 0..R - 1, Divided(x, R, a, r)
    PROVE  x % R = r
<1> DEFINE b == x \div R
           s == x % R
<1>1. s \in 0..R - 1
  BY RemainderRange
<1>2. b \in Nat /\ x = R * b + s
  BY Remainder
<1> HIDE DEF b, s
<1>3. x = R * a + r
  BY DEF Divided
<1>4. R * a + r = R * b + s
  BY <1>2, <1>3
<1>5. a = b
  BY <1>1, <1>2, <1>4, QuotientIs
<1>6. R * a = R * b /\ R * a \in Int
  BY <1>5
<1>7. r = s
  BY <1>1, <1>2, <1>3, <1>6
<1> QED
  BY <1>7 DEF s

(* Two offsets of the ring are as far apart as what they stand for, if that *)
(* is less than once around.                                                *)
LEMMA RingDistance ==
    ASSUME NEW R \in Nat, R > 0, NEW w \in Nat, NEW t \in Nat, t <= w, w - t < R
    PROVE  (IF (w % R) >= (t % R) THEN (w % R) - (t % R) ELSE R - (t % R) + (w % R)) = w - t
<1> DEFINE b == t \div R
           s == t % R
           d == w - t
<1>1. s \in 0..R - 1 /\ b \in Nat /\ t = R * b + s
  <2>1. s \in 0..R - 1
    BY RemainderRange
  <2>2. b \in Nat /\ t = R * b + s
    BY Remainder
  <2> QED
    BY <2>1, <2>2
<1>2. d \in 0..R - 1
  OBVIOUS
<1> HIDE DEF b, s, d
<1>3. w = t + d
  BY DEF d
<1>4. CASE s + d < R
  <2> DEFINE r == s + d
  <2>1. r \in 0..R - 1 /\ w = R * b + r
    BY <1>1, <1>2, <1>3, <1>4
  <2> HIDE DEF r
  <2>2. Divided(w, R, b, r)
    BY <2>1 DEF Divided
  <2>3. w % R = r
    BY <1>1, <2>1, <2>2, RemainderIs
  <2>4. r >= s /\ r - s = d
    BY <1>1, <1>2 DEF r
  <2>5. (w % R) >= (t % R) /\ (w % R) - (t % R) = d
    BY <2>3, <2>4 DEF s
  <2> QED
    BY <2>5 DEF d
<1>5. CASE ~(s + d < R)
  <2> DEFINE r == s + d - R
             a == b + 1
  <2>1. r \in 0..R - 1
    BY <1>1, <1>2, <1>5
  <2>2. R * (b + 1) = R * b + R
    BY <1>1
  <2>3. a \in Int /\ w = R * a + r
    BY <1>1, <1>2, <1>3, <2>2
  <2> HIDE DEF r, a
  <2>4. Divided(w, R, a, r)
    BY <2>3 DEF Divided
  <2>5. w % R = r
    BY <2>1, <2>3, <2>4, RemainderIs
  <2>6. ~(r >= s) /\ R - s + r = d
    BY <1>1, <1>2 DEF r
  <2>7. ~((w % R) >= (t % R)) /\ R - (t % R) + (w % R) = d
    BY <2>5, <2>6 DEF s
  <2> QED
    BY <2>7 DEF d
<1> QED
  BY <1>4, <1>5

(* Advancing an offset advances what it stands for.                         *)
LEMMA RingAdvance ==
    ASSUME NEW R \in Nat, R > 0, NEW t \in Nat, NEW n \in Nat
    PROVE  ((t % R) + n) % R = (t + n) % R
<1> DEFINE b == t \div R
           s == t % R
           x == s + n
           c == x \div R
           r == x % R
<1>1. s \in 0..R - 1 /\ b \in Nat /\ t = R * b + s
  <2>1. s \in 0..R - 1
    BY RemainderRange
  <2>2. b \in Nat /\ t = R * b + s
    BY Remainder
  <2> QED
    BY <2>1, <2>2
<1>2. x \in Nat
  BY <1>1
<1> HIDE DEF b, s
<1>3. r \in 0..R - 1 /\ c \in Nat /\ x = R * c + r
  <2> HIDE DEF x
  <2>1. r \in 0..R - 1
    BY <1>2, RemainderRange
  <2>2. c \in Nat /\ x = R * c + r
    BY <1>2, Remainder
  <2> QED
    BY <2>1, <2>2
<1> HIDE DEF c, r, x
<1>4. R * (b + c) = R * b + R * c
  BY <1>1, <1>3
<1>5. b + c \in Int /\ Divided(t + n, R, b + c, r)
  <2>1. R * b \in Nat /\ R * c \in Nat
    BY <1>1, <1>3
  <2> DEFINE k == b + c
             p == R * b
             q == R * c
  <2>2. t = p + s /\ x = q + r /\ x = s + n /\ R * k = p + q
    BY <1>1, <1>3, <1>4 DEF x
  <2>3. k \in Int /\ p \in Nat /\ q \in Nat /\ s \in Int /\ r \in Int
    BY <1>1, <1>3, <2>1
  <2> HIDE DEF k, p, q
  <2>4. t + n = R * k + r
    BY <2>2, <2>3
  <2>5. k \in Int /\ Divided(t + n, R, k, r)
    BY <2>3, <2>4 DEF Divided
  <2> QED
    BY <2>5 DEF k
<1>6. (t + n) % R = r
  <2> DEFINE y == t + n
             k == b + c
  <2>1. y \in Nat /\ k \in Int /\ r \in 0..R - 1 /\ Divided(y, R, k, r)
    BY <1>3, <1>5
  <2> HIDE DEF y, k
  <2>2. y % R = r
    BY <2>1, RemainderIs
  <2> QED
    BY <2>2 DEF y
<1> QED
  BY <1>6 DEF r, s, x

LEMMA MinOfTwoSizes ==
    ASSUME NEW m \in Nat, NEW n \in Nat
    PROVE  Min({m, n}) = IF m <= n THEN m ELSE n
<1>1. CASE m <= n
  BY <1>1 DEF Min
<1>2. CASE ~(m <= n)
  BY <1>2 DEF Min
<1> QED
  BY <1>1, <1>2

(* The least of three sizes.                                                *)
LEMMA MinOfThree ==
    ASSUME NEW k \in Nat, NEW m \in Nat, NEW n \in Nat
    PROVE  /\ Min({k, m, n}) \in {k, m, n}
           /\ Min({k, m, n}) <= k /\ Min({k, m, n}) <= m /\ Min({k, m, n}) <= n
<1> DEFINE S == {k, m, n}
<1>1. \E x \in S : \A y \in S : x <= y
  <2>1. S \in SUBSET Nat /\ S # {}
    OBVIOUS
  <2> HIDE DEF S
  <2> QED
    BY <2>1, LeastNumber
<1> HIDE DEF S
<1>2. Min(S) \in S /\ \A y \in S : Min(S) <= y
  BY <1>1 DEF Min
<1> QED
  BY <1>2 DEF S

(* What the constants are.                                                  *)
LEMMA Sizes ==
    /\ RingSize \in Nat /\ RingSize > 0 /\ PcmCapacity \in Nat /\ PcmCapacity > 0
    /\ BufferSize \in Nat /\ BufferSize > 0 /\ PhotoSize \in Nat /\ PhotoSize > 0
  BY MicrophoneAssumption, MediaStreamAssumption

(* Unless it was lapped, the offsets of the ring tell how much is unread.   *)
LEMMA AvailableFacts ==
    ASSUME NEW m \in Microphones
    PROVE  /\ Available(m) \in Nat
           /\ Hears(m) /\ ~m.full /\ ~m.lapped => Available(m) = m.written - m.total
<1>1. /\ m.written \in Nat /\ m.total \in Nat /\ m.read \in 0..RingSize - 1
      /\ m.stopped \in 0..RingSize - 1 /\ RingSize \in Nat /\ RingSize > 0
  BY Sizes DEF Microphones
<1> DEFINE write == IF m.sampling THEN m.written % RingSize ELSE m.stopped
<1>2. write \in 0..RingSize - 1
  BY <1>1, RemainderRange
<1>3. Available(m) = IF write >= m.read THEN write - m.read
                     ELSE RingSize - m.read + write
  BY DEF Available
<1>4. Available(m) \in Nat
  <2> HIDE DEF write
  <2> QED
    BY <1>1, <1>2, <1>3
<1>5. ASSUME Hears(m), ~m.full, ~m.lapped
      PROVE  Available(m) = m.written - m.total
  <2>1. /\ m.read = m.total % RingSize /\ m.total <= m.written
        /\ m.written - m.total < RingSize
        /\ write = m.written % RingSize
    BY <1>5 DEF Hears
  <2> DEFINE w == m.written
             t == m.total
  <2>2. w \in Nat /\ t \in Nat /\ t <= w /\ w - t < RingSize
    BY <1>1, <2>1
  <2>3. write = w % RingSize /\ m.read = t % RingSize
    BY <2>1
  <2> HIDE DEF write, w, t
  <2>4. (IF (w % RingSize) >= (t % RingSize) THEN (w % RingSize) - (t % RingSize)
         ELSE RingSize - (t % RingSize) + (w % RingSize)) = w - t
    BY <1>1, <2>2, RingDistance
  <2>5. (IF write >= m.read THEN write - m.read ELSE RingSize - m.read + write) = w - t
    BY <2>3, <2>4
  <2> QED
    BY <1>3, <2>5 DEF w, t
<1> QED
  BY <1>4, <1>5

(* What a read takes, and what it leaves.                                   *)
LEMMA ReadableFacts ==
    ASSUME NEW m \in Microphones, Hears(m), NEW room \in Nat
    PROVE  /\ Readable(m, room) \in 0..room
           /\ Readable(m, room) <= PcmCapacity - m.total
           /\ ~m.full => Readable(m, room) <= Available(m)
           /\ ~m.full => Readable(m, room) \in {room, PcmCapacity - m.total, Available(m)}
<1>1. m.total \in Nat /\ m.total <= PcmCapacity /\ PcmCapacity \in Nat
      /\ m.full \in BOOLEAN
  BY Sizes DEF Hears, Microphones
<1>2. CASE m.full
  BY <1>1, <1>2 DEF Readable
<1>3. CASE ~m.full
  <2> DEFINE left == PcmCapacity - m.total
             there == Available(m)
  <2>1. left \in Nat /\ there \in Nat
    BY <1>1, AvailableFacts
  <2>2. Readable(m, room) = Min({room, left, there})
    BY <1>3 DEF Readable
  <2> HIDE DEF left, there
  <2>3. /\ Readable(m, room) \in {room, left, there}
        /\ Readable(m, room) <= room
        /\ Readable(m, room) <= left /\ Readable(m, room) <= there
    BY <2>1, <2>2, MinOfThree
  <2> QED
    BY <1>3, <2>1, <2>3 DEF left, there
<1> QED
  BY <1>2, <1>3

(* A read takes what is readable and keeps the offsets in step.             *)
LEMMA ReadFacts ==
    ASSUME NEW m \in Microphones, Hears(m), NEW room \in Nat
    PROVE  LET r == ReadCapture(m, room)
               n == Readable(m, room)
           IN  /\ r \in Microphones /\ Hears(r)
               /\ r.total = m.total + n /\ r.written = m.written
               /\ r.lapped = m.lapped /\ r.open = m.open
               /\ r.sampling => m.sampling
<1> DEFINE n == Readable(m, room)
           at == (m.read + n) % RingSize
           sum == m.total + n
           read == [m EXCEPT !.read = at, !.total = sum]
           end == [read EXCEPT !.sampling = FALSE, !.full = TRUE,
                               !.stopped = read.read]
           r == ReadCapture(m, room)
<1>1. /\ n \in Nat /\ n <= PcmCapacity - m.total
      /\ m.total \in Nat /\ m.read \in Nat /\ m.written \in Nat
      /\ m.total <= PcmCapacity /\ PcmCapacity \in Nat
  BY ReadableFacts, Sizes DEF Hears, Microphones
<1>2. at \in 0..RingSize - 1 /\ at = sum % RingSize
  <2>1. m.read = m.total % RingSize
    BY DEF Hears
  <2>2. at = ((m.total % RingSize) + n) % RingSize
    BY <2>1
  <2>3. at = sum % RingSize
    BY <1>1, <2>2, Sizes, RingAdvance
  <2>4. sum \in Nat
    BY <1>1
  <2> QED
    BY <2>3, <2>4, Sizes, RemainderRange
<1>3. sum \in Nat /\ sum <= PcmCapacity
  BY <1>1
<1>4. r = IF sum < PcmCapacity THEN read ELSE end
  BY DEF ReadCapture, Microphones
<1>5. n # 0 => ~m.full
  BY <1>1 DEF Hears
<1>6. ~m.full /\ ~m.lapped => n <= m.written - m.total
  BY <1>1, ReadableFacts, AvailableFacts
<1> HIDE DEF n, at, sum, r
<1>7. CASE sum < PcmCapacity
  <2>1. /\ read \in Microphones /\ read.read = at /\ read.total = sum
        /\ read.written = m.written /\ read.lapped = m.lapped /\ read.open = m.open
        /\ read.sampling = m.sampling /\ read.full = m.full
        /\ read.stopped = m.stopped
    BY <1>2, <1>3 DEF Microphones
  <2> HIDE DEF read
  <2>2. ~m.full
    BY <1>1, <1>7 DEF Hears, sum
  <2>3. ~m.lapped => sum <= m.written /\ m.written - sum < RingSize
    BY <1>1, <1>6, <2>2, Sizes DEF Hears, sum
  <2>4. Hears(read)
    BY <1>2, <1>3, <1>7, <2>1, <2>2, <2>3 DEF Hears
  <2> QED
    BY <1>4, <1>7, <2>1, <2>4 DEF r, sum, n
<1>8. CASE ~(sum < PcmCapacity)
  <2>0. sum = PcmCapacity
    BY <1>1, <1>3, <1>8
  <2>1. /\ end \in Microphones /\ end.read = at /\ end.total = sum
        /\ end.written = m.written /\ end.lapped = m.lapped /\ end.open = m.open
        /\ end.sampling = FALSE /\ end.full = TRUE
    BY <1>2, <1>3 DEF Microphones
  <2> HIDE DEF end
  <2>3. ~m.lapped => sum <= m.written /\ m.written - sum < RingSize
    <3>1. CASE n = 0
      BY <1>1, <3>1, Sizes DEF Hears, sum
    <3>2. CASE n # 0
      BY <1>1, <1>5, <1>6, <3>2, Sizes DEF Hears, sum
    <3> QED
      BY <3>1, <3>2
  <2>4. Hears(end)
    BY <1>1, <1>2, <2>0, <2>1, <2>3 DEF Hears
  <2> QED
    BY <1>4, <1>8, <2>1, <2>4 DEF r, sum, n
<1> QED
  BY <1>7, <1>8

(* The blocks that are read are those that come next, unless some of them   *)
(* were overwritten.                                                        *)
LEMMA BlocksReadFacts ==
    ASSUME NEW m \in Microphones, Hears(m), NEW room \in Nat
    PROVE  /\ BlocksRead(m, room) \in Data
           /\ Len(BlocksRead(m, room)) = Readable(m, room)
           /\ ~m.lapped => RunOf(BlocksRead(m, room), m.total)
<1> DEFINE n == Readable(m, room)
           from == m.written - Available(m)
           blocks == BlocksRead(m, room)
<1>1. n \in Nat /\ from \in Int /\ m.total \in Nat
  BY ReadableFacts, AvailableFacts DEF Microphones
<1>2. blocks = [i \in 1..n |-> from + i]
  BY DEF BlocksRead
<1>3. m.full => n = 0
  BY DEF Readable
<1>4. ~m.full /\ ~m.lapped => from = m.total
  <2>1. ~m.full /\ ~m.lapped => Available(m) = m.written - m.total
    BY AvailableFacts
  <2> QED
    BY <2>1 DEF Microphones
<1> HIDE DEF n, from, blocks
<1>5. blocks \in Data /\ Len(blocks) = n
  BY <1>1, <1>2 DEF Data
<1>6. ASSUME ~m.lapped
      PROVE  blocks = [i \in 1..Len(blocks) |-> m.total + i]
  <2>1. CASE n = 0
    BY <1>2, <1>5, <2>1
  <2>2. CASE n # 0
    BY <1>2, <1>3, <1>4, <1>5, <1>6, <2>2
  <2> QED
    BY <2>1, <2>2
<1> QED
  BY <1>5, <1>6 DEF RunOf, n, blocks

(* A microphone that has nothing for the buffer has nothing for a smaller   *)
(* one, and reading it changes nothing that is known of it.                 *)
LEMMA NothingToRead ==
    ASSUME NEW m \in Microphones, Hears(m), Readable(m, BufferSize) = 0, ~m.sampling
    PROVE  LET r == ReadCapture(m, BufferSize)
           IN  r.total = m.total /\ Readable(r, BufferSize) = 0
<1> DEFINE r == ReadCapture(m, BufferSize)
           n == Readable(m, BufferSize)
           at == (m.read + n) % RingSize
           sum == m.total + n
           read == [m EXCEPT !.read = at, !.total = sum]
           end == [read EXCEPT !.sampling = FALSE, !.full = TRUE,
                               !.stopped = read.read]
<1>1. n = 0 /\ sum = m.total /\ m.total \in Nat /\ m.read \in 0..RingSize - 1
  BY DEF Microphones
<1>2. at = m.read
  <2>1. m.read \in Nat /\ m.total \in Nat /\ m.read = m.total % RingSize
    BY <1>1, Sizes DEF Hears
  <2>2. at = ((m.total % RingSize) + 0) % RingSize
    <3> HIDE DEF n
    <3>1. m.read + n = (m.total % RingSize) + 0
      BY <1>1, <2>1
    <3> QED
      BY <3>1
  <2>3. at = (m.total + 0) % RingSize
    <3> DEFINE t == m.total
    <3>1. t \in Nat /\ 0 \in Nat /\ at = ((t % RingSize) + 0) % RingSize
      BY <2>1, <2>2
    <3> HIDE DEF t, at
    <3>2. ((t % RingSize) + 0) % RingSize = (t + 0) % RingSize
      BY <3>1, Sizes, RingAdvance
    <3> QED
      BY <3>1, <3>2 DEF t
  <2>4. m.total + 0 = m.total
    BY <2>1
  <2>5. at = m.total % RingSize
    BY <2>3, <2>4
  <2> HIDE DEF at
  <2> QED
    BY <2>1, <2>5
<1>3. r = IF read.total < PcmCapacity THEN read ELSE end
  BY DEF ReadCapture, Microphones
<1>4. read = m /\ read.total = m.total
  <2> HIDE DEF at, sum
  <2> QED
    BY <1>1, <1>2 DEF Microphones
<1>5. end.full /\ end.total = read.total
  BY <1>4 DEF Microphones
<1> HIDE DEF read, end
<1>6. CASE read.total < PcmCapacity
  BY <1>3, <1>4, <1>6 DEF n, r
<1>7. CASE ~(read.total < PcmCapacity)
  <2>1. r = end
    BY <1>3, <1>7
  <2>2. Readable(r, BufferSize) = 0
    BY <2>1, <1>5 DEF Readable
  <2> QED
    BY <1>4, <1>5, <2>1, <2>2
<1> QED
  BY <1>6, <1>7

(* What ends a capture, and what goes on in it.                             *)
LEMMA FinishFacts ==
    ASSUME NEW m \in Microphones
    PROVE  LET r == FinishCapture(m)
           IN  /\ r \in Microphones /\ ~r.sampling
               /\ r.total = m.total /\ r.lapped = m.lapped /\ r.full = m.full
               /\ Hears(m) => Hears(r)
<1> DEFINE at == m.written % RingSize
           end == [m EXCEPT !.sampling = FALSE, !.stopped = at]
<1>1. at \in 0..RingSize - 1
  BY Sizes, RemainderRange DEF Microphones
<1>2. /\ end \in Microphones /\ end.sampling = FALSE /\ end.stopped = at
      /\ end.written = m.written /\ end.read = m.read /\ end.total = m.total
      /\ end.full = m.full /\ end.lapped = m.lapped
  <2> HIDE DEF at
  <2> QED
    BY <1>1 DEF Microphones
<1>3. FinishCapture(m) = IF ~m.sampling THEN m ELSE end
  BY DEF FinishCapture
<1> HIDE DEF end
<1>4. CASE m.sampling
  <2>1. Hears(m) => Hears(end)
    BY <1>2 DEF Hears
  <2> QED
    BY <1>2, <1>3, <1>4, <2>1
<1>5. CASE ~m.sampling
  BY <1>3, <1>5
<1> QED
  BY <1>4, <1>5

LEMMA BreakFacts ==
    ASSUME NEW m \in Microphones
    PROVE  BreakCapture(m) \in Microphones
  BY DEF BreakCapture, Microphones

(* The service writing a block keeps them in step, or laps the reader.      *)
LEMMA HearFacts ==
    ASSUME NEW m \in Microphones, m.sampling
    PROVE  LET r == Hear(m)
           IN  /\ r \in Microphones /\ r.total = m.total /\ r.full = m.full
               /\ r.sampling = m.sampling
               /\ m.lapped => r.lapped
               /\ Hears(m) => Hears(r)
<1> DEFINE w == m.written + 1
           late == m.lapped \/ m.written + 1 - m.total >= RingSize
           r == [m EXCEPT !.written = w, !.lapped = late]
<1>1. m.written \in Nat /\ m.total \in Nat /\ m.lapped \in BOOLEAN
  BY DEF Microphones
<1>2. w \in Nat /\ late \in BOOLEAN
  BY <1>1
<1>3. /\ r \in Microphones /\ r.written = w /\ r.lapped = late
      /\ r.total = m.total /\ r.full = m.full /\ r.sampling = m.sampling
      /\ r.read = m.read /\ r.stopped = m.stopped
  <2> HIDE DEF w, late
  <2> QED
    BY <1>2 DEF Microphones
<1>4. Hear(m) = r
  BY DEF Hear
<1>5. ~late => ~m.lapped /\ ~(m.written + 1 - m.total >= RingSize)
  OBVIOUS
<1>6. ASSUME Hears(m) PROVE Hears(r)
  <2>1. ~late => m.total <= w /\ w - m.total < RingSize
    BY <1>1, <1>5, <1>6, Sizes DEF Hears
  <2> HIDE DEF w, late, r
  <2> QED
    BY <1>3, <1>6, <2>1 DEF Hears
<1>7. m.lapped => late
  OBVIOUS
<1> HIDE DEF r, w, late
<1>8. r.lapped = late
  BY <1>3
<1>9. m.lapped => r.lapped
  BY <1>7, <1>8
<1>10. /\ r \in Microphones /\ r.total = m.total /\ r.full = m.full
       /\ r.sampling = m.sampling
  BY <1>3
<1>11. /\ Hear(m) \in Microphones /\ Hear(m).total = m.total
       /\ Hear(m).full = m.full /\ Hear(m).sampling = m.sampling
  BY <1>4, <1>10
<1>12. m.lapped => Hear(m).lapped
  BY <1>4, <1>9
<1>13. Hears(m) => Hears(Hear(m))
  BY <1>4, <1>6
<1> QED
  BY <1>11, <1>12, <1>13

(* A capture begins with nothing written and nothing read.                  *)
LEMMA BeginFacts ==
    BeginCapture \in Microphones /\ Hears(BeginCapture) /\ BeginCapture.total = 0
    /\ MicrophoneOff \in Microphones
<1> DEFINE m == BeginCapture
<1>0. MicrophoneOff \in Microphones
  BY Sizes DEF MicrophoneOff, Microphones
<1>1. /\ m \in Microphones /\ m.read = MicrophoneOff.read
      /\ m.written = MicrophoneOff.written /\ m.total = MicrophoneOff.total
      /\ m.sampling = TRUE /\ m.full = MicrophoneOff.full
      /\ m.lapped = MicrophoneOff.lapped
  BY <1>0 DEF BeginCapture, Microphones
<1>2. /\ m \in Microphones /\ m.read = 0 /\ m.written = 0 /\ m.total = 0
      /\ m.sampling /\ ~m.full /\ ~m.lapped
  <2> HIDE DEF m
  <2> QED
    BY <1>1 DEF MicrophoneOff
<1>3. 0 % RingSize = 0
  <2>1. 0 \in Nat /\ 0 \in Int /\ 0 \in 0..RingSize - 1 /\ Divided(0, RingSize, 0, 0)
    BY Sizes DEF Divided
  <2> QED
    BY <2>1, Sizes, RemainderIs
<1> HIDE DEF m
<1>5. Hears(m)
  BY <1>2, <1>3, Sizes DEF Hears
<1> QED
  BY <1>0, <1>2, <1>5 DEF m

-----------------------------------------------------------------------------
(* Blocks in order.                                                         *)

(* A run, block by block.                                                   *)
LEMMA RunElements ==
    ASSUME NEW x \in Data, NEW from \in Int
    PROVE  RunOf(x, from) <=> \A i \in 1..Len(x) : x[i] = from + i
<1>1. ASSUME RunOf(x, from), NEW i \in 1..Len(x) PROVE x[i] = from + i
  <2> DEFINE f == [j \in 1..Len(x) |-> from + j]
  <2>1. f[i] = from + i
    OBVIOUS
  <2>2. x = f
    BY <1>1 DEF RunOf
  <2> QED
    BY <2>1, <2>2
<1>2. ASSUME \A i \in 1..Len(x) : x[i] = from + i PROVE RunOf(x, from)
  <2>1. x = [i \in 1..Len(x) |-> x[i]]
    BY DEF Data
  <2> QED
    BY <1>2, <2>1 DEF RunOf
<1> QED
  BY <1>1, <1>2

LEMMA RunOfNothing == ASSUME NEW from PROVE RunOf(<<>>, from)
  BY DEF RunOf

(* Two runs that follow each other are one.                                 *)
LEMMA RunJoin ==
    ASSUME NEW x \in Data, NEW y \in Data, NEW from \in Int,
           RunOf(x, from), RunOf(y, from + Len(x))
    PROVE  RunOf(x \o y, from)
<1>1. x \o y \in Data /\ Len(x \o y) = Len(x) + Len(y) /\ Len(x) \in Nat /\ Len(y) \in Nat
  BY DEF Data
<1>2. ASSUME NEW i \in 1..Len(x \o y) PROVE (x \o y)[i] = from + i
  <2>1. CASE i \in 1..Len(x)
    <3>1. (x \o y)[i] = x[i]
      BY <1>1, <2>1 DEF Data
    <3> QED
      BY <2>1, <3>1, RunElements
  <2>2. CASE i \notin 1..Len(x)
    <3> DEFINE j == i - Len(x)
               mid == from + Len(x)
    <3>1. j \in 1..Len(y) /\ mid \in Int /\ mid + j = from + i
      BY <1>1, <2>2
    <3>2. (x \o y)[i] = y[j]
      BY <1>1, <2>2 DEF Data
    <3>3. RunOf(y, mid)
      OBVIOUS
    <3> HIDE DEF j, mid
    <3>4. y[j] = mid + j
      BY <3>1, <3>3, RunElements
    <3> QED
      BY <3>1, <3>2, <3>4
  <2> QED
    BY <2>1, <2>2
<1> QED
  BY <1>1, <1>2, RunElements

LEMMA RunsJoin ==
    ASSUME NEW x \in Data, NEW y \in Data, NEW from \in Int, NEW whole,
           Runs(x, from, whole), Runs(y, from + Len(x), whole)
    PROVE  Runs(x \o y, from, whole)
  BY RunJoin DEF Runs

(* A run from the first block on is the whole numbered recording.           *)
LEMMA RunsFromStart ==
    ASSUME NEW x \in Data, NEW n \in Nat, Len(x) = n, RunOf(x, 0)
    PROVE  x = Numbered(n)
<1>1. x = [i \in 1..n |-> 0 + i]
  BY DEF RunOf
<1>2. \A i \in 1..n : 0 + i = i
  OBVIOUS
<1> QED
  BY <1>1, <1>2 DEF Numbered

-----------------------------------------------------------------------------
(* The frames on the connection.                                            *)

Chunk(data) == [type |-> "chunk", data |-> data]
End == [type |-> "end"]

LEMMA FrameKinds ==
    ASSUME NEW f \in Frames
    PROVE  /\ f.type \in {"header", "chunk", "end"}
           /\ f.type = "chunk" => f.data \in Data
           /\ f.type = "header" => f.kind \in Kinds
  BY DEF Frames

LEMMA NewFrames ==
    /\ \A data \in Data : Chunk(data) \in Frames
    /\ End \in Frames
    /\ \A kind \in Kinds : [type |-> "header", kind |-> kind] \in Frames
  BY DEF Chunk, End, Frames

(* An empty line carries nothing.                                           *)
LEMMA CarriesNothing ==
    ASSUME NEW n \in Nat, NEW whole
    PROVE  Carries(<<>>, n, n, FALSE, whole)
<1> DEFINE pos == [k \in 1..1 |-> n]
<1>1. pos \in [1..Len(<<>>) + 1 -> 0..n] /\ pos[1] = n /\ pos[Len(<<>>) + 1] = n
  OBVIOUS
<1>2. \A k \in 1..Len(<<>>) : FALSE
  OBVIOUS
<1> HIDE DEF pos
<1> QED
  BY <1>1, <1>2 DEF Carries

(* What the frames carry, with the numbers they begin at.                   *)
At(q, pos, k, ended, whole) ==
    \/ /\ q[k].type = "chunk" /\ Runs(q[k].data, pos[k], whole)
       /\ pos[k + 1] = pos[k] + Len(q[k].data)
    \/ /\ q[k].type = "end" /\ k = Len(q) /\ ended
       /\ pos[k + 1] = pos[k]

Along(q, pos, from, to, ended, whole) ==
    /\ pos \in [1..Len(q) + 1 -> 0..to]
    /\ pos[1] = from /\ pos[Len(q) + 1] = to
    /\ \A k \in 1..Len(q) : At(q, pos, k, ended, whole)

(* Carries with the positions between the frames named.                     *)
LEMMA CarriesAlong ==
    ASSUME NEW q, NEW from, NEW to, NEW ended, NEW whole
    PROVE  Carries(q, from, to, ended, whole) <=>
               /\ ended => q # <<>> /\ q[Len(q)].type = "end"
               /\ \E pos : Along(q, pos, from, to, ended, whole)
  BY DEF Carries, Along, At

(* Carries of what is equivalent, or asks for less.                         *)
LEMMA CarriesAs ==
    ASSUME NEW q, NEW from, NEW to, NEW ended \in BOOLEAN, NEW whole,
           NEW over \in BOOLEAN, NEW less,
           Carries(q, from, to, ended, whole), over <=> ended, less => whole
    PROVE  Carries(q, from, to, over, less)
<1>0. over = ended
  OBVIOUS
<1>1. PICK pos : Along(q, pos, from, to, ended, whole)
  BY CarriesAlong
<1>2. ASSUME NEW k, At(q, pos, k, ended, whole) PROVE At(q, pos, k, ended, less)
  BY <1>2 DEF At, Runs
<1>3. Along(q, pos, from, to, ended, less)
  BY <1>1, <1>2 DEF Along
<1>4. ended => q # <<>> /\ q[Len(q)].type = "end"
  BY CarriesAlong
<1>5. Carries(q, from, to, ended, less)
  BY <1>3, <1>4, CarriesAlong
<1> QED
  BY <1>0, <1>5

(* Behind a header there are only chunks and the end.                       *)
LEMMA CarriesNoHeader ==
    ASSUME NEW q \in Seq(Frames), NEW from, NEW to, NEW ended, NEW whole,
           Carries(q, from, to, ended, whole), q # <<>>
    PROVE  /\ Head(q).type \in {"chunk", "end"}
           /\ \A k \in 1..Len(q) : q[k].type # "header"
<1>1. PICK pos : Along(q, pos, from, to, ended, whole)
  BY CarriesAlong
<1>2. \A k \in 1..Len(q) : q[k].type \in {"chunk", "end"}
  BY <1>1 DEF Along, At
<1>3. Head(q) = q[1] /\ 1 \in 1..Len(q)
  OBVIOUS
<1> QED
  BY <1>2, <1>3

(* A frame is sent.                                                         *)
LEMMA CarriesChunk ==
    ASSUME NEW q \in Seq(Frames), NEW from \in Nat, NEW to \in Nat, NEW whole,
           Carries(q, from, to, FALSE, whole),
           NEW data \in Data, Runs(data, to, whole)
    PROVE  Carries(Append(q, Chunk(data)), from, to + Len(data), FALSE, whole)
<1> DEFINE n == Len(q)
           size == Len(data)
           sum == to + size
           longer == Append(q, Chunk(data))
<1>1. PICK pos : Along(q, pos, from, to, FALSE, whole)
  BY CarriesAlong
<1>2. n \in Nat /\ size \in Nat /\ sum \in Nat /\ to <= sum
  BY DEF Data
<1>3. /\ Len(longer) = n + 1 /\ longer[n + 1] = Chunk(data)
      /\ \A k \in 1..n : longer[k] = q[k]
  OBVIOUS
<1> DEFINE further == [k \in 1..n + 2 |-> IF k = n + 2 THEN sum ELSE pos[k]]
<1> HIDE DEF longer, n, size, sum
<1>4. /\ \A k \in 1..n + 1 : further[k] = pos[k]
      /\ further[n + 2] = sum
  BY <1>2
<1>5. pos \in [1..n + 1 -> 0..to] /\ pos[1] = from /\ pos[n + 1] = to
  BY <1>1 DEF Along, n
<1>6. further \in [1..Len(longer) + 1 -> 0..sum]
  <2>1. ASSUME NEW k \in 1..n + 2
        PROVE  (IF k = n + 2 THEN sum ELSE pos[k]) \in 0..sum
    <3>1. CASE k = n + 2
      BY <1>2, <3>1
    <3>2. CASE k # n + 2
      <4>1. k \in 1..n + 1
        BY <1>2, <3>2
      <4>2. pos[k] \in 0..to
        BY <1>5, <4>1
      <4> QED
        BY <1>2, <3>2, <4>2
    <3> QED
      BY <3>1, <3>2
  <2>2. Len(longer) + 1 = n + 2
    BY <1>2, <1>3
  <2> QED
    BY <2>1, <2>2
<1> HIDE DEF further
<1>7. ASSUME NEW k \in 1..n + 1
      PROVE  At(longer, further, k, FALSE, whole)
  <2>1. CASE k \in 1..n
    <3>1. At(q, pos, k, FALSE, whole)
      BY <1>1, <2>1 DEF Along, n
    <3>2. longer[k] = q[k] /\ further[k] = pos[k] /\ further[k + 1] = pos[k + 1]
      BY <1>2, <1>3, <1>4, <2>1
    <3> QED
      BY <3>1, <3>2 DEF At
  <2>2. CASE k = n + 1
    <3>1. longer[k] = Chunk(data) /\ further[k] = to /\ further[k + 1] = sum
      <4>1. k \in 1..n + 1 /\ k + 1 = n + 2
        BY <1>2, <2>2
      <4> QED
        BY <1>3, <1>4, <1>5, <2>2, <4>1
    <3>2. longer[k].type = "chunk" /\ longer[k].data = data
      BY <3>1 DEF Chunk
    <3> QED
      BY <3>1, <3>2 DEF At, sum, size
  <2>3. k \in 1..n \/ k = n + 1
    BY <1>2
  <2> QED
    BY <2>1, <2>2, <2>3
<1>8. further[1] = from /\ further[Len(longer) + 1] = sum
  <2>1. 1 \in 1..n + 1 /\ Len(longer) + 1 = n + 2
    BY <1>2, <1>3
  <2> QED
    BY <1>4, <1>5, <2>1
<1>9. Along(longer, further, from, sum, FALSE, whole)
  BY <1>3, <1>6, <1>7, <1>8 DEF Along
<1> QED
  BY <1>9, CarriesAlong DEF longer, sum, size

(* The end may be sent once, behind everything.                             *)
LEMMA CarriesEnd ==
    ASSUME NEW q \in Seq(Frames), NEW from \in Nat, NEW to \in Nat, NEW whole,
           Carries(q, from, to, FALSE, whole)
    PROVE  Carries(Append(q, End), from, to, TRUE, whole)
<1> DEFINE n == Len(q)
           longer == Append(q, End)
<1>1. PICK pos : Along(q, pos, from, to, FALSE, whole)
  BY CarriesAlong
<1>2. n \in Nat
  OBVIOUS
<1>3. /\ Len(longer) = n + 1 /\ longer[n + 1] = End
      /\ \A k \in 1..n : longer[k] = q[k]
  OBVIOUS
<1> DEFINE further == [k \in 1..n + 2 |-> IF k = n + 2 THEN to ELSE pos[k]]
<1> HIDE DEF longer, n
<1>4. /\ \A k \in 1..n + 1 : further[k] = pos[k]
      /\ further[n + 2] = to
  BY <1>2
<1>5. pos \in [1..n + 1 -> 0..to] /\ pos[1] = from /\ pos[n + 1] = to
  BY <1>1 DEF Along, n
<1>6. further \in [1..Len(longer) + 1 -> 0..to]
  <2>1. ASSUME NEW k \in 1..n + 2
        PROVE  (IF k = n + 2 THEN to ELSE pos[k]) \in 0..to
    <3>1. CASE k = n + 2
      BY <1>2, <3>1
    <3>2. CASE k # n + 2
      <4>1. k \in 1..n + 1
        BY <1>2, <3>2
      <4> QED
        BY <1>5, <3>2, <4>1
    <3> QED
      BY <3>1, <3>2
  <2>2. Len(longer) + 1 = n + 2
    BY <1>2, <1>3
  <2> QED
    BY <2>1, <2>2
<1> HIDE DEF further
<1>7. ASSUME NEW k \in 1..n + 1
      PROVE  At(longer, further, k, TRUE, whole)
  <2>1. CASE k \in 1..n
    <3>1. At(q, pos, k, FALSE, whole)
      BY <1>1, <2>1 DEF Along, n
    <3>2. longer[k] = q[k] /\ further[k] = pos[k] /\ further[k + 1] = pos[k + 1]
      BY <1>2, <1>3, <1>4, <2>1
    <3> QED
      BY <3>1, <3>2 DEF At
  <2>2. CASE k = n + 1
    <3>1. longer[k] = End /\ further[k] = to /\ further[k + 1] = to
      <4>1. k \in 1..n + 1 /\ k + 1 = n + 2
        BY <1>2, <2>2
      <4> QED
        BY <1>3, <1>4, <1>5, <2>2, <4>1
    <3>2. longer[k].type = "end" /\ k = Len(longer)
      BY <1>3, <2>2, <3>1 DEF End
    <3> QED
      BY <3>1, <3>2 DEF At
  <2>3. k \in 1..n \/ k = n + 1
    BY <1>2
  <2> QED
    BY <2>1, <2>2, <2>3
<1>8. further[1] = from /\ further[Len(longer) + 1] = to
  <2>1. 1 \in 1..n + 1 /\ Len(longer) + 1 = n + 2
    BY <1>2, <1>3
  <2> QED
    BY <1>4, <1>5, <2>1
<1>9. Along(longer, further, from, to, TRUE, whole)
  BY <1>3, <1>6, <1>7, <1>8 DEF Along
<1>10. longer # <<>> /\ longer[Len(longer)].type = "end"
  BY <1>2, <1>3 DEF End
<1> QED
  BY <1>9, <1>10, CarriesAlong DEF longer

(* A frame is read.                                                         *)
LEMMA CarriesAfterChunk ==
    ASSUME NEW q \in Seq(Frames), NEW from \in Nat, NEW to \in Nat,
           NEW ended \in BOOLEAN, NEW whole,
           Carries(q, from, to, ended, whole), q # <<>>, Head(q).type = "chunk"
    PROVE  /\ Head(q).data \in Data
           /\ Runs(Head(q).data, from, whole)
           /\ from + Len(Head(q).data) \in 0..to
           /\ Carries(Tail(q), from + Len(Head(q).data), to, ended, whole)
<1> DEFINE n == Len(q)
           rest == Tail(q)
           data == Head(q).data
           next == from + Len(data)
<1>1. PICK pos : Along(q, pos, from, to, ended, whole)
  BY CarriesAlong
<1>2. n \in Nat /\ n > 0
  OBVIOUS
<1>3. /\ Len(rest) = n - 1 /\ \A k \in 1..n - 1 : rest[k] = q[k + 1]
      /\ q[1] = Head(q)
  OBVIOUS
<1>4. data \in Data
  <2>1. Head(q) \in Frames
    OBVIOUS
  <2> QED
    BY <2>1, FrameKinds
<1>5. q[1].type = "chunk" /\ q[1].data = data
  BY <1>3
<1> DEFINE behind == [k \in 1..n |-> pos[k + 1]]
<1> HIDE DEF rest, n, data
<1>6. pos \in [1..n + 1 -> 0..to] /\ pos[1] = from /\ pos[n + 1] = to
  BY <1>1 DEF Along, n
<1>7. Runs(data, from, whole) /\ pos[2] = next
  <2>1. At(q, pos, 1, ended, whole)
    BY <1>1, <1>2 DEF Along, n
  <2>2. q[1].type # "end"
    BY <1>5
  <2>3. Runs(q[1].data, pos[1], whole) /\ pos[1 + 1] = pos[1] + Len(q[1].data)
    BY <2>1, <2>2 DEF At
  <2> QED
    BY <2>3, <1>5, <1>6
<1>8. next \in 0..to
  BY <1>2, <1>6, <1>7
<1>9. \A k \in 1..n : behind[k] = pos[k + 1]
  OBVIOUS
<1>10. behind \in [1..Len(rest) + 1 -> 0..to]
  <2>1. ASSUME NEW k \in 1..n PROVE pos[k + 1] \in 0..to
    <3>1. k + 1 \in 1..n + 1
      BY <1>2
    <3> QED
      BY <1>6, <3>1
  <2>2. Len(rest) + 1 = n
    BY <1>2, <1>3
  <2> QED
    BY <2>1, <2>2
<1> HIDE DEF behind, next
<1>11. ASSUME NEW k \in 1..Len(rest) PROVE At(rest, behind, k, ended, whole)
  <2>1. k \in 1..n - 1 /\ k + 1 \in 1..n /\ k \in 1..n
    BY <1>2, <1>3
  <2>2. At(q, pos, k + 1, ended, whole)
    BY <1>1, <2>1 DEF Along, n
  <2>3. /\ rest[k] = q[k + 1] /\ behind[k] = pos[k + 1]
        /\ behind[k + 1] = pos[k + 1 + 1]
    BY <1>3, <1>9, <2>1
  <2>4. k + 1 = Len(q) => k = Len(rest)
    BY <1>2, <1>3, <2>1 DEF n
  <2> QED
    BY <2>2, <2>3, <2>4 DEF At
<1>12. behind[1] = next /\ behind[Len(rest) + 1] = to
  <2>1. 1 \in 1..n /\ n \in 1..n /\ Len(rest) + 1 = n /\ 1 + 1 = 2
    BY <1>2, <1>3
  <2> QED
    BY <1>6, <1>7, <1>9, <2>1
<1>13. Along(rest, behind, next, to, ended, whole)
  BY <1>10, <1>11, <1>12 DEF Along
<1>14. ended => rest # <<>> /\ rest[Len(rest)].type = "end"
  <2>1. SUFFICES ASSUME ended PROVE rest # <<>> /\ rest[Len(rest)].type = "end"
    OBVIOUS
  <2>2. q[n].type = "end"
    BY <2>1, CarriesAlong DEF n
  <2>3. n # 1
    BY <1>5, <2>2
  <2>4. Len(rest) \in 1..n - 1 /\ Len(rest) + 1 = n
    BY <1>2, <1>3, <2>3
  <2>5. rest[Len(rest)] = q[n]
    BY <1>3, <2>4
  <2>6. Len(<<>>) = 0
    OBVIOUS
  <2>7. rest # <<>>
    BY <2>4, <2>6
  <2> QED
    BY <2>2, <2>5, <2>7
<1>15. Carries(rest, next, to, ended, whole)
  BY <1>13, <1>14, CarriesAlong
<1> QED
  BY <1>4, <1>7, <1>8, <1>15 DEF rest, next, data

(* Behind the end there is nothing.                                         *)
LEMMA CarriesAfterEnd ==
    ASSUME NEW q \in Seq(Frames), NEW from \in Nat, NEW to \in Nat,
           NEW ended \in BOOLEAN, NEW whole,
           Carries(q, from, to, ended, whole), q # <<>>, Head(q).type = "end"
    PROVE  ended /\ Tail(q) = <<>> /\ from = to
<1>1. PICK pos : Along(q, pos, from, to, ended, whole)
  BY CarriesAlong
<1>2. Head(q) = q[1] /\ 1 \in 1..Len(q)
  OBVIOUS
<1>3. At(q, pos, 1, ended, whole)
  BY <1>1, <1>2 DEF Along
<1>4. 1 = Len(q) /\ ended /\ pos[1 + 1] = pos[1]
  BY <1>2, <1>3 DEF At
<1>5. pos[1] = from /\ pos[Len(q) + 1] = to
  BY <1>1 DEF Along
<1>6. from = to
  BY <1>4, <1>5
<1>7. Tail(q) = <<>>
  <2>1. Tail(q) \in Seq(Frames) /\ Len(Tail(q)) = 0
    BY <1>4
  <2> QED
    BY <2>1, EmptySeq
<1> QED
  BY <1>4, <1>6, <1>7

-----------------------------------------------------------------------------
(* drain_microphone_samples(): what was read of the microphone and not yet  *)
(* sent is in the chunk that waits and in the buffer.                       *)

Drains == [mic : Microphones, buffer : Data, tx : Transactions]

DrainOK(d, sent) ==
    /\ d \in Drains /\ Hears(d.mic) /\ Len(d.buffer) <= BufferSize
    /\ sent + Len(d.tx.output) + Len(d.buffer) = d.mic.total
    /\ Runs(d.tx.output, sent, ~d.mic.lapped)
    /\ Runs(d.buffer, sent + Len(d.tx.output), ~d.mic.lapped)

(* What draining leaves alone. *)
Drawn(d, e) ==
    /\ e.mic.lapped = d.mic.lapped /\ e.mic.total >= d.mic.total
    /\ e.mic.sampling => d.mic.sampling
    /\ e.tx.phase = d.tx.phase /\ e.tx.kind = d.tx.kind /\ e.tx.finish = d.tx.finish
    /\ d.tx.phase # "streaming" => e.tx.output = d.tx.output

(* Draining in two passes is draining.                                      *)
LEMMA DrawnTransitive ==
    ASSUME NEW c \in Drains, NEW d \in Drains, NEW e \in Drains, Drawn(c, d), Drawn(d, e)
    PROVE  Drawn(c, e)
<1>1. c.mic.total \in Nat /\ d.mic.total \in Nat /\ e.mic.total \in Nat
  BY DEF Drains, Microphones
<1>2. e.mic.total >= c.mic.total
  BY <1>1 DEF Drawn
<1> QED
  BY <1>2 DEF Drawn

LEMMA DrawnSame ==
    ASSUME NEW d \in Drains
    PROVE  Drawn(d, d)
  BY DEF Drawn, Drains, Microphones

LEMMA JoinFacts ==
    ASSUME NEW x \in Data, NEW y \in Data
    PROVE  x \o y \in Data /\ Len(x \o y) = Len(x) + Len(y)
  BY DEF Data

LEMMA DrainsWith ==
    ASSUME NEW d \in Drains, NEW t \in Transactions, NEW b \in Data
    PROVE  LET e == [d EXCEPT !.tx = t, !.buffer = b]
           IN  e \in Drains /\ e.mic = d.mic /\ e.buffer = b /\ e.tx = t
<1> USE DEF Drains
<1> HIDE DEF Data
<1> QED
  OBVIOUS

(* Handing the buffer to the transaction loses nothing of the run.          *)
LEMMA SendBufferFacts ==
    ASSUME NEW d, NEW sent \in Nat, DrainOK(d, sent), NEW force
    PROVE  LET e == SendBuffer(d, force)
           IN  /\ DrainOK(e, sent) /\ Drawn(d, e) /\ e.mic = d.mic
               /\ d.buffer = <<>> => e = d
<1> DEFINE written == Write(d.tx, d.buffer)
           s == [d EXCEPT !.tx = written, !.buffer = <<>>]
           e == SendBuffer(d, force)
<1>1. d \in Drains /\ d.mic \in Microphones /\ d.buffer \in Data /\ d.tx \in Transactions
  BY DEF DrainOK, Drains
<1>2. CASE e = d
  BY <1>1, <1>2, DrawnSame
<1>3. CASE e # d
  <2>1. e = s /\ d.buffer # <<>> /\ CanWrite(d.tx)
    BY <1>3 DEF SendBuffer
  <2>2. d.tx.phase = "streaming" /\ d.tx.output = <<>> /\ ~d.tx.finish
    BY <2>1 DEF CanWrite
  <2>3. /\ written \in Transactions /\ written.output = d.buffer
        /\ written.phase = d.tx.phase /\ written.kind = d.tx.kind
        /\ written.finish = d.tx.finish
    BY <1>1 DEF Write, Transactions
  <2> HIDE DEF written
  <2>4. /\ s \in Drains /\ s.mic = d.mic /\ s.buffer = <<>> /\ s.tx = written
    <3>1. <<>> \in Data
      BY DEF Data
    <3> QED
      BY <1>1, <2>3, <3>1, DrainsWith
  <2> HIDE DEF s
  <2>5. /\ Len(d.tx.output) = 0 /\ Len(s.buffer) = 0 /\ Len(d.buffer) \in Nat
    BY <1>1, <2>2, <2>4 DEF Data
  <2>6. sent + Len(d.buffer) = d.mic.total
    BY <2>5 DEF DrainOK
  <2>7. Runs(d.buffer, sent, ~d.mic.lapped)
    <3>1. sent + Len(d.tx.output) = sent
      BY <2>5
    <3> QED
      BY <3>1 DEF DrainOK
  <2>8. DrainOK(s, sent)
    <3>1. Runs(<<>>, sent + Len(s.tx.output), ~s.mic.lapped)
      BY RunOfNothing DEF Runs
    <3>2. sent + Len(s.tx.output) + Len(s.buffer) = s.mic.total
      BY <2>3, <2>4, <2>5, <2>6
    <3>3. Len(s.buffer) <= BufferSize
      BY <2>5, Sizes
    <3>4. Hears(s.mic)
      BY <2>4 DEF DrainOK
    <3>5. Runs(s.tx.output, sent, ~s.mic.lapped)
      BY <2>3, <2>4, <2>7
    <3> QED
      BY <2>4, <3>1, <3>2, <3>3, <3>4, <3>5 DEF DrainOK
  <2>9. Drawn(d, s)
    <3>1. s.mic.total >= d.mic.total
      BY <1>1, <2>4 DEF Microphones
    <3> QED
      BY <2>2, <2>3, <2>4, <3>1 DEF Drawn
  <2> QED
    BY <2>1, <2>4, <2>8, <2>9
<1> QED
  BY <1>2, <1>3

(* Reading into the buffer continues the run.                               *)
LEMMA FillFacts ==
    ASSUME NEW d, NEW sent \in Nat, DrainOK(d, sent)
    PROVE  LET e == Fill(d)
               room == BufferSize - Len(d.buffer)
           IN  /\ DrainOK(e, sent) /\ Drawn(d, e) /\ e.tx = d.tx
               /\ e.mic = ReadCapture(d.mic, room)
               /\ Len(e.buffer) = Len(d.buffer) + Readable(d.mic, room)
<1> DEFINE room == BufferSize - Len(d.buffer)
           n == Readable(d.mic, room)
           blocks == BlocksRead(d.mic, room)
           m == ReadCapture(d.mic, room)
           data == d.buffer \o blocks
           e == [d EXCEPT !.buffer = data, !.mic = m]
<1>1. d \in Drains /\ d.mic \in Microphones /\ d.buffer \in Data /\ d.tx \in Transactions
      /\ Hears(d.mic)
  BY DEF DrainOK, Drains
<1>2. Len(d.buffer) \in Nat /\ Len(d.tx.output) \in Nat /\ d.mic.total \in Nat
      /\ d.tx.output \in Data
  BY <1>1 DEF Data, Transactions, Microphones
<1>3. room \in Nat
  BY <1>2, Sizes DEF DrainOK
<1> HIDE DEF room
<1>4. n \in 0..room /\ n \in Nat /\ blocks \in Data /\ Len(blocks) = n
      /\ (~d.mic.lapped => RunOf(blocks, d.mic.total))
  <2>1. Readable(d.mic, room) \in 0..room
    BY <1>1, <1>3, ReadableFacts
  <2>2. /\ BlocksRead(d.mic, room) \in Data
        /\ Len(BlocksRead(d.mic, room)) = Readable(d.mic, room)
        /\ ~d.mic.lapped => RunOf(BlocksRead(d.mic, room), d.mic.total)
    BY <1>1, <1>3, BlocksReadFacts
  <2> HIDE DEF m, data, e
  <2>3. n \in Nat
    BY <2>1, <1>3
  <2> QED
    BY <2>1, <2>2, <2>3 DEF n, blocks
<1>5. /\ m \in Microphones /\ Hears(m) /\ m.total = d.mic.total + n
      /\ m.lapped = d.mic.lapped /\ (m.sampling => d.mic.sampling)
  BY <1>1, <1>3, ReadFacts
<1> HIDE DEF n, blocks, m
<1>6. data \in Data /\ Len(data) = Len(d.buffer) + n
  <2>1. data \in Data /\ Len(data) = Len(d.buffer) + Len(blocks)
    BY <1>1, <1>4, JoinFacts
  <2> QED
    BY <1>4, <2>1
<1>7. Fill(d) = e
  BY DEF Fill, room, blocks, m
<1>8. Runs(data, sent + Len(d.tx.output), ~m.lapped)
  <2> DEFINE from == sent + Len(d.tx.output)
  <2>1. from \in Int /\ from + Len(d.buffer) = d.mic.total
    <3> DEFINE o == Len(d.tx.output)
    <3>1. from + Len(d.buffer) = d.mic.total
      BY DEF DrainOK
    <3>2. o \in Nat
      BY <1>2
    <3> HIDE DEF o
    <3>3. sent + o \in Int
      BY <3>2
    <3> QED
      BY <3>1, <3>3 DEF o
  <2>2. Runs(d.buffer, from, ~m.lapped)
    BY <1>5 DEF DrainOK
  <2> HIDE DEF from
  <2>3. Runs(blocks, from + Len(d.buffer), ~m.lapped)
    BY <1>4, <1>5, <2>1 DEF Runs
  <2>4. Runs(data, from, ~m.lapped)
    BY <1>1, <1>4, <2>1, <2>2, <2>3, RunsJoin
  <2> QED
    BY <2>4 DEF from
<1> HIDE DEF data
<1>9. e \in Drains /\ e.mic = m /\ e.buffer = data /\ e.tx = d.tx
  BY <1>1, <1>5, <1>6 DEF Drains
<1> HIDE DEF e
<1>10. DrainOK(e, sent)
  <2>1. Len(e.buffer) <= BufferSize
    BY <1>2, <1>4, <1>6, <1>9, Sizes DEF room
  <2>2. sent + Len(e.tx.output) + Len(e.buffer) = e.mic.total
    <3>1. sent + Len(d.tx.output) + Len(d.buffer) = d.mic.total
      BY DEF DrainOK
    <3> DEFINE o == Len(d.tx.output)
               b == Len(d.buffer)
               t == d.mic.total
    <3>2. o \in Nat /\ b \in Nat /\ t \in Nat /\ n \in Nat /\ sent + o + b = t
      BY <1>2, <1>4, <3>1
    <3>3. Len(e.tx.output) = o /\ Len(e.buffer) = b + n /\ e.mic.total = t + n
      BY <1>5, <1>6, <1>9
    <3> HIDE DEF o, b, t
    <3>4. sent + o + (b + n) = t + n
      BY <3>2
    <3> QED
      BY <3>3, <3>4
  <2>3. Runs(e.tx.output, sent, ~e.mic.lapped)
    BY <1>5, <1>9 DEF DrainOK
  <2> QED
    BY <1>5, <1>8, <1>9, <2>1, <2>2, <2>3 DEF DrainOK
<1>11. Drawn(d, e)
  <2>1. e.mic.total >= d.mic.total
    BY <1>2, <1>4, <1>5, <1>9
  <2> QED
    BY <1>5, <1>9, <2>1 DEF Drawn
<1> QED
  BY <1>6, <1>7, <1>9, <1>10, <1>11 DEF n, m, room

(* A drain that has nothing to read leaves all as it is.                    *)
DrainEmpty(d) == d.buffer = <<>> /\ Readable(d.mic, BufferSize) = 0 /\ ~d.mic.sampling

(* A read of a drained microphone does nothing.                             *)
LEMMA FillEmpty ==
    ASSUME NEW d, NEW sent \in Nat, DrainOK(d, sent), DrainEmpty(d)
    PROVE  LET e == Fill(d)
           IN  DrainEmpty(e) /\ e.mic.total = d.mic.total /\ e.tx = d.tx
<1> DEFINE e == Fill(d)
           room == BufferSize - Len(d.buffer)
<1>1. d \in Drains /\ d.mic \in Microphones /\ Hears(d.mic)
  BY DEF DrainOK, Drains
<1>2. room = BufferSize
  BY Sizes DEF DrainEmpty
<1>3. /\ DrainOK(e, sent) /\ Drawn(d, e) /\ e.tx = d.tx
      /\ e.mic = ReadCapture(d.mic, room)
      /\ Len(e.buffer) = Len(d.buffer) + Readable(d.mic, room)
  BY FillFacts
<1> HIDE DEF e, room
<1>4. e.mic = ReadCapture(d.mic, BufferSize) /\ Len(e.buffer) = 0
  BY <1>2, <1>3 DEF DrainEmpty
<1>5. e.mic.total = d.mic.total /\ Readable(e.mic, BufferSize) = 0
  BY <1>1, <1>4, NothingToRead DEF DrainEmpty
<1>6. e.buffer = <<>>
  <2>1. e.buffer \in Seq(Int)
    BY <1>3 DEF DrainOK, Drains, Data
  <2> QED
    BY <1>4, <2>1, EmptySeq
<1>7. ~e.mic.sampling
  BY <1>3 DEF Drawn, DrainEmpty
<1> QED
  BY <1>3, <1>5, <1>6, <1>7 DEF DrainEmpty, e

(* Making room in a full buffer keeps the run.                              *)
LEMMA MakeRoomFacts ==
    ASSUME NEW d, NEW sent \in Nat, DrainOK(d, sent)
    PROVE  LET e == MakeRoom(d)
           IN  /\ DrainOK(e, sent) /\ Drawn(d, e)
               /\ DrainEmpty(d) => e = d
<1>1. d \in Drains
  BY DEF DrainOK
<1>2. CASE MakeRoom(d) = d
  BY <1>1, <1>2, DrawnSame
<1>3. CASE MakeRoom(d) # d
  <2>1. MakeRoom(d) = SendBuffer(d, TRUE)
    BY <1>3 DEF MakeRoom
  <2>2. /\ DrainOK(SendBuffer(d, TRUE), sent) /\ Drawn(d, SendBuffer(d, TRUE))
        /\ d.buffer = <<>> => SendBuffer(d, TRUE) = d
    BY SendBufferFacts
  <2> QED
    BY <2>1, <2>2 DEF DrainEmpty
<1> QED
  BY <1>2, <1>3

(* One pass of reading and sending keeps the run.                           *)
LEMMA ReadAndSendFacts ==
    ASSUME NEW d, NEW sent \in Nat, DrainOK(d, sent), NEW force
    PROVE  LET e == ReadAndSend(d, force)
           IN  /\ DrainOK(e, sent) /\ Drawn(d, e)
               /\ DrainEmpty(d) =>
                      DrainEmpty(e) /\ e.mic.total = d.mic.total /\ e.tx = d.tx
<1> DEFINE f == Fill(d)
           s == SendBuffer(f, force)
           e == ReadAndSend(d, force)
<1>1. d \in Drains
  BY DEF DrainOK
<1>2. DrainOK(f, sent) /\ Drawn(d, f)
  BY FillFacts
<1>3. DrainEmpty(d) => DrainEmpty(f) /\ f.mic.total = d.mic.total /\ f.tx = d.tx
  BY FillEmpty
<1>4. e = IF Len(d.buffer) < BufferSize THEN s ELSE d
  BY DEF ReadAndSend
<1> HIDE DEF f
<1>5. DrainOK(s, sent) /\ Drawn(f, s) /\ (f.buffer = <<>> => s = f)
  BY <1>2, SendBufferFacts
<1> HIDE DEF s, e
<1>6. CASE e = s
  <2>1. d \in Drains /\ f \in Drains /\ s \in Drains
    BY <1>2, <1>5 DEF DrainOK
  <2>2. Drawn(d, s)
    BY <1>2, <1>5, <2>1, DrawnTransitive
  <2>3. DrainEmpty(d) => s = f
    BY <1>3, <1>5 DEF DrainEmpty
  <2> QED
    BY <1>3, <1>5, <1>6, <2>2, <2>3 DEF e
<1>7. CASE e = d
  <2>1. Drawn(d, d)
    BY <1>1, DrawnSame
  <2> QED
    BY <1>7, <2>1 DEF e
<1> QED
  BY <1>4, <1>6, <1>7

(* The second pass too; a stopped microphone whose buffer it leaves         *)
(* empty was read to its end.                                               *)
LEMMA ReadAgainFacts ==
    ASSUME NEW d, NEW sent \in Nat, DrainOK(d, sent)
    PROVE  LET e == ReadAgain(d)
           IN  /\ DrainOK(e, sent) /\ Drawn(d, e)
               /\ DrainEmpty(d) =>
                      DrainEmpty(e) /\ e.mic.total = d.mic.total /\ e.tx = d.tx
               /\ e.buffer = <<>> /\ ~d.mic.sampling => DrainEmpty(e)
<1> DEFINE f == Fill(d)
           e == ReadAgain(d)
           room == BufferSize - Len(d.buffer)
<1>1. d \in Drains
  BY DEF DrainOK
<1>2. /\ DrainOK(f, sent) /\ Drawn(d, f)
      /\ Len(f.buffer) = Len(d.buffer) + Readable(d.mic, room)
  BY FillFacts
<1>3. DrainEmpty(d) => DrainEmpty(f) /\ f.mic.total = d.mic.total /\ f.tx = d.tx
  BY FillEmpty
<1>4. e = IF d.buffer = <<>> THEN f ELSE d
  BY DEF ReadAgain
<1>5. d.buffer = <<>> => room = BufferSize
  BY Sizes
<1> HIDE DEF f, e, room
<1>6. CASE d.buffer = <<>>
  <2>1. e = f
    BY <1>4, <1>6
  <2>2. ASSUME e.buffer = <<>>, ~d.mic.sampling PROVE DrainEmpty(e)
    <3>1. Len(f.buffer) = 0 /\ Len(d.buffer) = 0
      BY <1>6, <2>1, <2>2
    <3>2. d.mic \in Microphones /\ Hears(d.mic) /\ BufferSize \in Nat
      BY Sizes DEF DrainOK, Drains
    <3>3. Readable(d.mic, BufferSize) \in Nat
      <4>1. Readable(d.mic, BufferSize) \in 0..BufferSize
        BY <3>2, ReadableFacts
      <4> QED
        BY <3>2, <4>1
    <3>4. Readable(d.mic, BufferSize) = 0
      BY <1>2, <1>5, <1>6, <3>1, <3>3
    <3>5. DrainEmpty(d)
      BY <1>6, <2>2, <3>4 DEF DrainEmpty
    <3> QED
      BY <1>3, <2>1, <3>5
  <2> QED
    BY <1>2, <1>3, <2>1, <2>2 DEF e
<1>7. CASE d.buffer # <<>>
  <2>1. e = d
    BY <1>4, <1>7
  <2>2. Drawn(d, d)
    BY <1>1, DrawnSame
  <2>3. e.buffer # <<>>
    BY <1>7, <2>1
  <2> QED
    BY <2>1, <2>2, <2>3 DEF e
<1> QED
  BY <1>6, <1>7

(* The whole of it.                                                         *)
Drain(d, force) == ReadAgain(ReadAndSend(MakeRoom(d), force))

(* drain_microphone_samples() keeps the run, and finds the end of it.       *)
LEMMA DrainFacts ==
    ASSUME NEW d, NEW sent \in Nat, DrainOK(d, sent), NEW force
    PROVE  LET e == Drain(d, force)
           IN  /\ DrainOK(e, sent) /\ Drawn(d, e)
               /\ DrainEmpty(d) =>
                      DrainEmpty(e) /\ e.mic.total = d.mic.total /\ e.tx = d.tx
               /\ e.buffer = <<>> /\ ~d.mic.sampling => DrainEmpty(e)
<1> DEFINE r == MakeRoom(d)
           s == ReadAndSend(r, force)
           e == ReadAgain(s)
<1>1. DrainOK(r, sent) /\ Drawn(d, r) /\ (DrainEmpty(d) => r = d)
  BY MakeRoomFacts
<1>2. e = Drain(d, force)
  BY DEF Drain
<1> HIDE DEF r
<1>3. /\ DrainOK(s, sent) /\ Drawn(r, s)
      /\ DrainEmpty(r) => DrainEmpty(s) /\ s.mic.total = r.mic.total /\ s.tx = r.tx
  BY <1>1, ReadAndSendFacts
<1> HIDE DEF s
<1>4. /\ DrainOK(e, sent) /\ Drawn(s, e)
      /\ DrainEmpty(s) => DrainEmpty(e) /\ e.mic.total = s.mic.total /\ e.tx = s.tx
      /\ e.buffer = <<>> /\ ~s.mic.sampling => DrainEmpty(e)
  BY <1>3, ReadAgainFacts
<1> HIDE DEF e
<1>5. d \in Drains /\ r \in Drains /\ s \in Drains /\ e \in Drains
  BY <1>1, <1>3, <1>4 DEF DrainOK
<1>6. Drawn(d, s)
  BY <1>1, <1>3, <1>5, DrawnTransitive
<1>7. Drawn(d, e)
  BY <1>4, <1>5, <1>6, DrawnTransitive
<1>8. ~d.mic.sampling => ~s.mic.sampling
  BY <1>6 DEF Drawn
<1>9. DrainEmpty(d) => DrainEmpty(e) /\ e.mic.total = d.mic.total /\ e.tx = d.tx
  BY <1>1, <1>3, <1>4
<1> QED
  BY <1>2, <1>4, <1>7, <1>8, <1>9

-----------------------------------------------------------------------------
(* The pieces of the invariant.                                             *)

(* A line that is closed is quiet.                                          *)
LEMMA Closed ==
    CloseMedia => MediaQuiet' /\ up' \in Seq(Frames)
                 /\ down' \in Seq([ok : BOOLEAN, reusable : BOOLEAN])
                 /\ serving' \in [phase : {"idle", "reading", "working", "refused"},
                                  kind : Kinds \cup {"none"}, body : Data]
  BY DEF CloseMedia, NotServing, MediaQuiet, Data

LEMMA TxPhase ==
    ASSUME tx \in Transactions, NEW p \in Phases
    PROVE  LET t == [tx EXCEPT !.phase = p]
           IN  /\ t \in Transactions /\ t.phase = p /\ t.kind = tx.kind
               /\ t.output = tx.output /\ t.finish = tx.finish
  BY DEF Transactions

LEMMA TxOutput ==
    ASSUME tx \in Transactions, NEW data \in Data
    PROVE  LET t == [tx EXCEPT !.output = data]
           IN  /\ t \in Transactions /\ t.phase = tx.phase /\ t.kind = tx.kind
               /\ t.output = data /\ t.finish = tx.finish
<1> USE DEF Transactions
<1> HIDE DEF Data
<1> QED
  OBVIOUS

LEMMA TxFinish ==
    ASSUME tx \in Transactions, NEW b \in BOOLEAN
    PROVE  LET t == [tx EXCEPT !.finish = b]
           IN  /\ t \in Transactions /\ t.phase = tx.phase /\ t.kind = tx.kind
               /\ t.output = tx.output /\ t.finish = b
  BY DEF Transactions

LEMMA NoTransactionFacts ==
    /\ NoTransaction \in Transactions /\ NoTransaction.phase = "idle"
    /\ NoTransaction.finish = FALSE /\ NoTransaction.output = <<>>
  BY DEF NoTransaction, Transactions, Phases, Data

(* While an upload is in progress, whose it is.                             *)
LEMMA TransactionOf ==
    ASSUME MediaTypes, Roles, tx.phase # "idle"
    PROVE  /\ tx.kind = "audio" <=> rec.active
           /\ tx.kind = "photo" <=> photo.active
           /\ tx.kind \in Kinds
  BY DEF MediaTypes, Roles, Kinds

LEMMA SizeIsNat ==
    ASSUME MediaTypes
    PROVE  Size \in Nat /\ Kept \in Data
<1>1. mic.total \in Nat /\ buffer \in Data /\ <<>> \in Data
  BY DEF MediaTypes, Microphones, Data
<1>2. photo.offset \in 0..PhotoSize /\ PhotoSize \in Nat
  BY Sizes DEF MediaTypes
<1>3. photo.offset \in Nat
  BY <1>2
<1> QED
  BY <1>1, <1>3 DEF Size, Kept

LEMMA WholeIsBoolean == ASSUME MediaTypes PROVE Whole \in BOOLEAN
  BY DEF MediaTypes, Whole, Microphones

(* The upload has come as far after the step, if nothing moved on the line. *)
LEMMA SameFlow ==
    ASSUME NEW s, Flows(s), tx'.kind = tx.kind, tx'.output = tx.output,
           mic'.total = mic.total, mic'.lapped = mic.lapped, buffer' = buffer,
           photo'.offset = photo.offset
    PROVE  Flows(s)'
  BY DEF Flows, Size, Kept, Whole

LEMMA SameSize ==
    ASSUME tx'.kind = tx.kind, mic'.total = mic.total, photo'.offset = photo.offset
    PROVE  Size' = Size
  BY DEF Size

(* What is on the way stays so when the line does not move.                 *)
LEMMA SameLine ==
    ASSUME NEW s, UNCHANGED <<up, down, serving, saved>>, Whole' => Whole,
           tx'.phase = "receiving" <=> tx.phase = "receiving"
    PROVE  /\ HeaderOnTheWay(s) => HeaderOnTheWay(s)'
           /\ BeingRead(s) => BeingRead(s)'
           /\ Refused => Refused'
           /\ Done => Done'
<1> DEFINE e == tx.phase = "receiving"
           f == tx'.phase = "receiving"
<1>1. e \in BOOLEAN /\ f \in BOOLEAN /\ (f <=> e)
  OBVIOUS
<1>2. ASSUME HeaderOnTheWay(s) PROVE HeaderOnTheWay(s)'
  <2>1. Carries(Tail(up), 0, s, e, Whole)
    BY <1>2 DEF HeaderOnTheWay
  <2> HIDE DEF e, f
  <2>2. Carries(Tail(up), 0, s, f, Whole')
    BY <1>1, <2>1, CarriesAs
  <2> QED
    BY <1>2, <2>2 DEF HeaderOnTheWay, f
<1>3. ASSUME BeingRead(s) PROVE BeingRead(s)'
  <2>1. Carries(up, Len(serving.body), s, e, Whole)
    BY <1>3 DEF BeingRead
  <2> HIDE DEF e, f
  <2>2. Carries(up, Len(serving.body), s, f, Whole')
    BY <1>1, <2>1, CarriesAs
  <2> QED
    BY <1>3, <2>2 DEF BeingRead, Runs, f
<1>4. Refused => Refused'
  BY DEF Refused
<1>5. Done => Done'
  BY DEF Done
<1> QED
  BY <1>2, <1>3, <1>4, <1>5

(* The upload after a step that leaves it on the line.                      *)
LEMMA UploadNext ==
    ASSUME NEW s \in 0..Size', Flows(s)',
           tx'.phase \in {"streaming", "end", "receiving"},
           HeaderOnTheWay(s)' \/ BeingRead(s)' \/ Refused' \/ Done'
    PROVE  Upload'
  BY DEF Upload

(* The upload after a step that does not move the line.                     *)
LEMMA UploadKept ==
    ASSUME Upload, UNCHANGED <<up, down, serving, saved>>, Whole' => Whole,
           tx'.phase = tx.phase,
           tx.phase \in {"connecting", "header"} /\ tx.output = <<>> =>
               tx'.output = <<>>,
           \A s \in 0..Size : Flows(s) => s \in 0..Size' /\ Flows(s)'
    PROVE  Upload'
<1>1. PICK s \in 0..Size :
          /\ Flows(s)
          /\ \/ /\ tx.phase \in {"connecting", "header"}
                /\ MediaQuiet /\ s = 0 /\ tx.output = <<>> /\ saved = <<>>
             \/ /\ tx.phase \in {"streaming", "end", "receiving"}
                /\ HeaderOnTheWay(s) \/ BeingRead(s) \/ Refused \/ Done
  BY DEF Upload
<1>2. s \in 0..Size' /\ Flows(s)'
  BY <1>1
<1>3. CASE /\ tx.phase \in {"connecting", "header"}
           /\ MediaQuiet /\ s = 0 /\ tx.output = <<>> /\ saved = <<>>
  <2>1. MediaQuiet' /\ saved' = <<>> /\ tx'.output = <<>>
    BY <1>3 DEF MediaQuiet
  <2>2. tx'.phase \in {"connecting", "header"}
    BY <1>3
  <2> QED
    BY <1>2, <1>3, <2>1, <2>2 DEF Upload
<1>4. CASE /\ tx.phase \in {"streaming", "end", "receiving"}
           /\ HeaderOnTheWay(s) \/ BeingRead(s) \/ Refused \/ Done
  <2>1. HeaderOnTheWay(s)' \/ BeingRead(s)' \/ Refused' \/ Done'
    BY <1>4, SameLine
  <2>2. tx'.phase \in {"streaming", "end", "receiving"}
    BY <1>4
  <2> QED
    BY <1>2, <2>1, <2>2, UploadNext
<1> QED
  BY <1>1, <1>3, <1>4

(* Where an upload that is on the line is. *)
LEMMA UploadOnLine ==
    ASSUME MediaInv, tx.phase \in {"streaming", "end", "receiving"}
    PROVE  \E s \in Nat :
              /\ s \in 0..Size /\ Flows(s)
              /\ HeaderOnTheWay(s) \/ BeingRead(s) \/ Refused \/ Done
<1>1. Upload
  BY DEF MediaInv, Line, Uploading
<1>2. Size \in Nat
  BY SizeIsNat DEF MediaInv
<1>3. \A s \in 0..Size : s \in Nat
  BY <1>2
<1>4. tx.phase \notin {"connecting", "header"}
  OBVIOUS
<1> QED
  BY <1>1, <1>3, <1>4 DEF Upload

-----------------------------------------------------------------------------
(* The network.                                                             *)

Still == UNCHANGED <<deviceVars, rec, photo, away, saved, attempts>>

(* The transaction goes from phase to phase, and sends what it has.         *)
Turned(p) ==
    /\ tx'.phase = p /\ tx'.kind = tx.kind /\ tx'.finish = tx.finish
    /\ tx' \in Transactions

LEMMA RecordingStill ==
    ASSUME Recording, UNCHANGED <<mic, buffer, rec>>
    PROVE  Recording'
  BY DEF Recording

(* A step of pump_audio() that moves only the transaction and the line.     *)
LEMMA StillFacts ==
    ASSUME MediaInv, Still, NEW p, Turned(p), Uploading,
           p \in {"end", "receiving"} => tx.finish /\ tx'.output = <<>>,
           p = "succeeded" => saved # <<>>,
           up' \in Seq(Frames),
           down' \in Seq([ok : BOOLEAN, reusable : BOOLEAN]),
           serving' \in [phase : {"idle", "reading", "working", "refused"},
                         kind : Kinds \cup {"none"}, body : Data],
           Line'
    PROVE  MediaInv'
<1>1. UNCHANGED <<mic, buffer, rec, photo, saved>>
  BY DEF Still, deviceVars
<1>2. MediaTypes'
  BY <1>1 DEF MediaInv, MediaTypes, Turned
<1>3. Roles'
  <2>1. tx.phase # "idle"
    BY DEF Uploading
  <2> QED
    BY <1>1, <2>1 DEF MediaInv, Roles, Turned
<1>4. Recording'
  BY <1>1, RecordingStill DEF MediaInv
<1>5. Finishing'
  <2>1. tx'.kind = tx.kind /\ tx'.finish = tx.finish /\ tx'.phase = p
    BY DEF Turned
  <2>2. tx'.finish =>
          IF tx'.kind = "photo" THEN photo'.offset = PhotoSize ELSE rec'.finish
    BY <1>1, <2>1 DEF MediaInv, Finishing
  <2> QED
    BY <2>1, <2>2 DEF Finishing
<1>6. Saved'
  BY <1>1 DEF MediaInv, Saved, Turned
<1> QED
  BY <1>2, <1>3, <1>4, <1>5, <1>6 DEF MediaInv

LEMMA TypesOfLine ==
    ASSUME MediaInv
    PROVE  /\ up \in Seq(Frames)
           /\ down \in Seq([ok : BOOLEAN, reusable : BOOLEAN])
           /\ serving \in [phase : {"idle", "reading", "working", "refused"},
                           kind : Kinds \cup {"none"}, body : Data]
           /\ tx \in Transactions
  BY DEF MediaInv, MediaTypes

(* Such a step leaves what the client has of the upload as it is.           *)
LEMMA StillFlow ==
    ASSUME MediaInv, Still, NEW p, Turned(p), NEW s, Flows(s), tx'.output = tx.output
    PROVE  Flows(s)' /\ Size' = Size /\ Whole' = Whole
<1>1. UNCHANGED <<mic, buffer, rec, photo, saved>>
  BY DEF Still, deviceVars
<1>2. tx'.kind = tx.kind
  BY DEF Turned
<1> QED
  BY <1>1, <1>2, SameFlow, SameSize DEF Whole

LEMMA FailAudioInv ==
    ASSUME MediaInv, Still, Uploading, FailAudio
    PROVE  MediaInv'
<1>1. Turned("failed")
  BY TypesOfLine, TxPhase DEF FailAudio, Turned, Phases
<1>2. MediaQuiet' /\ ~Uploading'
  BY <1>1, Closed DEF FailAudio, Turned, Uploading
<1>3. Line'
  BY <1>2 DEF Line
<1> QED
  BY <1>1, <1>3, Closed, StillFacts DEF FailAudio

LEMMA ConnectedInv ==
    ASSUME MediaInv, Still, Uploading, Connected
    PROVE  MediaInv'
<1>1. Turned("header") /\ tx'.output = tx.output
  BY TypesOfLine, TxPhase DEF Connected, Turned, Phases
<1>2. UNCHANGED <<up, down, serving, saved>> /\ tx.phase = "connecting"
  BY DEF Connected, KeepLine, lineVars, Still
<1>3. PICK s \in 0..Size :
          Flows(s) /\ MediaQuiet /\ s = 0 /\ tx.output = <<>> /\ saved = <<>>
  BY <1>2 DEF MediaInv, Line, Upload
<1>4. Flows(s)' /\ Size' = Size
  BY <1>1, <1>3, StillFlow
<1>5. MediaQuiet' /\ tx'.output = <<>> /\ saved' = <<>> /\ tx'.phase = "header"
  BY <1>1, <1>2, <1>3 DEF MediaQuiet, Turned
<1>6. Upload'
  BY <1>3, <1>4, <1>5 DEF Upload
<1>7. Line'
  BY <1>5, <1>6 DEF Line, Uploading
<1> QED
  BY <1>1, <1>2, <1>7, TypesOfLine, StillFacts

LEMMA AppendToNothing ==
    ASSUME NEW S, NEW x \in S
    PROVE  /\ Append(<<>>, x) # <<>> /\ Head(Append(<<>>, x)) = x
           /\ Tail(Append(<<>>, x)) = <<>> /\ Len(Append(<<>>, x)) = 1
           /\ Append(<<>>, x) \in Seq(S)
<1> DEFINE q == Append(<<>>, x)
<1>1. q \in Seq(S) /\ Len(q) = 1 /\ q[1] = x
  OBVIOUS
<1> HIDE DEF q
<1>2. q # <<>> /\ Head(q) = x
  <2>1. q # <<>>
    <3>1. SUFFICES ASSUME q = <<>> PROVE FALSE
      OBVIOUS
    <3>2. Len(q) = Len(<<>>)
      BY <3>1
    <3>3. Len(q) = 0
      BY <3>2
    <3> QED
      BY <1>1, <3>3
  <2>2. Head(q) = q[1]
    BY <1>1, <2>1
  <2> QED
    BY <1>1, <2>1, <2>2
<1>3. Tail(q) \in Seq(S) /\ Len(Tail(q)) = 0
  BY <1>1, <1>2
<1>4. Tail(q) = <<>>
  BY <1>3, EmptySeq
<1> QED
  BY <1>1, <1>2, <1>4 DEF q

(* The steps of the transaction, one by one.                                *)
LEMMA SendHeaderInv ==
    ASSUME MediaInv, Still, Uploading, SendHeader
    PROVE  MediaInv'
<1> DEFINE header == [type |-> "header", kind |-> tx.kind]
<1>1. Turned("streaming") /\ tx'.output = tx.output
  BY TypesOfLine, TxPhase DEF SendHeader, Turned, Phases
<1>2. /\ up' = Append(up, header) /\ UNCHANGED <<down, serving, saved>>
      /\ tx.phase = "header"
  BY DEF SendHeader, SentFrame, Still
<1>3. PICK s \in 0..Size :
          Flows(s) /\ MediaQuiet /\ s = 0 /\ tx.output = <<>> /\ saved = <<>>
  BY <1>2 DEF MediaInv, Line, Upload
<1>4. Flows(s)' /\ Size' = Size /\ Whole' = Whole
  BY <1>1, <1>3, StillFlow
<1>5. header \in Frames /\ header.type = "header"
  BY <1>2, TransactionOf, NewFrames DEF MediaInv
<1> HIDE DEF header
<1>6. /\ up' \in Seq(Frames) /\ up' # <<>> /\ Head(up') = header /\ Tail(up') = <<>>
  BY <1>2, <1>3, <1>5, AppendToNothing DEF MediaQuiet
<1>7. Carries(<<>>, 0, 0, FALSE, Whole')
  BY CarriesNothing
<1>8. tx'.phase = "streaming"
  BY <1>1 DEF Turned
<1>9. Carries(Tail(up'), 0, s, tx'.phase = "receiving", Whole')
  <2> DEFINE e == tx'.phase = "receiving"
  <2>1. e \in BOOLEAN /\ (e <=> FALSE)
    BY <1>8
  <2> HIDE DEF e
  <2>2. Carries(<<>>, 0, 0, e, Whole')
    BY <1>7, <2>1, CarriesAs
  <2> QED
    BY <1>3, <1>6, <2>2 DEF e
<1>10. HeaderOnTheWay(s)'
  BY <1>2, <1>3, <1>5, <1>6, <1>9 DEF HeaderOnTheWay, MediaQuiet
<1>11. Upload'
  BY <1>3, <1>4, <1>8, <1>10, UploadNext
<1>12. Line'
  BY <1>8, <1>11 DEF Line, Uploading
<1> QED
  BY <1>1, <1>2, <1>6, <1>12, TypesOfLine, StillFacts

LEMMA BeginEndInv ==
    ASSUME MediaInv, Still, Uploading, BeginEnd
    PROVE  MediaInv'
<1>1. Turned("end") /\ tx'.output = tx.output
  BY TypesOfLine, TxPhase DEF BeginEnd, Turned, Phases
<1>2. /\ UNCHANGED <<up, down, serving, saved>>
      /\ tx.phase = "streaming" /\ tx.output = <<>> /\ tx.finish
  BY DEF BeginEnd, KeepLine, lineVars, Still
<1>3. PICK s \in Nat :
          /\ s \in 0..Size /\ Flows(s)
          /\ HeaderOnTheWay(s) \/ BeingRead(s) \/ Refused \/ Done
  BY <1>2, UploadOnLine
<1>4. Flows(s)' /\ Size' = Size /\ Whole' = Whole
  BY <1>1, <1>3, StillFlow
<1>5. tx'.phase = "end"
  BY <1>1 DEF Turned
<1>6. HeaderOnTheWay(s)' \/ BeingRead(s)' \/ Refused' \/ Done'
  BY <1>2, <1>3, <1>4, <1>5, SameLine
<1>7. Upload'
  BY <1>3, <1>4, <1>5, <1>6, UploadNext
<1>8. Line'
  BY <1>5, <1>7 DEF Line, Uploading
<1> QED
  BY <1>1, <1>2, <1>8, TypesOfLine, StillFacts

LEMMA HeadOfAppend ==
    ASSUME NEW S, NEW q \in Seq(S), q # <<>>, NEW x \in S
    PROVE  /\ Append(q, x) \in Seq(S) /\ Append(q, x) # <<>>
           /\ Head(Append(q, x)) = Head(q)
           /\ Tail(Append(q, x)) = Append(Tail(q), x)
<1> DEFINE n == Len(q)
           p == Append(q, x)
           t == Tail(p)
           r == Append(Tail(q), x)
<1>1. n \in Nat /\ n > 0 /\ p \in Seq(S) /\ Len(p) = n + 1 /\ p[n + 1] = x
      /\ \A i \in 1..n : p[i] = q[i]
  OBVIOUS
<1>2. /\ Tail(q) \in Seq(S) /\ Len(Tail(q)) = n - 1
      /\ \A i \in 1..n - 1 : Tail(q)[i] = q[i + 1]
  OBVIOUS
<1> DEFINE k == Tail(q)
<1>3. /\ r \in Seq(S) /\ Len(r) = n /\ r[n] = x
      /\ \A i \in 1..n - 1 : r[i] = q[i + 1]
  <2> HIDE DEF n, k
  <2>1. r = Append(k, x)
    BY DEF k
  <2>2. k \in Seq(S) /\ Len(k) = n - 1 /\ \A i \in 1..n - 1 : k[i] = q[i + 1]
    BY <1>2 DEF k
  <2> HIDE DEF r
  <2> QED
    BY <1>1, <2>1, <2>2
<1>4. Head(q) = q[1]
  OBVIOUS
<1> HIDE DEF p, r, n
<1>5. p # <<>> /\ Head(p) = p[1]
  <2>1. p # <<>>
    BY <1>1, EmptySeq
  <2> QED
    BY <1>1, <2>1
<1>6. t \in Seq(S) /\ Len(t) = n /\ \A i \in 1..n : t[i] = p[i + 1]
  BY <1>1, <1>5
<1> HIDE DEF t
<1>7. \A i \in 1..n : t[i] = r[i]
  <2>1. ASSUME NEW i \in 1..n PROVE t[i] = r[i]
    <3>1. CASE i = n
      BY <1>1, <1>3, <1>6, <3>1
    <3>2. CASE i # n
      <4>1. i \in 1..n - 1 /\ i + 1 \in 1..n
        BY <1>1, <3>2
      <4> QED
        BY <1>1, <1>3, <1>6, <4>1
    <3> QED
      BY <3>1, <3>2
  <2> QED
    BY <2>1
<1>8. t = r
  BY <1>3, <1>6, <1>7, SeqEqual
<1>9. Head(p) = Head(q)
  BY <1>1, <1>4, <1>5
<1> QED
  BY <1>1, <1>5, <1>8, <1>9 DEF p, r, t

(* A line without a header has none when another frame is sent or read.     *)
LEMMA NoHeaderMore ==
    ASSUME NEW q \in Seq(Frames), NEW f \in Frames, f.type # "header",
           \A k \in 1..Len(q) : q[k].type # "header"
    PROVE  \A k \in 1..Len(Append(q, f)) : Append(q, f)[k].type # "header"
<1>1. /\ Len(Append(q, f)) = Len(q) + 1 /\ Append(q, f)[Len(q) + 1] = f
      /\ \A i \in 1..Len(q) : Append(q, f)[i] = q[i]
  OBVIOUS
<1>2. ASSUME NEW k \in 1..Len(q) + 1 PROVE k \in 1..Len(q) \/ k = Len(q) + 1
  OBVIOUS
<1> QED
  BY <1>1, <1>2

LEMMA NoHeaderLess ==
    ASSUME NEW q \in Seq(Frames), q # <<>>,
           \A k \in 1..Len(q) : q[k].type # "header"
    PROVE  /\ Head(q).type # "header"
           /\ \A k \in 1..Len(Tail(q)) : Tail(q)[k].type # "header"
<1>1. /\ Len(Tail(q)) = Len(q) - 1 /\ Len(q) \in Nat /\ Len(q) > 0
      /\ \A i \in 1..Len(Tail(q)) : Tail(q)[i] = q[i + 1] /\ i + 1 \in 1..Len(q)
      /\ Head(q) = q[1] /\ 1 \in 1..Len(q)
  OBVIOUS
<1> QED
  BY <1>1

LEMMA SendChunkInv ==
    ASSUME MediaInv, Still, Uploading, SendChunk
    PROVE  MediaInv'
<1> DEFINE data == tx.output
           frame == Chunk(data)
<1>1. Turned("streaming") /\ tx'.output = <<>>
  <2>1. tx \in Transactions /\ <<>> \in Data
    BY TypesOfLine DEF Data
  <2>2. tx' = [tx EXCEPT !.output = <<>>] /\ tx.phase = "streaming"
    BY DEF SendChunk
  <2>3. /\ tx' \in Transactions /\ tx'.phase = tx.phase /\ tx'.kind = tx.kind
        /\ tx'.output = <<>> /\ tx'.finish = tx.finish
    BY <2>1, <2>2, TxOutput
  <2> QED
    BY <2>2, <2>3 DEF Turned
<1>2. /\ up' = Append(up, frame) /\ UNCHANGED <<down, serving, saved>>
      /\ tx.phase = "streaming"
  BY DEF SendChunk, SentFrame, Still, Chunk
<1>3. PICK s \in Nat :
          /\ s \in 0..Size /\ Flows(s)
          /\ HeaderOnTheWay(s) \/ BeingRead(s) \/ Refused \/ Done
  BY <1>2, UploadOnLine
<1>4. data \in Data /\ Len(data) \in Nat /\ Runs(data, s, Whole) /\ frame \in Frames
  BY <1>3, TypesOfLine, NewFrames DEF Flows, Transactions, Data
<1>20. PICK sum \in Nat : sum = s + Len(data)
  BY <1>3, <1>4
<1>5. UNCHANGED <<mic, buffer, rec, photo, saved>>
  BY DEF Still, deviceVars
<1>6. Size' = Size /\ Whole' = Whole /\ Kept' = Kept
  BY <1>1, <1>5 DEF Size, Whole, Kept, Turned
<1>7. Len(Kept) \in Nat /\ Size \in Nat
  BY SizeIsNat DEF MediaInv, Data
<1>8. sum \in 0..Size' /\ Flows(sum)'
  <2>1. s + Len(data) + Len(Kept) = Size /\ Runs(Kept, sum, Whole)
    BY <1>3, <1>20 DEF Flows
  <2>2. sum \in Nat /\ sum + Len(Kept) = Size /\ sum + 0 = sum
    BY <1>4, <1>7, <1>20, <2>1
  <2>3. sum \in 0..Size
    BY <1>7, <2>2
  <2>4. Len(<<>>) = 0
    OBVIOUS
  <2>5. Runs(<<>>, sum, Whole)
    BY RunOfNothing DEF Runs
  <2>6. sum + Len(tx'.output) = sum
    BY <1>1, <2>2, <2>4
  <2>7. Flows(sum)'
    <3>1. sum + Len(tx'.output) + Len(Kept') = Size'
      BY <1>6, <2>2, <2>6
    <3>2. Runs(tx'.output, sum, Whole')
      BY <1>1, <1>6, <2>5
    <3>3. Runs(Kept', sum + Len(tx'.output), Whole')
      BY <1>6, <2>1, <2>6
    <3> QED
      BY <3>1, <3>2, <3>3 DEF Flows
  <2> QED
    BY <1>6, <2>3, <2>7
<1> HIDE DEF data, frame
<1>9. up \in Seq(Frames) /\ up' \in Seq(Frames)
  BY <1>2, <1>4, TypesOfLine
<1>10. tx'.phase = "streaming"
  BY <1>1 DEF Turned
<1> DEFINE e == tx.phase = "receiving"
           f == tx'.phase = "receiving"
<1>11. e \in BOOLEAN /\ (e <=> FALSE) /\ f \in BOOLEAN /\ (f <=> FALSE)
  BY <1>2, <1>10
<1>12. frame.type = "chunk"
  BY DEF frame, Chunk
<1> HIDE DEF e, f
<1>13. ASSUME HeaderOnTheWay(s) PROVE HeaderOnTheWay(sum)'
  <2>1. Carries(Tail(up), 0, s, e, Whole) /\ up # <<>>
    BY <1>13 DEF HeaderOnTheWay, e
  <2>2. Carries(Tail(up), 0, s, FALSE, Whole)
    BY <1>11, <2>1, CarriesAs
  <2>7. Tail(up) \in Seq(Frames)
    BY <1>9, <2>1
  <2>3. Carries(Append(Tail(up), frame), 0, sum, FALSE, Whole)
    BY <1>3, <1>4, <1>20, <2>2, <2>7, CarriesChunk DEF frame
  <2>4. up' # <<>> /\ Head(up') = Head(up) /\ Tail(up') = Append(Tail(up), frame)
    BY <1>2, <1>4, <1>9, <2>1, HeadOfAppend
  <2>5. Carries(Tail(up'), 0, sum, f, Whole')
    BY <1>6, <1>11, <2>3, <2>4, CarriesAs
  <2>6. HeaderOnTheWay(sum)'
    BY <1>2, <1>13, <2>4, <2>5 DEF HeaderOnTheWay, f
  <2> QED
    BY <2>6
<1>14. ASSUME BeingRead(s) PROVE BeingRead(sum)'
  <2> DEFINE from == Len(serving.body)
  <2>1. Carries(up, from, s, e, Whole)
    BY <1>14 DEF BeingRead, e
  <2>2. from \in Nat
    BY TypesOfLine DEF Data
  <2> HIDE DEF from
  <2>3. Carries(up, from, s, FALSE, Whole)
    BY <1>11, <2>1, CarriesAs
  <2>4. Carries(up', from, sum, FALSE, Whole)
    BY <1>2, <1>3, <1>4, <1>9, <1>20, <2>2, <2>3, CarriesChunk DEF frame
  <2>5. Carries(up', from, sum, f, Whole')
    BY <1>6, <1>11, <2>4, CarriesAs
  <2>6. BeingRead(sum)'
    BY <1>2, <1>6, <1>14, <2>5 DEF BeingRead, from, f
  <2> QED
    BY <2>6
<1>15. ASSUME Refused PROVE Refused'
  <2>1. \A k \in 1..Len(up') : up'[k].type # "header"
    BY <1>2, <1>4, <1>9, <1>12, <1>15, NoHeaderMore DEF Refused
  <2>2. Refused'
    BY <1>2, <1>15, <2>1 DEF Refused
  <2> QED
    BY <2>2
<1>16. ASSUME Done PROVE Done'
  BY <1>2, <1>16 DEF Done
<1>17. Upload'
  BY <1>3, <1>8, <1>10, <1>13, <1>14, <1>15, <1>16, UploadNext
<1>18. Line'
  BY <1>10, <1>17 DEF Line, Uploading
<1> QED
  BY <1>1, <1>2, <1>9, <1>18, TypesOfLine, StillFacts

LEMMA SendEndInv ==
    ASSUME MediaInv, Still, Uploading, SendEnd
    PROVE  MediaInv'
<1>1. Turned("receiving") /\ tx'.output = tx.output
  BY TypesOfLine, TxPhase DEF SendEnd, Turned, Phases
<1>2. /\ up' = Append(up, End) /\ UNCHANGED <<down, serving, saved>>
      /\ tx.phase = "end"
  BY DEF SendEnd, SentFrame, Still, End
<1>3. PICK s \in Nat :
          /\ s \in 0..Size /\ Flows(s)
          /\ HeaderOnTheWay(s) \/ BeingRead(s) \/ Refused \/ Done
  BY <1>2, UploadOnLine
<1>4. Flows(s)' /\ Size' = Size /\ Whole' = Whole
  BY <1>1, <1>3, StillFlow
<1>5. tx.finish /\ tx.output = <<>>
  BY <1>2 DEF MediaInv, Finishing
<1>6. up \in Seq(Frames) /\ up' \in Seq(Frames) /\ End \in Frames
  BY <1>2, TypesOfLine, NewFrames
<1>7. tx'.phase = "receiving"
  BY <1>1 DEF Turned
<1> DEFINE e == tx.phase = "receiving"
           f == tx'.phase = "receiving"
<1>8. e \in BOOLEAN /\ (e <=> FALSE) /\ f \in BOOLEAN /\ (f <=> TRUE)
  BY <1>2, <1>7
<1>9. End.type = "end"
  BY DEF End
<1> HIDE DEF e, f
<1>10. ASSUME HeaderOnTheWay(s) PROVE HeaderOnTheWay(s)'
  <2>1. Carries(Tail(up), 0, s, e, Whole) /\ up # <<>>
    BY <1>10 DEF HeaderOnTheWay, e
  <2>2. Carries(Tail(up), 0, s, FALSE, Whole)
    BY <1>8, <2>1, CarriesAs
  <2>7. Tail(up) \in Seq(Frames)
    BY <1>6, <2>1
  <2>3. Carries(Append(Tail(up), End), 0, s, TRUE, Whole)
    BY <1>3, <2>2, <2>7, CarriesEnd
  <2>4. up' # <<>> /\ Head(up') = Head(up) /\ Tail(up') = Append(Tail(up), End)
    BY <1>2, <1>6, <2>1, HeadOfAppend
  <2>5. Carries(Tail(up'), 0, s, f, Whole')
    BY <1>4, <1>8, <2>3, <2>4, CarriesAs
  <2>6. HeaderOnTheWay(s)'
    BY <1>2, <1>10, <2>4, <2>5 DEF HeaderOnTheWay, f
  <2> QED
    BY <2>6
<1>11. ASSUME BeingRead(s) PROVE BeingRead(s)'
  <2> DEFINE from == Len(serving.body)
  <2>1. Carries(up, from, s, e, Whole)
    BY <1>11 DEF BeingRead, e
  <2>2. from \in Nat
    BY TypesOfLine DEF Data
  <2> HIDE DEF from
  <2>3. Carries(up, from, s, FALSE, Whole)
    BY <1>8, <2>1, CarriesAs
  <2>4. Carries(up', from, s, TRUE, Whole)
    BY <1>2, <1>3, <1>6, <2>2, <2>3, CarriesEnd
  <2>5. Carries(up', from, s, f, Whole')
    BY <1>4, <1>8, <2>4, CarriesAs
  <2>6. BeingRead(s)'
    BY <1>2, <1>4, <1>11, <2>5 DEF BeingRead, from, f
  <2> QED
    BY <2>6
<1>12. ASSUME Refused PROVE Refused'
  <2>1. \A k \in 1..Len(up') : up'[k].type # "header"
    BY <1>2, <1>6, <1>9, <1>12, NoHeaderMore DEF Refused
  <2>2. Refused'
    BY <1>2, <1>12, <2>1 DEF Refused
  <2> QED
    BY <2>2
<1>13. ASSUME Done PROVE Done'
  BY <1>2, <1>13 DEF Done
<1>14. Upload'
  BY <1>3, <1>4, <1>7, <1>10, <1>11, <1>12, <1>13, UploadNext
<1>15. Line'
  BY <1>7, <1>14 DEF Line, Uploading
<1> QED
  BY <1>1, <1>2, <1>5, <1>6, <1>15, TypesOfLine, StillFacts

LEMMA AnsweredInv ==
    ASSUME MediaInv, Still, Uploading, Answered
    PROVE  MediaInv'
<1>1. tx.phase = "receiving" /\ down # <<>>
  BY DEF Answered
<1>2. CASE FailAudio
  BY <1>2, FailAudioInv
<1>3. CASE ~FailAudio
  <2>1. /\ Head(down).ok
        /\ tx' = [tx EXCEPT !.phase = "succeeded"]
        /\ \/ /\ Head(down).reusable /\ down' = Tail(down)
              /\ UNCHANGED <<up, serving>>
           \/ CloseMedia
    BY <1>3 DEF Answered
  <2>2. PICK s \in Nat :
            /\ s \in 0..Size /\ Flows(s)
            /\ HeaderOnTheWay(s) \/ BeingRead(s) \/ Refused \/ Done
    BY <1>1, UploadOnLine
  <2>3. ~HeaderOnTheWay(s) /\ ~BeingRead(s)
    BY <1>1 DEF HeaderOnTheWay, BeingRead
  <2>4. ~Refused
    <3>1. SUFFICES ASSUME Refused PROVE FALSE
      OBVIOUS
    <3>2. Head(down) = Refusal
      BY <3>1 DEF Refused
    <3> QED
      BY <2>1, <3>2 DEF Refusal
  <2>5. up = <<>> /\ saved # <<>> /\ serving.phase = "idle" /\ Len(down) = 1
    BY <1>1, <2>2, <2>3, <2>4 DEF Done
  <2>6. Tail(down) \in Seq([ok : BOOLEAN, reusable : BOOLEAN]) /\ Tail(down) = <<>>
    <3>1. Tail(down) \in Seq([ok : BOOLEAN, reusable : BOOLEAN]) /\ Len(Tail(down)) = 0
      BY <1>1, <2>5, TypesOfLine
    <3> QED
      BY <3>1, EmptySeq
  <2>7. Turned("succeeded")
    BY <2>1, TypesOfLine, TxPhase DEF Turned, Phases
  <2>8. /\ MediaQuiet' /\ up' \in Seq(Frames)
        /\ down' \in Seq([ok : BOOLEAN, reusable : BOOLEAN])
        /\ serving' \in [phase : {"idle", "reading", "working", "refused"},
                         kind : Kinds \cup {"none"}, body : Data]
    <3>1. CASE CloseMedia
      BY <3>1, Closed
    <3>2. CASE ~CloseMedia
      <4>1. down' = <<>> /\ up' = up /\ serving' = serving
        BY <2>1, <2>6, <3>2
      <4>2. MediaQuiet'
        BY <2>5, <4>1 DEF MediaQuiet
      <4> QED
        BY <2>1, <2>6, <3>2, <4>1, <4>2, TypesOfLine
    <3> QED
      BY <3>1, <3>2
  <2>9. Line'
    BY <2>7, <2>8 DEF Line, Uploading, Turned
  <2> QED
    BY <2>5, <2>7, <2>8, <2>9, StillFacts
<1> QED
  BY <1>2, <1>3

LEMMA PumpInv == ASSUME MediaInv, PumpAudio PROVE MediaInv'
<1>1. Still /\ Uploading
  BY DEF PumpAudio, Still
<1> QED
  BY <1>1, ConnectedInv, SendHeaderInv, SendChunkInv, BeginEndInv, SendEndInv,
     AnsweredInv, FailAudioInv DEF PumpAudio

-----------------------------------------------------------------------------
(* The loops.                                                               *)

(* A client that has no transaction has nothing on the line.                *)
LEMMA StopFailedInv ==
    ASSUME MediaInv, NEW m, m \in Microphones, StopFailed(m), rec.active,
           UNCHANGED <<photo, saved>>
    PROVE  MediaInv'
<1>1. /\ mic' \in Microphones /\ buffer' = <<>> /\ rec' = NotRecording
      /\ tx' = NoTransaction /\ CloseMedia
  BY FinishFacts DEF StopFailed
<1>2. rec'.active = FALSE /\ rec' \in [active : BOOLEAN, stop : BOOLEAN, finish : BOOLEAN]
  BY <1>1 DEF NotRecording
<1>3. /\ tx' \in Transactions /\ tx'.phase = "idle" /\ tx'.finish = FALSE
      /\ tx'.output = <<>>
  BY <1>1, NoTransactionFacts
<1>4. MediaTypes'
  BY <1>1, <1>2, <1>3, Closed DEF MediaInv, MediaTypes, Data
<1>5. Roles'
  BY <1>2, <1>3 DEF Roles
<1>6. Recording'
  BY <1>2 DEF Recording
<1>7. Finishing'
  BY <1>3 DEF Finishing
<1>8. Line'
  BY <1>1, <1>3, Closed DEF Line, Uploading
<1>9. ~photo'.active
  BY DEF MediaInv, Roles
<1>10. Saved'
  BY <1>2, <1>3, <1>9 DEF Saved
<1> QED
  BY <1>4, <1>5, <1>6, <1>7, <1>8, <1>10 DEF MediaInv

(* A line nobody uses is quiet.                                             *)
LEMMA QuietWhenIdle ==
    ASSUME MediaInv, ~Uploading
    PROVE  MediaQuiet
  BY DEF MediaInv, Line

(* A stream begins: nothing was read and nothing was sent.                  *)
LEMMA BeginStreamFacts ==
    ASSUME MediaInv, NEW kind \in Kinds, BeginStream(kind)
    PROVE  /\ tx' \in Transactions /\ tx'.phase \in {"header", "connecting"}
           /\ tx'.kind = kind /\ tx'.output = <<>> /\ tx'.finish = FALSE
           /\ saved' = <<>> /\ UNCHANGED <<up, down, serving>> /\ MediaQuiet'
<1> DEFINE p == IF sock = "prepared" THEN "header" ELSE "connecting"
<1>1. tx.phase = "idle" /\ saved' = <<>> /\ UNCHANGED <<up, down, serving>>
      /\ tx' = [NoTransaction EXCEPT !.kind = kind, !.phase = p]
  BY DEF BeginStream, NothingSaved
<1>2. p \in {"header", "connecting"}
  OBVIOUS
<1> HIDE DEF p
<1>3. /\ tx' \in Transactions /\ tx'.phase = p /\ tx'.kind = kind
      /\ tx'.output = NoTransaction.output /\ tx'.finish = NoTransaction.finish
  <2>1. p \in Phases
    BY <1>2 DEF Phases
  <2>2. NoTransaction \in Transactions
    BY NoTransactionFacts
  <2> DEFINE n == NoTransaction
             t == [n EXCEPT !.kind = kind, !.phase = p]
  <2>3. tx' = t
    BY <1>1
  <2> HIDE DEF n
  <2>4. n \in Transactions
    BY <2>2 DEF n
  <2>5. /\ t \in Transactions /\ t.phase = p /\ t.kind = kind
        /\ t.output = n.output /\ t.finish = n.finish
    BY <2>1, <2>4 DEF Transactions
  <2> HIDE DEF t
  <2> QED
    BY <2>3, <2>5 DEF n
<1>4. MediaQuiet
  BY <1>1, QuietWhenIdle DEF Uploading
<1>5. MediaQuiet'
  BY <1>1, <1>4 DEF MediaQuiet
<1> QED
  BY <1>1, <1>2, <1>3, <1>5, NoTransactionFacts

(* An upload begins with nothing sent.                                      *)
LEMMA UploadBegins ==
    ASSUME tx'.phase \in {"header", "connecting"}, tx'.output = <<>>, saved' = <<>>,
           MediaQuiet', Size' = 0, Kept' = <<>>
    PROVE  Upload'
<1>1. 0 \in 0..Size'
  OBVIOUS
<1>2. Len(<<>>) = 0 /\ 0 + 0 + 0 = 0
  OBVIOUS
<1>3. \A n : Runs(<<>>, n, Whole')
  BY RunOfNothing DEF Runs
<1>4. Flows(0)'
  BY <1>2, <1>3 DEF Flows
<1> QED
  BY <1>1, <1>4 DEF Upload

LEMMA BeginRecordingInv == ASSUME MediaInv, BeginRecording PROVE MediaInv'
<1>1. ~rec.active /\ ~photo.active /\ buffer' = <<>> /\ photo' = photo
  BY DEF BeginRecording
<1>2. <<>> \in Data /\ Len(<<>>) <= BufferSize
  BY Sizes DEF Data
<1>3. CASE /\ BeginStream("audio") /\ mic' = BeginCapture
           /\ rec' = [NotRecording EXCEPT !.active = TRUE]
  <2>1. /\ rec' \in [active : BOOLEAN, stop : BOOLEAN, finish : BOOLEAN]
        /\ rec'.active = TRUE /\ rec'.stop = FALSE /\ rec'.finish = FALSE
    BY <1>3 DEF NotRecording
  <2>2. /\ tx' \in Transactions /\ tx'.phase \in {"header", "connecting"}
        /\ tx'.kind = "audio" /\ tx'.output = <<>> /\ tx'.finish = FALSE
        /\ saved' = <<>> /\ UNCHANGED <<up, down, serving>> /\ MediaQuiet'
    <3>1. "audio" \in Kinds
      BY DEF Kinds
    <3> QED
      BY <1>3, <3>1, BeginStreamFacts
  <2>3. mic' \in Microphones /\ Hears(mic') /\ mic'.total = 0
    BY <1>3, BeginFacts
  <2>4. MediaTypes'
    BY <1>1, <1>2, <2>1, <2>2, <2>3 DEF MediaInv, MediaTypes
  <2>5. Roles'
    BY <1>1, <2>1, <2>2 DEF Roles
  <2>6. Recording'
    BY <1>1, <1>2, <2>1, <2>3 DEF Recording
  <2>7. Finishing'
    BY <2>2 DEF Finishing
  <2>8. Size' = 0 /\ Kept' = <<>>
    BY <1>1, <2>2, <2>3 DEF Size, Kept
  <2>9. Upload'
    BY <2>2, <2>8, UploadBegins
  <2>10. Line'
    BY <2>2, <2>9 DEF Line, Uploading
  <2>11. Saved'
    BY <2>2 DEF Saved
  <2> QED
    BY <2>4, <2>5, <2>6, <2>7, <2>10, <2>11 DEF MediaInv
<1>4. CASE /\ mic' = FinishCapture(BeginCapture)
           /\ UNCHANGED <<rec, tx, lineVars, orphans, saved>>
  <2>1. UNCHANGED <<rec, tx, up, down, serving, saved>>
    BY <1>4 DEF lineVars
  <2>2. mic' \in Microphones
    BY <1>4, BeginFacts, FinishFacts
  <2>3. tx.phase = "idle"
    BY <1>1 DEF MediaInv, Roles
  <2>4. MediaTypes'
    BY <1>1, <1>2, <2>1, <2>2 DEF MediaInv, MediaTypes
  <2>5. Roles'
    BY <1>1, <2>1 DEF MediaInv, Roles
  <2>6. Recording'
    BY <1>1, <2>1 DEF Recording
  <2>7. Finishing'
    BY <1>1, <2>1 DEF MediaInv, Finishing
  <2>8. MediaQuiet'
    BY <2>1, <2>3, QuietWhenIdle DEF Uploading, MediaQuiet
  <2>9. Line'
    BY <2>1, <2>3, <2>8 DEF Line, Uploading
  <2>10. Saved'
    BY <1>1, <2>1, <2>3 DEF Saved
  <2> QED
    BY <2>4, <2>5, <2>6, <2>7, <2>9, <2>10 DEF MediaInv
<1> QED
  BY <1>3, <1>4 DEF BeginRecording

(* What becomes of the upload when the microphone hears or stops.           *)
LEMMA UploadHeard ==
    ASSUME MediaInv, UNCHANGED <<buffer, photo, tx, up, down, serving, saved>>,
           mic'.total = mic.total, tx.kind = "photo" \/ (mic.lapped => mic'.lapped)
    PROVE  Line'
<1>1. Whole' => Whole
  BY DEF Whole
<1>2. Size' = Size /\ Kept' = Kept
  BY DEF Size, Kept
<1>3. ASSUME NEW s \in 0..Size, Flows(s) PROVE s \in 0..Size' /\ Flows(s)'
  <2>1. /\ Runs(tx.output, s, Whole) => Runs(tx'.output, s, Whole')
        /\ Runs(Kept, s + Len(tx.output), Whole) =>
               Runs(Kept', s + Len(tx'.output), Whole')
    BY <1>1, <1>2 DEF Runs
  <2>2. s + Len(tx'.output) + Len(Kept') = Size'
    BY <1>2, <1>3 DEF Flows
  <2>3. Flows(s)'
    BY <1>3, <2>1, <2>2 DEF Flows
  <2> QED
    BY <1>2, <2>3
<1>4. Upload => Upload'
  BY <1>1, <1>3, UploadKept
<1>5. MediaQuiet => MediaQuiet'
  BY DEF MediaQuiet
<1> QED
  BY <1>4, <1>5 DEF MediaInv, Line, Uploading

LEMMA HearingInv == ASSUME MediaInv, Hearing PROVE MediaInv'
<1>1. /\ mic.sampling /\ mic' = Hear(mic)
      /\ UNCHANGED <<buffer, rec, photo, tx, up, down, serving, saved>>
  BY DEF Hearing, lineVars
<1>2. mic \in Microphones
  BY DEF MediaInv, MediaTypes
<1>3. /\ mic' \in Microphones /\ mic'.total = mic.total
      /\ mic.lapped => mic'.lapped
      /\ Hears(mic) => Hears(mic')
  BY <1>1, <1>2, HearFacts
<1>4. rec.active => ~rec.stop /\ ~rec.finish
  BY <1>1 DEF MediaInv, Recording
<1>5. MediaTypes'
  BY <1>1, <1>3 DEF MediaInv, MediaTypes
<1>6. Roles'
  BY <1>1 DEF MediaInv, Roles
<1>7. Recording'
  BY <1>1, <1>3, <1>4 DEF MediaInv, Recording
<1>8. Finishing'
  BY <1>1 DEF MediaInv, Finishing
<1>9. Line'
  BY <1>1, <1>3, UploadHeard
<1>10. Saved'
  BY <1>1, <1>4 DEF MediaInv, Saved
<1> QED
  BY <1>5, <1>6, <1>7, <1>8, <1>9, <1>10 DEF MediaInv

LEMMA ReleaseInv == ASSUME MediaInv, Release PROVE MediaInv'
<1>1. rec.active /\ ~rec.stop /\ UNCHANGED <<photo, saved>>
  BY DEF Release
<1>2. mic \in Microphones
  BY DEF MediaInv, MediaTypes
<1>3. CASE StopFailed(BreakCapture(mic))
  BY <1>1, <1>2, <1>3, BreakFacts, StopFailedInv
<1>4. CASE /\ mic' = FinishCapture(mic) /\ rec' = [rec EXCEPT !.stop = TRUE]
           /\ UNCHANGED <<buffer, tx, lineVars, orphans>>
  <2>1. UNCHANGED <<buffer, photo, tx, up, down, serving, saved>>
    BY <1>1, <1>4 DEF lineVars
  <2>2. rec \in [active : BOOLEAN, stop : BOOLEAN, finish : BOOLEAN]
    BY DEF MediaInv, MediaTypes
  <2>3. /\ rec' \in [active : BOOLEAN, stop : BOOLEAN, finish : BOOLEAN]
        /\ rec'.active = rec.active /\ rec'.stop = TRUE /\ rec'.finish = rec.finish
    BY <1>4, <2>2
  <2>4. /\ mic' \in Microphones /\ ~mic'.sampling /\ mic'.total = mic.total
        /\ mic'.lapped = mic.lapped
        /\ Hears(mic) => Hears(mic')
    BY <1>2, <1>4, FinishFacts
  <2>5. ~rec.finish
    BY <1>1 DEF MediaInv, Recording
  <2>6. MediaTypes'
    BY <2>1, <2>3, <2>4 DEF MediaInv, MediaTypes
  <2>7. Roles'
    BY <2>1, <2>3 DEF MediaInv, Roles
  <2>8. Recording'
    BY <1>1, <2>1, <2>3, <2>4, <2>5 DEF MediaInv, Recording
  <2>9. Finishing'
    BY <2>1, <2>3 DEF MediaInv, Finishing
  <2>10. Line'
    BY <2>1, <2>4, UploadHeard
  <2>11. Saved'
    BY <1>1, <2>1, <2>3, <2>5 DEF MediaInv, Saved
  <2> QED
    BY <2>6, <2>7, <2>8, <2>9, <2>10, <2>11 DEF MediaInv
<1> QED
  BY <1>3, <1>4 DEF Release

LEMMA RecordingSucceedsInv ==
    ASSUME MediaInv, rec.active, UNCHANGED photo, RecordingSucceeds
    PROVE  MediaInv'
<1>1. /\ tx.phase = "succeeded" /\ tx' = NoTransaction /\ rec' = NotRecording
      /\ buffer' = <<>> /\ UNCHANGED <<mic, photo, up, down, serving, saved>>
  BY DEF RecordingSucceeds, lineVars
<1>2. rec'.active = FALSE /\ rec' \in [active : BOOLEAN, stop : BOOLEAN, finish : BOOLEAN]
  BY <1>1 DEF NotRecording
<1>3. tx' \in Transactions /\ tx'.phase = "idle" /\ tx'.finish = FALSE
  BY <1>1, NoTransactionFacts
<1>4. <<>> \in Data
  BY DEF Data
<1>5. MediaTypes'
  BY <1>1, <1>2, <1>3, <1>4 DEF MediaInv, MediaTypes
<1>6. Roles'
  BY <1>2, <1>3 DEF Roles
<1>7. Recording'
  BY <1>2 DEF Recording
<1>8. Finishing'
  BY <1>3 DEF Finishing
<1>9. MediaQuiet'
  BY <1>1, QuietWhenIdle DEF MediaQuiet, Uploading
<1>10. Line'
  BY <1>3, <1>9 DEF Line, Uploading
<1>11. ~photo'.active
  BY <1>1 DEF MediaInv, Roles
<1>12. Saved'
  BY <1>2, <1>3, <1>11 DEF Saved
<1> QED
  BY <1>5, <1>6, <1>7, <1>8, <1>10, <1>12 DEF MediaInv

LEMMA LeaveInv == ASSUME MediaInv, Leave PROVE MediaInv'
<1>1. /\ ~photo.active /\ tx' = NoTransaction /\ CloseMedia
      /\ UNCHANGED <<mic, buffer, rec, photo, saved>>
  BY DEF Leave, deviceVars
<1>2. tx' \in Transactions /\ tx'.phase = "idle" /\ tx'.finish = FALSE
  BY <1>1, NoTransactionFacts
<1>3. MediaTypes'
  BY <1>1, <1>2, Closed DEF MediaInv, MediaTypes
<1>4. Roles'
  BY <1>1, <1>2 DEF Roles
<1>5. Recording'
  BY <1>1, RecordingStill DEF MediaInv
<1>6. Finishing'
  BY <1>2 DEF Finishing
<1>7. Line'
  BY <1>1, <1>2, Closed DEF Line, Uploading
<1>8. Saved'
  BY <1>1, <1>2 DEF MediaInv, Saved
<1> QED
  BY <1>3, <1>4, <1>5, <1>6, <1>7, <1>8 DEF MediaInv

(* A step that moves none of it keeps the invariant.                        *)
LEMMA NothingMoves ==
    ASSUME MediaInv, UNCHANGED <<mic, buffer, rec, photo, tx, up, down, serving, saved>>
    PROVE  MediaInv'
<1>1. MediaTypes' /\ Roles' /\ Finishing' /\ Saved'
  BY DEF MediaInv, MediaTypes, Roles, Finishing, Saved
<1>2. Recording'
  BY RecordingStill DEF MediaInv
<1>3. Line'
  BY UploadHeard
<1> QED
  BY <1>1, <1>2, <1>3 DEF MediaInv

LEMMA ReturnInv == ASSUME MediaInv, Return PROVE MediaInv'
  BY NothingMoves DEF Return, deviceVars

LEMMA OrphanEndsInv == ASSUME MediaInv, OrphanEnds PROVE MediaInv'
  BY NothingMoves DEF OrphanEnds, clientVars, lineVars

(* What the drain begins with. *)
LEMMA DrainingFacts ==
    ASSUME MediaInv, rec.active, tx.phase # "idle", NEW s \in 0..Size, Flows(s)
    PROVE  s \in Nat /\ DrainOK(Draining, s)
<1>1. tx.kind = "audio"
  BY TransactionOf DEF MediaInv
<1>2. Size = mic.total /\ Kept = buffer
  BY <1>1 DEF Size, Kept
<1>3. /\ mic \in Microphones /\ buffer \in Data /\ tx \in Transactions
  BY DEF MediaInv, MediaTypes
<1>4. Hears(mic) /\ Len(buffer) <= BufferSize
  BY DEF MediaInv, Recording
<1>5. /\ Draining \in Drains /\ Draining.mic = mic /\ Draining.buffer = buffer
      /\ Draining.tx = tx
  BY <1>3 DEF Draining, Drains
<1>6. s \in Nat
  BY <1>2, <1>3 DEF Microphones
<1>7. Whole <=> ~mic.lapped
  BY <1>1 DEF Whole
<1>8. /\ s + Len(tx.output) + Len(buffer) = mic.total
      /\ Runs(tx.output, s, ~mic.lapped)
      /\ Runs(buffer, s + Len(tx.output), ~mic.lapped)
  BY <1>2, <1>7 DEF Flows, Runs
<1> QED
  BY <1>4, <1>5, <1>6, <1>8 DEF DrainOK

LEMMA RecordingGoesOnInv ==
    ASSUME MediaInv, rec.active, UNCHANGED photo, RecordingGoesOn
    PROVE  MediaInv'
<1> DEFINE d == Drain(Draining, rec.stop)
<1>1. Uploading /\ UNCHANGED <<photo, saved>>
  BY DEF RecordingGoesOn
<1>2. \/ StopFailed(d.mic)
      \/ /\ ~(RecordingEnded(d) /\ d.mic.total = 0)
         /\ mic' = IF d.mic.full THEN FinishCapture(d.mic) ELSE d.mic
         /\ buffer' = d.buffer
         /\ tx' = [d.tx EXCEPT !.finish = @ \/ RecordingEnded(d)]
         /\ rec' = [rec EXCEPT !.stop = @ \/ d.mic.full, !.finish = @ \/ RecordingEnded(d)]
         /\ KeepLine
  BY DEF RecordingGoesOn, Drain
<1>3. /\ tx.phase # "idle" /\ tx.phase # "succeeded" /\ Upload
  BY <1>1 DEF MediaInv, Line, Uploading
<1>4. PICK s0 \in 0..Size : Flows(s0)
  BY <1>3 DEF Upload
<1>5. s0 \in Nat /\ DrainOK(Draining, s0)
  BY <1>3, <1>4, DrainingFacts
<1>6. Draining.mic = mic /\ Draining.buffer = buffer /\ Draining.tx = tx
  BY DEF Draining
<1>7. /\ DrainOK(d, s0) /\ Drawn(Draining, d)
      /\ DrainEmpty(Draining) =>
             DrainEmpty(d) /\ d.mic.total = Draining.mic.total /\ d.tx = Draining.tx
      /\ d.buffer = <<>> /\ ~Draining.mic.sampling => DrainEmpty(d)
  BY <1>5, DrainFacts
<1>8. ASSUME NEW s \in 0..Size, Flows(s) PROVE s \in Nat /\ DrainOK(d, s)
  <2>1. s \in Nat /\ DrainOK(Draining, s)
    BY <1>3, <1>8, DrainingFacts
  <2> QED
    BY <2>1, DrainFacts
<1> HIDE DEF d
<1>9. /\ d.mic \in Microphones /\ d.buffer \in Data /\ d.tx \in Transactions
      /\ Hears(d.mic) /\ Len(d.buffer) <= BufferSize
  BY <1>7 DEF DrainOK, Drains
<1>10. CASE StopFailed(d.mic)
  BY <1>1, <1>9, <1>10, StopFailedInv
<1>11. CASE ~StopFailed(d.mic)
  <2> DEFINE over == RecordingEnded(d)
  <2>1. /\ ~(over /\ d.mic.total = 0)
        /\ mic' = IF d.mic.full THEN FinishCapture(d.mic) ELSE d.mic
        /\ buffer' = d.buffer
        /\ tx' = [d.tx EXCEPT !.finish = @ \/ over]
        /\ rec' = [rec EXCEPT !.stop = @ \/ d.mic.full, !.finish = @ \/ over]
        /\ UNCHANGED <<up, down, serving, saved, photo>>
    BY <1>1, <1>2, <1>11 DEF KeepLine, lineVars
  <2>2. over => rec.stop /\ d.buffer = <<>> /\ ~rec.finish /\ tx.phase = "streaming"
    BY DEF RecordingEnded, Drained
  <2>3. over \in BOOLEAN
    BY DEF RecordingEnded
  <2> HIDE DEF over
  <2>4. mic' = d.mic
    BY <1>9, <2>1 DEF Hears, FinishCapture
  <2>5. rec \in [active : BOOLEAN, stop : BOOLEAN, finish : BOOLEAN]
    BY DEF MediaInv, MediaTypes
  <2>6. d.mic.full \in BOOLEAN
    BY <1>9 DEF Microphones
  <2>7. /\ rec' \in [active : BOOLEAN, stop : BOOLEAN, finish : BOOLEAN]
        /\ rec'.active = rec.active
        /\ rec'.stop = (rec.stop \/ d.mic.full)
        /\ rec'.finish = (rec.finish \/ over)
    BY <2>1, <2>3, <2>5, <2>6
  <2>8. /\ tx' \in Transactions /\ tx'.phase = d.tx.phase /\ tx'.kind = d.tx.kind
        /\ tx'.output = d.tx.output /\ tx'.finish = (d.tx.finish \/ over)
    BY <1>9, <2>1, <2>3 DEF Transactions
  <2>9. /\ d.mic.lapped = mic.lapped /\ (d.mic.sampling => mic.sampling)
        /\ d.tx.phase = tx.phase /\ d.tx.kind = tx.kind /\ d.tx.finish = tx.finish
        /\ tx.phase # "streaming" => d.tx.output = tx.output
    BY <1>6, <1>7 DEF Drawn
  <2>10. tx.kind = "audio" /\ ~photo.active
    BY <1>3, TransactionOf DEF MediaInv, Roles
  <2>11. rec.stop => ~mic.sampling
    BY DEF MediaInv, Recording
  <2>12. rec.finish => /\ rec.stop /\ mic.total > 0
                       /\ DrainEmpty(d) /\ d.mic.total = mic.total
    <3>1. SUFFICES ASSUME rec.finish
                   PROVE  /\ rec.stop /\ mic.total > 0
                          /\ DrainEmpty(d) /\ d.mic.total = mic.total
      OBVIOUS
    <3>2. /\ rec.stop /\ buffer = <<>> /\ mic.total > 0
          /\ Readable(mic, BufferSize) = 0
      BY <3>1 DEF MediaInv, Recording
    <3>3. DrainEmpty(Draining)
      BY <1>6, <2>11, <3>2 DEF DrainEmpty
    <3> QED
      BY <1>6, <1>7, <3>2, <3>3
  <2>13. over => DrainEmpty(d) /\ d.mic.total > 0
    <3>1. over => DrainEmpty(d)
      BY <1>6, <1>7, <2>2, <2>11
    <3>2. d.mic.total \in Nat
      BY <1>9 DEF Microphones
    <3> QED
      BY <2>1, <3>1, <3>2
  <2>14. MediaTypes'
    BY <1>9, <2>1, <2>4, <2>7, <2>8 DEF MediaInv, MediaTypes
  <2>15. Roles'
    BY <2>1, <2>7, <2>8, <2>9, <2>10 DEF MediaInv, Roles
  <2>16. Recording'
    <3>1. Hears(mic') /\ Len(buffer') <= BufferSize
      BY <1>9, <2>1, <2>4
    <3>2. rec'.stop => ~mic'.sampling
      <4>1. d.mic.full => ~d.mic.sampling
        BY <1>9 DEF Hears
      <4>2. rec.stop => ~d.mic.sampling
        BY <2>9, <2>11
      <4> QED
        BY <2>4, <2>7, <4>1, <4>2
    <3>3. rec'.finish => rec'.stop /\ buffer' = <<>> /\ mic'.total > 0
                         /\ Readable(mic', BufferSize) = 0
      <4>1. CASE rec.finish
        <5>1. rec'.stop
          BY <2>7, <2>12, <4>1
        <5>2. mic'.total > 0
          BY <2>4, <2>12, <4>1
        <5> QED
          BY <2>1, <2>4, <2>12, <4>1, <5>1, <5>2 DEF DrainEmpty
      <4>2. CASE over
        <5>1. rec'.stop
          BY <2>2, <2>7, <4>2
        <5> QED
          BY <2>1, <2>4, <2>13, <4>2, <5>1 DEF DrainEmpty
      <4>3. rec'.finish => rec.finish \/ over
        BY <2>7
      <4> QED
        BY <4>1, <4>2, <4>3
    <3> QED
      BY <3>1, <3>2, <3>3 DEF Recording
  <2>17. Finishing'
    <3>1. tx'.kind # "photo" /\ (tx'.finish => rec'.finish)
      BY <2>7, <2>8, <2>9, <2>10 DEF MediaInv, Finishing
    <3>2. tx'.phase \in {"end", "receiving"} => tx'.finish /\ tx'.output = <<>>
      <4>1. tx.phase \in {"end", "receiving"} =>
                tx.finish /\ tx.output = <<>> /\ tx.phase # "streaming"
        BY DEF MediaInv, Finishing
      <4> QED
        BY <2>8, <2>9, <4>1
    <3> QED
      BY <3>1, <3>2 DEF Finishing
  <2>18. Upload'
    <3>1. Whole' <=> Whole
      BY <2>4, <2>8, <2>9 DEF Whole
    <3>2. Size' = d.mic.total /\ Kept' = d.buffer
      BY <2>1, <2>4, <2>8, <2>9, <2>10 DEF Size, Kept
    <3>3. Whole' <=> ~d.mic.lapped
      BY <2>4, <2>8, <2>9, <2>10 DEF Whole
    <3>4. ASSUME NEW s \in 0..Size, Flows(s) PROVE s \in 0..Size' /\ Flows(s)'
      <4>1. s \in Nat /\ DrainOK(d, s)
        BY <1>8, <3>4
      <4>2. s + Len(d.tx.output) + Len(d.buffer) = d.mic.total
        BY <4>1 DEF DrainOK
      <4>3. Runs(tx'.output, s, Whole') /\ Runs(Kept', s + Len(tx'.output), Whole')
        BY <2>8, <3>2, <3>3, <4>1 DEF DrainOK, Runs
      <4>4. s \in 0..Size'
        <5> DEFINE o == Len(d.tx.output)
                   b == Len(d.buffer)
                   t == d.mic.total
        <5>1. o \in Nat /\ b \in Nat /\ t \in Nat
          BY <1>9 DEF Transactions, Data, Microphones
        <5>2. s \in Nat /\ s + o + b = t
          BY <4>1, <4>2
        <5> HIDE DEF o, b, t
        <5>3. s \in 0..t
          BY <5>1, <5>2
        <5> QED
          BY <3>2, <5>3 DEF t
      <4>5. s + Len(tx'.output) + Len(Kept') = Size'
        BY <2>8, <3>2, <4>2
      <4>6. Flows(s)'
        BY <4>3, <4>5 DEF Flows
      <4> QED
        BY <4>4, <4>6
    <3>5. tx'.phase = tx.phase
      BY <2>8, <2>9
    <3>6. tx.phase \in {"connecting", "header"} /\ tx.output = <<>> => tx'.output = <<>>
      BY <2>8, <2>9
    <3> QED
      BY <1>3, <2>1, <3>1, <3>4, <3>5, <3>6, UploadKept
  <2>19. Line'
    BY <1>1, <2>8, <2>9, <2>18 DEF Line, Uploading
  <2>20. Saved'
    <3>1. tx'.phase # "succeeded"
      BY <1>3, <2>8, <2>9
    <3>2. ~photo'.active
      BY <2>1, <2>10
    <3>3. saved' # <<>> =>
              rec'.finish /\ (~mic'.lapped => saved' = Numbered(mic'.total))
      <4>1. saved # <<>> => rec.finish /\ (~mic.lapped => saved = Numbered(mic.total))
        BY DEF MediaInv, Saved
      <4> QED
        BY <2>1, <2>4, <2>7, <2>9, <2>12, <4>1
    <3> QED
      BY <3>1, <3>2, <3>3 DEF Saved
  <2> QED
    BY <2>14, <2>15, <2>16, <2>17, <2>19, <2>20 DEF MediaInv
<1> QED
  BY <1>10, <1>11

LEMMA RecordingFrameInv == ASSUME MediaInv, RecordingFrame PROVE MediaInv'
<1>1. rec.active /\ UNCHANGED photo
  BY DEF RecordingFrame
<1>2. mic \in Microphones
  BY DEF MediaInv, MediaTypes
<1>3. CASE RecordingFails
  BY <1>1, <1>2, <1>3, StopFailedInv DEF RecordingFails
<1>4. CASE MicrophoneBreaks
  BY <1>1, <1>2, <1>4, BreakFacts, StopFailedInv DEF MicrophoneBreaks
<1> QED
  BY <1>1, <1>3, <1>4, RecordingSucceedsInv, RecordingGoesOnInv DEF RecordingFrame

LEMMA PhotoOffsets ==
    ASSUME MediaInv
    PROVE  /\ photo \in [active : BOOLEAN, offset : 0..PhotoSize, finish : BOOLEAN]
           /\ photo.offset \in Nat /\ photo.offset <= PhotoSize
           /\ 0 \in 0..PhotoSize
<1>1. photo \in [active : BOOLEAN, offset : 0..PhotoSize, finish : BOOLEAN]
  BY DEF MediaInv, MediaTypes
<1> QED
  BY <1>1, Sizes

LEMMA BeginPhotoInv == ASSUME MediaInv, BeginPhoto PROVE MediaInv'
<1>1. /\ ~rec.active /\ BeginStream("photo")
      /\ photo' = [NoPhoto EXCEPT !.active = TRUE]
      /\ UNCHANGED <<mic, buffer, rec>>
  BY DEF BeginPhoto, deviceVars
<1>2. /\ photo' \in [active : BOOLEAN, offset : 0..PhotoSize, finish : BOOLEAN]
      /\ photo'.active = TRUE /\ photo'.offset = 0
  BY <1>1, PhotoOffsets DEF NoPhoto
<1>3. /\ tx' \in Transactions /\ tx'.phase \in {"header", "connecting"}
      /\ tx'.kind = "photo" /\ tx'.output = <<>> /\ tx'.finish = FALSE
      /\ saved' = <<>> /\ UNCHANGED <<up, down, serving>> /\ MediaQuiet'
  <2>1. "photo" \in Kinds
    BY DEF Kinds
  <2> QED
    BY <1>1, <2>1, BeginStreamFacts
<1>4. MediaTypes'
  BY <1>1, <1>2, <1>3 DEF MediaInv, MediaTypes, Data
<1>5. Roles'
  BY <1>1, <1>2, <1>3 DEF Roles
<1>6. Recording'
  BY <1>1, RecordingStill DEF MediaInv
<1>7. Finishing'
  BY <1>3 DEF Finishing
<1>8. Size' = 0 /\ Kept' = <<>>
  BY <1>2, <1>3 DEF Size, Kept
<1>9. Upload'
  BY <1>3, <1>8, UploadBegins
<1>10. Line'
  BY <1>3, <1>9 DEF Line, Uploading
<1>11. Saved'
  BY <1>3 DEF Saved
<1> QED
  BY <1>4, <1>5, <1>6, <1>7, <1>10, <1>11 DEF MediaInv

(* A photo ends, or is given up.                                            *)
LEMMA PhotoOverInv ==
    ASSUME MediaInv, photo.active, tx' = NoTransaction, photo' = NoPhoto,
           UNCHANGED <<mic, buffer, rec, saved>>,
           CloseMedia \/ (~Uploading /\ UNCHANGED <<up, down, serving>>)
    PROVE  MediaInv'
<1>1. /\ photo' \in [active : BOOLEAN, offset : 0..PhotoSize, finish : BOOLEAN]
      /\ photo'.active = FALSE
  BY PhotoOffsets DEF NoPhoto
<1>2. tx' \in Transactions /\ tx'.phase = "idle" /\ tx'.finish = FALSE
  BY NoTransactionFacts
<1>3. /\ MediaQuiet' /\ up' \in Seq(Frames)
      /\ down' \in Seq([ok : BOOLEAN, reusable : BOOLEAN])
      /\ serving' \in [phase : {"idle", "reading", "working", "refused"},
                       kind : Kinds \cup {"none"}, body : Data]
  <2>1. CASE CloseMedia
    BY <2>1, Closed
  <2>2. CASE ~Uploading /\ UNCHANGED <<up, down, serving>>
    <3>1. MediaQuiet'
      BY <2>2, QuietWhenIdle DEF MediaQuiet
    <3> QED
      BY <2>2, <3>1, TypesOfLine
  <2> QED
    BY <2>1, <2>2
<1>4. MediaTypes'
  BY <1>1, <1>2, <1>3 DEF MediaInv, MediaTypes
<1>5. Roles'
  BY <1>1, <1>2 DEF Roles
<1>6. Recording'
  BY RecordingStill DEF MediaInv
<1>7. Finishing'
  BY <1>2 DEF Finishing
<1>8. Line'
  BY <1>2, <1>3 DEF Line, Uploading
<1>9. ~rec'.active
  BY DEF MediaInv, Roles
<1>10. Saved'
  BY <1>1, <1>2, <1>9 DEF Saved
<1> QED
  BY <1>4, <1>5, <1>6, <1>7, <1>8, <1>10 DEF MediaInv

LEMMA AbortPhotoInv == ASSUME MediaInv, AbortPhoto PROVE MediaInv'
  BY PhotoOverInv DEF AbortPhoto, deviceVars

(* A photo whose transaction goes on. *)
LEMMA PhotoGoesOn ==
    ASSUME MediaInv, photo.active, Uploading,
           UNCHANGED <<mic, buffer, rec, up, down, serving, saved>>,
           photo' \in [active : BOOLEAN, offset : 0..PhotoSize, finish : BOOLEAN],
           photo'.active = photo.active,
           tx' \in Transactions, tx'.phase = tx.phase, tx'.kind = tx.kind,
           tx'.finish => photo'.offset = PhotoSize,
           tx.phase \in {"end", "receiving"} => tx'.finish /\ tx'.output = <<>>,
           tx.phase \in {"connecting", "header"} /\ tx.output = <<>> =>
               tx'.output = <<>>,
           \A s \in 0..Size : Flows(s) => s \in 0..Size' /\ Flows(s)'
    PROVE  MediaInv'
<1>1. ~rec.active /\ tx.kind = "photo"
  BY DEF MediaInv, Roles, Uploading
<1>2. MediaTypes'
  BY DEF MediaInv, MediaTypes
<1>3. Roles'
  BY <1>1 DEF MediaInv, Roles
<1>4. Recording'
  BY RecordingStill DEF MediaInv
<1>5. Finishing'
  BY <1>1 DEF Finishing
<1>6. Whole' => Whole
  BY <1>1 DEF Whole
<1>7. Upload
  BY DEF MediaInv, Line
<1>8. Upload'
  BY <1>6, <1>7, UploadKept
<1>9. Line'
  BY <1>8 DEF Line, Uploading
<1>10. Saved'
  BY <1>1 DEF MediaInv, Saved
<1> QED
  BY <1>2, <1>3, <1>4, <1>5, <1>9, <1>10 DEF MediaInv

LEMMA PhotoFinishesInv ==
    ASSUME MediaInv, photo.active, UNCHANGED <<deviceVars, rec, away, saved, attempts>>,
           PhotoFinishes
    PROVE  MediaInv'
<1>1. /\ Uploading /\ photo.offset = PhotoSize
      /\ tx' = [tx EXCEPT !.finish = TRUE] /\ photo' = [photo EXCEPT !.finish = TRUE]
      /\ UNCHANGED <<mic, buffer, rec, up, down, serving, saved>>
  BY DEF PhotoFinishes, KeepLine, lineVars, deviceVars
<1>2. /\ tx' \in Transactions /\ tx'.phase = tx.phase /\ tx'.kind = tx.kind
      /\ tx'.output = tx.output /\ tx'.finish = TRUE
  BY <1>1, TypesOfLine, TxFinish
<1>3. /\ photo' \in [active : BOOLEAN, offset : 0..PhotoSize, finish : BOOLEAN]
      /\ photo'.active = photo.active /\ photo'.offset = photo.offset
  BY <1>1, PhotoOffsets
<1>4. tx.phase \in {"end", "receiving"} => tx.output = <<>>
  BY DEF MediaInv, Finishing
<1>5. Size' = Size
  BY <1>1, <1>2, <1>3, SameSize
<1>6. ASSUME NEW s \in 0..Size, Flows(s) PROVE s \in 0..Size' /\ Flows(s)'
  BY <1>1, <1>2, <1>3, <1>5, <1>6, SameFlow
<1> QED
  BY <1>1, <1>2, <1>3, <1>4, <1>6, PhotoGoesOn

LEMMA PhotoWritesInv ==
    ASSUME MediaInv, photo.active, UNCHANGED <<deviceVars, rec, away, saved, attempts>>,
           PhotoWrites
    PROVE  MediaInv'
<1> DEFINE size == Min({PhotoSize - photo.offset, BufferSize})
           data == [i \in 1..size |-> photo.offset + i]
           sum == photo.offset + size
<1>1. /\ photo.offset < PhotoSize /\ CanWrite(tx)
      /\ tx' = [tx EXCEPT !.output = data] /\ photo' = [photo EXCEPT !.offset = sum]
      /\ UNCHANGED <<mic, buffer, rec, up, down, serving, saved>>
  BY PhotoOffsets DEF PhotoWrites, KeepLine, lineVars, deviceVars, Write
<1>2. photo.offset \in Nat /\ PhotoSize \in Nat
  BY PhotoOffsets, Sizes
<1>3. size \in Nat /\ size <= PhotoSize - photo.offset
  <2> DEFINE left == PhotoSize - photo.offset
  <2>1. left \in Nat /\ BufferSize \in Nat
    BY <1>1, <1>2, Sizes
  <2> HIDE DEF left
  <2>2. Min({left, BufferSize}) = IF left <= BufferSize THEN left ELSE BufferSize
    BY <2>1, MinOfTwoSizes
  <2>3. Min({left, BufferSize}) \in Nat /\ Min({left, BufferSize}) <= left
    BY <2>1, <2>2
  <2> QED
    BY <2>3 DEF left
<1> HIDE DEF size
<1>4. data \in Data /\ Len(data) = size
  BY <1>2, <1>3 DEF Data
<1>5. RunOf(data, photo.offset)
  BY <1>4 DEF RunOf
<1>6. sum \in 0..PhotoSize
  BY <1>2, <1>3
<1> HIDE DEF data
<1>7. /\ tx' \in Transactions /\ tx'.phase = tx.phase /\ tx'.kind = tx.kind
      /\ tx'.output = data /\ tx'.finish = tx.finish
  BY <1>1, <1>4, TypesOfLine, TxOutput
<1>8. tx.phase = "streaming" /\ tx.output = <<>> /\ ~tx.finish
  BY <1>1 DEF CanWrite
<1>9. /\ photo' \in [active : BOOLEAN, offset : 0..PhotoSize, finish : BOOLEAN]
      /\ photo'.active = photo.active /\ photo'.offset = sum
  <2> HIDE DEF sum
  <2> QED
    BY <1>1, <1>6, PhotoOffsets
<1>10. tx.kind = "photo"
  BY <1>8, TransactionOf DEF MediaInv
<1>11. /\ Size = photo.offset /\ Kept = <<>> /\ Size' = sum /\ Kept' = <<>>
  BY <1>7, <1>9, <1>10 DEF Size, Kept
<1>12. ASSUME NEW s \in 0..Size, Flows(s) PROVE s \in 0..Size' /\ Flows(s)'
  <2>1. s + Len(<<>>) + Len(<<>>) = photo.offset
    BY <1>8, <1>11, <1>12 DEF Flows
  <2>2. s \in Nat
    BY <1>2, <1>11, <1>12
  <2>3. Len(<<>>) = 0
    OBVIOUS
  <2>4. s = photo.offset
    BY <1>2, <2>1, <2>2, <2>3
  <2>5. s \in 0..sum
    BY <1>2, <1>3, <2>4
  <2>6. s + size + Len(<<>>) = sum
    BY <1>2, <1>3, <2>3, <2>4
  <2>7. s + Len(tx'.output) + Len(Kept') = Size'
    BY <1>4, <1>7, <1>11, <2>6
  <2>8. Runs(tx'.output, s, Whole')
    BY <1>5, <1>7, <2>4 DEF Runs
  <2>9. Runs(Kept', s + Len(tx'.output), Whole')
    BY <1>11, RunOfNothing DEF Runs
  <2>10. Flows(s)'
    BY <2>7, <2>8, <2>9 DEF Flows
  <2> QED
    BY <1>11, <2>5, <2>10
<1>13. Uploading
  BY <1>8 DEF Uploading
<1> QED
  BY <1>1, <1>7, <1>8, <1>9, <1>12, <1>13, PhotoGoesOn

LEMMA PhotoFrameInv == ASSUME MediaInv, PhotoFrame PROVE MediaInv'
<1>1. photo.active /\ UNCHANGED <<deviceVars, rec, away, saved, attempts>>
  BY DEF PhotoFrame
<1>2. CASE PhotoEnds
  <2>1. /\ ~Uploading /\ tx' = NoTransaction /\ photo' = NoPhoto
        /\ UNCHANGED <<mic, buffer, rec, saved, up, down, serving>>
    BY <1>1, <1>2 DEF PhotoEnds, Uploading, KeepLine, lineVars, deviceVars
  <2> QED
    BY <1>1, <2>1, PhotoOverInv
<1> QED
  BY <1>1, <1>2, PhotoWritesInv, PhotoFinishesInv DEF PhotoFrame

-----------------------------------------------------------------------------
(* The bridge.                                                              *)

ClientStill == UNCHANGED <<mic, buffer, rec, photo, tx>>

(* A step of the bridge that leaves the upload on the line.                 *)
LEMMA ClientStillInv ==
    ASSUME MediaInv, ClientStill, tx.phase \in {"streaming", "end", "receiving"},
           up' \in Seq(Frames),
           down' \in Seq([ok : BOOLEAN, reusable : BOOLEAN]),
           serving' \in [phase : {"idle", "reading", "working", "refused"},
                         kind : Kinds \cup {"none"}, body : Data],
           saved' \in Data, NEW s \in 0..Size, Flows(s),
           HeaderOnTheWay(s)' \/ BeingRead(s)' \/ Refused' \/ Done', Saved'
    PROVE  MediaInv'
<1>1. MediaTypes'
  BY DEF MediaInv, MediaTypes, ClientStill
<1>2. Roles' /\ Finishing'
  BY DEF MediaInv, Roles, Finishing, ClientStill
<1>3. Recording'
  BY RecordingStill DEF MediaInv, ClientStill
<1>4. Flows(s)' /\ Size' = Size
  BY SameFlow, SameSize DEF ClientStill
<1>5. Upload'
  BY <1>4, UploadNext DEF ClientStill
<1>6. Line'
  BY <1>5 DEF Line, Uploading, ClientStill
<1> QED
  BY <1>1, <1>2, <1>3, <1>6 DEF MediaInv

(* The bridge does not change what the client has.                          *)
LEMMA WholeStill ==
    ASSUME ClientStill
    PROVE  Whole' = Whole
  BY DEF ClientStill, Whole

LEMMA SavedStill ==
    ASSUME MediaInv, ClientStill, saved' = saved
    PROVE  Saved'
  BY DEF MediaInv, ClientStill, Saved

(* An upload of which the bridge reads something is on the line.            *)
LEMMA OnTheLine ==
    ASSUME MediaInv, up # <<>> \/ serving.phase = "working"
    PROVE  /\ tx.phase \in {"streaming", "end", "receiving"}
           /\ \E s \in Nat :
                 /\ s \in 0..Size /\ Flows(s)
                 /\ HeaderOnTheWay(s) \/ BeingRead(s) \/ Refused \/ Done
<1>1. ~MediaQuiet
  BY DEF MediaQuiet
<1>2. Uploading
  BY <1>1, QuietWhenIdle
<1>3. Upload
  BY <1>2 DEF MediaInv, Line
<1>4. tx.phase \in {"streaming", "end", "receiving"}
  BY <1>1, <1>3 DEF Upload
<1> QED
  BY <1>4, UploadOnLine

(* The steps of the handler, one by one.                                    *)
LEMMA ReadHeaderInv ==
    ASSUME MediaInv, ClientStill, up # <<>>, up' = Tail(up), ReadHeader
    PROVE  MediaInv'
<1>1. tx.phase \in {"streaming", "end", "receiving"}
  BY OnTheLine
<1>2. PICK s \in Nat :
          /\ s \in 0..Size /\ Flows(s)
          /\ HeaderOnTheWay(s) \/ BeingRead(s) \/ Refused \/ Done
  BY OnTheLine
<1>3. up \in Seq(Frames) /\ Head(up).type = "header" /\ saved' = saved
  BY TypesOfLine DEF ReadHeader
<1>4. ~BeingRead(s)
  BY <1>3, CarriesNoHeader DEF BeingRead
<1>5. ~Refused
  BY <1>3, NoHeaderLess DEF Refused
<1>6. HeaderOnTheWay(s)
  BY <1>2, <1>4, <1>5 DEF Done
<1>7. /\ serving.phase = "idle" /\ down = <<>> /\ saved = <<>>
      /\ Carries(up', 0, s, tx'.phase = "receiving", Whole')
  BY <1>6, WholeStill DEF HeaderOnTheWay, ClientStill
<1>8. up' \in Seq(Frames)
  BY <1>3
<1>9. Head(up) \in Frames
  BY <1>3
<1>10. <<>> \in Data /\ saved' \in Data
  BY <1>3, <1>7 DEF Data
<1>11. CASE Busy(Head(up).kind)
  <2>1. /\ serving' = [NotServing EXCEPT !.phase = "refused"]
        /\ down' = Append(<<>>, Refusal)
    BY <1>7, <1>11 DEF ReadHeader
  <2>2. Refusal \in [ok : BOOLEAN, reusable : BOOLEAN]
    BY DEF Refusal
  <2>3. down' \in Seq([ok : BOOLEAN, reusable : BOOLEAN]) /\ down' = <<Refusal>>
    BY <2>1, <2>2
  <2>4. /\ serving' \in [phase : {"idle", "reading", "working", "refused"},
                         kind : Kinds \cup {"none"}, body : Data]
        /\ serving'.phase = "refused"
    BY <1>10, <2>1 DEF NotServing
  <2>5. \A k \in 1..Len(up') : up'[k].type # "header"
    <3>1. CASE up' = <<>>
      <4>1. \A k \in 1..Len(<<>>) : FALSE
        OBVIOUS
      <4> QED
        BY <3>1, <4>1
    <3>2. CASE up' # <<>>
      BY <1>7, <1>8, <3>2, CarriesNoHeader
    <3> QED
      BY <3>1, <3>2
  <2>6. Refused'
    BY <1>3, <1>7, <2>3, <2>4, <2>5 DEF Refused
  <2> QED
    BY <1>1, <1>2, <1>3, <1>8, <1>10, <2>3, <2>4, <2>6, SavedStill, ClientStillInv
<1>12. CASE ~Busy(Head(up).kind)
  <2>1. /\ serving' = [phase |-> "reading", kind |-> Head(up).kind, body |-> <<>>]
        /\ down' = <<>>
    BY <1>7, <1>12 DEF ReadHeader
  <2>2. Head(up).kind \in Kinds
    BY <1>3, <1>9, FrameKinds
  <2>3. /\ serving' \in [phase : {"idle", "reading", "working", "refused"},
                         kind : Kinds \cup {"none"}, body : Data]
        /\ serving'.phase = "reading" /\ serving'.body = <<>>
    BY <1>10, <2>1, <2>2
  <2>4. Runs(serving'.body, 0, Whole')
    BY <2>3, RunOfNothing DEF Runs
  <2>5. Len(serving'.body) = 0
    BY <2>3
  <2>6. BeingRead(s)'
    BY <1>3, <1>7, <2>1, <2>3, <2>4, <2>5 DEF BeingRead
  <2>7. down' \in Seq([ok : BOOLEAN, reusable : BOOLEAN])
    BY <2>1
  <2> QED
    BY <1>1, <1>2, <1>3, <1>8, <1>10, <2>3, <2>6, <2>7, SavedStill, ClientStillInv
<1> QED
  BY <1>11, <1>12

LEMMA ReadChunkInv ==
    ASSUME MediaInv, ClientStill, up # <<>>, up' = Tail(up), ReadChunk
    PROVE  MediaInv'
<1>1. tx.phase \in {"streaming", "end", "receiving"}
  BY OnTheLine
<1>2. PICK s \in Nat :
          /\ s \in 0..Size /\ Flows(s)
          /\ HeaderOnTheWay(s) \/ BeingRead(s) \/ Refused \/ Done
  BY OnTheLine
<1>3. /\ up \in Seq(Frames) /\ Head(up).type = "chunk"
      /\ saved' = saved /\ down' = down
      /\ serving' = IF serving.phase = "reading"
                    THEN [serving EXCEPT !.body = @ \o Head(up).data] ELSE serving
  BY TypesOfLine DEF ReadChunk
<1>4. ~HeaderOnTheWay(s) /\ ~Done
  BY <1>3 DEF HeaderOnTheWay, Done
<1>5. up' \in Seq(Frames) /\ Whole' = Whole /\ tx' = tx
  BY <1>3, WholeStill DEF ClientStill
<1>6. saved' \in Data
  BY <1>3 DEF MediaInv, MediaTypes
<1>7. CASE Refused
  <2>1. serving' = serving
    BY <1>3, <1>7 DEF Refused
  <2>2. \A k \in 1..Len(up') : up'[k].type # "header"
    BY <1>3, <1>7, NoHeaderLess DEF Refused
  <2>3. Refused'
    BY <1>3, <1>7, <2>1, <2>2 DEF Refused
  <2> QED
    BY <1>1, <1>2, <1>3, <1>5, <1>6, <2>1, <2>3, SavedStill, TypesOfLine, ClientStillInv
<1>8. CASE BeingRead(s)
  <2> DEFINE body == serving.body
             data == Head(up).data
             from == Len(body)
             e == tx.phase = "receiving"
             more == body \o data
  <2>1. serving' = [serving EXCEPT !.body = more]
    BY <1>3, <1>8 DEF BeingRead
  <2>2. body \in Data /\ from \in Nat /\ e \in BOOLEAN
    BY TypesOfLine DEF Data
  <2>3. Runs(body, 0, Whole) /\ Carries(up, from, s, e, Whole)
    BY <1>8 DEF BeingRead
  <2> HIDE DEF from, e
  <2>4. /\ data \in Data /\ Runs(data, from, Whole)
        /\ from + Len(data) \in 0..s
        /\ Carries(up', from + Len(data), s, e, Whole)
    BY <1>2, <1>3, <2>2, <2>3, CarriesAfterChunk
  <2> HIDE DEF body, data
  <2>5. more \in Data /\ Len(more) = from + Len(data)
    BY <2>2, <2>4, JoinFacts DEF from
  <2>6. Runs(more, 0, Whole)
    <3>1. 0 + Len(body) = from
      BY <2>2 DEF from
    <3> QED
      BY <2>2, <2>3, <2>4, <3>1, RunsJoin
  <2> HIDE DEF more
  <2>7. /\ serving' \in [phase : {"idle", "reading", "working", "refused"},
                         kind : Kinds \cup {"none"}, body : Data]
        /\ serving'.phase = serving.phase /\ serving'.body = more
    <3> DEFINE P == {"idle", "reading", "working", "refused"}
               K == Kinds \cup {"none"}
    <3>1. serving \in [phase : P, kind : K, body : Data]
      BY TypesOfLine
    <3> HIDE DEF P, K
    <3>2. /\ serving' \in [phase : P, kind : K, body : Data]
          /\ serving'.phase = serving.phase /\ serving'.body = more
      BY <2>1, <2>5, <3>1
    <3> QED
      BY <3>2 DEF P, K
  <2>8. BeingRead(s)'
    BY <1>3, <1>5, <1>8, <2>4, <2>5, <2>6, <2>7 DEF BeingRead, e
  <2> QED
    BY <1>1, <1>2, <1>3, <1>5, <1>6, <2>7, <2>8, SavedStill, TypesOfLine, ClientStillInv
<1> QED
  BY <1>2, <1>4, <1>7, <1>8

(* The end of the upload is read when all of it was, and then the client    *)
(* has no more to send: a photo is at its end, and so is a recording, whose *)
(* microphone is frozen.                                                    *)
LEMMA ReadEndInv ==
    ASSUME MediaInv, ClientStill, up # <<>>, up' = Tail(up), ReadEnd
    PROVE  MediaInv'
<1>1. tx.phase \in {"streaming", "end", "receiving"}
  BY OnTheLine
<1>2. PICK s \in Nat :
          /\ s \in 0..Size /\ Flows(s)
          /\ HeaderOnTheWay(s) \/ BeingRead(s) \/ Refused \/ Done
  BY OnTheLine
<1>3. /\ up \in Seq(Frames) /\ Head(up).type = "end" /\ down' = down
      /\ \/ /\ serving.phase = "reading"
            /\ serving' = [serving EXCEPT !.phase = "working"]
            /\ saved' = serving.body
         \/ /\ serving.phase # "reading" /\ serving' = NotServing /\ saved' = saved
  BY TypesOfLine DEF ReadEnd
<1>4. ~HeaderOnTheWay(s) /\ ~Done
  BY <1>3 DEF HeaderOnTheWay, Done
<1>5. up' \in Seq(Frames) /\ Whole' = Whole /\ tx' = tx
  BY <1>3, WholeStill DEF ClientStill
<1>6. CASE Refused
  <2>1. serving' = NotServing /\ saved' = saved
    BY <1>3, <1>6 DEF Refused
  <2>2. /\ serving' \in [phase : {"idle", "reading", "working", "refused"},
                         kind : Kinds \cup {"none"}, body : Data]
        /\ serving'.phase = "idle"
    BY <2>1 DEF NotServing, Data
  <2>3. \A k \in 1..Len(up') : up'[k].type # "header"
    BY <1>3, <1>6, NoHeaderLess DEF Refused
  <2>4. Refused'
    BY <1>3, <1>6, <2>1, <2>2, <2>3 DEF Refused
  <2>5. saved' \in Data
    BY <2>1 DEF MediaInv, MediaTypes
  <2> QED
    BY <1>1, <1>2, <1>3, <1>5, <2>1, <2>2, <2>4, <2>5, SavedStill, TypesOfLine,
       ClientStillInv
<1>7. CASE BeingRead(s)
  <2> DEFINE body == serving.body
             from == Len(body)
             e == tx.phase = "receiving"
  <2>1. serving' = [serving EXCEPT !.phase = "working"] /\ saved' = body
    BY <1>3, <1>7 DEF BeingRead
  <2>2. body \in Data /\ from \in Nat /\ e \in BOOLEAN
    BY TypesOfLine DEF Data
  <2>3. Runs(body, 0, Whole) /\ Carries(up, from, s, e, Whole) /\ down = <<>>
    BY <1>7 DEF BeingRead
  <2> HIDE DEF from, e
  <2>4. e /\ up' = <<>> /\ from = s
    BY <1>2, <1>3, <2>2, <2>3, CarriesAfterEnd
  <2>5. tx.phase = "receiving" /\ tx.finish /\ tx.output = <<>>
    BY <2>4 DEF e, MediaInv, Finishing
  <2> HIDE DEF body
  <2>6. Kept = <<>> /\ Size > 0
        /\ (tx.kind = "photo" => photo.active /\ ~rec.active /\ Size = PhotoSize)
        /\ (tx.kind # "photo" =>
               rec.active /\ ~photo.active /\ rec.finish /\ Size = mic.total)
    <3>1. CASE tx.kind = "photo"
      <4>1. photo.offset = PhotoSize
        BY <2>5, <3>1 DEF MediaInv, Finishing
      <4>2. photo.active /\ ~rec.active
        BY <2>5, <3>1 DEF MediaInv, Roles
      <4>3. Kept = <<>> /\ Size = PhotoSize
        BY <3>1, <4>1 DEF Kept, Size
      <4> QED
        BY <3>1, <4>2, <4>3, Sizes
    <3>2. CASE tx.kind # "photo"
      <4>1. rec.finish
        BY <2>5, <3>2 DEF MediaInv, Finishing
      <4>2. rec.active /\ ~photo.active
        BY <2>5, <3>2 DEF MediaInv, Roles
      <4>3. buffer = <<>> /\ mic.total > 0
        BY <4>1, <4>2 DEF MediaInv, Recording
      <4>4. Kept = <<>> /\ Size = mic.total
        BY <3>2, <4>3 DEF Kept, Size
      <4> QED
        BY <3>2, <4>1, <4>2, <4>3, <4>4
    <3> QED
      BY <3>1, <3>2
  <2>7. from = Size
    <3>1. s + Len(<<>>) + Len(<<>>) = Size
      BY <1>2, <2>5, <2>6 DEF Flows
    <3>2. Len(<<>>) = 0
      OBVIOUS
    <3>3. s = Size
      BY <1>2, <3>1, <3>2
    <3> QED
      BY <2>4, <3>3
  <2>8. body # <<>>
    <3>1. SUFFICES ASSUME body = <<>> PROVE FALSE
      OBVIOUS
    <3>2. from = Len(<<>>)
      BY <3>1 DEF from
    <3>3. from = 0
      BY <3>2
    <3> QED
      BY <2>6, <2>7, <3>3
  <2>9. Whole => body = Numbered(Size)
    <3>1. SUFFICES ASSUME Whole PROVE body = Numbered(Size)
      OBVIOUS
    <3>2. RunOf(body, 0)
      BY <2>3, <3>1 DEF Runs
    <3>3. Size \in Nat /\ Len(body) = Size
      BY <2>2, <2>7 DEF from
    <3> QED
      BY <2>2, <3>2, <3>3, RunsFromStart
  <2>10. /\ serving' \in [phase : {"idle", "reading", "working", "refused"},
                          kind : Kinds \cup {"none"}, body : Data]
         /\ serving'.phase = "working"
    BY <2>1, TypesOfLine
  <2>11. Done'
    BY <1>3, <1>5, <2>1, <2>3, <2>4, <2>5, <2>8, <2>10 DEF Done
  <2>12. Saved'
    <3>1. UNCHANGED <<mic, buffer, rec, photo, tx>>
      BY DEF ClientStill
    <3>2. photo.active => body = Numbered(PhotoSize)
      <4>1. tx.kind = "photo" => Whole
        BY DEF Whole
      <4> QED
        BY <2>6, <2>9, <4>1
    <3>3. rec.active => rec.finish /\ (~mic.lapped => body = Numbered(mic.total))
      <4>1. ~mic.lapped => Whole
        BY DEF Whole
      <4> QED
        BY <2>6, <2>9, <4>1
    <3> QED
      BY <2>1, <2>5, <3>1, <3>2, <3>3 DEF Saved
  <2> QED
    BY <1>1, <1>2, <1>3, <1>5, <2>1, <2>2, <2>10, <2>11, <2>12, TypesOfLine,
       ClientStillInv
<1> QED
  BY <1>2, <1>4, <1>6, <1>7

LEMMA ReadUploadInv == ASSUME MediaInv, ReadUpload PROVE MediaInv'
<1>1. ClientStill /\ up # <<>> /\ up' = Tail(up)
  BY DEF ReadUpload, ClientStill, clientVars
<1> QED
  BY <1>1, ReadHeaderInv, ReadChunkInv, ReadEndInv DEF ReadUpload

LEMMA AnswerUploadInv == ASSUME MediaInv, AnswerUpload PROVE MediaInv'
<1>1. /\ serving.phase = "working" /\ serving' = NotServing
      /\ UNCHANGED <<up, saved>> /\ ClientStill
  BY DEF AnswerUpload, ClientStill, clientVars
<1>2. PICK ok \in BOOLEAN, reusable \in BOOLEAN :
          down' = Append(down, [ok |-> ok, reusable |-> reusable])
  BY DEF AnswerUpload
<1>3. tx.phase \in {"streaming", "end", "receiving"}
  BY <1>1, OnTheLine
<1>4. PICK s \in Nat :
          /\ s \in 0..Size /\ Flows(s)
          /\ HeaderOnTheWay(s) \/ BeingRead(s) \/ Refused \/ Done
  BY <1>1, OnTheLine
<1>5. Done /\ down = <<>>
  BY <1>1, <1>4 DEF HeaderOnTheWay, BeingRead, Refused, Done
<1> DEFINE answer == [ok |-> ok, reusable |-> reusable]
<1>6. answer \in [ok : BOOLEAN, reusable : BOOLEAN]
  BY <1>2
<1>7. down' = Append(<<>>, answer)
  BY <1>2, <1>5
<1> HIDE DEF answer
<1>8. down' \in Seq([ok : BOOLEAN, reusable : BOOLEAN]) /\ Len(down') = 1
  BY <1>6, <1>7, AppendToNothing
<1>9. /\ serving' \in [phase : {"idle", "reading", "working", "refused"},
                       kind : Kinds \cup {"none"}, body : Data]
      /\ serving'.phase = "idle"
  BY <1>1 DEF NotServing, Data
<1>10. Done'
  BY <1>1, <1>5, <1>8, <1>9 DEF Done, ClientStill
<1>11. saved' \in Data /\ up' \in Seq(Frames)
  BY <1>1 DEF MediaInv, MediaTypes
<1> QED
  BY <1>1, <1>3, <1>4, <1>8, <1>9, <1>10, <1>11, SavedStill, ClientStillInv

-----------------------------------------------------------------------------
(* The theorems.                                                            *)

LEMMA MediaInitInv == MediaInit => MediaInv
<1> SUFFICES ASSUME MediaInit PROVE MediaInv
  OBVIOUS
<1>1. <<>> \in Data
  BY DEF Data
<1>2. /\ rec.active = FALSE /\ photo.active = FALSE /\ photo.offset = 0
      /\ tx.phase = "idle" /\ tx.finish = FALSE
      /\ up = <<>> /\ down = <<>> /\ serving.phase = "idle"
  BY DEF MediaInit, NotRecording, NoPhoto, NoTransaction, NotServing
<1>3. MediaTypes
  BY <1>1, BeginFacts, NoTransactionFacts, Sizes
     DEF MediaTypes, MediaInit, NotRecording, NoPhoto, NotServing, NothingSaved
<1>4. Roles /\ Recording /\ Finishing
  BY <1>2 DEF Roles, Recording, Finishing
<1>5. Line
  BY <1>2 DEF Line, Uploading, MediaQuiet
<1>6. Saved
  BY <1>2 DEF Saved
<1> QED
  BY <1>3, <1>4, <1>5, <1>6 DEF MediaInv

LEMMA MediaNextInv == MediaInv /\ [MediaNext]_mediaVars => MediaInv'
<1> SUFFICES ASSUME MediaInv, [MediaNext]_mediaVars PROVE MediaInv'
  OBVIOUS
<1>1. CASE UNCHANGED mediaVars
  BY <1>1, NothingMoves DEF mediaVars, clientVars, lineVars
<1>2. CASE MediaNext
  BY <1>2, PumpInv, BeginRecordingInv, HearingInv, ReleaseInv, RecordingFrameInv,
     LeaveInv, ReturnInv, BeginPhotoInv, PhotoFrameInv, AbortPhotoInv, ReadUploadInv,
     AnswerUploadInv, OrphanEndsInv DEF MediaNext
<1> QED
  BY <1>1, <1>2

(* Every variable keeps its type.                                           *)
THEOREM MediaTyped == MediaSpec => []MediaTypes
<1>1. MediaInv => MediaTypes
  BY DEF MediaInv
<1> QED
  BY <1>1, MediaInitInv, MediaNextInv, PTL DEF MediaSpec

(* What the microphone was made to record when all of it was read: as much  *)
(* as it may hold, or all that was spoken.                                  *)
LEMMA AllWasRead ==
    ASSUME MediaInv, rec.active, rec.finish, ~mic.lapped
    PROVE  mic.total = IF mic.full THEN PcmCapacity ELSE mic.written
<1>1. /\ mic \in Microphones /\ Hears(mic) /\ Readable(mic, BufferSize) = 0
  BY DEF MediaInv, MediaTypes, Recording
<1>2. CASE mic.full
  BY <1>1, <1>2 DEF Hears
<1>3. CASE ~mic.full
  <2>1. Available(mic) = mic.written - mic.total
    BY <1>1, <1>3, AvailableFacts
  <2>2. Readable(mic, BufferSize) \in
            {BufferSize, PcmCapacity - mic.total, Available(mic)}
    BY <1>1, <1>3, Sizes, ReadableFacts
  <2>3. mic.total \in Nat /\ mic.written \in Nat
    BY <1>1 DEF Microphones
  <2>4. mic.total # PcmCapacity
    BY <1>1, <1>3 DEF Hears
  <2>5. BufferSize # 0 /\ PcmCapacity - mic.total # 0
    BY <2>3, <2>4, Sizes
  <2>6. mic.written - mic.total = 0
    BY <1>1, <2>1, <2>2, <2>5
  <2> QED
    BY <1>3, <2>3, <2>6
<1> QED
  BY <1>2, <1>3

(* What the bridge saves of an upload is all of it, once and in order: the  *)
(* photo that was accepted, or every block spoken until R was let go or the *)
(* longest recording was reached, unless the ring was overwritten unread,   *)
(* for any size of the ring, of the buffer, of a photo and of a recording   *)
(* (pump_audio(), drain_microphone_samples(), savePcmRequestAsWav()).       *)
THEOREM UploadsAreWhole == MediaSpec => []UploadIsWhole
<1>1. MediaInv => UploadIsWhole
  <2> SUFFICES ASSUME MediaInv PROVE UploadIsWhole
    OBVIOUS
  <2>1. photo.active /\ saved # <<>> => saved = Numbered(PhotoSize)
    BY DEF MediaInv, Saved
  <2>2. ASSUME rec.active, saved # <<>>, ~mic.lapped
        PROVE  saved = Numbered(IF mic.full THEN PcmCapacity ELSE mic.written)
    <3>1. rec.finish /\ saved = Numbered(mic.total)
      BY <2>2 DEF MediaInv, Saved
    <3>2. mic.total = IF mic.full THEN PcmCapacity ELSE mic.written
      BY <2>2, <3>1, AllWasRead
    <3> QED
      BY <3>1, <3>2
  <2> QED
    BY <2>1, <2>2 DEF UploadIsWhole, NothingSaved
<1> QED
  BY <1>1, MediaInitInv, MediaNextInv, PTL DEF MediaSpec

(* The client takes for the answer to an upload what answers that upload:   *)
(* when it tells the user that the audio or the photo was accepted, the     *)
(* bridge has saved it (pump_audio(), network_poll_audio()).                *)
THEOREM AcceptedWasSaved == MediaSpec => []AcceptedIsSaved
<1>1. MediaInv => AcceptedIsSaved
  BY DEF MediaInv, Saved, AcceptedIsSaved, NothingSaved
<1> QED
  BY <1>1, MediaInitInv, MediaNextInv, PTL DEF MediaSpec
==============================================================================
