---------------------------- MODULE AgentViewProofs ----------------------------
(***************************************************************************)
(* Proofs about the agent screen, for any tasks, approvals and transcripts *)
(* and logs of any length: what it shows is what the log says, what it     *)
(* sends belongs to the open task, and what it approves was read, or was   *)
(* behind the screen of a photo or the keyboard when it would have been.   *)
(***************************************************************************)
EXTENDS AgentView, CommonLemmas, SequenceTheorems

States == {"idle", "working", "waiting_for_user"}

Events ==
    [type : {"approval.requested"}, of : Approvals]
        \cup [type : {"session.updated"}, of : States]
        \cup [type : {"capture.transcript.delta"}, of : Transcripts]
        \cup [type : {"turn.started", "turn.interrupted", "turn.completed",
                      "approval.resolved", "capture.accepted",
                      "capture.transcribed", "capture.photo.ready",
                      "capture.attached"},
              of : {None}]

Agents ==
    {Idle, Working} \cup [state : {"waiting_for_user"}, approval : Approvals]

Shows == {"none", "new", "behind", "unread", "read"}

Views ==
    [turn : BOOLEAN, approval : Approvals \cup {None}, armed : BOOLEAN,
     transcript : Transcripts \cup {None}, ready : BOOLEAN, photo : BOOLEAN,
     shown : Shows]

Commands ==
    [type : {"text", "interrupt"}, of : Transcripts \cup {None},
     task : Sessions, done : BOOLEAN]
        \cup [type : {"approval"},
              of : [approval : Approvals, choice : {"approve_once", "decline"},
                    shown : Shows],
              task : Sessions, done : BOOLEAN]

Recordings == {NoRecording} \cup [task : Sessions, open : BOOLEAN]

Typed ==
    /\ current \in Sessions /\ view \in Views
    /\ recording \in Recordings /\ upload \in Recordings
    /\ pending \in {None} \cup Commands
    /\ log \in [Sessions -> Seq(Events)]
    /\ agent \in [Sessions -> Agents]

-----------------------------------------------------------------------------
(* The last event of some types among the first n, and what one more event  *)
(* makes of it.                                                             *)
Positions(l, n, types) == {i \in 1..n : l[i].type \in types}

LastIn(l, at) ==
    IF at = {} THEN Event("none") ELSE l[CHOOSE i \in at : \A j \in at : j <= i]

LEMMA LastOfIs ==
    ASSUME NEW l, NEW n, NEW types
    PROVE  LastOf(l, n, types) = LastIn(l, Positions(l, n, types))
BY DEF LastOf, LastIn, Positions

LEMMA GreatestPosition ==
    ASSUME NEW n \in Nat, NEW at \in SUBSET (1..n), at # {}
    PROVE  \E i \in at : \A j \in at : j <= i
<1> DEFINE S == {k \in 0..n : n - k \in at}
<1>1. S \in SUBSET Nat
  OBVIOUS
<1>2. PICK a \in at : TRUE
  OBVIOUS
<1>3. n - a \in S
  BY <1>2
<1>4. PICK m \in S : \A k \in S : m <= k
  BY <1>1, <1>3, LeastNumber
<1>5. ASSUME NEW j \in at
      PROVE  j <= n - m
  <2>1. n - j \in S
    OBVIOUS
  <2>2. m <= n - j /\ m \in 0..n
    BY <1>4, <2>1
  <2> QED
    BY <2>2
<1> QED
  BY <1>4, <1>5

LEMMA LastOfNothing ==
    ASSUME NEW l, NEW types
    PROVE  LastOf(l, 0, types) = Event("none")
BY DEF LastOf

LEMMA LastOfPrefix ==
    ASSUME NEW l, NEW m, NEW n \in Nat, NEW types, \A i \in 1..n : m[i] = l[i]
    PROVE  LastOf(m, n, types) = LastOf(l, n, types)
<1> DEFINE at == Positions(l, n, types)
<1>1. Positions(m, n, types) = at
  BY DEF Positions
<1>2. at \in SUBSET (1..n)
  BY DEF Positions
<1>3. LastIn(m, at) = LastIn(l, at)
  <2> HIDE DEF at
  <2>1. CASE at = {}
    BY <2>1 DEF LastIn
  <2>2. CASE at # {}
    <3> DEFINE top == CHOOSE i \in at : \A j \in at : j <= i
    <3>1. top \in at
      BY <1>2, <2>2, GreatestPosition
    <3>2. LastIn(m, at) = m[top] /\ LastIn(l, at) = l[top]
      BY <2>2 DEF LastIn
    <3> HIDE DEF top
    <3> QED
      BY <1>2, <3>1, <3>2
  <2> QED
    BY <2>1, <2>2
<1> QED
  BY <1>1, <1>3, LastOfIs

LEMMA LastOfNext ==
    ASSUME NEW l, NEW n \in Nat, NEW types
    PROVE  LastOf(l, n + 1, types) =
              IF l[n + 1].type \in types THEN l[n + 1] ELSE LastOf(l, n, types)
<1>1. CASE l[n + 1].type \in types
  <2> DEFINE at == Positions(l, n + 1, types)
             top == CHOOSE i \in at : \A j \in at : j <= i
  <2>1. n + 1 \in at /\ \A j \in at : j \in Nat /\ j <= n + 1
    BY <1>1 DEF Positions
  <2>2. LastIn(l, at) = l[top]
    BY <2>1 DEF LastIn
  <2>3. top = n + 1
    <3> HIDE DEF at
    <3>1. top \in at /\ \A j \in at : j <= top
      BY <2>1
    <3> HIDE DEF top
    <3> QED
      BY <2>1, <3>1
  <2> QED
    BY <1>1, <2>2, <2>3, LastOfIs
<1>2. CASE l[n + 1].type \notin types
  <2>1. Positions(l, n + 1, types) = Positions(l, n, types)
    BY <1>2 DEF Positions
  <2> QED
    BY <1>2, <2>1, LastOfIs
<1> QED
  BY <1>1, <1>2

ApprovalTypes == {"approval.requested", "approval.resolved"}

TurnTypes ==
    {"turn.started", "turn.interrupted", "turn.completed", "approval.requested",
     "session.updated"}

PendingNext(p, e) ==
    IF e.type = "approval.requested" THEN e.of
    ELSE IF e.type = "approval.resolved" THEN None ELSE p

TurnNext(t, e) ==
    IF e.type \in TurnTypes
    THEN e.type \in {"turn.started", "approval.requested"}
         \/ (e.type = "session.updated" /\ e.of # "idle")
    ELSE t

LEMMA AfterNone ==
    ASSUME NEW l
    PROVE  PendingAfter(l, 0) = None /\ TurnAfter(l, 0) = FALSE
BY LastOfNothing DEF PendingAfter, TurnAfter, Event

LEMMA AfterNext ==
    ASSUME NEW l, NEW n \in Nat
    PROVE  /\ PendingAfter(l, n + 1) = PendingNext(PendingAfter(l, n), l[n + 1])
           /\ TurnAfter(l, n + 1) = TurnNext(TurnAfter(l, n), l[n + 1])
<1>1. LastOf(l, n + 1, ApprovalTypes) =
         IF l[n + 1].type \in ApprovalTypes THEN l[n + 1]
         ELSE LastOf(l, n, ApprovalTypes)
  BY LastOfNext
<1>2. LastOf(l, n + 1, TurnTypes) =
         IF l[n + 1].type \in TurnTypes THEN l[n + 1] ELSE LastOf(l, n, TurnTypes)
  BY LastOfNext
<1>3. PendingAfter(l, n + 1) = PendingNext(PendingAfter(l, n), l[n + 1])
  BY <1>1 DEF PendingAfter, PendingNext, ApprovalTypes
<1>4. TurnAfter(l, n + 1) = TurnNext(TurnAfter(l, n), l[n + 1])
  BY <1>2 DEF TurnAfter, TurnNext, TurnTypes
<1> QED
  BY <1>3, <1>4

LEMMA AfterPrefix ==
    ASSUME NEW l, NEW m, NEW n \in Nat, \A i \in 1..n : m[i] = l[i]
    PROVE  PendingAfter(m, n) = PendingAfter(l, n) /\ TurnAfter(m, n) = TurnAfter(l, n)
<1>1. LastOf(m, n, ApprovalTypes) = LastOf(l, n, ApprovalTypes)
  BY LastOfPrefix
<1>2. LastOf(m, n, TurnTypes) = LastOf(l, n, TurnTypes)
  BY LastOfPrefix
<1> QED
  BY <1>1, <1>2 DEF PendingAfter, TurnAfter, ApprovalTypes, TurnTypes

-----------------------------------------------------------------------------
Extends(m, l) ==
    Len(l) <= Len(m) /\ \A i \in 1..Len(l) : m[i] = l[i]

Photographed(l) == \E i \in 1..Len(l) : l[i].type = "capture.photo.ready"

(* An approval that A would give is as old as it must be.                   *)
Timed(v) == v.armed /\ v.approval # None => v.shown \in {"read", "unread"}

(* A view that shows a task as it was after the first n events of its log.  *)
(* Stronger than the invariant where a text may become a transcript later.  *)
Shown(v, l, n) ==
    /\ v.turn = TurnAfter(l, n)
    /\ v.approval = PendingAfter(l, n)
    /\ v.ready \/ v.transcript # None => \E i \in 1..n :
          l[i] = EventOf("capture.transcript.delta", v.transcript)
    /\ v.photo => Photographed(l)

LEMMA ShownPrefix ==
    ASSUME NEW v, NEW l, NEW m, Len(l) \in Nat, Len(m) \in Nat, Extends(m, l),
           NEW n \in 0..Len(l), Shown(v, l, n)
    PROVE  Shown(v, m, n)
<1>0. /\ n \in Nat /\ \A i \in 1..n : m[i] = l[i]
      /\ Photographed(l) => Photographed(m)
  BY DEF Extends, Photographed
<1>1. PendingAfter(m, n) = PendingAfter(l, n) /\ TurnAfter(m, n) = TurnAfter(l, n)
  BY <1>0, AfterPrefix
<1> QED
  BY <1>0, <1>1 DEF Shown

LEMMA BlankShown ==
    ASSUME NEW l
    PROVE  Blank \in Views /\ Shown(Blank, l, 0) /\ Timed(Blank)
<1>1. /\ Blank \in Views /\ Blank.turn = FALSE /\ Blank.approval = None
      /\ Blank.transcript = None /\ Blank.ready = FALSE /\ Blank.photo = FALSE
  BY DEF Blank, Views, Shows
<1> QED
  BY <1>1, AfterNone DEF Shown, Timed

(* An event of the task: what is shown before it and what is shown after.   *)
(* Nothing makes an approval answerable but the one that was.               *)
LEMMA HandleShown ==
    ASSUME NEW v \in Views, NEW l \in Seq(Events), NEW n \in Nat, n < Len(l),
           Shown(v, l, n), Timed(v),
           l[n + 1] = EventOf("session.updated", "idle") =>
              PendingAfter(l, n + 1) = None
    PROVE  LET w == Handle(v, l[n + 1])
           IN  w \in Views /\ Shown(w, l, n + 1) /\ Timed(w)
<1> DEFINE e == l[n + 1]
           w == Handle(v, e)
<1>1. e \in Events
  OBVIOUS
<1>2. /\ PendingAfter(l, n + 1) = PendingNext(PendingAfter(l, n), e)
      /\ TurnAfter(l, n + 1) = TurnNext(TurnAfter(l, n), e)
  BY AfterNext
<1>3. l[n + 1] = e /\ n + 1 \in 1..n + 1 /\ \A i \in 1..n : i \in 1..n + 1
  OBVIOUS
<1> HIDE DEF e
<1>4. /\ v.turn \in BOOLEAN /\ v.approval \in Approvals \cup {None}
      /\ v.armed \in BOOLEAN /\ v.transcript \in Transcripts \cup {None}
      /\ v.ready \in BOOLEAN /\ v.photo \in BOOLEAN /\ v.shown \in Shows
  BY DEF Views
<1> DEFINE r == Resolved(v)
<1>r. /\ r \in Views /\ r.turn = v.turn /\ r.approval = None
      /\ r.transcript = v.transcript /\ r.ready = v.ready /\ r.photo = v.photo
  BY <1>4 DEF Resolved, Views, Shows
<1>p. \E i \in 1..Len(l) : i = n + 1
  OBVIOUS
<1>5. CASE e.type = "session.updated"
  <2> DEFINE u == IF e.of = "idle" THEN r ELSE v
             t == e.of # "idle"
  <2>1. e.of \in States /\ t \in BOOLEAN
    BY <1>1, <1>5 DEF Events
  <2>2. w = [u EXCEPT !.turn = t]
    BY <1>5 DEF Handle
  <2>3. /\ u \in Views /\ u.approval = (IF e.of = "idle" THEN None ELSE v.approval)
        /\ u.transcript = v.transcript /\ u.ready = v.ready /\ u.photo = v.photo
        /\ Timed(u)
    BY <1>r DEF Timed
  <2>4. t = TurnAfter(l, n + 1)
    BY <1>2, <1>5 DEF TurnNext, TurnTypes
  <2>5. e.of = "idle" => e = EventOf("session.updated", "idle")
    BY <1>1, <1>5 DEF Events, EventOf
  <2> HIDE DEF u, t, r
  <2>6. /\ w \in Views /\ w.turn = t /\ w.armed = u.armed /\ w.ready = u.ready
        /\ w.approval = u.approval /\ w.transcript = u.transcript
        /\ w.photo = u.photo /\ w.shown = u.shown
    BY <2>1, <2>2, <2>3 DEF Views
  <2> HIDE DEF w
  <2>7. w.approval = PendingAfter(l, n + 1)
    BY <1>2, <1>3, <1>5, <2>3, <2>5, <2>6 DEF PendingNext, Shown
  <2>8. Shown(w, l, n + 1)
    BY <1>3, <2>3, <2>4, <2>6, <2>7 DEF Shown
  <2>9. Timed(w)
    BY <2>3, <2>6 DEF Timed
  <2> QED
    BY <2>6, <2>8, <2>9 DEF w, e
<1>6. CASE e.type \in {"turn.started", "turn.interrupted", "turn.completed"}
  <2> DEFINE t == e.type = "turn.started"
  <2>1. w = [v EXCEPT !.turn = t]
    BY <1>6 DEF Handle
  <2>2. t \in BOOLEAN
    OBVIOUS
  <2> HIDE DEF t
  <2>3. w \in Views
    BY <2>1, <2>2 DEF Views
  <2>4. /\ w.turn = t /\ w.armed = v.armed /\ w.ready = v.ready
        /\ w.approval = v.approval /\ w.transcript = v.transcript
        /\ w.photo = v.photo /\ w.shown = v.shown
    BY <2>1 DEF Views
  <2> HIDE DEF w
  <2>5. w.turn = TurnAfter(l, n + 1)
    BY <1>2, <1>6, <2>4 DEF TurnNext, TurnTypes, t
  <2>6. w.approval = PendingAfter(l, n + 1)
    BY <1>2, <1>6, <2>4 DEF PendingNext, Shown
  <2>7. Shown(w, l, n + 1)
    BY <1>3, <2>4, <2>5, <2>6 DEF Shown
  <2>8. Timed(w)
    BY <2>4 DEF Timed
  <2> QED
    BY <2>3, <2>7, <2>8 DEF w, e
<1>7. CASE e.type = "approval.requested"
  <2>1. e.of \in Approvals
    BY <1>1, <1>7 DEF Events
  <2>2. /\ w = [v EXCEPT !.approval = e.of, !.armed = FALSE, !.turn = TRUE,
                         !.shown = Arrived]
        /\ Arrived \in Shows
    BY <1>7 DEF Handle, Arrive, Arrived, Shows
  <2>3. w \in Views
    BY <2>1, <2>2 DEF Views
  <2>4. /\ w.turn = TRUE /\ w.armed = FALSE /\ w.ready = v.ready
        /\ w.approval = e.of /\ w.transcript = v.transcript /\ w.photo = v.photo
    BY <2>2 DEF Views
  <2> HIDE DEF w
  <2>5. w.turn = TurnAfter(l, n + 1)
    BY <1>2, <1>7, <2>4 DEF TurnNext, TurnTypes
  <2>6. w.approval = PendingAfter(l, n + 1)
    BY <1>2, <1>7, <2>4 DEF PendingNext
  <2>7. Shown(w, l, n + 1)
    BY <1>3, <2>4, <2>5, <2>6 DEF Shown
  <2>8. Timed(w)
    BY <2>4 DEF Timed
  <2> QED
    BY <2>3, <2>7, <2>8 DEF w, e
<1>8. CASE e.type = "approval.resolved"
  <2>1. w = r
    BY <1>8 DEF Handle
  <2> HIDE DEF w, r
  <2>2. Shown(w, l, n + 1)
    BY <1>2, <1>3, <1>8, <1>r, <2>1 DEF Shown, TurnNext, TurnTypes, PendingNext
  <2> QED
    BY <1>r, <2>1, <2>2 DEF w, e, Timed
<1> DEFINE Kept(u) == /\ u.turn = v.turn /\ u.armed = v.armed
                      /\ u.approval = v.approval /\ u.shown = v.shown
<1>9. ASSUME e.type \notin TurnTypes \cup ApprovalTypes, w \in Views, Kept(w),
             w.ready \/ w.transcript # None => \E i \in 1..n + 1 :
                l[i] = EventOf("capture.transcript.delta", w.transcript),
             w.photo => Photographed(l)
      PROVE  w \in Views /\ Shown(w, l, n + 1) /\ Timed(w)
  <2>1. PendingAfter(l, n + 1) = PendingAfter(l, n)
    BY <1>2, <1>9 DEF PendingNext, ApprovalTypes
  <2>2. TurnAfter(l, n + 1) = TurnAfter(l, n)
    BY <1>2, <1>9 DEF TurnNext
  <2> QED
    BY <1>9, <2>1, <2>2 DEF Shown, Timed
<1>10. CASE e.type = "capture.accepted"
  <2>1. w = [v EXCEPT !.transcript = None, !.ready = FALSE]
    BY <1>10 DEF Handle
  <2>2. w \in Views /\ Kept(w)
    BY <2>1 DEF Views
  <2>3. w.transcript = None /\ w.ready = FALSE /\ w.photo = v.photo
    BY <2>1 DEF Views
  <2> HIDE DEF w, Kept
  <2>4. w.photo => Photographed(l)
    BY <1>3, <2>3 DEF Shown
  <2> QED
    BY <1>9, <1>10, <2>2, <2>3, <2>4 DEF w, e, TurnTypes, ApprovalTypes
<1>11. CASE e.type = "capture.transcript.delta"
  <2>1. w = [v EXCEPT !.transcript = e.of]
    BY <1>11 DEF Handle
  <2>2. /\ e.of \in Transcripts
        /\ e = EventOf("capture.transcript.delta", e.of)
    BY <1>1, <1>11 DEF Events, EventOf
  <2>3. w \in Views /\ Kept(w)
    BY <2>1, <2>2 DEF Views
  <2>4. w.transcript = e.of /\ w.photo = v.photo
    BY <2>1 DEF Views
  <2> HIDE DEF w, Kept
  <2>5. w.photo => Photographed(l)
    BY <1>3, <2>4 DEF Shown
  <2>6. l[n + 1] = EventOf("capture.transcript.delta", w.transcript)
    BY <1>3, <2>2, <2>4
  <2> QED
    BY <1>3, <1>9, <1>11, <2>3, <2>5, <2>6 DEF w, e, TurnTypes, ApprovalTypes
<1>12. CASE e.type = "capture.transcribed"
  <2> DEFINE has == v.transcript # None
  <2>1. w = [v EXCEPT !.ready = has]
    BY <1>12 DEF Handle
  <2> HIDE DEF has
  <2>2. w \in Views /\ Kept(w)
    BY <2>1 DEF Views, has
  <2>3. w.ready = has /\ w.transcript = v.transcript /\ w.photo = v.photo
    BY <2>1 DEF Views
  <2> HIDE DEF w, Kept
  <2>4. /\ w.photo => Photographed(l)
        /\ w.ready \/ w.transcript # None => \E i \in 1..n + 1 :
              l[i] = EventOf("capture.transcript.delta", w.transcript)
    BY <1>3, <2>3 DEF Shown, has
  <2> QED
    BY <1>9, <1>12, <2>2, <2>4 DEF w, e, TurnTypes, ApprovalTypes
<1>13. CASE e.type \in {"capture.photo.ready", "capture.attached"}
  <2> DEFINE p == e.type = "capture.photo.ready"
  <2>1. w = [v EXCEPT !.photo = p]
    BY <1>13 DEF Handle
  <2> HIDE DEF p
  <2>2. w \in Views /\ Kept(w)
    BY <2>1 DEF Views, p
  <2>3. w.ready = v.ready /\ w.transcript = v.transcript /\ w.photo = p
    BY <2>1 DEF Views
  <2> HIDE DEF w, Kept
  <2>4. /\ w.photo => Photographed(l)
        /\ w.ready \/ w.transcript # None => \E i \in 1..n + 1 :
              l[i] = EventOf("capture.transcript.delta", w.transcript)
    BY <1>3, <1>13, <1>p, <2>3 DEF Shown, p, e, Photographed
  <2> QED
    BY <1>9, <1>13, <2>2, <2>4 DEF w, e, TurnTypes, ApprovalTypes
<1> QED
  BY <1>1, <1>5, <1>6, <1>7, <1>8, <1>10, <1>11, <1>12, <1>13 DEF Events

-----------------------------------------------------------------------------
(* A log tells what its agent is doing, which is what a snapshot says.      *)
Told(a, l) ==
    /\ TurnAfter(l, Len(l)) = (a.state # "idle")
    /\ PendingAfter(l, Len(l)) = a.approval

(* A task that is said to be idle has no approval left from before. *)
IdleTold(l) ==
    \A i \in 1..Len(l) :
        l[i] = EventOf("session.updated", "idle") => PendingAfter(l, i) = None

LogsTell == \A s \in Sessions : Told(agent[s], log[s]) /\ IdleTold(log[s])

BridgeStep ==
    /\ log' \in [Sessions -> Seq(Events)] /\ agent' \in [Sessions -> Agents]
    /\ LogsTell'
    /\ \A s \in Sessions : Extends(log'[s], log[s])

LEMMA OneMoreEvent ==
    ASSUME NEW l \in Seq(Events), NEW e \in Events, NEW a, NEW b,
           Told(a, l), IdleTold(l),
           TurnNext(a.state # "idle", e) = (b.state # "idle"),
           PendingNext(a.approval, e) = b.approval,
           e = EventOf("session.updated", "idle") => b.approval = None
    PROVE  /\ l \o <<e>> \in Seq(Events) /\ Told(b, l \o <<e>>)
           /\ IdleTold(l \o <<e>>)
<1> DEFINE m == l \o <<e>>
           n == Len(l)
<1>1. <<e>> \in Seq(Events) /\ Len(<<e>>) = 1 /\ <<e>>[1] = e
  OBVIOUS
<1>2. /\ n \in Nat /\ m \in Seq(Events) /\ Len(m) = n + 1 /\ m[n + 1] = e
      /\ \A i \in 1..n : m[i] = l[i]
  BY <1>1, ConcatProperties
<1> HIDE DEF m, n
<1>3. PendingAfter(m, n) = PendingAfter(l, n) /\ TurnAfter(m, n) = TurnAfter(l, n)
  BY <1>2, AfterPrefix
<1>4. /\ PendingAfter(m, n + 1) = PendingNext(PendingAfter(m, n), m[n + 1])
      /\ TurnAfter(m, n + 1) = TurnNext(TurnAfter(m, n), m[n + 1])
  BY <1>2, AfterNext
<1>5. Told(b, m)
  BY <1>2, <1>3, <1>4 DEF Told, n
<1>6. ASSUME NEW i \in 1..Len(m), m[i] = EventOf("session.updated", "idle")
      PROVE  PendingAfter(m, i) = None
  <2>1. CASE i = n + 1
    BY <1>2, <1>5, <1>6, <2>1 DEF Told
  <2>2. CASE i \in 1..n
    <3>1. PendingAfter(l, i) = None
      BY <1>2, <1>6, <2>2 DEF IdleTold, n
    <3>2. \A j \in 1..i : m[j] = l[j]
      BY <1>2, <2>2
    <3>3. i \in Nat
      BY <2>2
    <3> QED
      BY <3>1, <3>2, <3>3, AfterPrefix
  <2> QED
    BY <1>2, <2>1, <2>2
<1> QED
  BY <1>2, <1>5, <1>6 DEF IdleTold, m

(* Events that change neither the turn nor the approvals. *)
Aside(e) == e \in Events /\ e.type \notin TurnTypes \cup ApprovalTypes

LEMMA OneMoreAside ==
    ASSUME NEW l \in Seq(Events), NEW e, Aside(e), NEW a, Told(a, l), IdleTold(l)
    PROVE  /\ l \o <<e>> \in Seq(Events) /\ Told(a, l \o <<e>>)
           /\ IdleTold(l \o <<e>>)
<1>1. TurnNext(a.state # "idle", e) = (a.state # "idle")
  BY DEF Aside, TurnNext
<1>2. PendingNext(a.approval, e) = a.approval
  BY DEF Aside, PendingNext, ApprovalTypes
<1>3. e # EventOf("session.updated", "idle")
  BY DEF Aside, EventOf, TurnTypes
<1> QED
  BY <1>1, <1>2, <1>3, OneMoreEvent DEF Aside

LEMMA AddStep ==
    ASSUME Typed, LogsTell, NEW s \in Sessions, NEW events \in Seq(Events),
           Add(s, events), agent' \in [Sessions -> Agents],
           \A o \in Sessions \ {s} : agent'[o] = agent[o],
           Told(agent'[s], log[s] \o events), IdleTold(log[s] \o events)
    PROVE  BridgeStep
<1> DEFINE m == log[s] \o events
<1>1. log \in [Sessions -> Seq(Events)] /\ log[s] \in Seq(Events)
  BY DEF Typed
<1>2. m \in Seq(Events) /\ Extends(m, log[s])
  <2>1. /\ m \in Seq(Events) /\ Len(m) = Len(log[s]) + Len(events)
        /\ \A i \in 1..Len(log[s]) + Len(events) :
              m[i] = IF i <= Len(log[s]) THEN log[s][i] ELSE events[i - Len(log[s])]
    BY <1>1, ConcatProperties
  <2>2. Len(log[s]) \in Nat /\ Len(events) \in Nat
    BY <1>1
  <2> HIDE DEF m
  <2> QED
    BY <2>1, <2>2 DEF Extends
<1>3. log' = [log EXCEPT ![s] = m]
  BY DEF Add
<1> HIDE DEF m
<1>4. /\ log' \in [Sessions -> Seq(Events)] /\ log'[s] = m
      /\ \A o \in Sessions \ {s} : log'[o] = log[o]
  BY <1>1, <1>2, <1>3
<1>5. \A o \in Sessions : Extends(log'[o], log[o])
  <2>1. ASSUME NEW o \in Sessions \ {s}
        PROVE  Extends(log'[o], log[o])
    <3>1. log[o] \in Seq(Events) /\ Len(log[o]) \in Nat
      BY <1>1
    <3> QED
      BY <1>4, <3>1 DEF Extends
  <2> QED
    BY <1>2, <1>4, <2>1
<1>6. LogsTell'
  <2>1. Told(agent'[s], m) /\ IdleTold(m)
    BY DEF m
  <2> QED
    BY <1>4, <2>1 DEF LogsTell
<1> QED
  BY <1>4, <1>5, <1>6 DEF BridgeStep

LEMMA QuietStep ==
    ASSUME Typed, LogsTell, UNCHANGED <<log, agent>>
    PROVE  BridgeStep
<1>1. \A s \in Sessions : Len(log[s]) \in Nat
  BY DEF Typed
<1> QED
  BY <1>1 DEF Typed, LogsTell, BridgeStep, Extends

(* A sequence is added at once or with its last element by itself. *)
LEMMA LastByItself ==
    ASSUME NEW S, NEW l \in Seq(S), NEW t \in Seq(S), NEW u \in Seq(S),
           NEW z \in S, Len(u) = Len(t) + 1, \A i \in 1..Len(t) : u[i] = t[i],
           u[Len(t) + 1] = z
    PROVE  l \o u = (l \o t) \o <<z>>
<1> DEFINE w == <<z>>  lu == l \o u  lt == l \o t  ltw == lt \o w
<1>1. w \in Seq(S) /\ Len(w) = 1 /\ w[1] = z
  OBVIOUS
<1>2. Len(l) \in Nat /\ Len(t) \in Nat /\ Len(u) \in Nat
  OBVIOUS
<1> HIDE DEF w
<1>3. /\ lu \in Seq(S) /\ Len(lu) = Len(l) + Len(u)
      /\ \A i \in 1..Len(l) + Len(u) :
            lu[i] = IF i <= Len(l) THEN l[i] ELSE u[i - Len(l)]
  BY ConcatProperties
<1>4. /\ lt \in Seq(S) /\ Len(lt) = Len(l) + Len(t)
      /\ \A i \in 1..Len(l) + Len(t) :
            lt[i] = IF i <= Len(l) THEN l[i] ELSE t[i - Len(l)]
  BY ConcatProperties
<1> HIDE DEF lu, lt
<1>5. /\ ltw \in Seq(S) /\ Len(ltw) = Len(lt) + 1
      /\ \A i \in 1..Len(lt) + 1 :
            ltw[i] = IF i <= Len(lt) THEN lt[i] ELSE w[i - Len(lt)]
  <2>1. /\ ltw \in Seq(S) /\ Len(ltw) = Len(lt) + Len(w)
        /\ \A i \in 1..Len(lt) + Len(w) :
              ltw[i] = IF i <= Len(lt) THEN lt[i] ELSE w[i - Len(lt)]
    <3>1. lt \in Seq(S) /\ w \in Seq(S)
      BY <1>1, <1>4
    <3> QED
      BY <3>1, ConcatProperties
  <2> HIDE DEF ltw
  <2> QED
    BY <1>1, <2>1
<1> HIDE DEF ltw
<1>6. Len(lu) = Len(ltw)
  BY <1>2, <1>3, <1>4, <1>5
<1>7. ASSUME NEW i \in 1..Len(lu)
      PROVE  lu[i] = ltw[i]
  <2>0. i \in Nat /\ i >= 1 /\ i <= Len(l) + Len(t) + 1
    BY <1>2, <1>3
  <2>1. CASE i <= Len(l)
    <3>1. lu[i] = l[i]
      BY <1>2, <1>3, <2>0, <2>1
    <3>2. lt[i] = l[i]
      BY <1>2, <1>4, <2>0, <2>1
    <3>3. ltw[i] = lt[i]
      BY <1>2, <1>4, <1>5, <2>0, <2>1
    <3> QED
      BY <3>1, <3>2, <3>3
  <2>2. CASE i > Len(l) /\ i <= Len(l) + Len(t)
    <3>1. i - Len(l) \in 1..Len(t)
      BY <1>2, <2>2
    <3>2. lu[i] = u[i - Len(l)] /\ ltw[i] = t[i - Len(l)]
      BY <1>2, <1>3, <1>4, <1>5, <1>6, <2>2
    <3> QED
      BY <3>1, <3>2
  <2>3. CASE i = Len(l) + Len(t) + 1
    <3>1. i - Len(l) = Len(t) + 1 /\ i - Len(lt) = 1
      BY <1>2, <1>4, <2>3
    <3>2. lu[i] = u[i - Len(l)] /\ ltw[i] = w[i - Len(lt)]
      BY <1>2, <1>3, <1>4, <1>5, <2>3
    <3> QED
      BY <1>1, <3>1, <3>2
  <2> QED
    BY <1>2, <2>0, <2>1, <2>2, <2>3
<1>8. lu = ltw
  BY <1>3, <1>5, <1>6, <1>7, SeqEqual
<1> QED
  BY <1>8 DEF lu, lt, ltw, w

(* The two ways to add one event: with a new state of the agent, without.   *)
LEMMA AddEventStep ==
    ASSUME Typed, LogsTell, NEW s \in Sessions, NEW e \in Events,
           Add(s, <<e>>), NEW b \in Agents,
           agent' = [agent EXCEPT ![s] = b],
           TurnNext(agent[s].state # "idle", e) = (b.state # "idle"),
           PendingNext(agent[s].approval, e) = b.approval,
           e = EventOf("session.updated", "idle") => b.approval = None
    PROVE  BridgeStep
<1>1. /\ log[s] \in Seq(Events) /\ Told(agent[s], log[s]) /\ IdleTold(log[s])
      /\ <<e>> \in Seq(Events)
  BY DEF Typed, LogsTell
<1>2. Told(b, log[s] \o <<e>>) /\ IdleTold(log[s] \o <<e>>)
  BY <1>1, OneMoreEvent
<1>3. /\ agent' \in [Sessions -> Agents] /\ agent'[s] = b
      /\ \A o \in Sessions \ {s} : agent'[o] = agent[o]
  BY DEF Typed
<1> QED
  BY <1>1, <1>2, <1>3, AddStep

LEMMA AddAsideStep ==
    ASSUME Typed, LogsTell, NEW s \in Sessions, NEW e, Aside(e), Add(s, <<e>>),
           UNCHANGED agent
    PROVE  BridgeStep
<1>1. /\ log[s] \in Seq(Events) /\ Told(agent[s], log[s]) /\ IdleTold(log[s])
      /\ <<e>> \in Seq(Events) /\ agent \in [Sessions -> Agents]
  BY DEF Typed, LogsTell, Aside
<1>2. Told(agent[s], log[s] \o <<e>>) /\ IdleTold(log[s] \o <<e>>)
  BY <1>1, OneMoreAside
<1> QED
  BY <1>1, <1>2, AddStep

-----------------------------------------------------------------------------
(* What the client's invariant is, and what its steps do to the screen.     *)
Screen == cursor \in 0..Len(log[current]) /\ Shown(view, log[current], cursor)

(* An upload that was written to its end is on its way, or in the log.      *)
Stored == screen = "sent" => current \in photos \/ Photographed(log[current])

Inv ==
    /\ Typed /\ LogsTell /\ Screen /\ Timed(view) /\ Stored
    /\ NothingFollowsTheUser /\ ApprovalsAreReadFirst

StaysOnTask ==
    /\ UNCHANGED <<current, cursor>>
    /\ view' \in Views /\ Timed(view')
    /\ view'.turn = view.turn /\ view'.approval = view.approval
    /\ view'.photo => view.photo \/ Photographed(log[current])
    /\ \/ view'.transcript = view.transcript /\ view'.ready = view.ready
       \/ view'.transcript = None /\ view'.ready = FALSE

MovesToTask == current' \in Sessions /\ cursor' = 0 /\ view' = Blank

(* Most steps neither send a photo nor leave the task it was sent to.       *)
PhotoKept == screen' # "sent" \/ UNCHANGED <<current, screen, photos>>

LEMMA ScreenKept ==
    ASSUME Inv, BridgeStep, StaysOnTask \/ MovesToTask
    PROVE  current' \in Sessions /\ view' \in Views /\ Screen' /\ Timed(view')
<1>1. /\ current \in Sessions /\ log[current] \in Seq(Events)
      /\ Len(log[current]) \in Nat /\ cursor \in 0..Len(log[current])
      /\ Shown(view, log[current], cursor)
  BY DEF Inv, Typed, Screen
<1>2. \A s \in Sessions : Len(log'[s]) \in Nat
  BY DEF BridgeStep
<1>3. CASE StaysOnTask
  <2>1. Extends(log'[current], log[current])
    BY <1>1 DEF BridgeStep
  <2>2. cursor \in 0..Len(log'[current])
    BY <1>1, <1>2, <2>1 DEF Extends
  <2>3. Shown(view', log[current], cursor)
    BY <1>1, <1>3 DEF Shown, StaysOnTask
  <2>4. Shown(view', log'[current], cursor)
    BY <1>1, <1>2, <2>1, <2>3, ShownPrefix
  <2> QED
    BY <1>1, <1>3, <2>2, <2>4 DEF StaysOnTask, Screen
<1>4. CASE MovesToTask
  <2>1. Blank \in Views /\ Shown(Blank, log'[current'], 0) /\ Timed(Blank)
    BY BlankShown
  <2>2. current' \in Sessions /\ cursor' = 0 /\ view' = Blank
    BY <1>4 DEF MovesToTask
  <2>3. 0 \in 0..Len(log'[current'])
    BY <1>2, <2>2
  <2> QED
    BY <2>1, <2>2, <2>3 DEF Screen
<1> QED
  BY <1>3, <1>4

LEMMA StoredKept ==
    ASSUME Inv, BridgeStep, PhotoKept
    PROVE  Stored'
<1> SUFFICES ASSUME screen' = "sent"
             PROVE  current' \in photos' \/ Photographed(log'[current'])
  BY DEF Stored
<1>1. UNCHANGED <<current, screen, photos>>
  BY DEF PhotoKept
<1>2. current \in photos \/ Photographed(log[current])
  BY <1>1 DEF Inv, Stored
<1>3. Extends(log'[current], log[current]) /\ Len(log[current]) \in Nat
      /\ Len(log'[current]) \in Nat
  BY DEF BridgeStep, Inv, Typed
<1>4. Photographed(log[current]) => Photographed(log'[current])
  BY <1>3 DEF Extends, Photographed
<1> QED
  BY <1>1, <1>2, <1>4

(* What a step has to show of the commands and of the recording.            *)
OrdersKept ==
    /\ pending' \in {None} \cup Commands
    /\ recording' \in Recordings /\ upload' \in Recordings
    /\ NothingFollowsTheUser' /\ ApprovalsAreReadFirst'

LEMMA StepKept ==
    ASSUME Inv, BridgeStep, StaysOnTask \/ MovesToTask, OrdersKept,
           PhotoKept \/ Stored'
    PROVE  Inv'
<1>1. /\ current' \in Sessions /\ view' \in Views /\ Screen' /\ Timed(view')
      /\ Stored'
  BY ScreenKept, StoredKept
<1> QED
  BY <1>1 DEF Inv, Typed, OrdersKept, BridgeStep

LEMMA SendKept ==
    ASSUME Inv, NEW link \in {None, pending}, NEW type, NEW of,
           Send(link, type, of), UNCHANGED <<current, recording, upload>>,
           [type |-> type, of |-> of, task |-> current, done |-> FALSE] \in Commands,
           type = "approval" /\ of.choice = "approve_once" =>
              of.shown \in {"read", "unread"}
    PROVE  OrdersKept
<1> DEFINE c == [type |-> type, of |-> of, task |-> current, done |-> FALSE]
<1>1. pending' = c \/ pending' = pending
  BY DEF Send
<1>2. c.task = current /\ c.type = type /\ c.of = of /\ c \in Commands
  OBVIOUS
<1> HIDE DEF c
<1>3. CASE pending' = c
  BY <1>2, <1>3
     DEF Inv, Typed, OrdersKept, NothingFollowsTheUser, ApprovalsAreReadFirst,
         Recording
<1>4. CASE pending' = pending
  BY <1>4
     DEF Inv, Typed, OrdersKept, NothingFollowsTheUser, ApprovalsAreReadFirst,
         Recording
<1> QED
  BY <1>1, <1>3, <1>4

(* The link forgets its command, or keeps it; the task stays.               *)
LEMMA ForgetKept ==
    ASSUME Inv, pending' \in {None, pending},
           UNCHANGED <<current, recording, upload>>
    PROVE  OrdersKept
BY DEF Inv, Typed, OrdersKept, NothingFollowsTheUser, ApprovalsAreReadFirst,
       Recording

LEMMA TextKept ==
    ASSUME Inv, NEW link \in {None, pending}, NEW text \in Transcripts \cup {None},
           SubmitText(link, text), UNCHANGED <<current, cursor, recording, upload>>
    PROVE  OrdersKept /\ StaysOnTask
<1>1. /\ current \in Sessions /\ view \in Views
  BY DEF Inv, Typed
<1>2. [type |-> "text", of |-> text, task |-> current, done |-> FALSE] \in Commands
  BY <1>1 DEF Commands
<1>3. OrdersKept
  BY <1>2, SendKept DEF SubmitText
<1>4. view' = [view EXCEPT !.transcript = None, !.ready = FALSE]
  BY DEF SubmitText
<1>5. view' \in Views
  BY <1>1, <1>4 DEF Views
<1>6. /\ view'.turn = view.turn /\ view'.approval = view.approval
      /\ view'.armed = view.armed /\ view'.photo = view.photo
      /\ view'.shown = view.shown
      /\ view'.transcript = None /\ view'.ready = FALSE
  BY <1>1, <1>4 DEF Views
<1> QED
  BY <1>3, <1>5, <1>6 DEF StaysOnTask, Timed, Inv

LEMMA RespondKept ==
    ASSUME Inv, NEW choice \in {"approve_once", "decline"},
           RespondToApproval(choice), view.approval # None,
           choice = "approve_once" => view.armed,
           UNCHANGED <<current, recording, upload>>
    PROVE  OrdersKept
<1> DEFINE of == [approval |-> view.approval, choice |-> choice,
                  shown |-> view.shown]
<1>1. view.approval \in Approvals /\ current \in Sessions /\ view.shown \in Shows
  BY DEF Inv, Typed, Views
<1>2. /\ of \in [approval : Approvals, choice : {"approve_once", "decline"},
                 shown : Shows]
      /\ of.choice = choice /\ of.shown = view.shown
  BY <1>1
<1>3. choice = "approve_once" => view.shown \in {"read", "unread"}
  BY DEF Inv, Timed
<1>4. Send(pending, "approval", of)
  BY DEF RespondToApproval
<1> HIDE DEF of
<1>5. [type |-> "approval", of |-> of, task |-> current, done |-> FALSE] \in Commands
  BY <1>1, <1>2 DEF Commands
<1> QED
  BY <1>2, <1>3, <1>4, <1>5, SendKept

(* To open a task drops the command; nobody does it while a recording runs. *)
LEMMA OpenKept ==
    ASSUME Inv, NEW targets \in SUBSET Sessions, OpenTask(targets), ~Recording,
           screen' = "main", UNCHANGED <<recording, agent, upload>>
    PROVE  Inv'
<1>0. PhotoKept
  BY DEF PhotoKept
<1>1. pending' = None
  BY DEF OpenTask, Attach
<1>2. OrdersKept
  BY <1>1
     DEF Inv, Typed, OrdersKept, NothingFollowsTheUser, ApprovalsAreReadFirst,
         Recording
<1>3. CASE UNCHANGED <<current, cursor, view, log>>
  <2>1. BridgeStep
    BY <1>3, QuietStep DEF Inv
  <2>2. StaysOnTask
    BY <1>3 DEF StaysOnTask, Inv, Typed
  <2> QED
    BY <1>0, <1>2, <2>1, <2>2, StepKept
<1>4. ASSUME NEW s \in targets, Attach(s),
             Add(s, <<EventOf("session.updated", agent[s].state)>>)
      PROVE  Inv'
  <2> DEFINE e == EventOf("session.updated", agent[s].state)
  <2>1. MovesToTask
    BY <1>4 DEF Attach, MovesToTask
  <2>2. agent[s] \in Agents /\ s \in Sessions
    BY DEF Inv, Typed
  <2>3. agent[s].state \in States /\ (agent[s].state = "idle" => agent[s].approval = None)
    BY <2>2 DEF Agents, Idle, Working, States
  <2>4. /\ e \in Events /\ e.type = "session.updated" /\ e.of = agent[s].state
        /\ e = EventOf("session.updated", "idle") => agent[s].state = "idle"
    BY <2>3 DEF Events, EventOf
  <2>5. Add(s, <<e>>)
    BY <1>4
  <2> HIDE DEF e
  <2>6. TurnNext(agent[s].state # "idle", e) = (agent[s].state # "idle")
    BY <2>4 DEF TurnNext, TurnTypes
  <2>7. PendingNext(agent[s].approval, e) = agent[s].approval
    BY <2>4 DEF PendingNext
  <2>8. BridgeStep
    <3>1. agent' = [agent EXCEPT ![s] = agent[s]]
      BY DEF Inv, Typed
    <3> QED
      BY <2>2, <2>3, <2>4, <2>5, <2>6, <2>7, <3>1, AddEventStep DEF Inv
  <2> QED
    BY <1>0, <1>2, <2>1, <2>8, StepKept
<1> QED
  BY <1>3, <1>4 DEF OpenTask

(* Every key, and every target of the stylus that stands for one.           *)
LEMMA PressKept ==
    ASSUME Inv, NEW key, Press(key), ~Recording, screen = "main",
           UNCHANGED <<recording, agent, upload>>
    PROVE  Inv'
<1>0. PhotoKept
  BY DEF PhotoKept, Press, PressL
<1>1. current \in Sessions /\ view \in Views /\ Timed(view)
  BY DEF Inv, Typed
<1>2. ASSUME UNCHANGED <<current, cursor, log, view>>, OrdersKept
      PROVE  Inv'
  <2>1. BridgeStep /\ StaysOnTask
    BY <1>1, <1>2, QuietStep DEF Inv, StaysOnTask
  <2> QED
    BY <1>0, <1>2, <2>1, StepKept
<1>3. ASSUME UNCHANGED <<current, cursor, log, view>>, pending' \in {None, pending}
      PROVE  Inv'
  BY <1>2, <1>3, ForgetKept
<1>4. ASSUME UNCHANGED <<current, cursor, log>>, NEW link \in {None, pending},
             NEW text \in Transcripts \cup {None}, SubmitText(link, text)
      PROVE  Inv'
  <2>1. BridgeStep
    BY <1>4, QuietStep DEF Inv
  <2> QED
    BY <1>0, <1>4, <2>1, TextKept, StepKept
<1>5. CASE PressA
  <2>1. CASE view.approval # None
    <3>1. CASE view.armed
      <4>1. RespondToApproval("approve_once") /\ UNCHANGED <<current, cursor, log, view>>
        BY <1>5, <2>1, <3>1 DEF PressA, Stay
      <4> QED
        BY <1>2, <2>1, <3>1, <4>1, RespondKept
    <3>2. CASE ~view.armed
      BY <1>3, <1>5, <2>1, <3>2 DEF PressA, Stay
    <3> QED
      BY <3>1, <3>2
  <2>2. CASE view.approval = None /\ view.ready
    <3>1. view.transcript \in Transcripts \cup {None}
      BY <1>1 DEF Views
    <3>2. SubmitText(pending, view.transcript) /\ UNCHANGED <<current, cursor, log>>
      BY <1>5, <2>2 DEF PressA, Stay
    <3> QED
      BY <1>4, <3>1, <3>2
  <2>3. CASE view.approval = None /\ ~view.ready
    <3>1. TypePrompt /\ UNCHANGED <<current, cursor, log>>
      BY <1>5, <2>3 DEF PressA, Stay
    <3> QED
      BY <1>3, <1>4, <3>1 DEF TypePrompt
  <2> QED
    BY <2>1, <2>2, <2>3
<1>6. CASE PressY
  <2> DEFINE shown == IF view.shown = "new" THEN "behind" ELSE view.shown
  <2>1. /\ view' = [view EXCEPT !.shown = shown] /\ pending' = None
        /\ UNCHANGED <<current, cursor, log>>
    BY <1>6 DEF PressY, Stay
  <2>2. /\ shown \in Shows
        /\ view.shown \in {"read", "unread"} => shown = view.shown
    BY <1>1 DEF Views, Shows
  <2> HIDE DEF shown
  <2>3. /\ view' \in Views /\ view'.turn = view.turn
        /\ view'.approval = view.approval /\ view'.armed = view.armed
        /\ view'.photo = view.photo /\ view'.transcript = view.transcript
        /\ view'.ready = view.ready /\ view'.shown = shown
    BY <1>1, <2>1, <2>2 DEF Views
  <2>4. StaysOnTask
    BY <1>1, <2>1, <2>2, <2>3 DEF StaysOnTask, Timed
  <2>5. BridgeStep /\ OrdersKept
    BY <2>1, QuietStep, ForgetKept DEF Inv
  <2> QED
    BY <1>0, <2>4, <2>5, StepKept
<1>7. CASE PressX /\ UNCHANGED screen
  <2>1. CASE Interrupt /\ UNCHANGED <<current, cursor, log, view>>
    <3>1. [type |-> "interrupt", of |-> None, task |-> current, done |-> FALSE]
             \in Commands
      BY <1>1 DEF Commands
    <3> QED
      BY <1>2, <2>1, <3>1, SendKept DEF Interrupt
  <2>2. CASE OpenTask(New)
    BY <1>7, <2>2, OpenKept DEF New
  <2> QED
    BY <1>7, <2>1, <2>2 DEF PressX, Stay
<1>8. CASE PressB /\ UNCHANGED screen
  <2>1. CASE view.ready
    <3>1. /\ view' = [view EXCEPT !.ready = FALSE, !.transcript = None]
          /\ UNCHANGED <<current, cursor, log, pending>>
      BY <1>8, <2>1 DEF PressB, Stay
    <3>2. view' \in Views
      BY <1>1, <3>1 DEF Views
    <3>3. /\ view'.turn = view.turn /\ view'.approval = view.approval
          /\ view'.armed = view.armed /\ view'.photo = view.photo
          /\ view'.shown = view.shown
          /\ view'.transcript = None /\ view'.ready = FALSE
      BY <1>1, <3>1 DEF Views
    <3>4. StaysOnTask
      BY <1>1, <3>1, <3>2, <3>3 DEF StaysOnTask, Timed
    <3>5. BridgeStep /\ OrdersKept
      BY <3>1, QuietStep, ForgetKept DEF Inv
    <3> QED
      BY <1>0, <3>4, <3>5, StepKept
  <2>2. CASE ~view.ready /\ view.approval # None
    <3>1. RespondToApproval("decline") /\ UNCHANGED <<current, cursor, log, view>>
      BY <1>8, <2>2 DEF PressB, Stay
    <3> QED
      BY <1>2, <2>2, <3>1, RespondKept
  <2>3. CASE ~view.ready /\ view.approval = None
    BY <1>8, <2>3, OpenKept DEF PressB
  <2> QED
    BY <2>1, <2>2, <2>3
<1>9. CASE PressSides /\ UNCHANGED screen
  BY <1>9, OpenKept DEF PressSides
<1>10. CASE PressL
  BY <1>3, <1>10 DEF PressL, Stay
<1> QED
  BY <1>5, <1>6, <1>7, <1>8, <1>9, <1>10 DEF Press

(* A contact may begin a recording; a lift fires nothing while one runs,    *)
(* since everything is the talk panel then.                                 *)
LEMMA BeginKept ==
    ASSUME Inv, UNCHANGED <<current, cursor, screen, view, pending, bridgeVars>>,
           Begin \/ UNCHANGED recording
    PROVE  Inv'
<1>1. BridgeStep /\ StaysOnTask
  BY QuietStep DEF Inv, Typed, StaysOnTask, bridgeVars
<1>2. recording' \in Recordings /\ (recording' # NoRecording => recording'.task = current)
  <2>1. CASE Begin
    <3>1. recording'.task = current
      BY <2>1 DEF Begin
    <3>2. recording' \in [task : Sessions, open : BOOLEAN]
      BY <2>1 DEF Begin, Inv, Typed
    <3> QED
      BY <3>1, <3>2 DEF Recordings
  <2>2. CASE UNCHANGED recording
    BY <2>2 DEF Inv, Typed, NothingFollowsTheUser, Recording
  <2> QED
    BY <2>1, <2>2
<1>3. OrdersKept
  BY <1>2 DEF Inv, Typed, OrdersKept, NothingFollowsTheUser, ApprovalsAreReadFirst,
              Recording, bridgeVars
<1>4. PhotoKept
  BY DEF PhotoKept, bridgeVars
<1> QED
  BY <1>1, <1>3, <1>4, StepKept

LEMMA LiftKept ==
    ASSUME Inv, Lift
    PROVE  Inv'
<1>1. PICK p \in Points :
         LET hit == HitTest(view, p)
         IN  \/ /\ hit # stylus.armed \/ hit.kind \in {"none", "talk"}
                /\ Stay /\ UNCHANGED <<screen, view, kind, pending>>
             \/ hit = stylus.armed /\ Fires(hit)
  BY DEF Lift
<1> DEFINE hit == HitTest(view, p)
<1>2. UNCHANGED <<recording, agent, held, photos, upload, unused>>
  BY DEF Lift
<1>3. ASSUME UNCHANGED <<current, cursor, view, pending, log>>, PhotoKept
      PROVE  Inv'
  <2>1. BridgeStep /\ StaysOnTask /\ OrdersKept
    BY <1>2, <1>3, QuietStep, ForgetKept DEF Inv, Typed, StaysOnTask
  <2> QED
    BY <1>2, <1>3, <2>1, StepKept
<1>4. \/ UNCHANGED <<current, cursor, view, pending, log>> /\ PhotoKept
      \/ screen = "main" /\ Fires(hit)
  <2>1. CASE Stay /\ UNCHANGED <<screen, view, kind, pending>>
    BY <1>2, <2>1 DEF Stay, PhotoKept
  <2>2. CASE screen # "main" /\ Fires(hit)
    <3> HIDE DEF hit
    <3>1. Stay /\ UNCHANGED <<view, kind, pending>> /\ Review(hit.kind)
      BY <2>2 DEF Fires
    <3>2. screen' # "sent"
      BY <3>1 DEF Review
    <3> QED
      BY <3>1, <3>2 DEF Stay, PhotoKept
  <2> QED
    BY <1>1, <2>1, <2>2
<1>5. CASE screen = "main" /\ Fires(hit) /\ Recording
  <2>1. hit.kind = "talk"
    BY <1>5 DEF HitTest, Hit
  <2> HIDE DEF hit
  <2> QED
    BY <1>5, <2>1 DEF Fires
<1>6. CASE screen = "main" /\ Fires(hit) /\ ~Recording
  <2>1. hit.kind = "task" => hit.task \in Sessions
    <3>1. p.area = "rail" => p.at \in Sessions
      BY DEF Points
    <3>2. hit = HitTestWhileRecording(view, p)
      BY <1>6 DEF HitTest
    <3>3. \A q \in {1, 3, 5, 7} : /\ (q * 2) \div 8 \in 0..1 /\ (q * 3) \div 8 \in 0..2
                                 /\ (q * 4) \div 8 \in 0..3
      OBVIOUS
    <3>4. CASE p.area = "panel"
      BY <3>2, <3>4 DEF HitTestWhileRecording, Hit, NoHit
    <3>5. CASE p.area = "manager"
      BY <3>2, <3>5 DEF HitTestWhileRecording, Hit
    <3>6. CASE p.area = "rail"
      BY <3>1, <3>2, <3>6 DEF HitTestWhileRecording
    <3>7. CASE p.area = "bar"
      <4> DEFINE k == Actions(view)[1 + ((p.at * Len(Actions(view))) \div 8)]
      <4>1. hit = Hit(k)
        BY <3>2, <3>7 DEF HitTestWhileRecording
      <4>2. p.at \in {1, 3, 5, 7}
        BY <3>7 DEF Points
      <4>3. k \in {"A", "B", "X", "Y", "L", "tasks"}
        <5> DEFINE q == p.at  acts == Actions(view)
                   row == 1 + ((q * Len(acts)) \div 8)
        <5>1. CASE acts = <<"A", "B">> \/ acts = <<"X", "tasks">>
          <6>1. Len(acts) = 2 /\ q \in {1, 3, 5, 7}
            BY <4>2, <5>1
          <6>2. row \in 1..2
            BY <3>3, <6>1
          <6> HIDE DEF acts, row
          <6> QED
            BY <5>1, <6>2 DEF acts, row
        <5>2. CASE acts = <<"A", "Y", "B">>
          <6>1. Len(acts) = 3 /\ q \in {1, 3, 5, 7}
            BY <4>2, <5>2
          <6>2. row \in 1..3
            BY <3>3, <6>1
          <6> QED
            BY <5>2, <6>2
        <5>3. CASE acts = <<"A", "L", "X", "tasks">>
          <6>1. Len(acts) = 4 /\ q \in {1, 3, 5, 7}
            BY <4>2, <5>3
          <6>2. row \in 1..4
            BY <3>3, <6>1
          <6> QED
            BY <5>3, <6>2
        <5> QED
          BY <5>1, <5>2, <5>3 DEF Actions
      <4> HIDE DEF k, hit
      <4> QED
        BY <4>1, <4>3 DEF Hit
    <3> QED
      BY <3>4, <3>5, <3>6, <3>7 DEF Points
  <2> HIDE DEF hit
  <2>2. \/ Press(hit.kind)
        \/ UNCHANGED screen /\ OpenTask(Sessions)
        \/ UNCHANGED screen /\ hit.kind = "task" /\ OpenTask({hit.task} \ {current})
    BY <1>6 DEF Fires
  <2> QED
    BY <1>2, <1>6, <2>1, <2>2, PressKept, OpenKept
<1> QED
  BY <1>3, <1>4, <1>5, <1>6

(* What the bridge and its agents do is seen on the screen only later.      *)
LEMMA RemoteKept ==
    ASSUME Inv, BridgeStep, UNCHANGED <<current, cursor, view, recording>>,
           PhotoKept \/ Stored', upload' \in Recordings, pending' \in {None, pending}
    PROVE  Inv'
<1>1. StaysOnTask
  BY DEF Inv, Typed, StaysOnTask
<1>2. OrdersKept
  BY DEF Inv, Typed, OrdersKept, NothingFollowsTheUser, ApprovalsAreReadFirst,
         Recording
<1> QED
  BY <1>1, <1>2, StepKept

LEMMA AgentTyped ==
    ASSUME NEW a \in Agents
    PROVE  /\ a.approval \in Approvals \cup {None} /\ a.state \in States
           /\ a.state = "idle" <=> a = Idle
           /\ a.approval \in Approvals <=> a.state = "waiting_for_user"
           /\ a.state = "idle" => a.approval = None
           /\ Idle \in Agents /\ Idle.state = "idle" /\ Idle.approval = None
           /\ Working \in Agents /\ Working.state = "working"
           /\ Working.approval = None
BY AgentViewAssumption DEF Agents, Idle, Working, States

LEMMA AgentTells ==
    ASSUME Inv, NEW s \in Sessions, Agent(s)
    PROVE  BridgeStep
<1>1. agent \in [Sessions -> Agents] /\ agent[s] \in Agents
  BY DEF Inv, Typed
<1>3. CASE \E a \in Approvals :
             /\ agent[s] = Working
             /\ agent' = [agent EXCEPT ![s] = [state |-> "waiting_for_user",
                                               approval |-> a]]
             /\ Add(s, <<EventOf("approval.requested", a)>>)
  <2>1. PICK a \in Approvals :
           /\ agent' = [agent EXCEPT ![s] = [state |-> "waiting_for_user",
                                             approval |-> a]]
           /\ Add(s, <<EventOf("approval.requested", a)>>)
    BY <1>3
  <2> DEFINE b == [state |-> "waiting_for_user", approval |-> a]
             e == EventOf("approval.requested", a)
  <2>2. b \in Agents /\ b.state = "waiting_for_user" /\ b.approval = a
    BY DEF Agents
  <2>3. e \in Events /\ e.type = "approval.requested" /\ e.of = a
    BY DEF Events, EventOf
  <2>4. agent' = [agent EXCEPT ![s] = b] /\ Add(s, <<e>>)
    BY <2>1
  <2> HIDE DEF b, e
  <2>5. agent'[s] = b
    BY <1>1, <2>4
  <2>6. /\ TurnNext(agent[s].state # "idle", e) = (b.state # "idle")
        /\ PendingNext(agent[s].approval, e) = b.approval
        /\ e # EventOf("session.updated", "idle")
    BY <2>2, <2>3 DEF TurnNext, TurnTypes, PendingNext, EventOf
  <2> QED
    BY <2>2, <2>3, <2>4, <2>5, <2>6, AddEventStep DEF Inv
<1>4. CASE /\ agent[s].approval # None
           /\ agent' = [agent EXCEPT ![s] = Working]
           /\ Add(s, <<Event("approval.resolved")>>)
  <2> DEFINE e == Event("approval.resolved")
  <2>1. e \in Events /\ e.type = "approval.resolved"
    BY DEF Events, Event
  <2>2. Add(s, <<e>>)
    BY <1>4
  <2> HIDE DEF e
  <2>3. agent'[s] = Working /\ agent[s].state # "idle"
    BY <1>1, <1>4, AgentTyped
  <2>4. /\ TurnNext(agent[s].state # "idle", e) = (Working.state # "idle")
        /\ PendingNext(agent[s].approval, e) = Working.approval
        /\ e # EventOf("session.updated", "idle") /\ Working \in Agents
    BY <1>1, <2>1, <2>3, AgentTyped DEF TurnNext, TurnTypes, PendingNext, EventOf
  <2> QED
    BY <1>4, <2>1, <2>2, <2>3, <2>4, AddEventStep DEF Inv
<1>5. CASE /\ agent[s] = Working
           /\ agent' = [agent EXCEPT ![s] = Idle]
           /\ Add(s, <<Event("turn.completed")>>)
  <2> DEFINE e == Event("turn.completed")
  <2>1. e \in Events /\ e.type = "turn.completed"
    BY DEF Events, Event
  <2>2. Add(s, <<e>>)
    BY <1>5
  <2> HIDE DEF e
  <2>3. agent'[s] = Idle
    BY <1>1, <1>5
  <2>4. /\ TurnNext(agent[s].state # "idle", e) = (Idle.state # "idle")
        /\ PendingNext(agent[s].approval, e) = Idle.approval
        /\ e # EventOf("session.updated", "idle") /\ Idle \in Agents
    BY <1>1, <1>5, <2>1, AgentTyped DEF TurnNext, TurnTypes, PendingNext, EventOf
  <2> QED
    BY <1>5, <2>1, <2>2, <2>3, <2>4, AddEventStep DEF Inv
<1> QED
  <2>1. \/ \E a \in Approvals :
              /\ agent[s] = Working
              /\ agent' = [agent EXCEPT ![s] = [state |-> "waiting_for_user",
                                                approval |-> a]]
              /\ Add(s, <<EventOf("approval.requested", a)>>)
        \/ /\ agent[s].approval # None
           /\ agent' = [agent EXCEPT ![s] = Working]
           /\ Add(s, <<Event("approval.resolved")>>)
        \/ /\ agent[s] = Working
           /\ agent' = [agent EXCEPT ![s] = Idle]
           /\ Add(s, <<Event("turn.completed")>>)
    BY DEF Agent
  <2> QED
    BY <2>1, <1>3, <1>4, <1>5

LEMMA AgentKept ==
    ASSUME Inv, NEW s \in Sessions, Agent(s)
    PROVE  Inv'
<1>1. UNCHANGED <<clientVars, photos, upload>>
  BY DEF Agent
<1>2. PhotoKept
  BY <1>1 DEF PhotoKept, clientVars
<1> QED
  BY <1>1, <1>2, AgentTells, RemoteKept DEF clientVars, Inv, Typed

LEMMA ThreeMoreAsides ==
    ASSUME NEW l \in Seq(Events), NEW a, Told(a, l), IdleTold(l),
           NEW e, Aside(e), NEW f, Aside(f), NEW g, Aside(g)
    PROVE  /\ <<e, f, g>> \in Seq(Events)
           /\ Told(a, l \o <<e, f, g>>) /\ IdleTold(l \o <<e, f, g>>)
<1> DEFINE e1 == <<e>>
           ef == <<e, f>>
           efg == <<e, f, g>>
           l1 == l \o e1
           l2 == l1 \o <<f>>
           l3 == l2 \o <<g>>
<1>1. e \in Events /\ f \in Events /\ g \in Events
  BY DEF Aside
<1>2. /\ e1 \in Seq(Events) /\ Len(e1) = 1 /\ e1[1] = e
      /\ ef \in Seq(Events) /\ Len(ef) = 2 /\ ef[1] = e /\ ef[2] = f
      /\ efg \in Seq(Events) /\ Len(efg) = 3
      /\ efg[1] = e /\ efg[2] = f /\ efg[3] = g
  BY <1>1
<1> HIDE DEF e1, ef, efg
<1>3. l2 = l \o ef
  <2>1. /\ Len(ef) = Len(e1) + 1 /\ ef[Len(e1) + 1] = f
        /\ \A i \in 1..Len(e1) : ef[i] = e1[i]
    BY <1>2
  <2>2. l \o ef = (l \o e1) \o <<f>>
    <3>1. ef \in Seq(Events) /\ e1 \in Seq(Events) /\ f \in Events
      BY <1>1, <1>2
    <3> QED
      BY <2>1, <3>1, LastByItself
  <2> QED
    BY <2>2
<1>4. l3 = l \o efg
  <2>1. /\ Len(efg) = Len(ef) + 1 /\ efg[Len(ef) + 1] = g
        /\ \A i \in 1..Len(ef) : efg[i] = ef[i]
    BY <1>2
  <2>2. l \o efg = (l \o ef) \o <<g>>
    BY <1>1, <1>2, <2>1, LastByItself
  <2> QED
    BY <1>3, <2>2
<1>5. l1 \in Seq(Events) /\ Told(a, l1) /\ IdleTold(l1)
  BY OneMoreAside DEF e1
<1> HIDE DEF l1
<1>6. l2 \in Seq(Events) /\ Told(a, l2) /\ IdleTold(l2)
  BY <1>5, OneMoreAside
<1> HIDE DEF l2
<1>7. l3 \in Seq(Events) /\ Told(a, l3) /\ IdleTold(l3)
  BY <1>6, OneMoreAside
<1> HIDE DEF l3
<1> QED
  BY <1>2, <1>4, <1>7 DEF efg

LEMMA TranscribeKept ==
    ASSUME Inv, Transcribe
    PROVE  Inv'
<1> DEFINE s == upload.task
<1>1. s \in Sessions /\ log[s] \in Seq(Events)
  BY DEF Transcribe, Inv, Typed, Recordings
<1>2. PICK t \in Transcripts :
         Add(s, <<Event("capture.accepted"),
                  EventOf("capture.transcript.delta", t),
                  Event("capture.transcribed")>>)
  BY DEF Transcribe
<1>3. UNCHANGED <<clientVars, agent, photos>> /\ upload' = NoRecording
  BY DEF Transcribe
<1> DEFINE e == Event("capture.accepted")
           f == EventOf("capture.transcript.delta", t)
           g == Event("capture.transcribed")
<1>4. Aside(e) /\ Aside(f) /\ Aside(g)
  BY DEF Aside, Event, EventOf, Events, TurnTypes, ApprovalTypes
<1>5. Add(s, <<e, f, g>>)
  BY <1>2
<1> HIDE DEF s, e, f, g
<1>6. Told(agent[s], log[s]) /\ IdleTold(log[s])
  BY <1>1 DEF Inv, LogsTell
<1>9. /\ Told(agent[s], log[s] \o <<e, f, g>>) /\ IdleTold(log[s] \o <<e, f, g>>)
      /\ <<e, f, g>> \in Seq(Events)
  BY <1>1, <1>4, <1>6, ThreeMoreAsides
<1>12. BridgeStep
  BY <1>1, <1>3, <1>5, <1>9, AddStep DEF Inv, Typed
<1>13. PhotoKept
  BY <1>3 DEF PhotoKept, clientVars
<1> QED
  BY <1>3, <1>12, <1>13, RemoteKept DEF clientVars, Recordings

(* A photo that has come is in the log of its task from then on.            *)
LEMMA StorePhotoKept ==
    ASSUME Inv, NEW s \in Sessions, StorePhoto(s)
    PROVE  Inv'
<1> DEFINE e == Event("capture.photo.ready")
<1>1. /\ Aside(e) /\ e \in Events /\ e.type = "capture.photo.ready"
      /\ Add(s, <<e>>)
  BY DEF StorePhoto, Aside, Event, Events, TurnTypes, ApprovalTypes
<1>2. UNCHANGED <<clientVars, agent, upload>> /\ photos' = photos \ {s}
  BY DEF StorePhoto
<1> HIDE DEF e
<1>3. BridgeStep
  BY <1>1, <1>2, AddAsideStep DEF Inv
<1>4. Photographed(log'[s])
  <2> DEFINE m == log[s] \o <<e>>
  <2>1. log \in [Sessions -> Seq(Events)] /\ log[s] \in Seq(Events)
    BY DEF Inv, Typed
  <2>2. <<e>> \in Seq(Events) /\ Len(<<e>>) = 1 /\ <<e>>[1] = e
    BY <1>1
  <2>3. Len(m) = Len(log[s]) + 1 /\ m[Len(log[s]) + 1] = e /\ Len(log[s]) \in Nat
    BY <2>1, <2>2, ConcatProperties
  <2>4. log'[s] = m
    BY <1>1, <2>1 DEF Add
  <2> HIDE DEF m
  <2>5. Len(log[s]) + 1 \in 1..Len(m)
    BY <2>3
  <2> QED
    BY <1>1, <2>3, <2>4, <2>5 DEF Photographed
<1>5. Stored'
  <2>1. CASE current = s
    BY <1>2, <1>4, <2>1 DEF Stored, clientVars
  <2>2. CASE current # s /\ screen' = "sent"
    <3>1. current \in photos \/ Photographed(log[current])
      BY <1>2, <2>2 DEF Inv, Stored, clientVars
    <3>2. log'[current] = log[current]
      BY <1>1, <2>2 DEF Add, Inv, Typed
    <3> QED
      BY <1>2, <2>2, <3>1, <3>2 DEF Stored, clientVars
  <2> QED
    BY <2>1, <2>2 DEF Stored
<1> QED
  BY <1>2, <1>3, <1>5, RemoteKept DEF clientVars, Inv, Typed

(* The screens of a photo, which leave the task as it is.                   *)
LEMMA PhotoScreenKept ==
    ASSUME Inv, ReviewKey \/ SendPhoto \/ LeaveUpload
    PROVE  Inv'
<1>1. /\ UNCHANGED <<current, cursor, recording, pending, log, agent, upload>>
      /\ view \in Views /\ Timed(view)
  BY DEF ReviewKey, SendPhoto, LeaveUpload, bridgeVars, Inv, Typed
<1>2. BridgeStep /\ OrdersKept
  BY <1>1, QuietStep, ForgetKept DEF Inv
<1>3. PhotoKept \/ Stored'
  <2>1. CASE SendPhoto
    BY <1>1, <2>1 DEF SendPhoto, Stored
  <2>2. CASE ReviewKey \/ LeaveUpload
    BY <2>2 DEF ReviewKey, Review, LeaveUpload, PhotoKept
  <2> QED
    BY <2>1, <2>2
<1>4. StaysOnTask
  <2>1. CASE UNCHANGED view
    BY <1>1, <2>1 DEF StaysOnTask
  <2>2. CASE screen = "sent" /\ current \notin photos
             /\ view' = [view EXCEPT !.photo = TRUE]
    <3>1. Photographed(log[current])
      BY <2>2 DEF Inv, Stored
    <3>2. /\ view' \in Views /\ view'.turn = view.turn
          /\ view'.approval = view.approval /\ view'.armed = view.armed
          /\ view'.shown = view.shown /\ view'.transcript = view.transcript
          /\ view'.ready = view.ready
      BY <1>1, <2>2 DEF Views
    <3> QED
      BY <1>1, <3>1, <3>2 DEF StaysOnTask, Timed
  <2> QED
    BY <2>1, <2>2 DEF ReviewKey, SendPhoto, LeaveUpload
<1> QED
  BY <1>2, <1>3, <1>4, StepKept

(* The command of the link, at the task it was sent to.  An approval that   *)
(* the agent no longer waits for is refused by the guard.                   *)
LEMMA ExecuteTells ==
    ASSUME Inv, Execute
    PROVE  BridgeStep
<1>1. pending \in Commands /\ pending.task \in Sessions
  BY DEF Execute, Inv, Typed, Commands
<1> DEFINE s == pending.task
<1>2. /\ s \in Sessions /\ agent \in [Sessions -> Agents] /\ agent[s] \in Agents
      /\ log[s] \in Seq(Events) /\ Told(agent[s], log[s]) /\ IdleTold(log[s])
  BY <1>1 DEF Inv, Typed, LogsTell
<1>3. CASE ExecuteText(s)
  <2> DEFINE e == Event("turn.started")
             f == Event("capture.attached")
  <2>1. /\ e \in Events /\ e.type = "turn.started" /\ Aside(f) /\ f \in Events
        /\ e # EventOf("session.updated", "idle")
    BY DEF Aside, Event, EventOf, Events, TurnTypes, ApprovalTypes
  <2>2. /\ agent[s] = Idle /\ agent' = [agent EXCEPT ![s] = Working]
        /\ Add(s, <<e>> \o (IF held[s] THEN <<f>> ELSE <<>>))
    BY <1>3 DEF ExecuteText
  <2> HIDE DEF s, e, f
  <2>3. /\ TurnNext(agent[s].state # "idle", e) = (Working.state # "idle")
        /\ PendingNext(agent[s].approval, e) = Working.approval
        /\ Working \in Agents
    <3>1. /\ agent[s].approval = None /\ Working.state = "working"
          /\ Working.approval = None /\ Working \in Agents
      BY <1>2, <2>2, AgentTyped
    <3> QED
      BY <2>1, <3>1 DEF TurnNext, TurnTypes, PendingNext
  <2> DEFINE events == <<e>> \o (IF held[s] THEN <<f>> ELSE <<>>)
             l1 == log[s] \o <<e>>
  <2>4. l1 \in Seq(Events) /\ Told(Working, l1) /\ IdleTold(l1)
    BY <1>2, <2>1, <2>3, OneMoreEvent
  <2>5. /\ l1 \o <<f>> \in Seq(Events) /\ Told(Working, l1 \o <<f>>)
        /\ IdleTold(l1 \o <<f>>)
    <3> HIDE DEF l1
    <3> QED
      BY <2>1, <2>4, OneMoreAside
  <2>6. <<e>> \in Seq(Events) /\ <<f>> \in Seq(Events)
    BY <2>1
  <2>7. /\ events \in Seq(Events)
        /\ log[s] \o events \in {l1, l1 \o <<f>>}
    <3>1. CASE held[s]
      <4>1. events = <<e>> \o <<f>>
        BY <3>1
      <4>2. /\ <<e>> \o <<f>> \in Seq(Events)
            /\ log[s] \o (<<e>> \o <<f>>) = (log[s] \o <<e>>) \o <<f>>
        BY <1>2, <2>6, ConcatAssociative, ConcatProperties
      <4> HIDE DEF events
      <4> QED
        BY <4>1, <4>2
    <3>2. CASE ~held[s]
      <4>1. events = <<e>>
        BY <2>6, <3>2, ConcatEmptySeq
      <4> HIDE DEF events
      <4> QED
        BY <2>6, <4>1
    <3> QED
      BY <3>1, <3>2
  <2>8. /\ agent' \in [Sessions -> Agents] /\ agent'[s] = Working
        /\ \A o \in Sessions \ {s} : agent'[o] = agent[o]
    BY <1>2, <2>2, <2>3
  <2>9. Add(s, events)
    BY <2>2
  <2> HIDE DEF events, l1
  <2>10. Told(agent'[s], log[s] \o events) /\ IdleTold(log[s] \o events)
    BY <2>4, <2>5, <2>7, <2>8
  <2> QED
    BY <1>2, <2>7, <2>8, <2>9, <2>10, AddStep DEF Inv
<1>4. CASE pending.type = "approval" /\ ExecuteApproval(s, pending.of.approval)
  <2> DEFINE e == Event("approval.resolved")
  <2>1. e \in Events /\ e.type = "approval.resolved"
    BY DEF Events, Event
  <2>2. /\ agent[s].approval = pending.of.approval
        /\ agent' = [agent EXCEPT ![s] = Working] /\ Add(s, <<e>>)
    BY <1>4 DEF ExecuteApproval
  <2>3. pending.of.approval \in Approvals
    BY <1>1, <1>4 DEF Commands
  <2> HIDE DEF s, e
  <2>4. agent[s].state # "idle"
    BY <1>2, <2>2, <2>3, AgentTyped
  <2>5. /\ TurnNext(agent[s].state # "idle", e) = (Working.state # "idle")
        /\ PendingNext(agent[s].approval, e) = Working.approval
        /\ e # EventOf("session.updated", "idle") /\ Working \in Agents
    BY <1>2, <2>1, <2>4, AgentTyped DEF TurnNext, TurnTypes, PendingNext, EventOf
  <2> QED
    BY <1>2, <2>1, <2>2, <2>5, AddEventStep DEF Inv
<1>5. CASE ExecuteInterrupt(s)
  <2> DEFINE e == Event("approval.resolved")
             f == Event("turn.interrupted")
  <2>1. /\ e \in Events /\ e.type = "approval.resolved"
        /\ f \in Events /\ f.type = "turn.interrupted"
        /\ e # EventOf("session.updated", "idle")
        /\ f # EventOf("session.updated", "idle")
    BY DEF Events, Event, EventOf
  <2>2. /\ agent[s] # Idle /\ agent' = [agent EXCEPT ![s] = Idle]
        /\ Add(s, (IF agent[s].approval = None THEN <<>> ELSE <<e>>) \o <<f>>)
    BY <1>5 DEF ExecuteInterrupt
  <2> HIDE DEF s, e, f
  <2> DEFINE events == (IF agent[s].approval = None THEN <<>> ELSE <<e>>) \o <<f>>
             l1 == log[s] \o <<e>>
  <2>3. /\ agent' \in [Sessions -> Agents] /\ agent'[s] = Idle /\ Idle \in Agents
        /\ \A o \in Sessions \ {s} : agent'[o] = agent[o]
    BY <1>2, <2>2, AgentTyped
  <2>4. <<e>> \in Seq(Events) /\ <<f>> \in Seq(Events)
    BY <2>1
  <2>5. Add(s, events)
    BY <2>2
  <2>6. CASE agent[s].approval = None
    <3>1. events = <<f>>
      BY <2>4, <2>6, ConcatEmptySeq
    <3>2. /\ TurnNext(agent[s].state # "idle", f) = (Idle.state # "idle")
          /\ PendingNext(agent[s].approval, f) = Idle.approval
      BY <1>2, <2>1, <2>6, AgentTyped DEF TurnNext, TurnTypes, PendingNext
    <3> HIDE DEF events
    <3>3. Told(Idle, log[s] \o events) /\ IdleTold(log[s] \o events)
      BY <1>2, <2>1, <3>1, <3>2, OneMoreEvent
    <3> QED
      BY <1>2, <2>3, <2>4, <2>5, <3>1, <3>3, AddStep DEF Inv
  <2>7. CASE agent[s].approval # None
    <3>1. events = <<e>> \o <<f>>
      BY <2>7
    <3>2. agent[s].state # "idle"
      BY <1>2, <2>7, AgentTyped
    <3>3. /\ TurnNext(agent[s].state # "idle", e) = (Working.state # "idle")
          /\ PendingNext(agent[s].approval, e) = Working.approval
      BY <1>2, <2>1, <3>2, AgentTyped DEF TurnNext, TurnTypes, PendingNext
    <3>4. l1 \in Seq(Events) /\ Told(Working, l1) /\ IdleTold(l1)
      BY <1>2, <2>1, <3>3, OneMoreEvent
    <3>5. /\ TurnNext(Working.state # "idle", f) = (Idle.state # "idle")
          /\ PendingNext(Working.approval, f) = Idle.approval
      BY <1>2, <2>1, AgentTyped DEF TurnNext, TurnTypes, PendingNext
    <3>6. /\ l1 \o <<f>> \in Seq(Events) /\ Told(Idle, l1 \o <<f>>)
          /\ IdleTold(l1 \o <<f>>)
      <4> HIDE DEF l1
      <4> QED
        BY <2>1, <3>4, <3>5, OneMoreEvent
    <3>7. /\ <<e>> \o <<f>> \in Seq(Events)
          /\ log[s] \o (<<e>> \o <<f>>) = l1 \o <<f>>
      BY <1>2, <2>4, ConcatAssociative, ConcatProperties
    <3> HIDE DEF events, l1
    <3>8. /\ events \in Seq(Events)
          /\ Told(Idle, log[s] \o events) /\ IdleTold(log[s] \o events)
      BY <3>1, <3>6, <3>7
    <3> QED
      BY <1>2, <2>3, <2>5, <3>8, AddStep DEF Inv
  <2> QED
    BY <2>6, <2>7
<1> QED
  BY <1>3, <1>4, <1>5 DEF Execute

LEMMA ExecuteKept ==
    ASSUME Inv, Execute
    PROVE  Inv'
<1>1. /\ pending \in Commands /\ pending' = [pending EXCEPT !.done = TRUE]
      /\ pending # None
      /\ UNCHANGED <<current, cursor, screen, view, recording, photos, upload>>
  BY DEF Execute, Inv, Typed
<1>2. /\ pending' \in Commands /\ pending'.task = pending.task
      /\ pending'.type = pending.type /\ pending'.of = pending.of
  <2>1. CASE pending \in [type : {"text", "interrupt"}, of : Transcripts \cup {None},
                          task : Sessions, done : BOOLEAN]
    <3>1. pending' \in [type : {"text", "interrupt"}, of : Transcripts \cup {None},
                        task : Sessions, done : BOOLEAN]
      BY <1>1, <2>1
    <3> QED
      BY <1>1, <2>1, <3>1 DEF Commands
  <2> DEFINE Answers == [approval : Approvals, choice : {"approve_once", "decline"},
                         shown : Shows]
  <2> HIDE DEF Answers
  <2>2. CASE pending \in [type : {"approval"}, of : Answers, task : Sessions,
                          done : BOOLEAN]
    <3>1. pending' \in [type : {"approval"}, of : Answers, task : Sessions,
                        done : BOOLEAN]
      BY <1>1, <2>2
    <3> QED
      BY <1>1, <2>2, <3>1 DEF Commands, Answers
  <2> QED
    BY <1>1, <2>1, <2>2 DEF Commands, Answers
<1>3. OrdersKept
  BY <1>1, <1>2
     DEF Inv, Typed, OrdersKept, NothingFollowsTheUser, ApprovalsAreReadFirst,
         Recording
<1>4. StaysOnTask
  BY <1>1 DEF StaysOnTask, Inv, Typed
<1>5. PhotoKept
  BY <1>1 DEF PhotoKept
<1> QED
  BY <1>1, <1>3, <1>4, <1>5, ExecuteTells, StepKept

(* Events, snapshots and the timer. *)
LEMMA ApplyKept ==
    ASSUME Inv, ApplyEvent
    PROVE  Inv'
<1> DEFINE l == log[current]
<1>1. /\ view \in Views /\ current \in Sessions /\ l \in Seq(Events)
      /\ cursor \in Nat /\ cursor < Len(l) /\ Len(l) \in Nat /\ Shown(view, l, cursor)
      /\ Timed(view)
  BY DEF ApplyEvent, Inv, Typed, Screen
<1>2. cursor' = cursor + 1 /\ view' = Handle(view, l[cursor + 1])
  BY DEF ApplyEvent
<1>3. UNCHANGED <<current, screen, recording, pending, log, agent, photos, upload>>
  BY DEF ApplyEvent, bridgeVars
<1>4. l[cursor + 1] = EventOf("session.updated", "idle") =>
         PendingAfter(l, cursor + 1) = None
  <2>1. cursor + 1 \in 1..Len(l)
    BY <1>1
  <2> QED
    BY <1>1, <2>1 DEF Inv, LogsTell, IdleTold
<1> HIDE DEF l
<1>5. view' \in Views /\ Shown(view', l, cursor + 1) /\ Timed(view')
  BY <1>1, <1>2, <1>4, HandleShown
<1>6. cursor + 1 \in 0..Len(l)
  BY <1>1
<1>7. Screen'
  BY <1>2, <1>3, <1>5, <1>6 DEF Screen, l
<1> QED
  BY <1>3, <1>5, <1>7
     DEF Inv, Typed, LogsTell, Stored, NothingFollowsTheUser, Recording,
         ApprovalsAreReadFirst

LEMMA ResyncKept ==
    ASSUME Inv, Resync
    PROVE  Inv'
<1> DEFINE l == log[current]
           a == agent[current]
           u == IF a.approval = None THEN Resolved(view) ELSE Arrive(view, a.approval)
<1>1. /\ view \in Views /\ current \in Sessions /\ l \in Seq(Events)
      /\ cursor \in Nat /\ cursor <= Len(l) /\ Len(l) \in Nat /\ Shown(view, l, cursor)
      /\ a \in Agents /\ Told(a, l)
  BY DEF Inv, Typed, Screen, LogsTell
<1>2. cursor' = Len(l) /\ view' = [u EXCEPT !.turn = a.state # "idle"]
  BY DEF Resync, Snapshot
<1>3. UNCHANGED <<current, screen, recording, pending, log, agent, photos, upload>>
  BY DEF Resync, bridgeVars
<1>4. a.approval \in Approvals \cup {None}
  BY <1>1, AgentTyped
<1>5. /\ u \in Views /\ u.approval = a.approval /\ u.transcript = view.transcript
      /\ u.ready = view.ready /\ u.photo = view.photo /\ Timed(u)
  <2> HIDE DEF a
  <2>1. CASE a.approval = None
    <3>1. u = [view EXCEPT !.approval = None, !.armed = TRUE, !.shown = "none"]
      BY <2>1 DEF Resolved
    <3> QED
      BY <1>1, <2>1, <3>1 DEF Views, Timed, Shows
  <2>2. CASE a.approval # None
    <3>1. /\ u = [view EXCEPT !.approval = a.approval, !.armed = FALSE,
                              !.turn = TRUE, !.shown = Arrived]
          /\ Arrived \in Shows
      BY <2>2 DEF Arrive, Arrived, Shows
    <3>2. /\ u \in Views /\ u.approval = a.approval /\ u.armed = FALSE
          /\ u.transcript = view.transcript /\ u.ready = view.ready
          /\ u.photo = view.photo
      BY <1>1, <1>4, <3>1 DEF Views
    <3> QED
      BY <3>2 DEF Timed
  <2> QED
    BY <2>1, <2>2
<1> HIDE DEF l, a, u
<1> DEFINE t == a.state # "idle"
<1>6. t \in BOOLEAN /\ view' = [u EXCEPT !.turn = t]
  BY <1>2
<1>7. t = TurnAfter(l, Len(l)) /\ a.approval = PendingAfter(l, Len(l))
  BY <1>1 DEF Told
<1> HIDE DEF t
<1>8. /\ view' \in Views /\ view'.turn = t /\ view'.approval = a.approval
      /\ view'.armed = u.armed /\ view'.transcript = view.transcript
      /\ view'.ready = view.ready /\ view'.photo = view.photo
      /\ view'.shown = u.shown
  BY <1>5, <1>6 DEF Views
<1>9. \A i \in 1..cursor : i \in 1..Len(l)
  BY <1>1
<1>10. Shown(view', l, Len(l))
  BY <1>1, <1>7, <1>8, <1>9 DEF Shown
<1>11. Len(l) \in 0..Len(l)
  BY <1>1
<1>12. Screen' /\ Timed(view')
  <2>1. Timed(view')
    BY <1>5, <1>8 DEF Timed
  <2> QED
    BY <1>2, <1>3, <1>10, <1>11, <2>1 DEF Screen, l
<1> QED
  BY <1>3, <1>8, <1>12
     DEF Inv, Typed, LogsTell, Stored, NothingFollowsTheUser, Recording,
         ApprovalsAreReadFirst

LEMMA TimeKept ==
    ASSUME Inv, TimePasses \/ Lingers
    PROVE  Inv'
<1> DEFINE later == IF view.shown = "new" THEN "read" ELSE "unread"
<1>1. /\ view \in Views /\ later \in {"read", "unread"}
      /\ UNCHANGED <<current, cursor, screen, recording, pending, bridgeVars>>
  BY DEF TimePasses, Lingers, Inv, Typed
<1>2. /\ view' \in Views /\ Timed(view')
      /\ view'.turn = view.turn /\ view'.approval = view.approval
      /\ view'.transcript = view.transcript /\ view'.ready = view.ready
      /\ view'.photo = view.photo
  <2>1. CASE view' = [view EXCEPT !.armed = TRUE, !.shown = later]
    <3> HIDE DEF later
    <3> QED
      BY <1>1, <2>1 DEF Views, Shows, Timed
  <2>2. CASE view' = [view EXCEPT !.shown = "read"]
    BY <1>1, <2>2 DEF Views, Shows, Timed
  <2> QED
    BY <2>1, <2>2 DEF TimePasses, Lingers
<1>3. BridgeStep /\ StaysOnTask
  BY <1>1, <1>2, QuietStep DEF StaysOnTask, bridgeVars, Inv
<1>4. PhotoKept /\ OrdersKept
  BY <1>1, ForgetKept DEF PhotoKept, bridgeVars
<1> QED
  BY <1>3, <1>4, StepKept

-----------------------------------------------------------------------------
LEMMA InitInv == Init => Inv
<1> SUFFICES ASSUME Init PROVE Inv
  OBVIOUS
<1>1. \A s \in Sessions : log[s] = <<>> /\ Len(log[s]) = 0 /\ agent[s] = Idle
  BY DEF Init
<1>2. Blank \in Views /\ Shown(Blank, log[current], 0) /\ Timed(Blank)
  BY BlankShown
<1>3. Idle \in Agents /\ Idle.state = "idle" /\ Idle.approval = None
  BY DEF Agents, Idle
<1>4. Typed
  <2>1. log \in [Sessions -> Seq(Events)] /\ agent \in [Sessions -> Agents]
    BY <1>3 DEF Init
  <2>2. /\ current = FirstSession /\ view = Blank /\ recording = NoRecording
        /\ upload = NoRecording /\ pending = None
    BY DEF Init
  <2>3. NoRecording \in Recordings
    BY DEF Recordings
  <2>4. current \in Sessions /\ view \in Views
    BY <1>2, <2>2, AgentViewAssumption
  <2>5. recording \in Recordings /\ upload \in Recordings
    BY <2>2, <2>3
  <2>6. pending \in {None} \cup Commands
    BY <2>2
  <2> QED
    BY <2>1, <2>4, <2>5, <2>6 DEF Typed
<1>5. LogsTell
  <2>1. ASSUME NEW s \in Sessions
        PROVE  Told(agent[s], log[s]) /\ IdleTold(log[s])
    <3>1. PendingAfter(log[s], 0) = None /\ TurnAfter(log[s], 0) = FALSE
      BY AfterNone
    <3>2. Told(agent[s], log[s])
      BY <1>1, <1>3, <3>1 DEF Told
    <3>3. 1..Len(log[s]) = {}
      BY <1>1
    <3> QED
      BY <3>2, <3>3 DEF IdleTold
  <2> QED
    BY <2>1 DEF LogsTell
<1>6. Screen /\ Timed(view) /\ Stored
  <2>1. 0 \in 0..Len(log[current])
    BY <1>1, AgentViewAssumption DEF Init
  <2> QED
    BY <1>2, <2>1 DEF Init, Screen, Stored
<1>7. NothingFollowsTheUser /\ ApprovalsAreReadFirst
  BY DEF Init, NothingFollowsTheUser, ApprovalsAreReadFirst, Recording
<1> QED
  BY <1>4, <1>5, <1>6, <1>7 DEF Inv

LEMMA NextInv == Inv /\ [Next]_vars => Inv'
<1> SUFFICES ASSUME Inv, [Next]_vars PROVE Inv'
  OBVIOUS
<1>1. CASE ApplyEvent
  BY <1>1, ApplyKept
<1>2. CASE Resync
  BY <1>2, ResyncKept
<1>3. CASE TimePasses \/ Lingers
  BY <1>3, TimeKept
<1>4. CASE Acknowledged \/ Rejected
  <2>1. UNCHANGED <<current, cursor, screen, view, recording, bridgeVars>>
        /\ pending' = None
    BY <1>4 DEF Acknowledged, Rejected
  <2>2. BridgeStep /\ upload' \in Recordings
    BY <2>1, QuietStep DEF Inv, Typed, bridgeVars
  <2>3. PhotoKept
    BY <2>1 DEF PhotoKept, bridgeVars
  <2> QED
    BY <2>1, <2>2, <2>3, RemoteKept
<1>5. CASE Key
  <2>1. PICK key : Press(key)
    BY <1>5 DEF Key
  <2>2. ~Recording /\ screen = "main" /\ UNCHANGED <<recording, agent, upload>>
    BY <1>5 DEF Key
  <2> QED
    BY <2>1, <2>2, PressKept
<1>6. CASE HoldR
  <2>1. /\ Begin /\ UNCHANGED <<current, cursor, screen, view, pending, bridgeVars>>
    BY <1>6 DEF HoldR
  <2> QED
    BY <2>1, BeginKept
<1>7. CASE FinishRecording \/ EndRecording
  <2>1. /\ UNCHANGED <<current, cursor, screen, view, pending, log, agent, photos>>
        /\ upload' \in {upload, recording}
    BY <1>7 DEF FinishRecording, EndRecording, bridgeVars
  <2>2. /\ recording' \in Recordings
        /\ recording' # NoRecording => recording'.task = current
    <3>1. CASE FinishRecording
      <4>1. recording.open /\ recording' = [recording EXCEPT !.open = FALSE]
        BY <3>1 DEF FinishRecording
      <4>2. recording # NoRecording
        BY <4>1 DEF NoRecording
      <4>3. recording \in [task : Sessions, open : BOOLEAN] /\ recording.task = current
        BY <4>2 DEF Inv, Typed, Recordings, NothingFollowsTheUser, Recording
      <4>4. /\ recording' \in [task : Sessions, open : BOOLEAN]
            /\ recording'.task = current
        BY <4>1, <4>3
      <4> QED
        BY <4>4 DEF Recordings
    <3>2. CASE EndRecording
      BY <3>2 DEF EndRecording, Recordings
    <3> QED
      BY <1>7, <3>1, <3>2
  <2>3. BridgeStep /\ StaysOnTask
    BY <2>1, QuietStep DEF Inv, Typed, StaysOnTask
  <2>4. OrdersKept
    BY <2>1, <2>2
       DEF Inv, Typed, OrdersKept, NothingFollowsTheUser, ApprovalsAreReadFirst,
           Recording
  <2>5. PhotoKept
    BY <2>1 DEF PhotoKept
  <2> QED
    BY <2>1, <2>3, <2>4, <2>5, StepKept
<1>8. CASE Contact
  <2>1. /\ Begin \/ UNCHANGED recording
        /\ UNCHANGED <<current, cursor, screen, view, pending, bridgeVars>>
    BY <1>8 DEF Contact
  <2> QED
    BY <2>1, BeginKept
<1>9. CASE Lift
  BY <1>9, LiftKept
<1>10. CASE Execute
  BY <1>10, ExecuteKept
<1>11. CASE Transcribe
  BY <1>11, TranscribeKept
<1>12. CASE \E s \in Sessions : Agent(s)
  BY <1>12, AgentKept
<1>13. CASE ReviewKey \/ SendPhoto \/ LeaveUpload
  BY <1>13, PhotoScreenKept
<1>14. CASE \E s \in Sessions : StorePhoto(s)
  BY <1>14, StorePhotoKept
<1>15. CASE UNCHANGED vars
  BY <1>15
     DEF vars, clientVars, bridgeVars, Inv, Typed, LogsTell, Screen, Stored,
         NothingFollowsTheUser, Recording, ApprovalsAreReadFirst
<1> QED
  BY <1>1, <1>2, <1>3, <1>4, <1>5, <1>6, <1>7, <1>8, <1>9, <1>10, <1>11, <1>12,
     <1>13, <1>14, <1>15
     DEF Next

LEMMA AlwaysInv == Spec => []Inv
BY InitInv, NextInv, PTL DEF Spec

(* Whatever events arrive, snapshots replace them and tasks are opened, the *)
(* turn, the pending approval, the transcript and the photo on the screen   *)
(* are those of the open task's log up to the cursor (handle_protocol_      *)
(* event, apply_session_snapshot, attach_to_current_session).               *)
THEOREM ScreenIsTheLog == Spec => []ShowsTheOpenTask
<1>1. Inv => ShowsTheOpenTask
  BY DEF Inv, Screen, Shown, Photographed, ShowsTheOpenTask
<1> QED
  BY <1>1, AlwaysInv, PTL

(* No path through keys and stylus leaves a command of the link, or a       *)
(* recording, that belongs to a task other than the open one.               *)
THEOREM OrdersBelongToTheTask == Spec => []NothingFollowsTheUser
<1>1. Inv => NothingFollowsTheUser
  BY DEF Inv
<1> QED
  BY <1>1, AlwaysInv, PTL

(* What A, or its button in the action bar, approves is as old as           *)
(* APPROVAL_ARMING_MS, and it was on the main screen as long unless that    *)
(* was covered meanwhile by the screen of a photo or by the keyboard of a   *)
(* transcript: no event, snapshot, change of task or stylus in any order    *)
(* lets an approval be given that came a moment ago.                        *)
THEOREM ApprovalsWereRead == Spec => []ApprovalsAreReadFirst
<1>1. Inv => ApprovalsAreReadFirst
  BY DEF Inv
<1> QED
  BY <1>1, AlwaysInv, PTL
=============================================================================
