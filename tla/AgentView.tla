------------------------------ MODULE AgentView ------------------------------
(***************************************************************************)
(* What the agent screen of the 3DS shows of the open task and what its    *)
(* keys and the stylus do with it (client-3ds/source/main.c, run_agent_    *)
(* loop; client-3ds/source/ui.c, ui_actions_for and ui_hit_test).          *)
(*                                                                         *)
(* The client is one thread: an action is what one frame does about one    *)
(* frame of the pushed link, one key, one contact of the stylus or one     *)
(* timer.  A request that blocks the loop is one action; the loops of the  *)
(* photo, which read the link under a screen of their own, are not.  The   *)
(* bridge adds events to the tasks' logs and executes the command of the   *)
(* link; the link delivers the events of its session in order (see         *)
(* PushLink).  Of the events those are left out that change only what is   *)
(* read.  Rows of the rail are named by their tasks (see ClientTasks).     *)
(***************************************************************************)
EXTENDS Integers, Sequences

CONSTANTS
    Sessions, FirstSession,
    Approvals, Transcripts,   \* each is used once
    None,
    MaxEvents                 \* bound: events, for each task

ASSUME AgentViewAssumption ==
    FirstSession \in Sessions /\ None \notin Approvals \cup Transcripts

VARIABLES
    current,    \* current_session_id
    cursor,     \* event_cursor
    screen,     \* main; or of capture_and_upload_photo(): the review, the
                \* upload, and the upload of which all is written (sent)
    view,       \* turn_active, pending_approval_id, whether that is as old
                \* as APPROVAL_ARMING_MS or none (armed), pending_transcript,
                \* transcript_ready, photo_pending; and shown, see below
    recording,  \* recording_session_active, the task it is for, and
                \* whether the microphone is still to be stopped
    stylus,     \* touch_is_down, touch_armed
    kind,       \* push_command_kind
    pending,    \* the command of the pushed link
    log,        \* the bridge's events, per task
    agent,      \* per task, what its agent is doing
    held,       \* per task, a photo waits for its next prompt
    photos,     \* the tasks a whole photo is on its way to
    upload,     \* the recording the bridge has to transcribe
    unused      \* approvals and transcripts still to come

clientVars == <<current, cursor, screen, view, recording, stylus, kind, pending>>
bridgeVars == <<log, agent, held, photos, upload, unused>>
vars == <<clientVars, bridgeVars>>

Event(type) == [type |-> type, of |-> None]
EventOf(type, x) == [type |-> type, of |-> x]

(* view.shown is history, of the pending approval: "new" if the main screen  *)
(* has been up since it arrived, and "behind" if it was not always, while it *)
(* is younger than APPROVAL_ARMING_MS; then it is "read" or "unread", until  *)
(* the main screen has been up for as long at last.                          *)
Blank ==
    [turn |-> FALSE, approval |-> None, armed |-> TRUE, transcript |-> None,
     ready |-> FALSE, photo |-> FALSE, shown |-> "none"]

NoRecording == [task |-> None, open |-> FALSE]
Recording == recording # NoRecording

NoHit == [kind |-> "none", task |-> None]
Hit(k) == [kind |-> k, task |-> None]

StylusUp == [down |-> FALSE, armed |-> NoHit]

Idle == [state |-> "idle", approval |-> None]
Working == [state |-> "working", approval |-> None]

Init ==
    /\ current = FirstSession /\ cursor = 0
    /\ screen = "main" /\ view = Blank
    /\ recording = NoRecording
    /\ stylus = StylusUp
    /\ kind = "none" /\ pending = None
    /\ log = [s \in Sessions |-> <<>>]
    /\ agent = [s \in Sessions |-> Idle]
    /\ held = [s \in Sessions |-> FALSE] /\ photos = {}
    /\ upload = NoRecording
    /\ unused = Approvals \cup Transcripts

-----------------------------------------------------------------------------
(* An approval that is answered a frame after it was shown was not read, so *)
(* its arrival starts a timer; a faulty one leaves the timer as it was.     *)
Arrived == IF screen = "main" THEN "new" ELSE "behind"

ArriveUntimed(v, a) ==
    [v EXCEPT !.approval = a, !.turn = TRUE, !.shown = Arrived]

Arrive(v, a) ==
    [v EXCEPT !.approval = a, !.armed = FALSE, !.turn = TRUE, !.shown = Arrived]

Resolved(v) == [v EXCEPT !.approval = None, !.armed = TRUE, !.shown = "none"]

(* handle_protocol_event() *)
Handle(v, e) ==
    CASE e.type = "session.updated" ->
             [IF e.of = "idle" THEN Resolved(v) ELSE v
                 EXCEPT !.turn = e.of # "idle"]
      [] e.type = "turn.started" -> [v EXCEPT !.turn = TRUE]
      [] e.type \in {"turn.interrupted", "turn.completed"} ->
             [v EXCEPT !.turn = FALSE]
      [] e.type = "approval.requested" -> Arrive(v, e.of)
      [] e.type = "approval.resolved" -> Resolved(v)
      [] e.type = "capture.accepted" ->
             [v EXCEPT !.transcript = None, !.ready = FALSE]
      [] e.type = "capture.transcript.delta" -> [v EXCEPT !.transcript = e.of]
      [] e.type = "capture.transcribed" ->
             [v EXCEPT !.ready = v.transcript # None]
      [] e.type = "capture.photo.ready" -> [v EXCEPT !.photo = TRUE]
      [] e.type = "capture.attached" -> [v EXCEPT !.photo = FALSE]

ApplyEvent ==
    /\ cursor < Len(log[current])
    /\ cursor' = cursor + 1
    /\ view' = Handle(view, log[current][cursor'])
    /\ UNCHANGED <<current, screen, recording, stylus, kind, pending,
                   bridgeVars>>

(* apply_session_snapshot(): the bridge no longer has the events the client *)
(* asks for, and sends how the task stands.                                 *)
SnapshotKeepingApproval(v, task) == [v EXCEPT !.turn = task.state # "idle"]

Snapshot(v, task) ==
    [IF task.approval = None THEN Resolved(v) ELSE Arrive(v, task.approval)
        EXCEPT !.turn = task.state # "idle"]

Resync ==
    /\ cursor < Len(log[current])
    /\ cursor' = Len(log[current])
    /\ view' = Snapshot(view, agent[current])
    /\ UNCHANGED <<current, screen, recording, stylus, kind, pending,
                   bridgeVars>>

(* APPROVAL_ARMING_MS have gone by since the last arrival, whatever the      *)
(* screen showed.                                                            *)
TimePasses ==
    /\ ~view.armed
    /\ view' = [view EXCEPT !.armed = TRUE,
                            !.shown = IF @ = "new" THEN "read" ELSE "unread"]
    /\ UNCHANGED <<current, cursor, screen, recording, stylus, kind, pending,
                   bridgeVars>>

(* As long goes by with the main screen up. *)
Lingers ==
    /\ screen = "main" /\ view.armed /\ view.shown = "unread"
    /\ view' = [view EXCEPT !.shown = "read"]
    /\ UNCHANGED <<current, cursor, screen, recording, stylus, kind, pending,
                   bridgeVars>>

(* handle_push_frame() of an acknowledgement and of an error. *)
Acknowledged ==
    /\ pending # None /\ pending.done
    /\ pending' = None /\ kind' = "none"
    /\ UNCHANGED <<current, cursor, screen, view, recording, stylus,
                   bridgeVars>>

Rejected ==
    /\ pending # None /\ ~pending.done
    /\ pending' = None /\ kind' = "none"
    /\ UNCHANGED <<current, cursor, screen, view, recording, stylus,
                   bridgeVars>>

-----------------------------------------------------------------------------
(* The commands.  network_push_send_...() refuse one while the link still   *)
(* has one to be acknowledged.  That of an approval remembers how that was  *)
(* shown.                                                                   *)
Send(link, type, of) ==
    IF link # None THEN UNCHANGED kind /\ pending' = link
    ELSE /\ pending' = [type |-> type, of |-> of, task |-> current, done |-> FALSE]
         /\ kind' = type

(* submit_text_capture() *)
SubmitText(link, text) ==
    /\ view' = [view EXCEPT !.transcript = None, !.ready = FALSE]
    /\ Send(link, "text", text)

(* respond_to_approval(), interrupt_active_turn() *)
RespondToApproval(choice) ==
    Send(pending, "approval", [approval |-> view.approval, choice |-> choice,
                               shown |-> view.shown])

Interrupt == Send(pending, "interrupt", None)

(* The native keyboard is modal: the link is stopped and started again, and *)
(* forgets its command.                                                     *)
TypePrompt ==
    \/ SubmitText(None, None)
    \/ pending' = None /\ UNCHANGED <<view, kind>>

-----------------------------------------------------------------------------
(* attach_to_current_session(); to resume a task adds to its log.           *)
AttachKeepingCommand(s) ==
    /\ current' = s /\ cursor' = 0
    /\ view' = Blank
    /\ UNCHANGED pending

Attach(s) ==
    /\ current' = s /\ cursor' = 0
    /\ view' = Blank
    /\ pending' = None

Add(s, events) ==
    /\ Len(log[s]) + Len(events) <= MaxEvents[s]
    /\ log' = [log EXCEPT ![s] = @ \o events]

(* open_task(), and resume_session() and start_new_session() elsewhere: the  *)
(* bridge may refuse, and the link of the open task is started again.       *)
OpenTask(targets) ==
    \/ \E s \in targets :
          /\ Attach(s)
          /\ Add(s, <<EventOf("session.updated", agent[s].state)>>)
          /\ UNCHANGED kind
    \/ pending' = None /\ UNCHANGED <<current, cursor, view, kind, log>>

New == {s \in Sessions : log[s] = <<>>} \ {current}

-----------------------------------------------------------------------------
(* The keys, in the order run_agent_loop() looks at them.  Each says what   *)
(* becomes of current, cursor, view, kind, pending and log.                 *)
Stay == UNCHANGED <<current, cursor, log>>

PressA ==
    /\ IF view.approval # None
       THEN /\ IF view.armed THEN RespondToApproval("approve_once")
               ELSE UNCHANGED <<kind, pending>>
            /\ UNCHANGED view
       ELSE IF view.ready THEN SubmitText(pending, view.transcript)
       ELSE ~view.turn /\ kind = "none" /\ TypePrompt
    /\ Stay

(* The transcript is edited, or not, with the keyboard over the screen. *)
PressY ==
    /\ view.ready
    /\ pending' = None
    /\ view' = [view EXCEPT !.shown = IF @ = "new" THEN "behind" ELSE @]
    /\ Stay /\ UNCHANGED kind

PressX ==
    /\ view.approval = None
    /\ \/ view.turn /\ Interrupt /\ Stay /\ UNCHANGED view
       \/ ~view.turn /\ ~view.ready /\ OpenTask(New)

(* The task manager can open any task, too. *)
PressB ==
    /\ IF view.ready
       THEN /\ view' = [view EXCEPT !.ready = FALSE, !.transcript = None]
            /\ Stay /\ UNCHANGED <<kind, pending>>
       ELSE IF view.approval # None
       THEN RespondToApproval("decline") /\ Stay /\ UNCHANGED view
       ELSE OpenTask(Sessions)

(* Left and right. *)
PressSides ==
    /\ ~view.ready
    /\ OpenTask(Sessions \ {current})

(* The shot has been taken and is shown for a review (see Review). *)
PressL ==
    /\ ~view.turn /\ ~view.ready /\ kind = "none"
    /\ screen' = "review"
    /\ Stay /\ UNCHANGED <<view, kind, pending>>

Press(key) ==
    \/ key = "L" /\ PressL
    \/ /\ \/ key = "A" /\ PressA
          \/ key = "B" /\ PressB
          \/ key = "X" /\ PressX
          \/ key = "Y" /\ PressY
          \/ key = "sides" /\ PressSides
       /\ UNCHANGED screen

(* begin_microphone_capture() for R or for the stylus. *)
CanRecord == ~Recording /\ ~view.ready /\ ~view.turn

Begin == recording' = [task |-> current, open |-> TRUE]

Key ==
    /\ screen = "main" /\ ~Recording
    /\ \E key \in {"A", "B", "X", "Y", "L", "sides"} : Press(key)
    /\ UNCHANGED <<recording, stylus, agent, held, photos, upload, unused>>

HoldR ==
    /\ screen = "main" /\ CanRecord /\ Begin
    /\ UNCHANGED <<current, cursor, screen, view, stylus, kind, pending,
                   bridgeVars>>

-----------------------------------------------------------------------------
(* capture_and_upload_photo(): the loop of the review and, if the upload    *)
(* could be begun, its loop, of which MediaStream has the data.             *)
Review(key) ==
    \/ key = "A" /\ screen' \in {"upload", "main"}
    \/ key = "B" /\ screen' = "main"

ReviewKey ==
    /\ screen = "review"
    /\ \E key \in {"A", "B"} : Review(key)
    /\ UNCHANGED <<current, cursor, view, recording, stylus, kind, pending,
                   bridgeVars>>

SendPhoto ==
    /\ screen = "upload"
    /\ screen' = "sent" /\ photos' = photos \cup {current}
    /\ UNCHANGED <<current, cursor, view, recording, stylus, kind, pending,
                   log, agent, held, upload, unused>>

(* It has been answered, or it has failed or was given up with START. *)
LeaveUpload ==
    /\ screen \in {"upload", "sent"} /\ screen' = "main"
    /\ \/ UNCHANGED view
       \/ /\ screen = "sent" /\ current \notin photos
          /\ view' = [view EXCEPT !.photo = TRUE]
    /\ UNCHANGED <<current, cursor, recording, stylus, kind, pending,
                   bridgeVars>>

-----------------------------------------------------------------------------
(* request_microphone_finish(): R is let go, or the recording is as long as *)
(* it may be.  The bridge is to transcribe it.                              *)
FinishRecording ==
    /\ recording.open
    /\ recording' = [recording EXCEPT !.open = FALSE]
    /\ upload' = recording
    /\ UNCHANGED <<current, cursor, screen, view, stylus, kind, pending, log,
                   agent, held, photos, unused>>

(* The upload has been answered, or has failed at any time. *)
EndRecording ==
    /\ Recording
    /\ recording' = NoRecording
    /\ UNCHANGED <<current, cursor, screen, view, stylus, kind, pending,
                   bridgeVars>>

-----------------------------------------------------------------------------
(* The stylus.  The loop of the upload does not look at it: what was armed  *)
(* stays armed, and a lift or a contact it misses is as if held on.         *)

(* ui_actions_for(): what the action bar offers, from left to right. *)
Actions(v) ==
    IF screen = "review" \/ v.approval # None THEN <<"A", "B">>
    ELSE IF v.ready THEN <<"A", "Y", "B">>
    ELSE IF v.turn THEN <<"X", "tasks">>
    ELSE <<"A", "L", "X", "tasks">>

(* Where the stylus can be: the talk panel, the rail's rows and manager     *)
(* button, and the middles of the four quarters of the action bar.          *)
Points ==
    [area : {"panel", "manager"}, at : {None}]
        \cup [area : {"rail"}, at : Sessions]
        \cup [area : {"bar"}, at : {1, 3, 5, 7}]

(* ui_hit_test(): while the microphone is open everything is the talk panel. *)
HitTestWhileRecording(v, p) ==
    CASE p.area = "panel" ->
             IF v.approval = None /\ ~v.ready /\ ~v.turn THEN Hit("talk") ELSE NoHit
      [] p.area = "manager" -> Hit("tasks")
      [] p.area = "rail" -> [kind |-> "task", task |-> p.at]
      [] p.area = "bar" -> Hit(Actions(v)[1 + ((p.at * Len(Actions(v))) \div 8)])

HitTest(v, p) ==
    IF screen = "review" /\ p.area # "bar" THEN NoHit
    ELSE IF Recording THEN Hit("talk") ELSE HitTestWhileRecording(v, p)

(* update_touch() on contact: what is touched is armed.  The talk panel     *)
(* records at once, like R.                                                 *)
Contact ==
    /\ screen \in {"main", "review"} /\ ~stylus.down
    /\ \E p \in Points : stylus' = [down |-> TRUE, armed |-> HitTest(view, p)]
    /\ IF stylus'.armed.kind = "talk" /\ CanRecord THEN Begin
       ELSE UNCHANGED recording
    /\ UNCHANGED <<current, cursor, screen, view, kind, pending, bridgeVars>>

(* On the lift, wherever that is, the target fires if it is the one that    *)
(* was armed; then none is, so that a recording does not end.               *)
Fires(hit) ==
    \/ /\ screen = "main"
       /\ \/ hit.kind \in {"A", "B", "X", "Y", "L"} /\ Press(hit.kind)
          \/ /\ \/ hit.kind = "tasks" /\ OpenTask(Sessions)
                \/ hit.kind = "task" /\ OpenTask({hit.task} \ {current})
             /\ UNCHANGED screen
    \/ /\ screen = "review" /\ Review(hit.kind)
       /\ Stay /\ UNCHANGED <<view, kind, pending>>

Lift ==
    /\ screen \in {"main", "review"} /\ stylus.down
    /\ stylus' = StylusUp
    /\ \E p \in Points :
          LET hit == HitTest(view, p)
          IN  \/ /\ hit # stylus.armed \/ hit.kind \in {"none", "talk"}
                 /\ Stay /\ UNCHANGED <<screen, view, kind, pending>>
              \/ hit = stylus.armed /\ Fires(hit)
    /\ UNCHANGED <<recording, agent, held, photos, upload, unused>>

-----------------------------------------------------------------------------
(* The bridge and the agents.                                               *)

(* The command of the link is executed, at most once. *)
ExecuteText(s) ==
    /\ agent[s] = Idle
    /\ agent' = [agent EXCEPT ![s] = Working]
    /\ Add(s, <<Event("turn.started")>> \o
              (IF held[s] THEN <<Event("capture.attached")>> ELSE <<>>))
    /\ held' = [held EXCEPT ![s] = FALSE]

ExecuteApproval(s, approval) ==
    /\ agent[s].approval = approval
    /\ agent' = [agent EXCEPT ![s] = Working]
    /\ Add(s, <<Event("approval.resolved")>>)
    /\ UNCHANGED held

ExecuteInterrupt(s) ==
    /\ agent[s] # Idle
    /\ agent' = [agent EXCEPT ![s] = Idle]
    /\ Add(s, (IF agent[s].approval = None THEN <<>>
               ELSE <<Event("approval.resolved")>>) \o
              <<Event("turn.interrupted")>>)
    /\ UNCHANGED held

Execute ==
    /\ pending # None /\ ~pending.done
    /\ \/ pending.type = "text" /\ ExecuteText(pending.task)
       \/ /\ pending.type = "approval"
          /\ ExecuteApproval(pending.task, pending.of.approval)
       \/ pending.type = "interrupt" /\ ExecuteInterrupt(pending.task)
    /\ pending' = [pending EXCEPT !.done = TRUE]
    /\ UNCHANGED <<current, cursor, screen, view, recording, stylus, kind,
                   photos, upload, unused>>

(* The agent asks, is answered by somebody else, or ends its turn. *)
Agent(s) ==
    /\ \/ \E a \in Approvals \cap unused :
             /\ agent[s] = Working
             /\ agent' = [agent EXCEPT ![s] = [state |-> "waiting_for_user",
                                               approval |-> a]]
             /\ Add(s, <<EventOf("approval.requested", a)>>)
             /\ unused' = unused \ {a}
       \/ /\ agent[s].approval # None
          /\ agent' = [agent EXCEPT ![s] = Working]
          /\ Add(s, <<Event("approval.resolved")>>)
          /\ UNCHANGED unused
       \/ /\ agent[s] = Working
          /\ agent' = [agent EXCEPT ![s] = Idle]
          /\ Add(s, <<Event("turn.completed")>>)
          /\ UNCHANGED unused
    /\ UNCHANGED <<clientVars, held, photos, upload>>

(* The recording is transcribed. *)
Transcribe ==
    /\ upload # NoRecording
    /\ upload' = NoRecording
    /\ \E t \in Transcripts \cap unused :
          /\ Add(upload.task, <<Event("capture.accepted"),
                                EventOf("capture.transcript.delta", t),
                                Event("capture.transcribed")>>)
          /\ unused' = unused \ {t}
    /\ UNCHANGED <<clientVars, agent, held, photos>>

(* #submitPhoto(): a photo has come, if perhaps after its upload was given   *)
(* up, and is kept for the next prompt.                                      *)
StorePhoto(s) ==
    /\ s \in photos
    /\ photos' = photos \ {s} /\ held' = [held EXCEPT ![s] = TRUE]
    /\ Add(s, <<Event("capture.photo.ready")>>)
    /\ UNCHANGED <<clientVars, agent, upload, unused>>

Next ==
    \/ ApplyEvent \/ Resync \/ TimePasses \/ Lingers
    \/ Acknowledged \/ Rejected
    \/ Key \/ HoldR \/ FinishRecording \/ EndRecording \/ Contact \/ Lift
    \/ ReviewKey \/ SendPhoto \/ LeaveUpload
    \/ Execute \/ Transcribe \/ \E s \in Sessions : StorePhoto(s)
    \/ \E s \in Sessions : Agent(s)

Spec == Init /\ [][Next]_vars

-----------------------------------------------------------------------------
(* What the first n events of a log say of the turn and of the approval. *)
LastOf(l, n, types) ==
    LET at == {i \in 1..n : l[i].type \in types}
    IN  IF at = {} THEN Event("none") ELSE l[CHOOSE i \in at : \A j \in at : j <= i]

PendingAfter(l, n) ==
    LET last == LastOf(l, n, {"approval.requested", "approval.resolved"})
    IN  IF last.type = "approval.requested" THEN last.of ELSE None

TurnAfter(l, n) ==
    LET last == LastOf(l, n, {"turn.started", "turn.interrupted", "turn.completed",
                              "approval.requested", "session.updated"})
    IN  \/ last.type \in {"turn.started", "approval.requested"}
        \/ last.type = "session.updated" /\ last.of # "idle"

(* The screen shows the open task as it was after the event at the cursor:   *)
(* its turn, its pending approval, a transcript and a photo it has; whatever *)
(* was shown of another task, or before a resynchronisation, is gone.        *)
ShowsTheOpenTask ==
    LET l == log[current]
    IN  /\ view.turn = TurnAfter(l, cursor)
        /\ view.approval = PendingAfter(l, cursor)
        /\ view.ready => \E i \in 1..cursor :
               l[i] = EventOf("capture.transcript.delta", view.transcript)
        /\ view.photo => \E i \in 1..Len(l) : l[i].type = "capture.photo.ready"

(* A command and a recording belong to the task that is open: none is sent   *)
(* to the task the user has moved to.                                        *)
NothingFollowsTheUser ==
    /\ pending # None => pending.task = current
    /\ Recording => recording.task = current

(* An approval that A gives was on the main screen for APPROVAL_ARMING_MS,   *)
(* or is at least as old and another screen was up meanwhile: that of a      *)
(* photo, which covers approvals that arrive, or the keyboard of a           *)
(* transcript.  In no other way is a request answered unseen.                *)
ApprovalsAreReadFirst ==
    (pending # None /\ pending.type = "approval") =>
        (pending.of.choice = "approve_once" => pending.of.shown \in {"read", "unread"})

(* "An approval must not be answerable by a keypress that was already on its *)
(* way to something else, so A is ignored for a moment after the request     *)
(* appears" (main.c): an approval that A gives was in view for that moment.  *)
ApprovalsAreSeenFirst ==
    (pending # None /\ pending.type = "approval") =>
        (pending.of.choice = "approve_once" => pending.of.shown = "read")
=============================================================================
