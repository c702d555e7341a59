----------------------------- MODULE ClientTasks -----------------------------
(***************************************************************************)
(* How the 3DS moves between its start screen, the task manager and the    *)
(* agent loop (client-3ds/source/main.c), and how the loops share the one  *)
(* control transaction (ControlSlot) and the one task list (TaskList): the *)
(* task manager and the rail wait for their requests, the agent loop reads *)
(* the list again in the background.                                       *)
(*                                                                         *)
(* The client is one thread; an action is what one frame of a loop does    *)
(* about one key, or one network_pump().  The bridge serves requests,      *)
(* starts tasks, publishes events and restarts on its own.  It lists its   *)
(* tasks in the order it came to know them; only after a restart that is   *)
(* the order of their last use.  The pushed link is the session it is for, *)
(* and delivers that session's events in order: how it does that is        *)
(* PushLink's.  Timers may fire whenever they are armed.                   *)
(***************************************************************************)
EXTENDS ControlSlot, TaskList, SequencesExt

CONSTANTS
    Sessions,       \* every task the bridge may come to have
    FirstSessions,  \* the tasks it has at the start
    RailTabs, TaskRows,   \* rows the two windows show
    MaxSequence     \* bound: events per task that are counted

ASSUME ClientTasksAssumption ==
    /\ FirstSessions \in Seq(Sessions) /\ IsInjective(FirstSessions)
    /\ NoSession \notin Sessions
    /\ {RailTabs, TaskRows} \subseteq Nat \ {0}
    /\ MaxSequence \in Nat

VARIABLES
    screen,      \* the loop the thread is in
    wait,        \* the request wait_for_control_request() waits for
    slot,        \* control_transaction and control_socket
    refreshing,  \* task_refresh_active
    tasks,       \* the rows
    active,      \* task_active, 0 if it is not valid
    selected,    \* task_selected
    current,     \* current_session_id
    cursor,      \* event_cursor
    link,        \* the session of the pushed link, or NoSession
    order,       \* the bridge's tasks, in the order of its Map
    last         \* per task of the bridge, its latest sequence number

listVars == <<tasks, active, selected>>
taskVars == <<current, cursor, link>>
bridgeVars == <<order, last>>
vars == <<screen, wait, slot, refreshing, listVars, taskVars, bridgeVars>>

NotWaiting == [for |-> "nothing", begun |-> FALSE, target |-> 0]

Init ==
    /\ screen = "home"
    /\ wait = NotWaiting
    /\ slot = FreeSlot
    /\ refreshing = FALSE
    /\ tasks = <<>> /\ active = 0 /\ selected = 1
    /\ current = NoSession /\ cursor = 0 /\ link = NoSession
    /\ order = FirstSessions
    /\ last = [s \in Sessions |-> 0]

ListRequest == [type |-> "list"]
ResumeRequest(s) == [type |-> "resume", session |-> s]
StartRequest == [type |-> "start"]

(* What the slot looks like after cancel_task_refresh(). *)
WithoutRefresh == IF refreshing THEN Cancel(slot) ELSE slot

(* The loop stands still until the request that begins now has an end.  One *)
(* that cannot begin is over at once, and has nothing to take an answer of. *)
BeginAndWait(freed, r, purpose, target) ==
    \E begin \in BeginRequest(freed, r) :
        /\ slot' = begin.slot
        /\ wait' = [for |-> purpose, begun |-> begin.ok, target |-> target]

-----------------------------------------------------------------------------
(* run_connected_session(), run_task_manager(): the audio socket is warmed  *)
(* (see MediaStream), the control socket starts new, and the list is loaded.*)
Connect ==
    /\ screen = "home" /\ wait = NotWaiting
    /\ screen' = "manager"
    /\ refreshing' = FALSE
    /\ BeginAndWait(CloseLine(WithoutRefresh), ListRequest, "load", 0)
    /\ UNCHANGED <<listVars, taskVars, bridgeVars>>

(* The end of run_connected_session(); task_refresh_active is not reset.    *)
LeaveForHome ==
    /\ screen' = "home"
    /\ slot' = Reset(slot)
    /\ tasks' = <<>> /\ active' = 0
    /\ current' = NoSession /\ link' = NoSession
    /\ UNCHANGED <<wait, refreshing, selected, cursor, bridgeVars>>

(* A faulty run_task_manager() that leaves the refresh to the agent loop. *)
EnterManagerRefreshing ==
    /\ screen' = "manager"
    /\ BeginAndWait(slot, ListRequest, "load", 0)
    /\ UNCHANGED <<refreshing, listVars, taskVars, bridgeVars>>

EnterManager ==
    /\ screen' = "manager"
    /\ refreshing' = FALSE
    /\ BeginAndWait(WithoutRefresh, ListRequest, "load", 0)
    /\ UNCHANGED <<listVars, taskVars, bridgeVars>>

(* The list could not be loaded: A or X tries again, B goes back. *)
Retry ==
    /\ screen = "retry" /\ wait = NotWaiting
    /\ \/ EnterManager
       \/ LeaveForHome

(* The rows of the task manager. *)
MoveSelection ==
    /\ screen = "manager" /\ wait = NotWaiting
    /\ \E step \in {-1, 1} :
           selected' = ((selected - 1 + step) % (Len(tasks) + 1)) + 1
    /\ UNCHANGED <<screen, wait, slot, refreshing, tasks, active, taskVars,
                   bridgeVars>>

(* resume_session() *)
ResumeSession(index) ==
    /\ refreshing' = FALSE
    /\ BeginAndWait(WithoutRefresh, ResumeRequest(tasks[index].id), "resume",
                    index)

(* start_new_session() *)
StartNewSession ==
    /\ refreshing' = FALSE
    /\ BeginAndWait(WithoutRefresh, StartRequest, "start", 0)

(* A tap on a visible row selects it first; A on the last row, and X,       *)
(* start a task.                                                            *)
ChooseRow ==
    /\ screen = "manager" /\ wait = NotWaiting
    /\ \E row \in {selected} \cup
           Visible(tasks, TaskListFirst(tasks, selected, TaskRows), TaskRows) :
           /\ selected' = row
           /\ IF row \in DOMAIN tasks THEN ResumeSession(row)
              ELSE StartNewSession
    /\ UNCHANGED <<screen, tasks, active, taskVars, bridgeVars>>

ManagerKeys ==
    /\ screen = "manager" /\ wait = NotWaiting
    /\ \/ /\ StartNewSession
          /\ UNCHANGED <<screen, listVars, taskVars, bridgeVars>>
       \/ LeaveForHome

(* attach_to_current_session(): of the rows, the active one and the selected *)
(* one it finds.                                                            *)
Attach(rows, was, chosen, session) ==
    LET left == LeftAt(rows, was, cursor)
        index == IndexOf(left, session)
    IN  /\ tasks' = OpenedAt(left, index)
        /\ active' = index
        /\ selected' = IF index = 0 THEN chosen ELSE index
        /\ cursor' = 0
        /\ current' = session /\ link' = session
        /\ screen' = "agent"

-----------------------------------------------------------------------------
(* A request the thread waits for ends.  It failed if it could not begin,   *)
(* if the transaction did, or if B cancels it; the agent loop then puts the *)
(* link of the open task back, also after a new task could not be started;  *)
(* a new task is opened whether or not the list could be read again.        *)
Over ==
    \/ ~wait.begun /\ slot' = slot
    \/ wait.begun /\ slot.phase = "failed" /\ slot' = Consume(slot)
    \/ wait.begun /\ slot.phase # "idle" /\ slot' = Cancel(slot)

WaitFails ==
    /\ wait # NotWaiting
    /\ Over
    /\ wait' = NotWaiting
    /\ \/ /\ wait.for = "load"
          /\ screen' = "retry"
          /\ tasks' = <<>> /\ active' = 0
          /\ UNCHANGED <<selected, taskVars>>
       \/ /\ wait.for \in {"resume", "start"}
          /\ link' = IF screen = "agent" THEN current ELSE link
          /\ UNCHANGED <<screen, listVars, current, cursor>>
       \/ /\ wait.for = "relist"
          /\ Attach(tasks, active, selected, current)
    /\ UNCHANGED <<refreshing, bridgeVars>>

Loaded(body) == ApplyRows(tasks, active, body)

WaitSucceeds ==
    /\ wait.begun /\ slot.phase = "succeeded"
    /\ \/ /\ wait.for = "load"
          /\ tasks' = Loaded(slot.answer.rows)
          /\ active' = ActiveAfter(tasks, active, tasks')
          /\ selected' = SelectedAfter(selected, tasks')
          /\ slot' = Consume(slot) /\ wait' = NotWaiting
          /\ UNCHANGED <<screen, taskVars>>
       \/ /\ wait.for = "resume"
          /\ Attach(tasks, active, selected, tasks[wait.target].id)
          /\ slot' = Consume(slot) /\ wait' = NotWaiting
       \/ /\ wait.for = "start"
          /\ current' = slot.answer.session
          /\ BeginAndWait(Consume(slot), ListRequest, "relist", 0)
          /\ UNCHANGED <<screen, listVars, cursor, link>>
       \/ /\ wait.for = "relist"
          /\ LET rows == Loaded(slot.answer.rows)
             IN  Attach(rows, ActiveAfter(tasks, active, rows),
                        SelectedAfter(selected, rows), current)
          /\ slot' = Consume(slot) /\ wait' = NotWaiting
    /\ UNCHANGED <<refreshing, bridgeVars>>

-----------------------------------------------------------------------------
(* The agent loop.                                                          *)

(* update_task_refresh() *)
RefreshBegins ==
    /\ screen = "agent" /\ wait = NotWaiting /\ ~refreshing
    /\ slot.phase = "idle"
    /\ \E begin \in BeginRequest(slot, ListRequest) :
           slot' = begin.slot /\ refreshing' = begin.ok
    /\ UNCHANGED <<screen, wait, listVars, taskVars, bridgeVars>>

RefreshEnds ==
    /\ screen = "agent" /\ wait = NotWaiting /\ refreshing
    /\ slot.phase \in {"succeeded", "failed"}
    /\ IF slot.phase = "failed" THEN UNCHANGED listVars
       ELSE /\ tasks' = Loaded(slot.answer.rows)
            /\ active' = ActiveAfter(tasks, active, tasks')
            /\ selected' = SelectedAfter(selected, tasks')
    /\ slot' = Consume(slot) /\ refreshing' = FALSE
    /\ UNCHANGED <<screen, wait, taskVars, bridgeVars>>

(* open_task() of another row: a tap on a visible tab, or one step left or  *)
(* right of the open one.                                                   *)
OpenTask(index) ==
    /\ index \in DOMAIN tasks \ {active}
    /\ link' = NoSession
    /\ ResumeSession(index)
    /\ UNCHANGED <<screen, listVars, current, cursor, bridgeVars>>

StepToAdjacentTask ==
    /\ screen = "agent" /\ wait = NotWaiting
    /\ Len(tasks) >= 2 /\ active # 0
    /\ \E step \in {-1, 1} : OpenTask(((active - 1 + step) % Len(tasks)) + 1)

TapRail ==
    /\ screen = "agent" /\ wait = NotWaiting
    /\ \E index \in Visible(tasks, RailFirst(tasks, active, RailTabs), RailTabs) :
           OpenTask(index)

(* start_and_open_new_task() *)
NewTask ==
    /\ screen = "agent" /\ wait = NotWaiting
    /\ link' = NoSession
    /\ StartNewSession
    /\ UNCHANGED <<screen, listVars, current, cursor, bridgeVars>>

(* B and the manager button; START. *)
LeaveAgent ==
    /\ screen = "agent" /\ wait = NotWaiting
    /\ EnterManager \/ LeaveForHome

(* update_push_link(): only this loop applies what the link brings. *)
ApplyEvent ==
    /\ screen = "agent" /\ wait = NotWaiting
    /\ link # NoSession /\ cursor # last[link]
    /\ \/ cursor < last[link] /\ cursor' = cursor + 1
       \/ cursor' = last[link]                    \* a resynchronisation
    /\ UNCHANGED <<screen, wait, slot, refreshing, listVars, current, link,
                   bridgeVars>>

(* network_pump(), which the retry screen does not call. *)
PumpControl ==
    /\ screen # "retry" \/ wait # NotWaiting
    /\ slot' \in Pump(slot)
    /\ UNCHANGED <<screen, wait, refreshing, listVars, taskVars, bridgeVars>>

-----------------------------------------------------------------------------
(* The bridge.                                                              *)

Answer(r, ok) == [to |-> r, ok |-> ok, reusable |-> TRUE]

Rows == [i \in 1..Min({Len(order), TaskLimit}) |->
            [id |-> order[i], last |-> last[order[i]]]]

ListAnswer(r, reusable) ==
    [to |-> r, ok |-> TRUE, reusable |-> reusable, rows |-> Rows]

StartAnswer(r, s) ==
    [to |-> r, ok |-> TRUE, reusable |-> TRUE, session |-> s]

Known == Range(order)

Added(s) == IF s \in Known THEN order ELSE Append(order, s)

(* append() for that task. *)
News(s) == [last EXCEPT ![s] = Min({@ + 1, MaxSequence})]

(* A task that is resumed or started has an event of it.                    *)
ServeControl ==
    /\ slot.up # <<>> /\ ~Ended(slot)
    /\ LET r == Head(slot.up)
       IN  \/ /\ slot' = Serve(slot, Answer(r, FALSE))
              /\ UNCHANGED bridgeVars
           \/ /\ r.type = "list"
              /\ \E reusable \in BOOLEAN :
                    slot' = Serve(slot, ListAnswer(r, reusable))
              /\ UNCHANGED bridgeVars
           \/ /\ r.type = "resume"
              /\ slot' = Serve(slot, Answer(r, TRUE))
              /\ last' = News(r.session)
              /\ UNCHANGED order
           \/ /\ r.type = "start"
              /\ \E s \in Sessions \ Known :
                    /\ order' = Added(s)
                    /\ last' = News(s)
                    /\ slot' = Serve(slot, StartAnswer(r, s))
    /\ UNCHANGED <<screen, wait, refreshing, listVars, taskVars>>

(* A task has news, also one the bridge had not heard of. *)
Publish ==
    /\ \E s \in Sessions :
          /\ last[s] < MaxSequence
          /\ last' = News(s) /\ order' = Added(s)
    /\ UNCHANGED <<screen, wait, slot, refreshing, listVars, taskVars>>

(* The bridge stops and starts: its connections end, the logs start again,  *)
(* and the tasks are listed as they were last used.                         *)
RestartBridge ==
    /\ slot' = EndLine(slot)
    /\ order' \in SetToSeqs(Known)
    /\ last' = [s \in Sessions |-> 0]
    /\ UNCHANGED <<screen, wait, refreshing, listVars, taskVars>>

Next ==
    \/ Connect \/ Retry \/ MoveSelection \/ ChooseRow \/ ManagerKeys
    \/ WaitFails \/ WaitSucceeds
    \/ RefreshBegins \/ RefreshEnds
    \/ StepToAdjacentTask \/ TapRail \/ NewTask \/ LeaveAgent \/ ApplyEvent
    \/ PumpControl \/ ServeControl \/ Publish \/ RestartBridge

(* The thread runs: it pumps the network and looks at what it waits for.    *)
Fairness ==
    /\ WF_vars(PumpControl)
    /\ WF_vars((wait # NotWaiting /\ ~InProgress(slot)) /\ (WaitFails \/ WaitSucceeds))

Spec == Init /\ [][Next]_vars /\ Fairness

-----------------------------------------------------------------------------
SlotRequests ==
    {NoRequest, ListRequest, StartRequest} \cup
        {ResumeRequest(s) : s \in Sessions}

TypeOK ==
    /\ screen \in {"home", "manager", "retry", "agent"}
    /\ wait.for \in {"nothing", "load", "resume", "start", "relist"}
    /\ slot.phase \in {"idle", "connecting", "sending", "receiving",
                      "succeeded", "failed"}
    /\ slot.request \in SlotRequests /\ slot.open \in BOOLEAN
    /\ refreshing \in BOOLEAN
    /\ Len(tasks) <= TaskLimit
    /\ active \in 0..Len(tasks) /\ selected \in 1..TaskLimit + 1
    /\ {current, link} \subseteq Sessions \cup {NoSession}
    /\ cursor \in 0..MaxSequence

Running == screen = "agent" /\ wait = NotWaiting

(* The rail and the agent loop agree: the pushed link is that of the current *)
(* session, the row that is marked as open is that session's and is read,    *)
(* and no two rows are one task.  The list is cut to its limit, reordered by *)
(* a restart of the bridge, and replaced by three requests.                  *)
RailShowsTheOpenTask ==
    Running =>
        /\ link = current /\ current # NoSession
        /\ active # 0 => /\ tasks[active].id = current
                         /\ ~tasks[active].unread
        /\ \A i, j \in DOMAIN tasks : tasks[i].id = tasks[j].id => i = j

(* What a transaction that succeeded holds is the answer to its own request: *)
(* the answer to one that was cancelled or that timed out never is.          *)
AnswersMatch == slot.phase = "succeeded" => slot.answer.to = slot.request

(* The one transaction has one owner: the request the thread waits for, or   *)
(* the background refresh, never both and never neither.  A loop that began  *)
(* a request in the other's slot would be refused it, or take its answer.    *)
SlotIsOwned ==
    /\ slot.phase # "idle" => (wait.begun \/ (refreshing /\ wait = NotWaiting))
    /\ wait.begun => slot.phase # "idle" /\ ~refreshing
    /\ Running /\ refreshing => slot.phase # "idle"

(* The thread does not wait for ever for a request, whatever the bridge does. *)
EveryWaitEnds == wait # NotWaiting ~> wait = NotWaiting
=============================================================================
