------------------------------ MODULE TaskList ------------------------------
(***************************************************************************)
(* The task list of the 3DS (client-3ds/source/main.c, tasks) and the      *)
(* windows the rail and the task manager show of it                        *)
(* (client-3ds/source/ui.c), as pure operators.  A row is                  *)
(*   id      session_ids[i],    unread  tasks[i].unread,                   *)
(*   seen    task_seen_sequence[i].                                        *)
(* Rows are numbered from 1, and the index 0 stands for an active task     *)
(* that is not valid.  A row of a response is [id, last].                  *)
(***************************************************************************)
EXTENDS Integers, Sequences, FiniteSetsExt

CONSTANTS
    NoSession,
    TaskLimit,      \* MAX_SESSION_CHOICES, and the limit of the request
    Everything      \* 0xFFFFFFFF: a sequence number no event has

ASSUME TaskListAssumption ==
    /\ TaskLimit \in Nat \ {0}
    /\ Everything \in Nat

Row(id, unread, seen) == [id |-> id, unread |-> unread, seen |-> seen]

IdAt(tasks, index) == IF index \in DOMAIN tasks THEN tasks[index].id ELSE NoSession

(* The index of a session's first row, 0 if it has none. *)
IndexOf(tasks, id) ==
    LET rows == {i \in DOMAIN tasks : tasks[i].id = id}
    IN  IF rows = {} THEN 0 ELSE Min(rows)

(* What the user was shown of a session: all of it if it is the open one or *)
(* was not in the list, else what the list remembers.                       *)
SeenOf(tasks, active, row) ==
    LET known == IndexOf(tasks, row.id)
    IN  IF row.id = IdAt(tasks, active) \/ known = 0 THEN row.last
        ELSE tasks[known].seen

(* apply_session_list(): the rows of the response, the open task found      *)
(* again by its session, and a selection that is still a row.               *)
ApplyRows(tasks, active, body) ==
    [i \in 1..Min({Len(body), TaskLimit}) |->
        LET seen == SeenOf(tasks, active, body[i])
        IN  Row(body[i].id, body[i].last > seen, seen)]

(* A faulty version that keeps the position instead of the session. *)
ActiveByPosition(tasks, active, rows) ==
    IF active \in DOMAIN rows THEN active ELSE 0

ActiveAfter(tasks, active, rows) ==
    IF IdAt(tasks, active) = NoSession THEN 0
    ELSE IndexOf(rows, IdAt(tasks, active))

SelectedAfter(selected, rows) == Min({selected, Len(rows) + 1})

(* attach_to_current_session(): the task that is left was read up to the    *)
(* cursor, the one that is opened is never unread.                          *)
LeftAt(tasks, active, cursor) ==
    IF active \in DOMAIN tasks THEN [tasks EXCEPT ![active].seen = cursor]
    ELSE tasks

OpenedAt(tasks, index) ==
    IF index = 0 THEN tasks
    ELSE [tasks EXCEPT ![index].unread = FALSE, ![index].seen = Everything]

-----------------------------------------------------------------------------
(* ui_rail_first() and ui_task_list_first(): how many rows are before the   *)
(* first visible one, so that the given row is among the visible.           *)
WindowFirst(count, size, anchor) ==
    IF count <= size THEN 0
    ELSE Min({IF anchor > size THEN anchor - size ELSE 0, count - size})

RailFirst(tasks, active, tabs) ==
    IF active = 0 THEN 0 ELSE WindowFirst(Len(tasks), tabs, active)

(* The row one past the end starts a new task and keeps the window. *)
TaskListFirst(tasks, selected, size) ==
    WindowFirst(Len(tasks), size, Min({selected, Len(tasks)}))

(* The rows a window shows. *)
Visible(tasks, first, size) == first + 1 .. Min({first + size, Len(tasks)})
=============================================================================
