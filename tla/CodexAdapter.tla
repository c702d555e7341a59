---------------------------- MODULE CodexAdapter ----------------------------
(***************************************************************************)
(* The adapter between the bridge's sessions and the Codex app-server      *)
(* (bridge/src/codex-agent-adapter.ts) over its JSON-RPC client            *)
(* (AppServerClient), with the app-server as their environment.            *)
(*                                                                         *)
(* A job is a call of the adapter that awaits the app-server: a text, an   *)
(* interrupt, or the opening of a session.  The bridge is one event loop:  *)
(* it reads the lines of a chunk one after the other, and the code that    *)
(* awaits a promise goes on after the chunk, before another chunk, a timer *)
(* or a new call.                                                          *)
(*                                                                         *)
(* The app-server (external) runs one turn per session at a time, under    *)
(* the name of the text that started it; a session is a thread.  Its       *)
(* answer to turn/start is written before or after it tells that the turn  *)
(* has started or has ended.                                               *)
(***************************************************************************)
EXTENDS AppServerClient

CONSTANTS
    Sessions,
    Texts, Interrupts, Opens,   \* jobs, by what they ask for; an opening
                                \* starts or resumes a session
    Approvals,                  \* approval requests of the app-server
    NoTurn, NoApproval,
    TerminalLimit,              \* ended turns remembered (256 in the code)
    MaxNotices                  \* bound: status and error notifications

Jobs == Texts \cup Interrupts \cup Opens

ASSUME AdapterAssumption ==
    /\ TerminalLimit \in Nat \ {0}
    /\ MaxNotices \in Nat
    /\ NoTurn \notin Texts /\ NoApproval \notin Approvals
    /\ Texts \cap Interrupts = {}

VARIABLES
    bridge,         \* "up", "closing" or "crashed"
    client,         \* the JSON-RPC client
    midChunk,       \* more lines of the chunk being read may follow
    stdout,         \* lines of the app-server that are still to be read
    job,            \* per job, its phase
    record,         \* per session, the thread's record
    approvals,      \* pendingApprovals
    startedTurns, terminalTurns,
    server,         \* the app-server: alive, its threads, the running turn of
                    \* each, turn/start calls it owes an answer, approvals it
                    \* waits for
    asked,          \* approvals asked so far
    notices,        \* status and error notifications so far
    carriedOut,     \* history: texts whose turn the app-server started
    turnLog,        \* history: per turn, the turn events published
    decided,        \* per approval, the decisions its responder has written
    approvalLog     \* history: per approval, the approval events published

adapterVars == <<record, approvals, startedTurns, terminalTurns>>
serverVars == <<server, asked, notices, carriedOut>>
logVars == <<turnLog, decided, approvalLog>>
vars == <<bridge, client, midChunk, stdout, job, adapterVars, serverVars,
          logVars>>

(* The sessions known at the start are those of #loadRecentThreads(). *)
Init ==
    /\ bridge = "up"
    /\ client = Started
    /\ midChunk = FALSE
    /\ stdout = <<>>
    /\ job = [j \in Jobs |-> "new"]
    /\ \E known \in SUBSET Sessions :
          /\ record = [s \in Sessions |->
                          [known |-> s \in known, loaded |-> FALSE,
                           state |-> "idle", turn |-> NoTurn,
                           approval |-> NoApproval]]
          /\ server = [alive |-> TRUE, threads |-> known,
                       running |-> [s \in Sessions |-> NoTurn],
                       owed |-> {}, asking |-> {}]
    /\ approvals = {}
    /\ startedTurns = {} /\ terminalTurns = <<>>
    /\ asked = {}
    /\ notices = 0
    /\ carriedOut = {}
    /\ turnLog = [t \in Texts |-> <<>>]
    /\ approvalLog = [a \in Approvals |-> <<>>]
    /\ decided = [a \in Approvals |-> <<>>]

Call(j, method, s, t) == [job |-> j, method |-> method, session |-> s, turn |-> t]

Pending(a, s, t) == [approval |-> a, session |-> s, turn |-> t]

(* Nothing waits in the microtask queue. *)
Idle == bridge = "up" /\ client.settled = <<>>

-----------------------------------------------------------------------------
(* The calls of the adapter. *)

(* submitText() after #ensureLoaded(): a turn is asked for unless one is    *)
(* active.                                                                  *)
StartTurn(c, x, s) ==
    IF record[s].turn # NoTurn
    THEN /\ job' = [job EXCEPT ![x] = "failed"]
         /\ client' = c
    ELSE /\ job' = [job EXCEPT ![x] = "waiting"]
         /\ client' = Request(c, Call(x, "turn/start", s, x))

(* submitText(): a session that is not loaded is resumed first. *)
SubmitText(x, s) ==
    /\ Idle /\ job[x] = "new" /\ record[s].known
    /\ IF record[s].loaded THEN StartTurn(client, x, s)
       ELSE /\ job' = [job EXCEPT ![x] = "waiting"]
            /\ client' = Request(client, Call(x, "thread/resume", s, NoTurn))
    /\ UNCHANGED <<bridge, midChunk, stdout, adapterVars, serverVars, logVars>>

(* A call that is one request. *)
Ask(j, method, s, t) ==
    /\ Idle /\ job[j] = "new"
    /\ job' = [job EXCEPT ![j] = "waiting"]
    /\ client' = Request(client, Call(j, method, s, t))
    /\ UNCHANGED <<bridge, midChunk, stdout, adapterVars, serverVars, logVars>>

(* resumeSession() *)
ResumeSession(o, s) ==
    record[s].known /\ Ask(o, "thread/resume", s, NoTurn)

(* startSession(): s will be a thread nobody has heard of. *)
StartSession(o, s) ==
    /\ ~record[s].known /\ s \notin server.threads
    /\ \A i \in 1 .. Len(client.stdin) :
          client.stdin[i].kind = "request" => client.stdin[i].request.session # s
    /\ Ask(o, "thread/start", s, NoTurn)

(* interrupt(): without an active turn it fails at once. *)
Interrupt(i, s) ==
    record[s].turn # NoTurn /\ Ask(i, "turn/interrupt", s, record[s].turn)

-----------------------------------------------------------------------------
(* The code that goes on after an await. *)

(* A faulty #markTurnStarted() that trusts every announcement of a turn. *)
MarkTurnStartedAlways(records, s, t) ==
    /\ record' = [records EXCEPT ![s].turn = t, ![s].state = "working"]
    /\ startedTurns' = startedTurns \cup {t}
    /\ turnLog' = IF t \in startedTurns THEN turnLog
                  ELSE [turnLog EXCEPT ![t] = Append(@, "started")]

(* #markTurnStarted(): a turn that ended is not started again. *)
MarkTurnStarted(records, s, t) ==
    IF \E i \in 1 .. Len(terminalTurns) : terminalTurns[i] = t
    THEN record' = records /\ UNCHANGED <<startedTurns, turnLog>>
    ELSE /\ record' = [records EXCEPT ![s].turn = t, ![s].state = "working"]
         /\ startedTurns' = startedTurns \cup {t}
         /\ turnLog' = IF t \in startedTurns THEN turnLog
                       ELSE [turnLog EXCEPT ![t] = Append(@, "started")]

(* #registerThread(): the status reported counts unless a turn or an        *)
(* approval is known.                                                       *)
Registered(s, status) ==
    [record EXCEPT
        ![s].known = TRUE, ![s].loaded = TRUE,
        ![s].state = IF record[s].turn = NoTurn /\ record[s].approval = NoApproval
                     THEN status ELSE @]

(* The promise settled first goes on first. *)
Settled == bridge # "crashed" /\ client.settled # <<>>
Outcome == Head(client.settled)
Caller == Outcome.request.job
Consumed == [client EXCEPT !.settled = Tail(@)]

Resolves(method) == Settled /\ Outcome.ok /\ Outcome.request.method = method

Finish(phase) ==
    /\ client' = Consumed
    /\ job' = [job EXCEPT ![Caller] = phase]

GoOnRejected ==
    /\ Settled /\ ~Outcome.ok
    /\ Finish("failed")
    /\ midChunk' = FALSE
    /\ UNCHANGED <<bridge, stdout, adapterVars, serverVars, logVars>>

(* A text that needed the session goes on some microtasks later, behind     *)
(* everything settled by now.                                               *)
GoOnOpened ==
    /\ Resolves("thread/resume") \/ Resolves("thread/start")
    /\ record' = Registered(Outcome.request.session, Outcome.status)
    /\ IF Caller \in Texts
       THEN /\ client' = [Consumed EXCEPT !.settled = Append(@,
                  Resolved(Call(Caller, "loaded", Outcome.request.session, NoTurn),
                           "none"))]
            /\ UNCHANGED job
       ELSE Finish("succeeded")
    /\ midChunk' = FALSE
    /\ UNCHANGED <<bridge, stdout, approvals, startedTurns, terminalTurns,
                   serverVars, logVars>>

GoOnLoaded ==
    /\ Resolves("loaded")
    /\ StartTurn(Consumed, Caller, Outcome.request.session)
    /\ midChunk' = FALSE
    /\ UNCHANGED <<bridge, stdout, adapterVars, serverVars, logVars>>

GoOnStarted ==
    /\ Resolves("turn/start")
    /\ MarkTurnStarted(record, Outcome.request.session, Outcome.request.turn)
    /\ Finish("succeeded")
    /\ midChunk' = FALSE
    /\ UNCHANGED <<bridge, stdout, approvals, terminalTurns, serverVars,
                   approvalLog, decided>>

GoOnInterrupted ==
    /\ Resolves("turn/interrupt")
    /\ Finish("succeeded")
    /\ midChunk' = FALSE
    /\ UNCHANGED <<bridge, stdout, adapterVars, serverVars, logVars>>

(* #requestInternal(): a request is given up after 15 seconds. *)
TimeOut ==
    /\ Idle
    /\ \E i \in 1 .. Len(client.pending) :
          client' = SettleRequest(client, Rejected(client.pending[i]))
    /\ UNCHANGED <<bridge, midChunk, stdout, job, adapterVars, serverVars, logVars>>

-----------------------------------------------------------------------------
(* The lines of the app-server: #handleLine(), #onNotification() and        *)
(* #onServerRequest().                                                      *)

Line == Head(stdout)

Reading(kind) ==
    /\ bridge = "up" /\ client.state = "ready"
    /\ client.settled = <<>> \/ midChunk
    /\ stdout # <<>> /\ Line.kind = kind
    /\ stdout' = Tail(stdout)

(* #recordForThreadId(): an unknown thread is taken for a loaded, active    *)
(* one.                                                                     *)
Recorded(s) ==
    IF record[s].known THEN record
    ELSE [record EXCEPT ![s].known = TRUE, ![s].loaded = TRUE,
                        ![s].state = "working"]

ReadResponse ==
    /\ Reading("response")
    /\ client' = DispatchResponse(client, Line.outcome)
    /\ midChunk' = (client'.settled # <<>>)
    /\ UNCHANGED <<bridge, job, adapterVars, serverVars, logVars>>

ReadTurnStarted ==
    /\ Reading("started")
    /\ MarkTurnStarted(Recorded(Line.session), Line.session, Line.turn)
    /\ UNCHANGED <<bridge, client, midChunk, job, approvals, terminalTurns,
                   serverVars, approvalLog, decided>>

(* The status counts unless an approval is pending. *)
ReadStatus ==
    /\ Reading("status")
    /\ LET s == Line.session IN
          record' = IF Recorded(s)[s].approval # NoApproval THEN record
                    ELSE [Recorded(s) EXCEPT ![s].state = Line.status]
    /\ UNCHANGED <<bridge, client, midChunk, job, approvals, startedTurns,
                   terminalTurns, serverVars, logVars>>

(* An error that the app-server will not retry. *)
ReadError ==
    /\ Reading("error")
    /\ record' = [Recorded(Line.session) EXCEPT ![Line.session].state = "failed"]
    /\ UNCHANGED <<bridge, client, midChunk, job, approvals, startedTurns,
                   terminalTurns, serverVars, logVars>>

Logged(log, some, entry) ==
    [a \in Approvals |->
        IF \E p \in some : p.approval = a THEN Append(log[a], entry) ELSE log[a]]

(* Approvals are answered with a decision; a responder writes one answer.   *)
Unanswered(some) == {p \in some : decided[p.approval] = <<>>}

RespondAll(some, decision) ==
    Respond(client, SetToSeq({p.approval : p \in Unanswered(some)}), decision)

(* The decision is published as well. *)
Answer(some, decision) ==
    /\ decided' = Logged(decided, Unanswered(some), decision)
    /\ approvalLog' = Logged(approvalLog, some, decision)

(* A faulty handler that takes a second approval while one is pending. *)
TakeApprovalAlways(p) ==
    /\ approvals' = approvals \cup {p}
    /\ record' = [Recorded(p.session) EXCEPT
                     ![p.session].approval = p.approval,
                     ![p.session].state = "waiting_for_user"]
    /\ approvalLog' = Logged(approvalLog, {p}, "requested")
    /\ UNCHANGED <<client, decided>>

(* A second approval of a session is cancelled at once; otherwise it is     *)
(* shown and waits.                                                         *)
TakeApproval(p) ==
    IF record[p.session].approval # NoApproval
    THEN /\ client' = RespondAll({p}, "cancel")
         /\ decided' = Logged(decided, {p}, "cancel")
         /\ UNCHANGED <<approvals, record, approvalLog>>
    ELSE /\ approvals' = approvals \cup {p}
         /\ record' = [Recorded(p.session) EXCEPT
                          ![p.session].approval = p.approval,
                          ![p.session].state = "waiting_for_user"]
         /\ approvalLog' = Logged(approvalLog, {p}, "requested")
         /\ UNCHANGED <<client, decided>>

ReadApprovalRequest ==
    /\ Reading("approval")
    /\ TakeApproval(Pending(Line.approval, Line.session, Line.turn))
    /\ UNCHANGED <<bridge, midChunk, job, startedTurns, terminalTurns,
                   serverVars, turnLog>>

(* A faulty #completeTurn() that does not remember that the turn ended. *)
RememberNothing(t) == terminalTurns

(* The last TerminalLimit ended turns are remembered. *)
Remember(t) ==
    LET all == Append(terminalTurns, t) IN
    IF Len(all) > TerminalLimit THEN Tail(all) ELSE all

(* #completeTurn(): the approvals of the turn are cancelled. *)
ReadTurnCompleted ==
    /\ Reading("completed")
    /\ LET s == Line.session
           t == Line.turn
           ended == {p \in approvals : p.session = s /\ p.turn = t}
       IN  /\ client' = RespondAll(ended, "cancel")
           /\ Answer(ended, "cancel")
           /\ approvals' = approvals \ ended
           /\ record' = [Recorded(s) EXCEPT
                            ![s].turn = NoTurn, ![s].approval = NoApproval,
                            ![s].state = IF Line.failed THEN "failed" ELSE "idle"]
           /\ startedTurns' = startedTurns \ {t}
           /\ terminalTurns' = Remember(t)
           /\ turnLog' = [turnLog EXCEPT ![t] = Append(@, "completed")]
    /\ UNCHANGED <<bridge, midChunk, job, serverVars>>

(* #onStdout(): a line longer than maximumLineBytes ends the client.        *)
LineTooLong ==
    /\ bridge = "up" /\ client.state = "ready" /\ server.alive
    /\ client.settled = <<>> \/ midChunk
    /\ client' = FailAll(client, "failed")
    /\ stdout' = <<>>
    /\ UNCHANGED <<bridge, midChunk, job, adapterVars, serverVars, logVars>>

(* The child's exit closes its stdin and fails the client. *)
NoticeExit ==
    /\ Idle /\ ~server.alive /\ client.writable
    /\ client' = [FailAll(client, "failed") EXCEPT !.writable = FALSE]
    /\ stdout' = <<>>
    /\ UNCHANGED <<bridge, midChunk, job, adapterVars, serverVars, logVars>>

-----------------------------------------------------------------------------
(* Answers that do not come from the app-server. *)

AfterApproval(s) ==
    [record EXCEPT
        ![s].approval = NoApproval,
        ![s].state = IF record[s].turn = NoTurn THEN "idle" ELSE "working"]

(* A faulty respondToApproval() that leaves the approval and its timer. *)
RespondAndKeep(p) ==
    /\ Idle
    /\ p \in approvals
    /\ \/ /\ client.writable
          /\ client' = RespondAll({p}, "accept")
          /\ Answer({p}, "accept")
          /\ record' = AfterApproval(p.session)
       \/ /\ ~client.writable
          /\ UNCHANGED <<client, decided, approvalLog, record>>
    /\ UNCHANGED <<bridge, approvals, midChunk, stdout, job, startedTurns,
                   terminalTurns, serverVars, turnLog>>

(* respondToApproval(): when the answer cannot be written, the approval is  *)
(* forgotten but still shown.                                               *)
RespondToApproval(p) ==
    /\ Idle
    /\ p \in approvals
    /\ approvals' = approvals \ {p}
    /\ \/ /\ client.writable
          /\ client' = RespondAll({p}, "accept")
          /\ Answer({p}, "accept")
          /\ record' = AfterApproval(p.session)
       \/ /\ ~client.writable
          /\ UNCHANGED <<client, decided, approvalLog, record>>
    /\ UNCHANGED <<bridge, midChunk, stdout, job, startedTurns, terminalTurns,
                   serverVars, turnLog>>

(* A faulty timer that clears the approval without telling the app-server. *)
ExpireSilently(p) ==
    /\ Idle
    /\ p \in approvals
    /\ approvals' = approvals \ {p}
    /\ record' = AfterApproval(p.session)
    /\ UNCHANGED <<bridge, client, decided, approvalLog, midChunk, stdout, job,
                   startedTurns, terminalTurns, serverVars, turnLog>>

(* The timer of an approval, after five minutes.  An answer that cannot be  *)
(* written is an exception nobody catches.                                  *)
Expire(p) ==
    /\ Idle
    /\ p \in approvals
    /\ approvals' = approvals \ {p}
    /\ \/ /\ client.writable
          /\ client' = RespondAll({p}, "cancel")
          /\ Answer({p}, "cancel")
          /\ record' = AfterApproval(p.session)
          /\ UNCHANGED bridge
       \/ /\ ~client.writable
          /\ bridge' = "crashed"
          /\ UNCHANGED <<client, decided, approvalLog, record>>
    /\ UNCHANGED <<midChunk, stdout, job, startedTurns, terminalTurns,
                   serverVars, turnLog>>

(* shutdown(): pending approvals are cancelled, the client is closed and    *)
(* the child killed.  An answer that cannot be written stops it halfway.    *)
Shutdown ==
    /\ Idle
    /\ \/ /\ client.writable \/ approvals = {}
          /\ bridge' = "closing"
          /\ client' = FailAll(RespondAll(approvals, "cancel"), "closed")
          /\ Answer(approvals, "cancel")
          /\ approvals' = {}
          /\ stdout' = <<>>
       \/ /\ ~client.writable /\ approvals # {}
          /\ bridge' = "crashed"
          /\ UNCHANGED <<client, decided, approvalLog, approvals, stdout>>
    /\ UNCHANGED <<midChunk, job, record, startedTurns, terminalTurns,
                   serverVars, turnLog>>

-----------------------------------------------------------------------------
(* The app-server.                                                          *)

ResponseLine(outcome) == [kind |-> "response", outcome |-> outcome]
StartedLine(s, t) == [kind |-> "started", session |-> s, turn |-> t]
CompletedLine(s, failed) ==
    [kind |-> "completed", session |-> s, turn |-> server.running[s],
     failed |-> failed]
StatusLine(s, status) == [kind |-> "status", session |-> s, status |-> status]
ErrorLine(s) == [kind |-> "error", session |-> s]
ApprovalLine(a, s) ==
    [kind |-> "approval", approval |-> a, session |-> s,
     turn |-> server.running[s]]

Status(s) ==
    IF server.running[s] = NoTurn THEN "idle"
    ELSE IF \E p \in server.asking : p.session = s THEN "waiting_for_user"
    ELSE "working"

(* What is written to a client that has failed or is closed is not read.    *)
Say(lines) ==
    stdout' = IF client.state = "ready" THEN stdout \o lines ELSE stdout

(* What the app-server is when a turn of s has ended: nobody waits for the  *)
(* turn's approvals.                                                        *)
TurnOver(s) ==
    [server EXCEPT !.running[s] = NoTurn,
                   !.asking = {p \in @ : p.session # s}]

bridgeVars == <<bridge, midChunk, job, adapterVars, logVars>>

Serving(kind) ==
    /\ server.alive
    /\ client.stdin # <<>> /\ Head(client.stdin).kind = kind
    /\ client' = [client EXCEPT !.stdin = Tail(@)]
    /\ UNCHANGED <<bridgeVars, asked, notices>>

Asks(method) ==
    Serving("request") /\ Head(client.stdin).request.method = method

ServerRefuses ==
    /\ Serving("request")
    /\ Say(<<ResponseLine(Rejected(Head(client.stdin).request))>>)
    /\ UNCHANGED <<server, carriedOut>>

ServerOpens ==
    /\ Asks("thread/resume") \/ Asks("thread/start")
    /\ LET r == Head(client.stdin).request IN
          /\ server' = [server EXCEPT !.threads = @ \cup {r.session}]
          /\ Say(<<ResponseLine(Resolved(r, Status(r.session)))>>)
    /\ UNCHANGED carriedOut

(* The answer to turn/start comes before, with or after what follows it.    *)
ServerStartsTurn ==
    /\ Asks("turn/start")
    /\ LET r == Head(client.stdin).request
           running == [server EXCEPT !.running[r.session] = r.turn]
           started == StartedLine(r.session, r.turn)
       IN  /\ server.running[r.session] = NoTurn
           /\ carriedOut' = carriedOut \cup {r.turn}
           /\ \/ /\ server' = running
                 /\ Say(<<ResponseLine(Resolved(r, "none")), started>>)
              \/ /\ server' = [running EXCEPT !.owed = @ \cup {r}]
                 /\ Say(<<started>>)

ServerAnswersTurn(r) ==
    /\ server.alive /\ r \in server.owed
    /\ server' = [server EXCEPT !.owed = @ \ {r}]
    /\ Say(<<ResponseLine(Resolved(r, "none"))>>)
    /\ UNCHANGED <<bridgeVars, client, asked, notices, carriedOut>>

ServerInterrupts ==
    /\ Asks("turn/interrupt")
    /\ LET r == Head(client.stdin).request IN
          /\ server.running[r.session] = r.turn
          /\ server' = TurnOver(r.session)
          /\ Say(<<ResponseLine(Resolved(r, "none")),
                   CompletedLine(r.session, FALSE)>>)
    /\ UNCHANGED carriedOut

ServerTakesAnswer ==
    /\ Serving("answer")
    /\ server' = [server EXCEPT
                     !.asking = {p \in @ : p.approval # Head(client.stdin).approval}]
    /\ UNCHANGED <<stdout, carriedOut>>

ServerAsks(a, s) ==
    /\ server.alive /\ a \notin asked /\ server.running[s] # NoTurn
    /\ asked' = asked \cup {a}
    /\ server' = [server EXCEPT
                     !.asking = @ \cup {Pending(a, s, server.running[s])}]
    /\ Say(<<ApprovalLine(a, s)>>)
    /\ UNCHANGED <<bridgeVars, client, notices, carriedOut>>

(* A turn does not end by itself while it waits for an approval.            *)
ServerEndsTurn(s) ==
    /\ server.alive /\ server.running[s] # NoTurn
    /\ \A p \in server.asking : p.session # s
    /\ server' = TurnOver(s)
    /\ \E failed \in BOOLEAN : Say(<<CompletedLine(s, failed)>>)
    /\ UNCHANGED <<bridgeVars, client, asked, notices, carriedOut>>

ServerNotifies(s) ==
    /\ server.alive /\ s \in server.threads /\ notices < MaxNotices
    /\ notices' = notices + 1
    /\ Say(<<StatusLine(s, Status(s))>>) \/ Say(<<ErrorLine(s)>>)
    /\ UNCHANGED <<bridgeVars, client, server, asked, carriedOut>>

(* What the child has not read is lost; what it has written can be read.    *)
ServerDies ==
    /\ server.alive
    /\ server' = [alive |-> FALSE, threads |-> {},
                  running |-> [s \in Sessions |-> NoTurn],
                  owed |-> {}, asking |-> {}]
    /\ client' = [client EXCEPT !.stdin = <<>>]
    /\ UNCHANGED <<bridgeVars, stdout, asked, notices, carriedOut>>

-----------------------------------------------------------------------------
Reads ==
    \/ ReadResponse \/ ReadTurnStarted \/ ReadTurnCompleted
    \/ ReadStatus \/ ReadError \/ ReadApprovalRequest

GoesOn ==
    \/ GoOnRejected \/ GoOnOpened \/ GoOnLoaded
    \/ GoOnStarted \/ GoOnInterrupted

Serves ==
    \/ ServerRefuses \/ ServerOpens \/ ServerStartsTurn
    \/ ServerInterrupts \/ ServerTakesAnswer

CallsOn(s) ==
    \/ \E x \in Texts : SubmitText(x, s)
    \/ \E o \in Opens : ResumeSession(o, s) \/ StartSession(o, s)
    \/ \E i \in Interrupts : Interrupt(i, s)

Next ==
    \/ Reads \/ GoesOn \/ Serves
    \/ \E s \in Sessions : CallsOn(s)
    \/ \E s \in Sessions, a \in Approvals : ServerAsks(a, s)
    \/ \E s \in Sessions : ServerEndsTurn(s) \/ ServerNotifies(s)
    \/ \E r \in server.owed : ServerAnswersTurn(r)
    \/ \E p \in approvals : RespondToApproval(p) \/ Expire(p)
    \/ TimeOut \/ LineTooLong \/ NoticeExit \/ Shutdown \/ ServerDies

(* The bridge reads what it is sent, runs what has settled and fires its    *)
(* timers; the app-server reads what it is sent and ends its turns.         *)
(* Nobody has to answer an approval.                                        *)
Fairness ==
    /\ WF_vars(Reads) /\ WF_vars(GoesOn) /\ WF_vars(Serves)
    /\ WF_vars(TimeOut) /\ WF_vars(NoticeExit)
    /\ WF_vars(\E p \in approvals : Expire(p))
    /\ \A s \in Sessions : WF_vars(ServerEndsTurn(s))

Spec == Init /\ [][Next]_vars /\ Fairness

-----------------------------------------------------------------------------
(* Types, and the bounds the code sets: at most PendingLimit requests are   *)
(* outstanding and TerminalLimit ended turns remembered.                    *)
TypeOK ==
    /\ bridge \in {"up", "closing", "crashed"}
    /\ client.state \in {"ready", "failed", "closed"}
    /\ {client.writable, midChunk, server.alive} \subseteq BOOLEAN
    /\ Len(client.pending) <= PendingLimit
    /\ job \in [Jobs -> {"new", "waiting", "succeeded", "failed"}]
    /\ \A s \in Sessions :
          /\ {record[s].known, record[s].loaded} \subseteq BOOLEAN
          /\ record[s].state \in {"idle", "working", "waiting_for_user", "failed"}
          /\ record[s].turn \in Texts \cup {NoTurn}
          /\ record[s].approval \in Approvals \cup {NoApproval}
    /\ startedTurns \subseteq Texts /\ terminalTurns \in Seq(Texts)
    /\ Len(terminalTurns) <= TerminalLimit
    /\ notices \in 0 .. MaxNotices

(* A turn is published as started once and then as completed once, whatever *)
(* the order in which the response and the notifications of the turn are    *)
(* read and the awaiting code runs (#markTurnStarted(), #completeTurn()).   *)
TurnsAreBracketed ==
    \A t \in Texts : turnLog[t] \in {<<>>, <<"started">>, <<"started", "completed">>}

(* When the bridge has read everything and nothing waits to go on, each     *)
(* session has the active turn that the app-server runs.                    *)
KnowsTheTurn ==
    (/\ server.alive /\ client.state = "ready"
     /\ stdout = <<>> /\ client.settled = <<>>)
    => \A s \in Sessions : record[s].turn = server.running[s]

(* An approval that the app-server waits for is on its way in, shown and    *)
(* answerable, or its answer is on its way out, as long as the client can   *)
(* read.  And a session shows no approval that nobody can answer, as long   *)
(* as answers can be written.                                               *)
ApprovalsAreNotLost ==
    /\ client.state = "ready" =>
          \A p \in server.asking :
             \/ \E i \in 1 .. Len(stdout) :
                   stdout[i].kind = "approval" /\ stdout[i].approval = p.approval
             \/ p \in approvals /\ record[p.session].approval = p.approval
             \/ \E i \in 1 .. Len(client.stdin) :
                   /\ client.stdin[i].kind = "answer"
                   /\ client.stdin[i].approval = p.approval
    /\ bridge = "up" /\ client.writable =>
          \A s \in Sessions :
             \/ record[s].approval = NoApproval
             \/ \E p \in approvals :
                   p.session = s /\ p.approval = record[s].approval

(* An approval gets one decision, and what is published to the 3DS as the   *)
(* resolution of an approval is the decision that was written to the        *)
(* app-server: the user's, or a cancellation by the timer, by the end of    *)
(* the turn or by the shutdown, whichever came first.                       *)
ResolvedAsDecided ==
    \A a \in Approvals :
        /\ Len(decided[a]) <= 1
        /\ approvalLog[a] # <<>> => approvalLog[a] = <<"requested">> \o decided[a]

(* No session stays busy: a turn that a session shows as active ends, even  *)
(* if nobody answers its approvals, unless the client fails or is closed.   *)
TurnsEnd ==
    \A s \in Sessions, t \in Texts :
        record[s].turn = t ~> (record[s].turn # t \/ client.state # "ready")

(* Each text is an agent call as CommandExecution assumes it: it succeeds   *)
(* only if its turn was started, it may fail although the turn was or will  *)
(* be started, and it settles.                                              *)
StillInPipe(x) ==
    \E i \in 1 .. Len(client.stdin) :
        /\ client.stdin[i].kind = "request"
        /\ client.stdin[i].request.job = x
        /\ client.stdin[i].request.method = "turn/start"

Stage(x) ==
    CASE job[x] = "new" -> "new"
      [] job[x] = "waiting" -> IF x \in carriedOut THEN "done" ELSE "fresh"
      [] job[x] = "succeeded" -> "succeeded"
      [] job[x] = "failed" ->
            IF x \in carriedOut THEN "failed after the effect"
            ELSE IF server.alive /\ StillInPipe(x) THEN "adrift"
            ELSE "failed"

Text == INSTANCE AgentCall
            WITH Calls <- Texts, stage <- [x \in Texts |-> Stage(x)]

TextsAreAgentCalls == Text!Spec
=============================================================================
