-------------------------- MODULE AppServerClient --------------------------
(***************************************************************************)
(* The JSON-RPC client of the Codex app-server                             *)
(* (bridge/src/codex-app-server-client.ts), once it is initialised, as     *)
(* pure operators on a record                                              *)
(*   state     "ready", "failed" or "closed",                              *)
(*   writable  the child's stdin is open,                                  *)
(*   pending   the requests not settled yet, oldest first,                 *)
(*   settled   promises settled whose awaiting code has not run yet,       *)
(*   stdin     the lines the child has not read yet.                       *)
(* A request is identified by the job that sends it and its method, which  *)
(* stands for the request id: no job sends a method twice.                 *)
(***************************************************************************)
EXTENDS Naturals, Sequences, FiniteSets, SequencesExt

CONSTANT PendingLimit   \* maximumPendingRequests (64 in the code)

ASSUME PendingAssumption == PendingLimit \in Nat \ {0}

Started ==
    [state |-> "ready", writable |-> TRUE, pending |-> <<>>, settled |-> <<>>,
     stdin |-> <<>>]

RequestLine(r) == [kind |-> "request", request |-> r]
AnswerLine(approval, decision) ==
    [kind |-> "answer", approval |-> approval, decision |-> decision]

Resolved(r, status) == [request |-> r, ok |-> TRUE, status |-> status]
Rejected(r) == [request |-> r, ok |-> FALSE, status |-> "none"]

IsPending(client, r) == \E i \in 1 .. Len(client.pending) : client.pending[i] = r

(* request(): refused unless the client is ready and has room for another   *)
(* pending request; otherwise registered, then written.                     *)
Request(client, r) ==
    IF client.state # "ready" \/ Len(client.pending) >= PendingLimit
    THEN [client EXCEPT !.settled = Append(@, Rejected(r))]
    ELSE [client EXCEPT !.pending = Append(@, r),
                        !.stdin = Append(@, RequestLine(r))]

(* respond(), of one approval after the other; it only asks whether stdin   *)
(* can be written.                                                          *)
Respond(client, approvals, decision) ==
    [client EXCEPT !.stdin = @ \o [i \in 1 .. Len(approvals) |->
                                      AnswerLine(approvals[i], decision)]]

(* A pending request is taken out of the map and its promise settles.       *)
SettleRequest(client, outcome) ==
    [client EXCEPT !.pending = RemoveFirst(@, outcome.request),
                   !.settled = Append(@, outcome)]

(* A faulty #dispatchResponse() that does not look the request up. *)
DispatchAnyResponse(client, outcome) == SettleRequest(client, outcome)

(* #dispatchResponse(): an answer to a request given up is ignored. *)
DispatchResponse(client, outcome) ==
    IF IsPending(client, outcome.request) THEN SettleRequest(client, outcome)
    ELSE client

(* #fail(): every pending request is rejected, in the order of the map, and *)
(* nothing that is read later counts.                                       *)
FailAll(client, state) ==
    IF client.state # "ready" THEN client
    ELSE [client EXCEPT
             !.state = state,
             !.pending = <<>>,
             !.settled = @ \o [i \in 1 .. Len(client.pending) |->
                                  Rejected(client.pending[i])]]
=============================================================================
