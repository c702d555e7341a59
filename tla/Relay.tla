-------------------------------- MODULE Relay --------------------------------
(***************************************************************************)
(* One channel of RelayService (bridge/src/relay.ts) as pure operators.    *)
(* The public sockets wait in one queue, the bridge's uplinks in another;  *)
(* the first of each are paired, and their bytes are piped once the bridge *)
(* has said that its end is connected.  A relay is a record                *)
(*   closed            close() was called, or the process is not there,    *)
(*   uplinks, clients  the sockets that wait, the oldest first,            *)
(*   pairing           pairs in #waitForConnected, with its timer armed,   *)
(*   piping            pairs with pipes and closeBoth() between them.      *)
(* A socket is "greeting" until its first line is read, "open", "ending"   *)
(* from destroy() until its close event is handled, then "closed".         *)
(***************************************************************************)
EXTENDS Integers, SequencesExt

CONSTANT MaxWaiting   \* maximumWaitingPerChannel

ASSUME RelayAssumption == MaxWaiting \in Nat \ {0}

NewRelay == [closed |-> FALSE, uplinks |-> <<>>, clients |-> <<>>,
             pairing |-> {}, piping |-> {}]

SocketStates == {"none", "greeting", "open", "ending", "closed"}

Destroyed(state) == IF state \in {"none", "closed"} THEN state ELSE "ending"

(* #takeLive: what is left of a queue when the destroyed sockets at its     *)
(* head have been dropped.                                                  *)
FromLive(queue, live) ==
    LET IsLive(socket) == socket \in live
        n == SelectInSeq(queue, IsLive)
    IN  IF n = 0 THEN <<>> ELSE SubSeq(queue, n, Len(queue))

(* A faulty #tryPair: a socket that finds no partner is dropped. *)
TryPairForgetting(r, liveUplinks, liveClients) ==
    LET us == FromLive(r.uplinks, liveUplinks)
        cs == FromLive(r.clients, liveClients)
        Rest(q) == IF q = <<>> THEN q ELSE Tail(q)
    IN  [r EXCEPT !.uplinks = Rest(us), !.clients = Rest(cs),
                  !.pairing = IF us = <<>> \/ cs = <<>> THEN @
                              ELSE @ \cup {<<Head(us), Head(cs)>>}]

(* #tryPair: a socket that finds no partner goes back to the head. *)
TryPair(r, liveUplinks, liveClients) ==
    LET us == FromLive(r.uplinks, liveUplinks)
        cs == FromLive(r.clients, liveClients)
    IN  IF us = <<>> \/ cs = <<>>
        THEN [r EXCEPT !.uplinks = us, !.clients = cs]
        ELSE [r EXCEPT !.uplinks = Tail(us), !.clients = Tail(cs),
                       !.pairing = @ \cup {<<Head(us), Head(cs)>>}]

(* #queue, where it does not refuse the socket: a closed relay and a full   *)
(* queue destroy it.                                                        *)
Refuses(r, queue) == r.closed \/ Len(queue) >= MaxWaiting

(* A faulty #queue: only a client looks for a partner. *)
QueueUplinkAlone(r, u, liveUplinks, liveClients) ==
    [r EXCEPT !.uplinks = Append(@, u)]

QueueUplink(r, u, liveUplinks, liveClients) ==
    TryPair([r EXCEPT !.uplinks = Append(@, u)], liveUplinks, liveClients)

QueueClient(r, c, liveUplinks, liveClients) ==
    TryPair([r EXCEPT !.clients = Append(@, c)], liveUplinks, liveClients)

(* removeEntry(), by the timer of a waiting socket and by its close event.  *)
DropUplink(r, u) == [r EXCEPT !.uplinks = RemoveFirst(@, u)]
DropClient(r, c) == [r EXCEPT !.clients = RemoveFirst(@, c)]

(* The line "connected" has come over the uplink of the pair. *)
Activate(r, pair) ==
    [r EXCEPT !.pairing = @ \ {pair}, !.piping = @ \cup {pair}]

(* close(): whatever waits and whatever is piped.  Pairs that wait for      *)
(* "connected" and uplinks that have not greeted are in neither.            *)
CloseService(r) ==
    [r EXCEPT !.closed = TRUE, !.uplinks = <<>>, !.clients = <<>>, !.piping = {}]
=============================================================================
