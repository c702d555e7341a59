------------------------- MODULE CodexAdapterProofs -------------------------
(***************************************************************************)
(* Proofs about the adapter and the JSON-RPC client, for any sessions,     *)
(* texts and approvals and every limit, in any order of lines, answers,    *)
(* timers, failures and shutdowns: the state is well typed; each approval  *)
(* is resolved once and as it was decided, and none is lost; a turn is     *)
(* asked for once, published as started and then as completed, and known   *)
(* to its session; and each text moves as an agent call.                   *)
(* The inductive invariants are ApprovalsInv for the approvals, TurnsInv   *)
(* with Published and KnownTurns for the turns, and CarriedInv for the     *)
(* agent calls.                                                            *)
(***************************************************************************)
EXTENDS CodexAdapter, CommonLemmas, SequenceTheorems

Methods == {"thread/resume", "thread/start", "turn/interrupt", "turn/start", "loaded"}
Statuses == {"none", "idle", "working", "waiting_for_user"}
Turns == Texts \cup {NoTurn}

(* A turn is asked for by the text whose name it has.                       *)
Requests ==
    {r \in [job : Jobs, method : Methods, session : Sessions, turn : Turns] :
        /\ r.method \in {"turn/start", "loaded"} => r.job \in Texts
        /\ r.method = "turn/start" => r.turn = r.job
        /\ r.method = "turn/interrupt" => r.job \in Interrupts /\ r.turn \in Texts}

(* A session that was opened has a status.                                  *)
Outcomes ==
    {o \in [request : Requests, ok : BOOLEAN, status : Statuses] :
        o.ok /\ o.request.method \in {"thread/resume", "thread/start"}
        => o.status # "none"}

Decisions == {"accept", "cancel"}
InLines ==
    {RequestLine(r) : r \in Requests}
    \cup {AnswerLine(a, d) : a \in Approvals, d \in Decisions}

OutLines ==
    [kind : {"response"}, outcome : Outcomes]
    \cup [kind : {"started"}, session : Sessions, turn : Texts]
    \cup [kind : {"completed"}, session : Sessions, turn : Texts, failed : BOOLEAN]
    \cup [kind : {"status"}, session : Sessions, status : Statuses \ {"none"}]
    \cup [kind : {"error"}, session : Sessions]
    \cup [kind : {"approval"}, approval : Approvals, session : Sessions,
          turn : Texts]

RpcClients ==
    [state : {"ready", "failed", "closed"}, writable : BOOLEAN,
     pending : Seq(Requests), settled : Seq(Outcomes), stdin : Seq(InLines)]

ThreadRecords ==
    [known : BOOLEAN, loaded : BOOLEAN,
     state : {"idle", "working", "waiting_for_user", "failed"},
     turn : Turns, approval : Approvals \cup {NoApproval}]

PendingApprovals == [approval : Approvals, session : Sessions, turn : Texts]

Servers ==
    [alive : BOOLEAN, threads : SUBSET Sessions, running : [Sessions -> Turns],
     owed : SUBSET {r \in Requests : r.method = "turn/start"},
     asking : SUBSET PendingApprovals]

(* The types.  Only a client that is ready has lines to read, and it can be *)
(* written to.                                                              *)
Types ==
    /\ bridge \in {"up", "closing", "crashed"}
    /\ client \in RpcClients
    /\ Len(client.pending) <= PendingLimit
    /\ client.state = "ready" => client.writable
    /\ client.state # "ready" => stdout = <<>>
    /\ midChunk \in BOOLEAN
    /\ stdout \in Seq(OutLines)
    /\ job \in [Jobs -> {"new", "waiting", "succeeded", "failed"}]
    /\ record \in [Sessions -> ThreadRecords]
    /\ approvals \in SUBSET PendingApprovals /\ IsFiniteSet(approvals)
    /\ startedTurns \in SUBSET Texts
    /\ terminalTurns \in Seq(Texts) /\ Len(terminalTurns) <= TerminalLimit
    /\ server \in Servers
    /\ asked \in SUBSET Approvals
    /\ notices \in 0 .. MaxNotices
    /\ carriedOut \in SUBSET Texts
    /\ turnLog \in [Texts -> Seq({"started", "completed"})]
    /\ decided \in [Approvals -> Seq(Decisions)]
    /\ approvalLog \in [Approvals -> Seq({"requested"} \cup Decisions)]

-----------------------------------------------------------------------------
(* Lists. *)

(* r is s without its p-th element.                                         *)
Without(r, s, p) ==
    /\ Len(r) = Len(s) - 1
    /\ \A i \in 1 .. Len(s) - 1 : r[i] = IF i < p THEN s[i] ELSE s[i + 1]

(* RemoveFirst() takes out one element that is in the list.                 *)
LEMMA RemovedFirst ==
    ASSUME NEW S, NEW s \in Seq(S), NEW e, NEW k \in 1 .. Len(s), s[k] = e
    PROVE  /\ RemoveFirst(s, e) \in Seq(S)
           /\ \E p \in 1 .. Len(s) :
                 s[p] = e /\ Without(RemoveFirst(s, e), s, p)
<1> DEFINE I == {i \in 1 .. Len(s) : s[i] = e}
           p == Min(I)
<1>1. I \in SUBSET Nat /\ I # {}
  BY DEF Min
<1>2. p \in I
  <2>1. \E m \in I : \A j \in I : m <= j
    <3> HIDE DEF I
    <3> QED
      BY <1>1, LeastNumber
  <2> QED
    BY <2>1 DEF Min
<1>3. RemoveFirst(s, e) = SubSeq(s, 1, p - 1) \o SubSeq(s, p + 1, Len(s))
  BY <1>1 DEF RemoveFirst, RemoveAt, SelectInSeq
<1>4. p \in 1 .. Len(s) /\ s[p] = e
  BY <1>2
<1> HIDE DEF I, p
<1> DEFINE a == SubSeq(s, 1, p - 1)
           b == SubSeq(s, p + 1, Len(s))
<1>5. /\ a \in Seq(S) /\ Len(a) = p - 1
      /\ \A i \in 1 .. p - 1 : a[i] = s[i]
  BY <1>4
<1>6. /\ b \in Seq(S) /\ Len(b) = Len(s) - p
      /\ \A i \in 1 .. Len(s) - p : b[i] = s[p + i]
  BY <1>4
<1>7. RemoveFirst(s, e) = a \o b
  BY <1>3
<1> HIDE DEF a, b
<1>8. /\ a \o b \in Seq(S) /\ Len(a \o b) = Len(s) - 1
      /\ \A i \in 1 .. Len(s) - 1 :
            (a \o b)[i] = IF i < p THEN s[i] ELSE s[i + 1]
  <2> DEFINE la == Len(a)
             lb == Len(b)
             ls == Len(s)
  <2>1. /\ la \in Nat /\ lb \in Nat /\ ls \in Nat /\ p \in 1 .. ls
        /\ la = p - 1 /\ lb = ls - p /\ p \in Int
    BY <1>4, <1>5, <1>6
  <2>2. a \o b \in Seq(S) /\ Len(a \o b) = la + lb
    BY <1>5, <1>6
  <2>3. ASSUME NEW i \in 1 .. ls - 1
        PROVE  (a \o b)[i] = IF i < p THEN s[i] ELSE s[i + 1]
    <3>1. i \in 1 .. la + lb
      <4> HIDE DEF la, lb, ls
      <4> QED
        BY <2>1, <2>3
    <3>2. (a \o b)[i] = IF i <= la THEN a[i] ELSE b[i - la]
      <4>1. a \in Seq(S) /\ b \in Seq(S) /\ i \in 1 .. Len(a) + Len(b)
        BY <1>5, <1>6, <3>1
      <4> QED
        BY <4>1, ConcatProperties
    <3>3. CASE i < p
      <4>1. i <= la /\ i \in 1 .. p - 1
        <5> HIDE DEF la, lb, ls
        <5> QED
          BY <2>1, <2>3, <3>3
      <4> QED
        BY <3>2, <3>3, <4>1, <1>5
    <3>4. CASE ~(i < p)
      <4>1. ~(i <= la) /\ i - la \in 1 .. ls - p /\ p + (i - la) = i + 1
        <5> HIDE DEF la, lb, ls
        <5> QED
          BY <2>1, <2>3, <3>4
      <4> QED
        BY <3>2, <3>4, <4>1, <1>6
    <3> QED
      BY <3>3, <3>4
  <2>4. la + lb = ls - 1
    <3> HIDE DEF la, lb, ls
    <3> QED
      BY <2>1
  <2> QED
    BY <2>2, <2>3, <2>4
<1> QED
  BY <1>4, <1>7, <1>8 DEF Without

LEMMA ListIsSeq ==
    ASSUME NEW S, NEW n \in Nat, NEW f \in [1 .. n -> S]
    PROVE  f \in Seq(S) /\ Len(f) = n
OBVIOUS

(* The list of a finite set has its elements.                               *)
LEMMA ListOfSet ==
    ASSUME NEW S, IsFiniteSet(S)
    PROVE  /\ SetToSeq(S) \in Seq(S)
           /\ \A x \in S : \E i \in 1 .. Len(SetToSeq(S)) : SetToSeq(S)[i] = x
<1> DEFINE n == Cardinality(S)
           f == SetToSeq(S)
<1>1. n \in Nat /\ ExistsBijection(1 .. n, S)
  BY FS_CardinalityType
<1>2. \E g \in [1 .. n -> S] : IsInjective(g)
  BY <1>1 DEF ExistsBijection, Bijection, Injection
<1>3. f \in [1 .. n -> S] /\ IsInjective(f)
  BY <1>2 DEF SetToSeq
<1>4. f \in Surjection(1 .. n, S)
  <2>1. IsFiniteSet(1 .. n) /\ Cardinality(1 .. n) = n
    BY <1>1, FS_Interval
  <2>2. f \in Injection(1 .. n, S)
    BY <1>3 DEF Injection
  <2> HIDE DEF f, n
  <2> QED
    BY <2>1, <2>2, FS_Injection, <1>1 DEF n
<1>5. f \in Seq(S) /\ Len(f) = n
  BY <1>1, <1>3
<1> QED
  BY <1>4, <1>5 DEF Surjection

-----------------------------------------------------------------------------
(* The client. *)

LEMMA LineFields ==
    ASSUME NEW l \in OutLines
    PROVE  /\ l.kind \in {"response", "started", "completed", "status", "error",
                          "approval"}
           /\ l.kind = "response" => l.outcome \in Outcomes
           /\ l.kind = "started" => l.session \in Sessions /\ l.turn \in Texts
           /\ l.kind = "completed" => /\ l.session \in Sessions /\ l.turn \in Texts
                                      /\ l.failed \in BOOLEAN
           /\ l.kind = "status" => /\ l.session \in Sessions
                                   /\ l.status \in Statuses \ {"none"}
           /\ l.kind = "error" => l.session \in Sessions
           /\ l.kind = "approval" => /\ l.approval \in Approvals
                                     /\ l.session \in Sessions /\ l.turn \in Texts
BY DEF OutLines

LEMMA InLineFields ==
    ASSUME NEW l \in InLines
    PROVE  /\ l.kind \in {"request", "answer"}
           /\ l.kind = "request" => l.request \in Requests /\ l = RequestLine(l.request)
           /\ l.kind = "answer" => l.approval \in Approvals
BY DEF InLines, RequestLine, AnswerLine

LEMMA RequestFields ==
    ASSUME NEW r \in Requests
    PROVE  /\ r.job \in Jobs /\ r.method \in Methods /\ r.session \in Sessions
           /\ r.turn \in Turns
           /\ r.method \in {"turn/start", "loaded"} => r.job \in Texts
           /\ r.method = "turn/start" => r.turn = r.job
           /\ r.method = "turn/interrupt" => r.job \in Interrupts /\ r.turn \in Texts
           /\ RequestLine(r) \in InLines /\ RequestLine(r).kind = "request"
           /\ RequestLine(r).request = r
           /\ Rejected(r) \in Outcomes /\ Rejected(r).request = r /\ ~Rejected(r).ok
BY DEF Requests, RequestLine, InLines, Rejected, Outcomes, Statuses

LEMMA ClientFields ==
    ASSUME NEW c \in RpcClients
    PROVE  /\ c.state \in {"ready", "failed", "closed"} /\ c.writable \in BOOLEAN
           /\ c.pending \in Seq(Requests) /\ Len(c.pending) \in Nat
           /\ c.settled \in Seq(Outcomes) /\ Len(c.settled) \in Nat
           /\ c.stdin \in Seq(InLines) /\ Len(c.stdin) \in Nat
BY DEF RpcClients

(* A request is refused, or it is pending and written.                      *)
LEMMA Requested ==
    ASSUME NEW c \in RpcClients, NEW r \in Requests
    PROVE  /\ Request(c, r) \in RpcClients
           /\ Request(c, r).state = c.state /\ Request(c, r).writable = c.writable
           /\ \/ /\ Request(c, r).settled = Append(c.settled, Rejected(r))
                 /\ Request(c, r).pending = c.pending
                 /\ Request(c, r).stdin = c.stdin
              \/ /\ c.state = "ready" /\ Len(c.pending) < PendingLimit
                 /\ Request(c, r).settled = c.settled
                 /\ Request(c, r).pending = Append(c.pending, r)
                 /\ Request(c, r).stdin = Append(c.stdin, RequestLine(r))
<1> DEFINE x == Append(c.settled, Rejected(r))
           y == Append(c.pending, r)
           z == Append(c.stdin, RequestLine(r))
<1>1. x \in Seq(Outcomes) /\ y \in Seq(Requests) /\ z \in Seq(InLines)
  BY ClientFields, RequestFields
<1>2. Request(c, r) = IF c.state # "ready" \/ Len(c.pending) >= PendingLimit
                      THEN [c EXCEPT !.settled = x]
                      ELSE [c EXCEPT !.pending = y, !.stdin = z]
  BY DEF Request
<1>3. Len(c.pending) \in Nat /\ PendingLimit \in Nat
  BY ClientFields, PendingAssumption
<1>4. ~(Len(c.pending) >= PendingLimit) => Len(c.pending) < PendingLimit
  BY <1>3
<1> HIDE DEF x, y, z
<1>5. CASE c.state # "ready" \/ Len(c.pending) >= PendingLimit
  <2>1. Request(c, r) = [c EXCEPT !.settled = x]
    BY <1>2, <1>5
  <2> QED
    BY <2>1, <1>1 DEF RpcClients, x
<1>6. CASE c.state = "ready" /\ ~(Len(c.pending) >= PendingLimit)
  <2>1. Request(c, r) = [c EXCEPT !.pending = y, !.stdin = z]
    BY <1>2, <1>6
  <2>2. /\ Request(c, r) \in RpcClients
        /\ Request(c, r).state = c.state /\ Request(c, r).writable = c.writable
        /\ Request(c, r).settled = c.settled
        /\ Request(c, r).pending = y /\ Request(c, r).stdin = z
    BY <2>1, <1>1 DEF RpcClients
  <2> QED
    BY <2>2, <1>4, <1>6 DEF y, z
<1> QED
  BY <1>5, <1>6

(* Answers are written behind what was written before.                      *)
LEMMA Responded ==
    ASSUME NEW c \in RpcClients, NEW ids \in Seq(Approvals), NEW d \in Decisions
    PROVE  /\ Respond(c, ids, d) \in RpcClients
           /\ Respond(c, ids, d).state = c.state
           /\ Respond(c, ids, d).writable = c.writable
           /\ Respond(c, ids, d).pending = c.pending
           /\ Respond(c, ids, d).settled = c.settled
           /\ Len(Respond(c, ids, d).stdin) = Len(c.stdin) + Len(ids)
           /\ \A i \in 1 .. Len(c.stdin) :
                 Respond(c, ids, d).stdin[i] = c.stdin[i]
           /\ \A i \in 1 .. Len(ids) :
                 Respond(c, ids, d).stdin[Len(c.stdin) + i] = AnswerLine(ids[i], d)
<1>1. Len(ids) \in Nat /\ \A i \in 1 .. Len(ids) : AnswerLine(ids[i], d) \in InLines
  <2>1. Len(ids) \in Nat /\ \A i \in 1 .. Len(ids) : ids[i] \in Approvals
    BY ids \in Seq(Approvals)
  <2>2. \A a \in Approvals : AnswerLine(a, d) \in InLines
    BY DEF InLines
  <2> QED
    BY <2>1, <2>2
<1> DEFINE lines == [i \in 1 .. Len(ids) |-> AnswerLine(ids[i], d)]
           all == c.stdin \o lines
<1>2. lines \in Seq(InLines) /\ Len(lines) = Len(ids)
  <2>1. lines \in [1 .. Len(ids) -> InLines]
    BY <1>1 DEF AnswerLine
  <2> HIDE DEF lines
  <2> QED
    BY <1>1, <2>1, ListIsSeq
<1>3. c.stdin \in Seq(InLines) /\ Len(c.stdin) \in Nat
  BY ClientFields
<1>4. /\ all \in Seq(InLines) /\ Len(all) = Len(c.stdin) + Len(ids)
      /\ \A i \in 1 .. Len(c.stdin) + Len(ids) :
            all[i] = IF i <= Len(c.stdin) THEN c.stdin[i] ELSE lines[i - Len(c.stdin)]
  <2> HIDE DEF lines
  <2>1. /\ all \in Seq(InLines) /\ Len(all) = Len(c.stdin) + Len(lines)
        /\ \A i \in 1 .. Len(c.stdin) + Len(lines) :
              all[i] = IF i <= Len(c.stdin) THEN c.stdin[i]
                       ELSE lines[i - Len(c.stdin)]
    BY <1>2, <1>3, ConcatProperties
  <2> QED
    BY <1>2, <2>1
<1>5. /\ \A i \in 1 .. Len(c.stdin) : all[i] = c.stdin[i]
      /\ \A i \in 1 .. Len(ids) : all[Len(c.stdin) + i] = lines[i]
  <2> DEFINE a == Len(c.stdin)
             b == Len(ids)
  <2>1. a \in Nat /\ b \in Nat
    BY <1>1, <1>3
  <2> HIDE DEF a, b, all, lines
  <2>2. \A i \in 1 .. a + b : all[i] = IF i <= a THEN c.stdin[i] ELSE lines[i - a]
    BY <1>4 DEF a, b
  <2>3. \A i \in 1 .. a : all[i] = c.stdin[i]
    BY <2>1, <2>2
  <2>4. ASSUME NEW i \in 1 .. b
        PROVE  all[a + i] = lines[i]
    <3>1. a + i \in 1 .. a + b /\ ~(a + i <= a) /\ (a + i) - a = i
      BY <2>1
    <3> QED
      BY <2>2, <3>1
  <2> QED
    BY <2>3, <2>4 DEF a, b
<1>6. Respond(c, ids, d) = [c EXCEPT !.stdin = all]
  BY DEF Respond
<1>7. /\ Respond(c, ids, d) \in RpcClients
      /\ Respond(c, ids, d).stdin = all
      /\ Respond(c, ids, d).state = c.state
      /\ Respond(c, ids, d).writable = c.writable
      /\ Respond(c, ids, d).pending = c.pending
      /\ Respond(c, ids, d).settled = c.settled
  <2> HIDE DEF all
  <2> QED
    BY <1>4, <1>6 DEF RpcClients
<1> HIDE DEF all
<1> QED
  BY <1>4, <1>5, <1>7

(* A pending request that settles is no longer pending.                     *)
LEMMA SettledOne ==
    ASSUME NEW c \in RpcClients, NEW o \in Outcomes, NEW k \in 1 .. Len(c.pending),
           c.pending[k] = o.request
    PROVE  /\ SettleRequest(c, o) \in RpcClients
           /\ SettleRequest(c, o).state = c.state
           /\ SettleRequest(c, o).writable = c.writable
           /\ SettleRequest(c, o).stdin = c.stdin
           /\ SettleRequest(c, o).settled = Append(c.settled, o)
           /\ \E p \in 1 .. Len(c.pending) :
                 /\ c.pending[p] = o.request
                 /\ Without(SettleRequest(c, o).pending, c.pending, p)
<1> DEFINE x == RemoveFirst(c.pending, o.request)
           y == Append(c.settled, o)
<1>1. y \in Seq(Outcomes)
  BY ClientFields
<1>2. /\ x \in Seq(Requests)
      /\ \E p \in 1 .. Len(c.pending) :
            c.pending[p] = o.request /\ Without(x, c.pending, p)
  <2>1. c.pending \in Seq(Requests)
    BY ClientFields
  <2> QED
    BY <2>1, RemovedFirst
<1>3. SettleRequest(c, o) = [c EXCEPT !.pending = x, !.settled = y]
  BY DEF SettleRequest
<1>4. /\ SettleRequest(c, o) \in RpcClients
      /\ SettleRequest(c, o).state = c.state
      /\ SettleRequest(c, o).writable = c.writable
      /\ SettleRequest(c, o).stdin = c.stdin
      /\ SettleRequest(c, o).settled = y
      /\ SettleRequest(c, o).pending = x
  <2> HIDE DEF x, y
  <2> QED
    BY <1>1, <1>2, <1>3 DEF RpcClients
<1> QED
  BY <1>2, <1>4

(* A client that fails awaits nothing.                                      *)
LEMMA FailedAll ==
    ASSUME NEW c \in RpcClients, NEW st \in {"failed", "closed"}
    PROVE  /\ FailAll(c, st) \in RpcClients
           /\ FailAll(c, st).state # "ready"
           /\ FailAll(c, st).writable = c.writable
           /\ FailAll(c, st).stdin = c.stdin
           /\ Len(FailAll(c, st).pending) <= Len(c.pending)
<1> DEFINE x == c.settled \o [i \in 1 .. Len(c.pending) |-> Rejected(c.pending[i])]
           e == <<>>
<1>1. x \in Seq(Outcomes)
  <2>1. \A i \in 1 .. Len(c.pending) : Rejected(c.pending[i]) \in Outcomes
    BY ClientFields, RequestFields
  <2>2. [i \in 1 .. Len(c.pending) |-> Rejected(c.pending[i])] \in Seq(Outcomes)
    BY <2>1, ClientFields
  <2> QED
    BY <2>2, ClientFields
<1>2. e \in Seq(Requests) /\ Len(e) = 0
  OBVIOUS
<1>3. CASE c.state # "ready"
  BY <1>3, ClientFields DEF FailAll
<1>4. CASE c.state = "ready"
  <2>1. FailAll(c, st) = [c EXCEPT !.state = st, !.pending = e, !.settled = x]
    BY <1>4 DEF FailAll
  <2>2. /\ FailAll(c, st) \in RpcClients /\ FailAll(c, st).state = st
        /\ FailAll(c, st).writable = c.writable /\ FailAll(c, st).stdin = c.stdin
        /\ FailAll(c, st).pending = e
    <3> HIDE DEF x, e
    <3> QED
      BY <1>1, <1>2, <2>1 DEF RpcClients
  <2> QED
    BY <1>2, <2>2, ClientFields
<1> QED
  BY <1>3, <1>4

(* The code that awaited the outcome settled first has gone on.             *)
LEMMA ConsumedOne ==
    ASSUME Types, client.settled # <<>>
    PROVE  /\ Consumed \in RpcClients
           /\ Consumed.state = client.state /\ Consumed.writable = client.writable
           /\ Consumed.pending = client.pending /\ Consumed.stdin = client.stdin
           /\ Consumed.settled = Tail(client.settled)
           /\ Outcome \in Outcomes /\ Outcome = client.settled[1]
           /\ Outcome.request \in Requests
           /\ Len(client.settled) \in Nat \ {0}
           /\ Len(Tail(client.settled)) = Len(client.settled) - 1
           /\ \A i \in 1 .. Len(client.settled) - 1 :
                 Tail(client.settled)[i] = client.settled[i + 1]
<1>1. client \in RpcClients /\ client.settled \in Seq(Outcomes)
  BY ClientFields DEF Types
<1> DEFINE x == Tail(client.settled)
<1>2. /\ x \in Seq(Outcomes) /\ Len(client.settled) \in Nat \ {0}
      /\ Len(x) = Len(client.settled) - 1
      /\ \A i \in 1 .. Len(client.settled) - 1 : x[i] = client.settled[i + 1]
      /\ Outcome \in Outcomes /\ Outcome = client.settled[1]
  BY <1>1 DEF Outcome
<1>3. Outcome.request \in Requests
  BY <1>2 DEF Outcomes
<1> HIDE DEF x
<1>4. Consumed = [client EXCEPT !.settled = x]
  BY DEF Consumed, x
<1>5. /\ Consumed \in RpcClients
      /\ Consumed.state = client.state /\ Consumed.writable = client.writable
      /\ Consumed.pending = client.pending /\ Consumed.stdin = client.stdin
      /\ Consumed.settled = x
  BY <1>1, <1>2, <1>4 DEF RpcClients
<1> QED
  BY <1>2, <1>3, <1>5 DEF x

-----------------------------------------------------------------------------
(* What the actions are made of. *)

LEMMA TypeFacts ==
    ASSUME Types
    PROVE  /\ client \in RpcClients
           /\ stdout \in Seq(OutLines) /\ Len(stdout) \in Nat
           /\ \A n \in 1 .. Len(stdout) : stdout[n] \in OutLines
           /\ client.stdin \in Seq(InLines) /\ Len(client.stdin) \in Nat
           /\ \A i \in 1 .. Len(client.stdin) : client.stdin[i] \in InLines
           /\ record \in [Sessions -> ThreadRecords]
           /\ \A s \in Sessions : /\ record[s].turn \in Turns
                                  /\ record[s].approval \in Approvals \cup {NoApproval}
           /\ approvals \in SUBSET PendingApprovals
           /\ \A p \in PendingApprovals : /\ p.approval \in Approvals
                                          /\ p.session \in Sessions /\ p.turn \in Texts
           /\ \A s \in Sessions : server.running[s] \in Turns
           /\ server.asking \in SUBSET PendingApprovals
           /\ server.owed \in SUBSET {r \in Requests : r.method = "turn/start"}
           /\ server.alive \in BOOLEAN
<1>1. /\ client \in RpcClients /\ stdout \in Seq(OutLines)
      /\ record \in [Sessions -> ThreadRecords]
      /\ approvals \in SUBSET PendingApprovals /\ server \in Servers
  BY DEF Types
<1>2. client.stdin \in Seq(InLines)
  BY <1>1 DEF RpcClients
<1> QED
  BY <1>1, <1>2 DEF ThreadRecords, Servers, PendingApprovals

(* The line that is read.                                                   *)
LEMMA ReadLine ==
    ASSUME Types, NEW kind, Reading(kind)
    PROVE  /\ bridge = "up" /\ client.state = "ready"
           /\ Line \in OutLines /\ Line = stdout[1] /\ Line.kind = kind
           /\ Len(stdout) \in Nat \ {0}
           /\ stdout' \in Seq(OutLines) /\ Len(stdout') = Len(stdout) - 1
           /\ \A n \in 1 .. Len(stdout) - 1 : stdout'[n] = stdout[n + 1]
<1>1. stdout \in Seq(OutLines) /\ stdout # <<>> /\ stdout' = Tail(stdout)
  BY TypeFacts DEF Reading
<1> QED
  BY <1>1 DEF Reading, Line

(* The lines that are written.                                              *)
LEMMA SaidLines ==
    ASSUME Types, NEW ls \in Seq(OutLines), Say(ls)
    PROVE  /\ stdout' \in Seq(OutLines)
           /\ client.state # "ready" => stdout' = stdout
           /\ client.state = "ready" =>
                 /\ Len(stdout') = Len(stdout) + Len(ls)
                 /\ \A n \in 1 .. Len(stdout) + Len(ls) :
                       stdout'[n] = IF n <= Len(stdout) THEN stdout[n]
                                    ELSE ls[n - Len(stdout)]
<1>1. stdout \in Seq(OutLines)
  BY TypeFacts
<1>2. CASE client.state # "ready"
  <2>1. stdout' = stdout
    BY <1>2 DEF Say
  <2> QED
    BY <1>1, <1>2, <2>1
<1>3. CASE client.state = "ready"
  <2>1. stdout' = stdout \o ls
    BY <1>3 DEF Say
  <2> QED
    BY <1>1, <1>3, <2>1, ConcatProperties
<1> QED
  BY <1>2, <1>3

(* The line that the app-server takes.                                      *)
LEMMA TakenLine ==
    ASSUME Types, NEW kind, Serving(kind)
    PROVE  /\ server.alive
           /\ client' \in RpcClients
           /\ client'.state = client.state /\ client'.writable = client.writable
           /\ client'.pending = client.pending /\ client'.settled = client.settled
           /\ Head(client.stdin) \in InLines /\ Head(client.stdin) = client.stdin[1]
           /\ Head(client.stdin).kind = kind
           /\ Len(client.stdin) \in Nat \ {0}
           /\ Len(client'.stdin) = Len(client.stdin) - 1
           /\ \A i \in 1 .. Len(client.stdin) - 1 :
                 client'.stdin[i] = client.stdin[i + 1]
<1> DEFINE x == Tail(client.stdin)
<1>1. client \in RpcClients /\ client.stdin \in Seq(InLines) /\ client.stdin # <<>>
  BY TypeFacts DEF Serving
<1>2. /\ x \in Seq(InLines) /\ Len(client.stdin) \in Nat \ {0}
      /\ Len(x) = Len(client.stdin) - 1
      /\ \A i \in 1 .. Len(client.stdin) - 1 : x[i] = client.stdin[i + 1]
      /\ Head(client.stdin) \in InLines /\ Head(client.stdin) = client.stdin[1]
  BY <1>1
<1>3. client' = [client EXCEPT !.stdin = x]
  BY DEF Serving
<1>4. /\ client' \in RpcClients /\ client'.stdin = x
      /\ client'.state = client.state /\ client'.writable = client.writable
      /\ client'.pending = client.pending /\ client'.settled = client.settled
  <2> HIDE DEF x
  <2> QED
    BY <1>1, <1>2, <1>3 DEF RpcClients
<1> HIDE DEF x
<1> QED
  BY <1>2, <1>4 DEF Serving

LEMMA AskedLine ==
    ASSUME Types, NEW method, Asks(method)
    PROVE  /\ Head(client.stdin).request \in Requests
           /\ Head(client.stdin).request.method = method
           /\ Head(client.stdin).kind = "request"
BY TakenLine, InLineFields DEF Asks

Remembered(t) == \E i \in 1 .. Len(terminalTurns) : terminalTurns[i] = t

LEMMA RecordedFields ==
    ASSUME Types, NEW s \in Sessions
    PROVE  /\ Recorded(s) \in [Sessions -> ThreadRecords]
           /\ \A r \in Sessions : /\ Recorded(s)[r].turn = record[r].turn
                                  /\ Recorded(s)[r].approval = record[r].approval
<1> DEFINE new == [record EXCEPT ![s].known = TRUE, ![s].loaded = TRUE,
                                 ![s].state = "working"]
<1>1. record \in [Sessions -> ThreadRecords]
  BY TypeFacts
<1>2. /\ new \in [Sessions -> ThreadRecords]
      /\ \A r \in Sessions : /\ new[r].turn = record[r].turn
                             /\ new[r].approval = record[r].approval
  BY <1>1 DEF ThreadRecords
<1>3. Recorded(s) = IF record[s].known THEN record ELSE new
  BY DEF Recorded
<1> HIDE DEF new
<1> QED
  BY <1>1, <1>2, <1>3

(* What #markTurnStarted() leaves behind.                                   *)
LEMMA MarkedTurn ==
    ASSUME Types, NEW rs \in [Sessions -> ThreadRecords], NEW s \in Sessions,
           NEW t \in Texts, MarkTurnStarted(rs, s, t)
    PROVE  /\ record' \in [Sessions -> ThreadRecords]
           /\ \A r \in Sessions :
                 /\ record'[r].turn = IF r = s /\ ~Remembered(t) THEN t ELSE rs[r].turn
                 /\ record'[r].approval = rs[r].approval
           /\ startedTurns' = IF Remembered(t) THEN startedTurns
                              ELSE startedTurns \cup {t}
           /\ turnLog' = IF Remembered(t) \/ t \in startedTurns THEN turnLog
                         ELSE [turnLog EXCEPT ![t] = Append(@, "started")]
           /\ startedTurns' \in SUBSET Texts
           /\ turnLog' \in [Texts -> Seq({"started", "completed"})]
<1>1. /\ startedTurns \in SUBSET Texts
      /\ turnLog \in [Texts -> Seq({"started", "completed"})]
  BY DEF Types
<1>2. CASE Remembered(t)
  <2>1. record' = rs /\ startedTurns' = startedTurns /\ turnLog' = turnLog
    BY <1>2 DEF MarkTurnStarted, Remembered
  <2> QED
    BY <1>1, <1>2, <2>1
<1>3. CASE ~Remembered(t)
  <2>1. /\ record' = [rs EXCEPT ![s].turn = t, ![s].state = "working"]
        /\ startedTurns' = startedTurns \cup {t}
        /\ turnLog' = IF t \in startedTurns THEN turnLog
                      ELSE [turnLog EXCEPT ![t] = Append(@, "started")]
    BY <1>3 DEF MarkTurnStarted, Remembered
  <2>2. record' \in [Sessions -> ThreadRecords]
    BY <2>1 DEF ThreadRecords, Turns
  <2>3. \A r \in Sessions :
           /\ record'[r].turn = IF r = s THEN t ELSE rs[r].turn
           /\ record'[r].approval = rs[r].approval
    BY <2>1 DEF ThreadRecords
  <2>4. turnLog' \in [Texts -> Seq({"started", "completed"})]
    <3>1. Append(turnLog[t], "started") \in Seq({"started", "completed"})
      BY <1>1
    <3> QED
      BY <1>1, <2>1, <3>1
  <2> QED
    BY <1>1, <1>3, <2>1, <2>2, <2>3, <2>4
<1> QED
  BY <1>2, <1>3

Concerned(some, a) == \E p \in some : p.approval = a

LEMMA LoggedDecision ==
    ASSUME Types, NEW some, NEW x \in Decisions
    PROVE  /\ Logged(decided, some, x) \in [Approvals -> Seq(Decisions)]
           /\ \A a \in Approvals :
                 /\ Concerned(some, a) =>
                       Logged(decided, some, x)[a] = Append(decided[a], x)
                 /\ ~Concerned(some, a) => Logged(decided, some, x)[a] = decided[a]
<1>1. decided \in [Approvals -> Seq(Decisions)]
  BY DEF Types
<1>2. \A a \in Approvals :
         decided[a] \in Seq(Decisions) /\ Append(decided[a], x) \in Seq(Decisions)
  BY <1>1
<1>3. Logged(decided, some, x) =
         [a \in Approvals |->
             IF Concerned(some, a) THEN Append(decided[a], x) ELSE decided[a]]
  BY DEF Logged, Concerned
<1> QED
  BY <1>2, <1>3

LEMMA LoggedEntry ==
    ASSUME Types, NEW some, NEW x \in {"requested"} \cup Decisions
    PROVE  /\ Logged(approvalLog, some, x)
                 \in [Approvals -> Seq({"requested"} \cup Decisions)]
           /\ \A a \in Approvals :
                 /\ Concerned(some, a) =>
                       Logged(approvalLog, some, x)[a] = Append(approvalLog[a], x)
                 /\ ~Concerned(some, a) =>
                       Logged(approvalLog, some, x)[a] = approvalLog[a]
<1> DEFINE S == {"requested"} \cup Decisions
<1>1. approvalLog \in [Approvals -> Seq(S)] /\ x \in S
  BY DEF Types
<1> HIDE DEF S
<1>2. \A a \in Approvals :
         approvalLog[a] \in Seq(S) /\ Append(approvalLog[a], x) \in Seq(S)
  BY <1>1
<1>3. Logged(approvalLog, some, x) =
         [a \in Approvals |->
             IF Concerned(some, a) THEN Append(approvalLog[a], x) ELSE approvalLog[a]]
  BY DEF Logged, Concerned
<1>4. /\ Logged(approvalLog, some, x) \in [Approvals -> Seq(S)]
      /\ \A a \in Approvals :
            /\ Concerned(some, a) =>
                  Logged(approvalLog, some, x)[a] = Append(approvalLog[a], x)
            /\ ~Concerned(some, a) =>
                  Logged(approvalLog, some, x)[a] = approvalLog[a]
  BY <1>2, <1>3
<1> QED
  BY <1>4 DEF S

(* A decision is written for every approval that has none.                  *)
LEMMA AnsweredAll ==
    ASSUME Types, NEW some \in SUBSET PendingApprovals, IsFiniteSet(some),
           NEW d \in Decisions
    PROVE  /\ RespondAll(some, d) \in RpcClients
           /\ RespondAll(some, d).state = client.state
           /\ RespondAll(some, d).writable = client.writable
           /\ RespondAll(some, d).pending = client.pending
           /\ RespondAll(some, d).settled = client.settled
           /\ Len(RespondAll(some, d).stdin) \in Nat
           /\ Len(client.stdin) <= Len(RespondAll(some, d).stdin)
           /\ \A i \in 1 .. Len(client.stdin) :
                 RespondAll(some, d).stdin[i] = client.stdin[i]
           /\ \A i \in 1 .. Len(RespondAll(some, d).stdin) :
                 i \in 1 .. Len(client.stdin) \/ RespondAll(some, d).stdin[i].kind = "answer"
           /\ \A p \in Unanswered(some) :
                 \E i \in 1 .. Len(RespondAll(some, d).stdin) :
                    /\ RespondAll(some, d).stdin[i].kind = "answer"
                    /\ RespondAll(some, d).stdin[i].approval = p.approval
<1> DEFINE U == Unanswered(some)
           A == {p.approval : p \in U}
           ids == SetToSeq(A)
           w == RespondAll(some, d)
           m == Len(client.stdin)
           k == Len(ids)
<1>1. IsFiniteSet(A) /\ A \in SUBSET Approvals
  <2>1. IsFiniteSet(U) /\ U \in SUBSET PendingApprovals
    <3>1. U \in SUBSET some
      BY DEF Unanswered
    <3> QED
      BY <3>1, FS_Subset
  <2>2. [p \in U |-> p.approval] \in Surjection(U, A)
    BY DEF Surjection
  <2>3. A \in SUBSET Approvals
    BY <2>1 DEF PendingApprovals
  <2> HIDE DEF U, A
  <2> QED
    BY <2>1, <2>2, <2>3, FS_Surjection
<1>2. /\ ids \in Seq(A) /\ \A x \in A : \E i \in 1 .. k : ids[i] = x
  <2> HIDE DEF A
  <2> QED
    BY <1>1, ListOfSet
<1>3. ids \in Seq(Approvals)
  <2> HIDE DEF A, ids
  <2> QED
    BY <1>1, <1>2
<1>4. w = Respond(client, ids, d)
  BY DEF RespondAll
<1>5. client \in RpcClients /\ m \in Nat /\ k \in Nat
  <2>1. k \in Nat
    <3> HIDE DEF ids
    <3> QED
      BY <1>3
  <2> QED
    BY <2>1, TypeFacts
<1>6. /\ w \in RpcClients
      /\ w.state = client.state /\ w.writable = client.writable
      /\ w.pending = client.pending /\ w.settled = client.settled
      /\ Len(w.stdin) = m + k
      /\ \A i \in 1 .. m : w.stdin[i] = client.stdin[i]
      /\ \A i \in 1 .. k : w.stdin[m + i] = AnswerLine(ids[i], d)
  <2> HIDE DEF ids, w
  <2> QED
    BY <1>3, <1>4, <1>5, Responded
<1>7. ASSUME NEW i \in 1 .. Len(w.stdin), i \notin 1 .. m
      PROVE  w.stdin[i].kind = "answer"
  <2>1. i - m \in 1 .. k /\ m + (i - m) = i
    <3> HIDE DEF m, k, w
    <3> QED
      BY <1>5, <1>6, <1>7
  <2>2. w.stdin[i] = AnswerLine(ids[i - m], d)
    <3> HIDE DEF m, k, w, ids
    <3> QED
      BY <1>6, <2>1
  <2> QED
    BY <2>2 DEF AnswerLine
<1>8. ASSUME NEW p \in U
      PROVE  \E i \in 1 .. Len(w.stdin) :
                w.stdin[i].kind = "answer" /\ w.stdin[i].approval = p.approval
  <2>1. PICK j \in 1 .. k : ids[j] = p.approval
    BY <1>2
  <2>2. m + j \in 1 .. Len(w.stdin)
    <3> HIDE DEF m, k, w
    <3> QED
      BY <1>5, <1>6, <2>1
  <2>3. w.stdin[m + j] = AnswerLine(ids[j], d)
    <3> HIDE DEF m, k, w, ids
    <3> QED
      BY <1>6, <2>1
  <2>4. w.stdin[m + j].kind = "answer" /\ w.stdin[m + j].approval = p.approval
    BY <2>1, <2>3 DEF AnswerLine
  <2> HIDE DEF m, w
  <2> QED
    BY <2>2, <2>4
<1>9. m <= Len(w.stdin) /\ Len(w.stdin) \in Nat
  <2> HIDE DEF m, k, w
  <2> QED
    BY <1>5, <1>6
<1> QED
  <2> HIDE DEF w, k, ids, A
  <2> QED
    BY <1>6, <1>7, <1>8, <1>9 DEF w

-----------------------------------------------------------------------------
(* The types hold in every state. *)

LEMMA InitTypes == Init => Types
<1> SUFFICES ASSUME Init
             PROVE  Types
  OBVIOUS
<1>1. /\ client \in RpcClients /\ Len(client.pending) <= PendingLimit
      /\ client.state = "ready" /\ client.writable
  BY PendingAssumption DEF Init, Started, RpcClients
<1>2. record \in [Sessions -> ThreadRecords]
  BY DEF Init, ThreadRecords, Turns
<1>3. server \in Servers
  BY DEF Init, Servers, Turns
<1>4. terminalTurns \in Seq(Texts) /\ Len(terminalTurns) <= TerminalLimit
  BY AdapterAssumption DEF Init
<1>5. approvals \in SUBSET PendingApprovals /\ IsFiniteSet(approvals)
  BY FS_EmptySet DEF Init
<1>6. notices \in 0 .. MaxNotices
  BY AdapterAssumption DEF Init
<1>7. /\ turnLog \in [Texts -> Seq({"started", "completed"})]
      /\ decided \in [Approvals -> Seq(Decisions)]
      /\ approvalLog \in [Approvals -> Seq({"requested"} \cup Decisions)]
  BY DEF Init
<1>8. /\ stdout \in Seq(OutLines) /\ midChunk \in BOOLEAN
      /\ job \in [Jobs -> {"new", "waiting", "succeeded", "failed"}]
      /\ startedTurns \in SUBSET Texts /\ asked \in SUBSET Approvals
      /\ carriedOut \in SUBSET Texts /\ bridge \in {"up", "closing", "crashed"}
  <2>1. /\ stdout = <<>> /\ midChunk = FALSE /\ bridge = "up"
        /\ job = [j \in Jobs |-> "new"]
        /\ startedTurns = {} /\ asked = {} /\ carriedOut = {}
    BY DEF Init
  <2>2. <<>> \in Seq(OutLines)
    OBVIOUS
  <2> QED
    BY <2>1, <2>2
<1> QED
  BY <1>1, <1>2, <1>3, <1>4, <1>5, <1>6, <1>7, <1>8 DEF Types

LEMMA ReadResponseTypes == ASSUME Types, ReadResponse PROVE Types'
<1>1. /\ stdout' \in Seq(OutLines) /\ client.state = "ready" /\ client.writable
      /\ Line.outcome \in Outcomes
  BY ReadLine, LineFields DEF ReadResponse, Types
<1>2. /\ client' \in RpcClients /\ client'.state = "ready" /\ client'.writable
      /\ Len(client'.pending) <= PendingLimit
  <2>1. client \in RpcClients /\ Len(client.pending) <= PendingLimit
        /\ Len(client.pending) \in Nat /\ PendingLimit \in Nat
    BY ClientFields, PendingAssumption DEF Types
  <2>2. CASE IsPending(client, Line.outcome.request)
    <3>1. PICK k \in 1 .. Len(client.pending) :
              client.pending[k] = Line.outcome.request
      BY <2>2 DEF IsPending
    <3>2. client' = SettleRequest(client, Line.outcome)
      BY <2>2 DEF ReadResponse, DispatchResponse
    <3>3. /\ client' \in RpcClients /\ client'.state = client.state
          /\ client'.writable = client.writable
          /\ Len(client'.pending) = Len(client.pending) - 1
      BY <1>1, <2>1, <3>1, <3>2, SettledOne DEF Without
    <3> QED
      BY <1>1, <2>1, <3>3
  <2>3. CASE ~IsPending(client, Line.outcome.request)
    BY <1>1, <2>1, <2>3 DEF ReadResponse, DispatchResponse
  <2> QED
    BY <2>2, <2>3
<1>3. midChunk' \in BOOLEAN
  BY DEF ReadResponse
<1> QED
  BY <1>1, <1>2, <1>3
  DEF ReadResponse, Types, adapterVars, serverVars, logVars

LEMMA ReadTurnStartedTypes == ASSUME Types, ReadTurnStarted PROVE Types'
<1>1. /\ stdout' \in Seq(OutLines) /\ client.state = "ready"
      /\ Line.session \in Sessions /\ Line.turn \in Texts
  BY ReadLine, LineFields DEF ReadTurnStarted
<1>2. MarkTurnStarted(Recorded(Line.session), Line.session, Line.turn)
  BY DEF ReadTurnStarted
<1>3. /\ record' \in [Sessions -> ThreadRecords] /\ startedTurns' \in SUBSET Texts
      /\ turnLog' \in [Texts -> Seq({"started", "completed"})]
  BY <1>1, <1>2, RecordedFields, MarkedTurn
<1> QED
  BY <1>1, <1>3 DEF ReadTurnStarted, Types, serverVars

LEMMA ReadStatusTypes == ASSUME Types, ReadStatus PROVE Types'
<1>1. /\ stdout' \in Seq(OutLines) /\ client.state = "ready"
      /\ Line.session \in Sessions /\ Line.status \in Statuses \ {"none"}
  BY ReadLine, LineFields DEF ReadStatus
<1>2. record' \in [Sessions -> ThreadRecords]
  <2>1. Recorded(Line.session) \in [Sessions -> ThreadRecords]
    BY <1>1, RecordedFields
  <2>2. [Recorded(Line.session) EXCEPT ![Line.session].state = Line.status]
           \in [Sessions -> ThreadRecords]
    BY <1>1, <2>1 DEF ThreadRecords, Statuses
  <2> QED
    BY <2>2, TypeFacts DEF ReadStatus
<1> QED
  BY <1>1, <1>2 DEF ReadStatus, Types, serverVars, logVars

LEMMA ReadErrorTypes == ASSUME Types, ReadError PROVE Types'
<1>1. /\ stdout' \in Seq(OutLines) /\ client.state = "ready"
      /\ Line.session \in Sessions
  BY ReadLine, LineFields DEF ReadError
<1>2. record' \in [Sessions -> ThreadRecords]
  <2>1. Recorded(Line.session) \in [Sessions -> ThreadRecords]
    BY <1>1, RecordedFields
  <2> QED
    BY <1>1, <2>1 DEF ReadError, ThreadRecords
<1> QED
  BY <1>1, <1>2 DEF ReadError, Types, serverVars, logVars

LEMMA ReadApprovalTypes == ASSUME Types, ReadApprovalRequest PROVE Types'
<1> DEFINE p == Pending(Line.approval, Line.session, Line.turn)
<1>1. /\ stdout' \in Seq(OutLines) /\ client.state = "ready"
      /\ p \in PendingApprovals /\ p.session \in Sessions /\ p.approval \in Approvals
  BY ReadLine, LineFields DEF ReadApprovalRequest, Pending, PendingApprovals
<1>2. TakeApproval(p)
  BY DEF ReadApprovalRequest
<1>3. /\ decided \in [Approvals -> Seq(Decisions)]
      /\ approvalLog \in [Approvals -> Seq({"requested"} \cup Decisions)]
      /\ approvals \in SUBSET PendingApprovals /\ IsFiniteSet(approvals)
      /\ client \in RpcClients
  BY DEF Types
<1> HIDE DEF p
<1>4. CASE record[p.session].approval # NoApproval
  <2>1. /\ client' = RespondAll({p}, "cancel")
        /\ decided' = Logged(decided, {p}, "cancel")
        /\ UNCHANGED <<approvals, record, approvalLog>>
    BY <1>2, <1>4 DEF TakeApproval
  <2>2. IsFiniteSet({p}) /\ {p} \in SUBSET PendingApprovals /\ "cancel" \in Decisions
    BY <1>1, FS_Singleton DEF Decisions
  <2>3. /\ client' \in RpcClients /\ client'.state = client.state
        /\ client'.writable = client.writable /\ client'.pending = client.pending
    BY <2>1, <2>2, AnsweredAll
  <2>4. decided' \in [Approvals -> Seq(Decisions)]
    BY <1>3, <2>1, <2>2, LoggedDecision
  <2> QED
    BY <1>1, <2>1, <2>3, <2>4 DEF ReadApprovalRequest, Types, serverVars
<1>5. CASE record[p.session].approval = NoApproval
  <2>1. /\ approvals' = approvals \cup {p}
        /\ record' = [Recorded(p.session) EXCEPT
                         ![p.session].approval = p.approval,
                         ![p.session].state = "waiting_for_user"]
        /\ approvalLog' = Logged(approvalLog, {p}, "requested")
        /\ UNCHANGED <<client, decided>>
    BY <1>2, <1>5 DEF TakeApproval
  <2>2. approvals' \in SUBSET PendingApprovals /\ IsFiniteSet(approvals')
    BY <1>1, <1>3, <2>1, FS_AddElement
  <2>3. record' \in [Sessions -> ThreadRecords]
    <3>1. Recorded(p.session) \in [Sessions -> ThreadRecords]
      BY <1>1, RecordedFields
    <3> QED
      BY <1>1, <2>1, <3>1 DEF ThreadRecords
  <2>4. approvalLog' \in [Approvals -> Seq({"requested"} \cup Decisions)]
    BY <1>3, <2>1, LoggedEntry
  <2> QED
    BY <1>1, <2>1, <2>2, <2>3, <2>4 DEF ReadApprovalRequest, Types, serverVars
<1> QED
  BY <1>4, <1>5

(* Approvals that are answered and forgotten.                               *)
LEMMA AnswerTypes ==
    ASSUME Types, NEW some \in SUBSET PendingApprovals, IsFiniteSet(some),
           NEW d \in Decisions, Answer(some, d)
    PROVE  /\ decided' \in [Approvals -> Seq(Decisions)]
           /\ approvalLog' \in [Approvals -> Seq({"requested"} \cup Decisions)]
<1>1. /\ decided \in [Approvals -> Seq(Decisions)]
      /\ approvalLog \in [Approvals -> Seq({"requested"} \cup Decisions)]
      /\ d \in {"requested"} \cup Decisions
  BY DEF Types
<1> QED
  BY <1>1, LoggedDecision, LoggedEntry DEF Answer

LEMMA RememberedTurns ==
    ASSUME Types, NEW t \in Texts
    PROVE  /\ Remember(t) \in Seq(Texts) /\ Len(Remember(t)) <= TerminalLimit
           /\ Len(Remember(t)) \in Nat \ {0} /\ Len(terminalTurns) \in Nat
           /\ Remember(t)[Len(Remember(t))] = t
           /\ Len(terminalTurns) < TerminalLimit =>
                 Remember(t) = Append(terminalTurns, t)
           /\ ~(Len(terminalTurns) < TerminalLimit) =>
                 /\ Len(Remember(t)) = TerminalLimit
                 /\ \A i \in 1 .. TerminalLimit - 1 :
                       Remember(t)[i] = terminalTurns[i + 1]
<1> DEFINE all == Append(terminalTurns, t)
           l == Len(terminalTurns)
           r == Tail(all)
<1>1. /\ terminalTurns \in Seq(Texts) /\ l <= TerminalLimit /\ l \in Nat
      /\ TerminalLimit \in Nat \ {0}
  BY AdapterAssumption DEF Types
<1>2. /\ all \in Seq(Texts) /\ Len(all) = l + 1 /\ all[l + 1] = t
      /\ \A i \in 1 .. l : all[i] = terminalTurns[i]
  BY <1>1
<1>3. /\ r \in Seq(Texts) /\ Len(r) = l /\ \A i \in 1 .. l : r[i] = all[i + 1]
  <2> HIDE DEF all, l
  <2> QED
    BY <1>1, <1>2
<1>4. Remember(t) = IF Len(all) > TerminalLimit THEN r ELSE all
  BY DEF Remember
<1>5. CASE l < TerminalLimit
  <2>1. ~(Len(all) > TerminalLimit) /\ l + 1 <= TerminalLimit /\ l + 1 \in Nat \ {0}
    <3> HIDE DEF l, all
    <3> QED
      BY <1>1, <1>2, <1>5
  <2>2. Remember(t) = all
    BY <1>4, <2>1
  <2> HIDE DEF l, r
  <2> QED
    BY <1>1, <1>2, <1>5, <2>1, <2>2 DEF l
<1>6. CASE ~(l < TerminalLimit)
  <2>1. Len(all) > TerminalLimit /\ l = TerminalLimit
    <3> HIDE DEF l, all
    <3> QED
      BY <1>1, <1>2, <1>6
  <2>2. Remember(t) = r
    BY <1>4, <2>1
  <2>3. /\ r[l] = t /\ \A i \in 1 .. l - 1 : r[i] = terminalTurns[i + 1]
    <3> HIDE DEF l, all, r
    <3>1. l \in 1 .. l /\ \A i \in 1 .. l - 1 : i \in 1 .. l /\ i + 1 \in 1 .. l
      BY <1>1, <2>1
    <3> QED
      BY <1>2, <1>3, <3>1
  <2> HIDE DEF all, r
  <2>4. l \in Nat \ {0}
    <3> HIDE DEF l
    <3> QED
      BY <1>1, <2>1
  <2> QED
    BY <1>1, <1>3, <1>6, <2>1, <2>2, <2>3, <2>4
<1> QED
  BY <1>5, <1>6

LEMMA ReadTurnCompletedTypes == ASSUME Types, ReadTurnCompleted PROVE Types'
<1> DEFINE s == Line.session
           t == Line.turn
           ended == {p \in approvals : p.session = s /\ p.turn = t}
<1>1. /\ stdout' \in Seq(OutLines) /\ client.state = "ready"
      /\ s \in Sessions /\ t \in Texts
  BY ReadLine, LineFields DEF ReadTurnCompleted
<1>2. /\ client' = RespondAll(ended, "cancel")
      /\ Answer(ended, "cancel")
      /\ approvals' = approvals \ ended
      /\ record' = [Recorded(s) EXCEPT
                       ![s].turn = NoTurn, ![s].approval = NoApproval,
                       ![s].state = IF Line.failed THEN "failed" ELSE "idle"]
      /\ startedTurns' = startedTurns \ {t}
      /\ terminalTurns' = Remember(t)
      /\ turnLog' = [turnLog EXCEPT ![t] = Append(@, "completed")]
  BY DEF ReadTurnCompleted
<1>3. /\ ended \in SUBSET PendingApprovals /\ IsFiniteSet(ended)
      /\ approvals' \in SUBSET PendingApprovals /\ IsFiniteSet(approvals')
  <2>1. approvals \in SUBSET PendingApprovals /\ IsFiniteSet(approvals)
    BY DEF Types
  <2>2. ended \in SUBSET approvals /\ approvals \ ended \in SUBSET approvals
    OBVIOUS
  <2> HIDE DEF ended
  <2>3. IsFiniteSet(ended) /\ IsFiniteSet(approvals \ ended)
    BY <2>1, <2>2, FS_Subset
  <2> QED
    BY <1>2, <2>1, <2>2, <2>3
<1> HIDE DEF s, t, ended
<1>4. "cancel" \in Decisions
  BY DEF Decisions
<1>5. /\ client' \in RpcClients /\ client'.state = client.state
      /\ client'.writable = client.writable /\ client'.pending = client.pending
  BY <1>2, <1>3, <1>4, AnsweredAll
<1>6. /\ decided' \in [Approvals -> Seq(Decisions)]
      /\ approvalLog' \in [Approvals -> Seq({"requested"} \cup Decisions)]
  BY <1>2, <1>3, <1>4, AnswerTypes
<1>7. record' \in [Sessions -> ThreadRecords]
  <2>1. Recorded(s) \in [Sessions -> ThreadRecords]
    BY <1>1, RecordedFields
  <2> DEFINE f == Line.failed
             x == IF f THEN "failed" ELSE "idle"
  <2>2. x \in {"idle", "working", "waiting_for_user", "failed"}
    OBVIOUS
  <2>3. record' = [Recorded(s) EXCEPT ![s].turn = NoTurn,
                                      ![s].approval = NoApproval, ![s].state = x]
    BY <1>2
  <2> HIDE DEF x, f
  <2> QED
    BY <1>1, <2>1, <2>2, <2>3 DEF ThreadRecords, Turns
<1>8. /\ startedTurns' \in SUBSET Texts
      /\ terminalTurns' \in Seq(Texts) /\ Len(terminalTurns') <= TerminalLimit
      /\ turnLog' \in [Texts -> Seq({"started", "completed"})]
  <2>1. /\ startedTurns \in SUBSET Texts
        /\ turnLog \in [Texts -> Seq({"started", "completed"})]
    BY DEF Types
  <2>2. Append(turnLog[t], "completed") \in Seq({"started", "completed"})
    BY <1>1, <2>1
  <2> QED
    BY <1>1, <1>2, <2>1, <2>2, RememberedTurns
<1> QED
  BY <1>1, <1>3, <1>5, <1>6, <1>7, <1>8 DEF ReadTurnCompleted, Types, serverVars

(* The code that goes on.                                                   *)
LEMMA FinishTypes ==
    ASSUME Types, client.settled # <<>>, NEW phase \in {"succeeded", "failed"},
           Finish(phase)
    PROVE  /\ client' \in RpcClients /\ client'.pending = client.pending
           /\ client'.state = client.state /\ client'.writable = client.writable
           /\ job' \in [Jobs -> {"new", "waiting", "succeeded", "failed"}]
<1>1. Caller \in Jobs
  BY ConsumedOne, RequestFields DEF Caller
<1> QED
  BY <1>1, ConsumedOne DEF Finish, Types

LEMMA GoOnRejectedTypes == ASSUME Types, GoOnRejected PROVE Types'
<1>1. client.settled # <<>> /\ Finish("failed")
  BY DEF GoOnRejected, Settled
<1>2. /\ client' \in RpcClients /\ client'.pending = client.pending
      /\ client'.state = client.state /\ client'.writable = client.writable
      /\ job' \in [Jobs -> {"new", "waiting", "succeeded", "failed"}]
  BY <1>1, FinishTypes
<1> QED
  BY <1>2 DEF GoOnRejected, Types, adapterVars, serverVars, logVars

LEMMA GoOnInterruptedTypes == ASSUME Types, GoOnInterrupted PROVE Types'
<1>1. client.settled # <<>> /\ Finish("succeeded")
  BY DEF GoOnInterrupted, Resolves, Settled
<1>2. /\ client' \in RpcClients /\ client'.pending = client.pending
      /\ client'.state = client.state /\ client'.writable = client.writable
      /\ job' \in [Jobs -> {"new", "waiting", "succeeded", "failed"}]
  BY <1>1, FinishTypes
<1> QED
  BY <1>2 DEF GoOnInterrupted, Types, adapterVars, serverVars, logVars

LEMMA GoOnStartedTypes == ASSUME Types, GoOnStarted PROVE Types'
<1> DEFINE r == Outcome.request
<1>1. /\ client.settled # <<>> /\ Finish("succeeded") /\ r.method = "turn/start"
      /\ MarkTurnStarted(record, r.session, r.turn)
  BY DEF GoOnStarted, Resolves, Settled
<1>2. /\ client' \in RpcClients /\ client'.pending = client.pending
      /\ client'.state = client.state /\ client'.writable = client.writable
      /\ job' \in [Jobs -> {"new", "waiting", "succeeded", "failed"}]
  BY <1>1, FinishTypes
<1>3. r.session \in Sessions /\ r.turn \in Texts
  BY <1>1, ConsumedOne, RequestFields
<1> HIDE DEF r
<1>4. /\ record' \in [Sessions -> ThreadRecords] /\ startedTurns' \in SUBSET Texts
      /\ turnLog' \in [Texts -> Seq({"started", "completed"})]
  BY <1>1, <1>3, MarkedTurn, TypeFacts
<1> QED
  BY <1>2, <1>4 DEF GoOnStarted, Types, serverVars

(* A text that goes on or that is submitted.                                *)
LEMMA StartTypes ==
    ASSUME Types, NEW c \in RpcClients, Len(c.pending) <= PendingLimit,
           NEW x \in Texts, NEW s \in Sessions, StartTurn(c, x, s)
    PROVE  /\ client' \in RpcClients /\ Len(client'.pending) <= PendingLimit
           /\ client'.state = c.state /\ client'.writable = c.writable
           /\ job' \in [Jobs -> {"new", "waiting", "succeeded", "failed"}]
<1>1. x \in Jobs /\ job \in [Jobs -> {"new", "waiting", "succeeded", "failed"}]
  BY DEF Jobs, Types
<1>2. CASE record[s].turn # NoTurn
  BY <1>1, <1>2 DEF StartTurn
<1>3. CASE record[s].turn = NoTurn
  <2> DEFINE r == Call(x, "turn/start", s, x)
  <2>1. r \in Requests
    BY <1>1 DEF Call, Requests, Methods, Turns
  <2>2. job' = [job EXCEPT ![x] = "waiting"] /\ client' = Request(c, r)
    BY <1>3 DEF StartTurn
  <2> HIDE DEF r
  <2>3. Len(client'.pending) <= PendingLimit
    <3>1. c.pending \in Seq(Requests) /\ Len(c.pending) \in Nat /\ PendingLimit \in Nat
      BY ClientFields, PendingAssumption
    <3>2. \/ client'.pending = c.pending
          \/ Len(c.pending) < PendingLimit /\ client'.pending = Append(c.pending, r)
      BY <2>1, <2>2, Requested
    <3>3. Len(Append(c.pending, r)) = Len(c.pending) + 1
      BY <3>1, <2>1
    <3> QED
      BY <3>1, <3>2, <3>3
  <2> QED
    BY <1>1, <2>1, <2>2, <2>3, Requested
<1> QED
  BY <1>2, <1>3

LEMMA GoOnLoadedTypes ==
    ASSUME Types, GoOnLoaded PROVE Types'
<1>1. /\ client.settled # <<>> /\ Outcome.request.method = "loaded"
      /\ StartTurn(Consumed, Caller, Outcome.request.session)
  BY DEF GoOnLoaded, Resolves, Settled
<1>2. Outcome.request.session \in Sessions /\ Caller \in Texts
  BY <1>1, ConsumedOne, RequestFields DEF Caller
<1>3. Consumed \in RpcClients /\ Consumed.pending = client.pending
      /\ Consumed.state = client.state /\ Consumed.writable = client.writable
  BY <1>1, ConsumedOne
<1>4. Len(client.pending) <= PendingLimit
  BY DEF Types
<1>5. /\ client' \in RpcClients /\ Len(client'.pending) <= PendingLimit
      /\ client'.state = client.state /\ client'.writable = client.writable
      /\ job' \in [Jobs -> {"new", "waiting", "succeeded", "failed"}]
  BY <1>1, <1>2, <1>3, <1>4, StartTypes
<1> QED
  BY <1>5 DEF GoOnLoaded, Types, adapterVars, serverVars, logVars

(* What a session is registered as.                                         *)
LEMMA RegisteredFields ==
    ASSUME Types, NEW s \in Sessions, NEW st \in Statuses \ {"none"}
    PROVE  /\ Registered(s, st) \in [Sessions -> ThreadRecords]
           /\ \A r \in Sessions :
                 /\ Registered(s, st)[r].turn = record[r].turn
                 /\ Registered(s, st)[r].approval = record[r].approval
<1> DEFINE x == IF record[s].turn = NoTurn /\ record[s].approval = NoApproval
                THEN st ELSE record[s].state
<1>1. record \in [Sessions -> ThreadRecords]
  BY TypeFacts
<1>2. x \in {"idle", "working", "waiting_for_user", "failed"}
  BY <1>1 DEF ThreadRecords, Statuses
<1>3. Registered(s, st) =
         [record EXCEPT ![s].known = TRUE, ![s].loaded = TRUE, ![s].state = x]
  BY <1>1 DEF Registered, ThreadRecords
<1> HIDE DEF x
<1>4. Registered(s, st) \in [Sessions -> ThreadRecords]
  BY <1>1, <1>2, <1>3 DEF ThreadRecords
<1>5. \A r \in Sessions : /\ Registered(s, st)[r].turn = record[r].turn
                          /\ Registered(s, st)[r].approval = record[r].approval
  BY <1>1, <1>3 DEF ThreadRecords
<1> QED
  BY <1>4, <1>5

(* The text that opened a session will be settled once more.                *)
LoadedBy(x, s) == Resolved(Call(x, "loaded", s, NoTurn), "none")

LEMMA LoadedOutcome ==
    ASSUME NEW x \in Texts, NEW s \in Sessions
    PROVE  /\ LoadedBy(x, s) \in Outcomes
           /\ LoadedBy(x, s).request \in Requests
           /\ LoadedBy(x, s).request.job = x
           /\ LoadedBy(x, s).request.method = "loaded"
<1> DEFINE r == Call(x, "loaded", s, NoTurn)
<1>1. r \in Requests /\ r.method = "loaded" /\ r.job = x
  BY DEF Call, Requests, Methods, Turns, Jobs
<1> HIDE DEF r
<1>2. Resolved(r, "none") \in Outcomes /\ Resolved(r, "none").request = r
  BY <1>1 DEF Resolved, Outcomes, Statuses
<1>3. LoadedBy(x, s) = Resolved(r, "none")
  BY DEF LoadedBy, r
<1> QED
  BY <1>1, <1>2, <1>3

LEMMA OpenedFields ==
    ASSUME Types, GoOnOpened
    PROVE  /\ client.settled # <<>>
           /\ Outcome.request.session \in Sessions /\ Caller \in Jobs
           /\ Outcome.request.method \in {"thread/resume", "thread/start"}
           /\ client' \in RpcClients /\ client'.pending = client.pending
           /\ client'.state = client.state /\ client'.writable = client.writable
           /\ client'.stdin = client.stdin
           /\ \/ /\ Caller \in Texts
                 /\ client'.settled = Append(Tail(client.settled),
                        LoadedBy(Caller, Outcome.request.session))
                 /\ job' = job
              \/ /\ client'.settled = Tail(client.settled)
                 /\ job' = [job EXCEPT ![Caller] = "succeeded"]
           /\ record' \in [Sessions -> ThreadRecords]
           /\ \A r \in Sessions :
                 /\ record'[r].turn = record[r].turn
                 /\ record'[r].approval = record[r].approval
<1> DEFINE s == Outcome.request.session
           o == LoadedBy(Caller, s)
           z == Tail(client.settled)
<1>1. client.settled # <<>> /\ Outcome.ok
      /\ Outcome.request.method \in {"thread/resume", "thread/start"}
  BY DEF GoOnOpened, Resolves, Settled
<1>2. /\ Consumed \in RpcClients /\ Consumed.pending = client.pending
      /\ Consumed.state = client.state /\ Consumed.writable = client.writable
      /\ Consumed.stdin = client.stdin
      /\ Consumed.settled = z
  BY <1>1, ConsumedOne
<1>3. /\ s \in Sessions /\ Caller \in Jobs
      /\ Outcome.status \in Statuses \ {"none"}
  BY <1>1, ConsumedOne, RequestFields DEF Outcomes, Caller
<1>4. /\ client' \in RpcClients /\ client'.pending = client.pending
      /\ client'.state = client.state /\ client'.writable = client.writable
      /\ client'.stdin = client.stdin
      /\ \/ Caller \in Texts /\ client'.settled = Append(z, o) /\ job' = job
         \/ /\ client'.settled = z
            /\ job' = [job EXCEPT ![Caller] = "succeeded"]
  <2>1. CASE Caller \in Texts
    <3> DEFINE y == Append(z, o)
    <3>1. z \in Seq(Outcomes) /\ o \in Outcomes
      <4>1. Consumed.settled \in Seq(Outcomes)
        BY <1>2, ClientFields
      <4>2. o \in Outcomes
        BY <1>3, <2>1, LoadedOutcome
      <4> QED
        BY <1>2, <4>1, <4>2
    <3>2. y \in Seq(Outcomes)
      <4> HIDE DEF o, z
      <4> QED
        BY <3>1
    <3>3. client' = [Consumed EXCEPT !.settled = y] /\ job' = job
      BY <1>2, <2>1 DEF GoOnOpened, LoadedBy
    <3> HIDE DEF y
    <3>4. /\ client' \in RpcClients /\ client'.settled = y
          /\ client'.pending = client.pending /\ client'.stdin = client.stdin
          /\ client'.state = client.state /\ client'.writable = client.writable
      BY <1>2, <3>2, <3>3 DEF RpcClients
    <3> HIDE DEF z, o
    <3> QED
      BY <2>1, <3>3, <3>4 DEF y
  <2>2. CASE Caller \notin Texts
    <3>1. client' = Consumed /\ job' = [job EXCEPT ![Caller] = "succeeded"]
      BY <2>2 DEF GoOnOpened, Finish
    <3> HIDE DEF z, o
    <3> QED
      BY <1>2, <3>1
  <2> QED
    BY <2>1, <2>2
<1>6. record' = Registered(s, Outcome.status)
  BY DEF GoOnOpened
<1>7. /\ record' \in [Sessions -> ThreadRecords]
      /\ \A r \in Sessions :
            /\ record'[r].turn = record[r].turn
            /\ record'[r].approval = record[r].approval
  <2> HIDE DEF s
  <2> QED
    BY <1>3, <1>6, RegisteredFields
<1> QED
  BY <1>1, <1>3, <1>4, <1>7

LEMMA GoOnOpenedTypes == ASSUME Types, GoOnOpened PROVE Types'
<1>1. job' \in [Jobs -> {"new", "waiting", "succeeded", "failed"}]
  <2>1. \/ job' = job
        \/ Caller \in Jobs /\ job' = [job EXCEPT ![Caller] = "succeeded"]
    BY OpenedFields
  <2> QED
    BY <2>1 DEF Types
<1>2. /\ client' \in RpcClients /\ client'.pending = client.pending
      /\ client'.state = client.state /\ client'.writable = client.writable
      /\ record' \in [Sessions -> ThreadRecords]
  BY OpenedFields
<1> QED
  BY <1>1, <1>2 DEF GoOnOpened, Types, serverVars, logVars

(* A request that is given up.                                              *)
LEMMA GivenUp ==
    ASSUME Types, TimeOut
    PROVE  \E k \in 1 .. Len(client.pending) :
              /\ client' = SettleRequest(client, Rejected(client.pending[k]))
              /\ client.pending[k] \in Requests
              /\ Rejected(client.pending[k]) \in Outcomes
              /\ Rejected(client.pending[k]).request = client.pending[k]
<1>1. PICK k \in 1 .. Len(client.pending) :
          client' = SettleRequest(client, Rejected(client.pending[k]))
  BY DEF TimeOut
<1>2. client.pending[k] \in Requests
  BY TypeFacts, ClientFields
<1>3. /\ Rejected(client.pending[k]) \in Outcomes
      /\ Rejected(client.pending[k]).request = client.pending[k]
  BY <1>2, RequestFields
<1> QED
  BY <1>1, <1>2, <1>3

LEMMA TimeOutTypes == ASSUME Types, TimeOut PROVE Types'
<1>1. PICK k \in 1 .. Len(client.pending) :
          /\ client' = SettleRequest(client, Rejected(client.pending[k]))
          /\ Rejected(client.pending[k]) \in Outcomes
          /\ Rejected(client.pending[k]).request = client.pending[k]
  BY GivenUp
<1>2. /\ client \in RpcClients /\ Len(client.pending) <= PendingLimit
      /\ Len(client.pending) \in Nat /\ PendingLimit \in Nat
  BY ClientFields, PendingAssumption DEF Types
<1>3. /\ client' \in RpcClients /\ client'.state = client.state
      /\ client'.writable = client.writable
      /\ Len(client'.pending) = Len(client.pending) - 1
  BY <1>1, <1>2, SettledOne DEF Without
<1>4. Len(client'.pending) <= PendingLimit
  BY <1>2, <1>3
<1> QED
  BY <1>3, <1>4 DEF TimeOut, Types, adapterVars, serverVars, logVars

LEMMA LineTooLongTypes == ASSUME Types, LineTooLong PROVE Types'
<1>1. client' = FailAll(client, "failed") /\ stdout' = <<>>
  BY DEF LineTooLong
<1>2. /\ client' \in RpcClients /\ client'.state # "ready"
      /\ Len(client'.pending) <= Len(client.pending)
  BY <1>1, FailedAll, TypeFacts
<1>3. Len(client'.pending) <= PendingLimit
  BY <1>2, ClientFields, PendingAssumption DEF Types
<1> QED
  BY <1>1, <1>2, <1>3 DEF LineTooLong, Types, adapterVars, serverVars, logVars

(* The client of a child that has exited.                                   *)
LEMMA ExitedClient ==
    ASSUME Types, NoticeExit
    PROVE  /\ client' \in RpcClients /\ client'.state # "ready"
           /\ client'.writable = FALSE
           /\ client'.stdin = client.stdin
           /\ Len(client'.pending) <= Len(client.pending)
<1> DEFINE c == FailAll(client, "failed")
<1>1. /\ c \in RpcClients /\ c.state # "ready" /\ c.stdin = client.stdin
      /\ Len(c.pending) <= Len(client.pending)
  BY FailedAll, TypeFacts
<1>2. client' = [c EXCEPT !.writable = FALSE]
  BY DEF NoticeExit
<1> HIDE DEF c
<1> QED
  BY <1>1, <1>2 DEF RpcClients

LEMMA NoticeExitTypes == ASSUME Types, NoticeExit PROVE Types'
<1>1. Len(client'.pending) <= PendingLimit
  <2>1. /\ client \in RpcClients /\ client' \in RpcClients
        /\ Len(client.pending) <= PendingLimit
        /\ Len(client'.pending) <= Len(client.pending)
    BY ExitedClient DEF Types
  <2>2. Len(client'.pending) \in Nat /\ Len(client.pending) \in Nat
    BY <2>1, ClientFields
  <2> QED
    BY <2>1, <2>2, PendingAssumption
<1>2. stdout' = <<>>
  BY DEF NoticeExit
<1> QED
  BY <1>1, <1>2, ExitedClient DEF NoticeExit, Types, adapterVars, serverVars, logVars

LEMMA AfterApprovalFields ==
    ASSUME Types, NEW s \in Sessions
    PROVE  /\ AfterApproval(s) \in [Sessions -> ThreadRecords]
           /\ \A r \in Sessions :
                 /\ AfterApproval(s)[r].turn = record[r].turn
                 /\ AfterApproval(s)[r].approval =
                       IF r = s THEN NoApproval ELSE record[r].approval
<1> DEFINE x == IF record[s].turn = NoTurn THEN "idle" ELSE "working"
<1>1. record \in [Sessions -> ThreadRecords]
  BY TypeFacts
<1>2. x \in {"idle", "working", "waiting_for_user", "failed"}
  OBVIOUS
<1>3. AfterApproval(s) = [record EXCEPT ![s].approval = NoApproval, ![s].state = x]
  BY DEF AfterApproval
<1> HIDE DEF x
<1>4. AfterApproval(s) \in [Sessions -> ThreadRecords]
  BY <1>1, <1>2, <1>3 DEF ThreadRecords
<1>5. \A r \in Sessions :
         /\ AfterApproval(s)[r].turn = record[r].turn
         /\ AfterApproval(s)[r].approval =
               IF r = s THEN NoApproval ELSE record[r].approval
  BY <1>1, <1>3 DEF ThreadRecords
<1> QED
  BY <1>4, <1>5

(* An approval that is answered, by the user or the timer.                  *)
LEMMA OneAnswered ==
    ASSUME Types, NEW p \in approvals, NEW d \in Decisions
    PROVE  /\ p \in PendingApprovals /\ p.session \in Sessions
           /\ {p} \in SUBSET PendingApprovals /\ IsFiniteSet({p})
           /\ approvals \ {p} \in SUBSET PendingApprovals
           /\ IsFiniteSet(approvals \ {p})
           /\ RespondAll({p}, d) \in RpcClients
           /\ RespondAll({p}, d).state = client.state
           /\ RespondAll({p}, d).writable = client.writable
           /\ RespondAll({p}, d).pending = client.pending
<1>1. approvals \in SUBSET PendingApprovals /\ IsFiniteSet(approvals)
  BY DEF Types
<1>2. p \in PendingApprovals /\ p.session \in Sessions
  BY <1>1 DEF PendingApprovals
<1>3. {p} \in SUBSET PendingApprovals /\ IsFiniteSet({p})
  BY <1>2, FS_Singleton
<1>4. /\ approvals \ {p} \in SUBSET PendingApprovals
      /\ IsFiniteSet(approvals \ {p})
  BY <1>1, FS_RemoveElement
<1> QED
  BY <1>2, <1>3, <1>4, AnsweredAll

LEMMA RespondTypes ==
    ASSUME Types, NEW p \in approvals, RespondToApproval(p) PROVE Types'
<1>1. "accept" \in Decisions
  BY DEF Decisions
<1>2. approvals' \in SUBSET PendingApprovals /\ IsFiniteSet(approvals')
  BY <1>1, OneAnswered DEF RespondToApproval
<1>3. CASE /\ client' = RespondAll({p}, "accept") /\ Answer({p}, "accept")
           /\ record' = AfterApproval(p.session)
  <2>1. record' \in [Sessions -> ThreadRecords]
    BY <1>1, <1>3, OneAnswered, AfterApprovalFields
  <2>2. /\ decided' \in [Approvals -> Seq(Decisions)]
        /\ approvalLog' \in [Approvals -> Seq({"requested"} \cup Decisions)]
    BY <1>1, <1>3, OneAnswered, AnswerTypes
  <2>3. /\ client' \in RpcClients /\ client'.state = client.state
        /\ client'.writable = client.writable /\ client'.pending = client.pending
    BY <1>1, <1>3, OneAnswered
  <2> QED
    BY <1>2, <2>1, <2>2, <2>3 DEF RespondToApproval, Types, serverVars
<1>4. CASE UNCHANGED <<client, decided, approvalLog, record>>
  BY <1>2, <1>4 DEF RespondToApproval, Types, serverVars
<1> QED
  BY <1>3, <1>4 DEF RespondToApproval

LEMMA ExpireTypes ==
    ASSUME Types, NEW p \in approvals, Expire(p) PROVE Types'
<1>1. "cancel" \in Decisions
  BY DEF Decisions
<1>2. /\ approvals' \in SUBSET PendingApprovals /\ IsFiniteSet(approvals')
      /\ bridge' \in {"up", "closing", "crashed"}
  BY <1>1, OneAnswered DEF Expire, Types
<1>3. CASE /\ client' = RespondAll({p}, "cancel") /\ Answer({p}, "cancel")
           /\ record' = AfterApproval(p.session)
  <2>1. record' \in [Sessions -> ThreadRecords]
    BY <1>1, <1>3, OneAnswered, AfterApprovalFields
  <2>2. /\ decided' \in [Approvals -> Seq(Decisions)]
        /\ approvalLog' \in [Approvals -> Seq({"requested"} \cup Decisions)]
    BY <1>1, <1>3, OneAnswered, AnswerTypes
  <2>3. /\ client' \in RpcClients /\ client'.state = client.state
        /\ client'.writable = client.writable /\ client'.pending = client.pending
    BY <1>1, <1>3, OneAnswered
  <2> QED
    BY <1>2, <2>1, <2>2, <2>3 DEF Expire, Types, serverVars
<1>4. CASE UNCHANGED <<client, decided, approvalLog, record>>
  BY <1>2, <1>4 DEF Expire, Types, serverVars
<1> QED
  BY <1>3, <1>4 DEF Expire

LEMMA ShutdownTypes == ASSUME Types, Shutdown PROVE Types'
<1>1. /\ "cancel" \in Decisions /\ approvals \in SUBSET PendingApprovals
      /\ IsFiniteSet(approvals)
  BY DEF Decisions, Types
<1>2. CASE /\ bridge' = "closing"
           /\ client' = FailAll(RespondAll(approvals, "cancel"), "closed")
           /\ Answer(approvals, "cancel")
           /\ approvals' = {}
           /\ stdout' = <<>>
  <2> DEFINE c == RespondAll(approvals, "cancel")
  <2>1. c \in RpcClients /\ c.pending = client.pending
    BY <1>1, AnsweredAll
  <2> HIDE DEF c
  <2>2. /\ client' \in RpcClients /\ client'.state # "ready"
        /\ Len(client'.pending) <= Len(client.pending)
    BY <1>2, <2>1, FailedAll DEF c
  <2>3. Len(client'.pending) <= PendingLimit
    BY <2>2, ClientFields, PendingAssumption DEF Types
  <2>4. /\ decided' \in [Approvals -> Seq(Decisions)]
        /\ approvalLog' \in [Approvals -> Seq({"requested"} \cup Decisions)]
    BY <1>1, <1>2, AnswerTypes
  <2>5. approvals' \in SUBSET PendingApprovals /\ IsFiniteSet(approvals')
    BY <1>2, FS_EmptySet
  <2> QED
    BY <1>2, <2>2, <2>3, <2>4, <2>5 DEF Shutdown, Types, serverVars
<1>3. CASE /\ bridge' = "crashed"
           /\ UNCHANGED <<client, decided, approvalLog, approvals, stdout>>
  BY <1>3 DEF Shutdown, Types, serverVars
<1> QED
  BY <1>2, <1>3 DEF Shutdown

(* The calls.                                                               *)
LEMMA AskTypes ==
    ASSUME Types, NEW j \in Jobs, NEW m \in {"thread/resume", "thread/start",
                                             "turn/interrupt"},
           NEW s \in Sessions, NEW t \in Turns,
           m = "turn/interrupt" => j \in Interrupts /\ t \in Texts, Ask(j, m, s, t)
    PROVE  /\ Types'
           /\ Call(j, m, s, t) \in Requests
           /\ client' = Request(client, Call(j, m, s, t))
<1> DEFINE r == Call(j, m, s, t)
<1>1. r \in Requests
  BY DEF Call, Requests, Methods
<1>2. job' = [job EXCEPT ![j] = "waiting"] /\ client' = Request(client, r)
  BY DEF Ask
<1> HIDE DEF r
<1>3. client \in RpcClients /\ Len(client.pending) <= PendingLimit
  BY DEF Types
<1>4. Len(client'.pending) <= PendingLimit
  <2>1. /\ client.pending \in Seq(Requests) /\ Len(client.pending) \in Nat
        /\ PendingLimit \in Nat
    BY <1>3, ClientFields, PendingAssumption
  <2>2. \/ client'.pending = client.pending
        \/ /\ Len(client.pending) < PendingLimit
           /\ client'.pending = Append(client.pending, r)
    BY <1>1, <1>2, <1>3, Requested
  <2>3. Len(Append(client.pending, r)) = Len(client.pending) + 1
    BY <1>1, <2>1
  <2> QED
    BY <1>3, <2>1, <2>2, <2>3
<1>5. /\ client' \in RpcClients /\ client'.state = client.state
      /\ client'.writable = client.writable
  BY <1>1, <1>2, <1>3, Requested
<1>6. job' \in [Jobs -> {"new", "waiting", "succeeded", "failed"}]
  BY <1>2 DEF Types
<1>7. Types'
  BY <1>4, <1>5, <1>6 DEF Ask, Types, adapterVars, serverVars, logVars
<1> QED
  BY <1>1, <1>2, <1>7 DEF r

LEMMA SubmitTypes ==
    ASSUME Types, NEW x \in Texts, NEW s \in Sessions, SubmitText(x, s)
    PROVE  Types'
<1>1. client \in RpcClients /\ Len(client.pending) <= PendingLimit
  BY DEF Types
<1>2. /\ client' \in RpcClients /\ Len(client'.pending) <= PendingLimit
      /\ client'.state = client.state /\ client'.writable = client.writable
      /\ job' \in [Jobs -> {"new", "waiting", "succeeded", "failed"}]
  <2>1. CASE record[s].loaded
    <3>1. StartTurn(client, x, s)
      BY <2>1 DEF SubmitText
    <3> QED
      BY <1>1, <3>1, StartTypes
  <2>2. CASE ~record[s].loaded
    <3> DEFINE r == Call(x, "thread/resume", s, NoTurn)
    <3>1. r \in Requests
      BY DEF Call, Requests, Methods, Jobs, Turns
    <3>2. job' = [job EXCEPT ![x] = "waiting"] /\ client' = Request(client, r)
      BY <2>2 DEF SubmitText
    <3> HIDE DEF r
    <3>3. /\ client.pending \in Seq(Requests) /\ Len(client.pending) \in Nat
          /\ PendingLimit \in Nat
      BY <1>1, ClientFields, PendingAssumption
    <3>4. \/ client'.pending = client.pending
          \/ /\ Len(client.pending) < PendingLimit
             /\ client'.pending = Append(client.pending, r)
      BY <1>1, <3>1, <3>2, Requested
    <3>5. Len(Append(client.pending, r)) = Len(client.pending) + 1
      BY <3>1, <3>3
    <3>6. Len(client'.pending) <= PendingLimit
      BY <1>1, <3>3, <3>4, <3>5
    <3>7. job' \in [Jobs -> {"new", "waiting", "succeeded", "failed"}]
      BY <3>2 DEF Types
    <3> QED
      BY <1>1, <3>1, <3>2, <3>6, <3>7, Requested
  <2> QED
    BY <2>1, <2>2
<1> QED
  BY <1>2 DEF SubmitText, Types, adapterVars, serverVars, logVars

(* The lines of the app-server.                                             *)
LEMMA StatusType ==
    ASSUME NEW s \in Sessions
    PROVE  Status(s) \in Statuses \ {"none"}
BY DEF Status, Statuses

LEMMA LineTypes ==
    /\ \A o \in Outcomes : ResponseLine(o) \in OutLines
    /\ \A s \in Sessions, t \in Texts : StartedLine(s, t) \in OutLines
    /\ \A s \in Sessions, f \in BOOLEAN :
          server.running[s] \in Texts => CompletedLine(s, f) \in OutLines
    /\ \A s \in Sessions, x \in Statuses \ {"none"} : StatusLine(s, x) \in OutLines
    /\ \A s \in Sessions : ErrorLine(s) \in OutLines
    /\ \A a \in Approvals, s \in Sessions :
          server.running[s] \in Texts => ApprovalLine(a, s) \in OutLines
BY DEF OutLines, ResponseLine, StartedLine, CompletedLine, StatusLine, ErrorLine,
       ApprovalLine

LEMMA AnswersToRequests ==
    ASSUME NEW r \in Requests
    PROVE  /\ Rejected(r) \in Outcomes /\ ~Rejected(r).ok
           /\ r.method \notin {"thread/resume", "thread/start"} =>
                 Resolved(r, "none") \in Outcomes
           /\ \A x \in Statuses \ {"none"} : Resolved(r, x) \in Outcomes
           /\ \A x : Resolved(r, x).request = r
           /\ Rejected(r).request = r
BY DEF Rejected, Resolved, Outcomes, Statuses

LEMMA ServerRefusesTypes == ASSUME Types, ServerRefuses PROVE Types'
<1> DEFINE r == Head(client.stdin).request
           l == ResponseLine(Rejected(r))
<1>1. Serving("request") /\ Say(<<l>>)
  BY DEF ServerRefuses
<1>2. r \in Requests
  BY <1>1, TakenLine, InLineFields
<1>3. l \in OutLines
  BY <1>2, AnswersToRequests, LineTypes
<1> HIDE DEF r, l
<1>4. <<l>> \in Seq(OutLines)
  BY <1>3
<1>5. /\ stdout' \in Seq(OutLines)
      /\ client.state # "ready" => stdout' = stdout
  BY <1>1, <1>4, SaidLines
<1>6. /\ client' \in RpcClients /\ client'.pending = client.pending
      /\ client'.state = client.state /\ client'.writable = client.writable
  BY <1>1, TakenLine
<1> QED
  BY <1>5, <1>6 DEF ServerRefuses, Serving, Types, bridgeVars, adapterVars, logVars

LEMMA OpenedServer ==
    ASSUME Types, ServerOpens
    PROVE  /\ Serving("request") /\ server' \in Servers
           /\ server'.alive = server.alive /\ server'.running = server.running
           /\ server'.owed = server.owed /\ server'.asking = server.asking
           /\ Head(client.stdin).request \in Requests
           /\ Head(client.stdin).request.method \in {"thread/resume", "thread/start"}
           /\ \E o \in Outcomes :
                 /\ o.request = Head(client.stdin).request
                 /\ Say(<<ResponseLine(o)>>)
<1> DEFINE r == Head(client.stdin).request
<1>1. PICK m \in {"thread/resume", "thread/start"} : Asks(m)
  BY DEF ServerOpens
<1>2. r \in Requests /\ r.method = m /\ Serving("request")
  BY <1>1, AskedLine DEF Asks
<1>3. /\ server' = [server EXCEPT !.threads = @ \cup {r.session}]
      /\ Say(<<ResponseLine(Resolved(r, Status(r.session)))>>)
  BY DEF ServerOpens
<1>4. r.session \in Sessions
  BY <1>2, RequestFields
<1> HIDE DEF r
<1>5. /\ server' \in Servers
      /\ server'.alive = server.alive /\ server'.running = server.running
      /\ server'.owed = server.owed /\ server'.asking = server.asking
  BY <1>3, <1>4 DEF Types, Servers
<1>6. Resolved(r, Status(r.session)) \in Outcomes
      /\ Resolved(r, Status(r.session)).request = r
  BY <1>2, <1>4, StatusType, AnswersToRequests
<1>7. r = Head(client.stdin).request
  BY DEF r
<1> QED
  BY <1>1, <1>2, <1>3, <1>5, <1>6, <1>7

LEMMA ServerOpensTypes == ASSUME Types, ServerOpens PROVE Types'
<1>1. PICK o \in Outcomes : Say(<<ResponseLine(o)>>)
  BY OpenedServer
<1>2. ResponseLine(o) \in OutLines
  BY LineTypes
<1>3. <<ResponseLine(o)>> \in Seq(OutLines)
  BY <1>2
<1>4. /\ stdout' \in Seq(OutLines)
      /\ client.state # "ready" => stdout' = stdout
  BY <1>1, <1>3, SaidLines
<1>5. Serving("request") /\ server' \in Servers
  BY OpenedServer
<1>6. /\ client' \in RpcClients /\ client'.pending = client.pending
      /\ client'.state = client.state /\ client'.writable = client.writable
  BY <1>5, TakenLine
<1> QED
  BY <1>4, <1>5, <1>6 DEF ServerOpens, Serving, Types, bridgeVars, adapterVars, logVars

(* A turn that the app-server starts.                                       *)
LEMMA StartedServer ==
    ASSUME Types, ServerStartsTurn,
           NEW r, r = Head(client.stdin).request
    PROVE  /\ Serving("request")
           /\ r \in Requests /\ r.method = "turn/start"
           /\ r.session \in Sessions /\ r.turn \in Texts /\ r.turn = r.job
           /\ server.running[r.session] = NoTurn
           /\ carriedOut' = carriedOut \cup {r.turn}
           /\ server' \in Servers
           /\ server'.alive = server.alive
           /\ server'.running = [server.running EXCEPT ![r.session] = r.turn]
           /\ server'.asking = server.asking
           /\ \A q \in server'.owed : q \in server.owed \/ q = r
           /\ StartedLine(r.session, r.turn) \in OutLines
           /\ Resolved(r, "none") \in Outcomes
           /\ \/ Say(<<ResponseLine(Resolved(r, "none")),
                       StartedLine(r.session, r.turn)>>)
              \/ Say(<<StartedLine(r.session, r.turn)>>)
<1>1. Asks("turn/start")
  BY DEF ServerStartsTurn
<1>2. r \in Requests /\ r.method = "turn/start" /\ Serving("request")
  BY <1>1, AskedLine DEF Asks
<1>3. r.session \in Sessions /\ r.turn \in Texts /\ r.turn = r.job
  BY <1>2, RequestFields
<1> DEFINE run == [server EXCEPT !.running[r.session] = r.turn]
<1>4. /\ server.running[r.session] = NoTurn
      /\ carriedOut' = carriedOut \cup {r.turn}
      /\ \/ /\ server' = run
            /\ Say(<<ResponseLine(Resolved(r, "none")),
                     StartedLine(r.session, r.turn)>>)
         \/ /\ server' = [run EXCEPT !.owed = @ \cup {r}]
            /\ Say(<<StartedLine(r.session, r.turn)>>)
  BY DEF ServerStartsTurn
<1>5. /\ run \in Servers /\ run.alive = server.alive
      /\ run.running = [server.running EXCEPT ![r.session] = r.turn]
      /\ run.asking = server.asking /\ run.owed = server.owed
  BY <1>3 DEF Types, Servers, Turns
<1> HIDE DEF run
<1>6. /\ [run EXCEPT !.owed = @ \cup {r}] \in Servers
      /\ [run EXCEPT !.owed = @ \cup {r}].alive = run.alive
      /\ [run EXCEPT !.owed = @ \cup {r}].running = run.running
      /\ [run EXCEPT !.owed = @ \cup {r}].asking = run.asking
      /\ [run EXCEPT !.owed = @ \cup {r}].owed = run.owed \cup {r}
  BY <1>2, <1>5 DEF Servers
<1>7. StartedLine(r.session, r.turn) \in OutLines
      /\ Resolved(r, "none") \in Outcomes
  BY <1>2, <1>3, LineTypes, AnswersToRequests
<1>8. /\ server' \in Servers
      /\ server'.alive = server.alive
      /\ server'.running = [server.running EXCEPT ![r.session] = r.turn]
      /\ server'.asking = server.asking
      /\ \A q \in server'.owed : q \in server.owed \/ q = r
  BY <1>4, <1>5, <1>6
<1> QED
  BY <1>2, <1>3, <1>4, <1>7, <1>8

LEMMA ServerStartsTypes == ASSUME Types, ServerStartsTurn PROVE Types'
<1> DEFINE r == Head(client.stdin).request
           a == ResponseLine(Resolved(r, "none"))
           b == StartedLine(r.session, r.turn)
<1>1. /\ Serving("request") /\ server' \in Servers /\ r.turn \in Texts
      /\ carriedOut' = carriedOut \cup {r.turn}
      /\ b \in OutLines /\ Resolved(r, "none") \in Outcomes
      /\ Say(<<a, b>>) \/ Say(<<b>>)
  BY StartedServer
<1>2. a \in OutLines
  BY <1>1, LineTypes
<1> HIDE DEF r, a, b
<1>3. <<a, b>> \in Seq(OutLines) /\ <<b>> \in Seq(OutLines)
  BY <1>1, <1>2
<1>4. /\ stdout' \in Seq(OutLines)
      /\ client.state # "ready" => stdout' = stdout
  BY <1>1, <1>3, SaidLines
<1>5. /\ client' \in RpcClients /\ client'.pending = client.pending
      /\ client'.state = client.state /\ client'.writable = client.writable
  BY <1>1, TakenLine
<1>6. carriedOut' \in SUBSET Texts
  BY <1>1 DEF Types
<1> QED
  BY <1>1, <1>4, <1>5, <1>6
  DEF ServerStartsTurn, Asks, Serving, Types, bridgeVars, adapterVars, logVars

(* An answer to turn/start that the app-server owed.                        *)
LEMMA PaidServer ==
    ASSUME Types, NEW r \in server.owed, ServerAnswersTurn(r)
    PROVE  /\ server' \in Servers
           /\ server'.alive = server.alive /\ server'.running = server.running
           /\ server'.asking = server.asking
           /\ server'.owed = server.owed \ {r}
           /\ r \in Requests /\ r.method = "turn/start"
           /\ Resolved(r, "none") \in Outcomes /\ Resolved(r, "none").request = r
<1>1. server \in Servers /\ r \in Requests /\ r.method = "turn/start"
  BY DEF Types, Servers
<1>2. server' = [server EXCEPT !.owed = @ \ {r}]
  BY DEF ServerAnswersTurn
<1> QED
  BY <1>1, <1>2, AnswersToRequests DEF Servers

LEMMA ServerAnswersTypes ==
    ASSUME Types, NEW r \in server.owed, ServerAnswersTurn(r) PROVE Types'
<1> DEFINE l == ResponseLine(Resolved(r, "none"))
<1>1. l \in OutLines /\ Say(<<l>>) /\ server' \in Servers
  BY PaidServer, LineTypes DEF ServerAnswersTurn
<1> HIDE DEF l
<1>2. <<l>> \in Seq(OutLines)
  BY <1>1
<1>3. /\ stdout' \in Seq(OutLines)
      /\ client.state # "ready" => stdout' = stdout
  BY <1>1, <1>2, SaidLines
<1> QED
  BY <1>1, <1>3
  DEF ServerAnswersTurn, Types, bridgeVars, adapterVars, logVars

(* A turn that ends at the app-server.                                      *)
LEMMA TurnOverFields ==
    ASSUME Types, NEW s \in Sessions, server' = TurnOver(s)
    PROVE  /\ server' \in Servers
           /\ server'.alive = server.alive
           /\ server'.running = [server.running EXCEPT ![s] = NoTurn]
           /\ server'.asking = {p \in server.asking : p.session # s}
           /\ server'.owed = server.owed
<1> DEFINE x == {p \in server.asking : p.session # s}
<1>1. server \in Servers
  BY DEF Types
<1>2. x \in SUBSET PendingApprovals
  BY <1>1 DEF Servers
<1>3. server' = [server EXCEPT !.running[s] = NoTurn, !.asking = x]
  BY DEF TurnOver
<1> DEFINE y == [server.running EXCEPT ![s] = NoTurn]
<1>5. y \in [Sessions -> Turns] /\ server' = [server EXCEPT !.running = y, !.asking = x]
  BY <1>1, <1>3 DEF Servers, Turns
<1> HIDE DEF x, y
<1>6. server' \in Servers
  BY <1>1, <1>2, <1>5 DEF Servers
<1>7. /\ server'.alive = server.alive
      /\ server'.running = y
      /\ server'.asking = x
      /\ server'.owed = server.owed
  BY <1>1, <1>5 DEF Servers
<1>4. /\ server' \in Servers
      /\ server'.alive = server.alive
      /\ server'.running = [server.running EXCEPT ![s] = NoTurn]
      /\ server'.asking = x
      /\ server'.owed = server.owed
  BY <1>6, <1>7 DEF y
<1> QED
  BY <1>4 DEF x

LEMMA InterruptedServer ==
    ASSUME Types, ServerInterrupts, NEW r, r = Head(client.stdin).request
    PROVE  /\ Serving("request")
           /\ r \in Requests /\ r.method = "turn/interrupt" /\ r.session \in Sessions
           /\ r.turn \in Texts /\ server.running[r.session] = r.turn
           /\ server' = TurnOver(r.session)
           /\ Resolved(r, "none") \in Outcomes /\ Resolved(r, "none").request = r
           /\ Say(<<ResponseLine(Resolved(r, "none")),
                    CompletedLine(r.session, FALSE)>>)
<1>1. Asks("turn/interrupt")
  BY DEF ServerInterrupts
<1>2. r \in Requests /\ r.method = "turn/interrupt" /\ Serving("request")
  BY <1>1, AskedLine DEF Asks
<1>3. /\ r.session \in Sessions /\ r.turn \in Texts
      /\ Resolved(r, "none") \in Outcomes /\ Resolved(r, "none").request = r
  BY <1>2, RequestFields, AnswersToRequests
<1> QED
  BY <1>2, <1>3 DEF ServerInterrupts

LEMMA ServerInterruptsTypes == ASSUME Types, ServerInterrupts PROVE Types'
<1> DEFINE r == Head(client.stdin).request
           a == ResponseLine(Resolved(r, "none"))
           b == CompletedLine(r.session, FALSE)
<1>1. /\ Serving("request") /\ r.session \in Sessions /\ r.turn \in Texts
      /\ server.running[r.session] = r.turn /\ server' = TurnOver(r.session)
      /\ Resolved(r, "none") \in Outcomes /\ Say(<<a, b>>)
  BY InterruptedServer
<1>2. a \in OutLines /\ b \in OutLines
  BY <1>1, LineTypes
<1>3. server' \in Servers
  BY <1>1, TurnOverFields
<1> HIDE DEF r, a, b
<1>4. <<a, b>> \in Seq(OutLines)
  BY <1>2
<1>5. /\ stdout' \in Seq(OutLines)
      /\ client.state # "ready" => stdout' = stdout
  BY <1>1, <1>4, SaidLines
<1>6. /\ client' \in RpcClients /\ client'.pending = client.pending
      /\ client'.state = client.state /\ client'.writable = client.writable
  BY <1>1, TakenLine
<1> QED
  BY <1>1, <1>3, <1>5, <1>6
  DEF ServerInterrupts, Asks, Serving, Types, bridgeVars, adapterVars, logVars

(* An answer that the app-server takes.                                     *)
LEMMA AnsweredServer ==
    ASSUME Types, ServerTakesAnswer
    PROVE  /\ Serving("answer") /\ server' \in Servers
           /\ server'.alive = server.alive /\ server'.running = server.running
           /\ server'.owed = server.owed
           /\ server'.asking =
                 {p \in server.asking : p.approval # Head(client.stdin).approval}
<1> DEFINE x == {p \in server.asking : p.approval # Head(client.stdin).approval}
<1>1. server \in Servers
  BY DEF Types
<1>2. x \in SUBSET PendingApprovals
  BY <1>1 DEF Servers
<1>3. server' = [server EXCEPT !.asking = x]
  BY DEF ServerTakesAnswer
<1> HIDE DEF x
<1>4. /\ server' \in Servers
      /\ server'.alive = server.alive /\ server'.running = server.running
      /\ server'.owed = server.owed /\ server'.asking = x
  BY <1>1, <1>2, <1>3 DEF Servers
<1> QED
  BY <1>4 DEF x, ServerTakesAnswer

LEMMA ServerTakesTypes == ASSUME Types, ServerTakesAnswer PROVE Types'
<1>1. /\ client' \in RpcClients /\ client'.pending = client.pending
      /\ client'.state = client.state /\ client'.writable = client.writable
  BY AnsweredServer, TakenLine
<1> QED
  BY <1>1, AnsweredServer
  DEF ServerTakesAnswer, Serving, Types, bridgeVars, adapterVars, logVars

(* An approval that the app-server asks for.                                *)
LEMMA AskingServer ==
    ASSUME Types, NEW a \in Approvals, NEW s \in Sessions, ServerAsks(a, s)
    PROVE  /\ server.alive /\ a \notin asked /\ asked' = asked \cup {a}
           /\ server.running[s] \in Texts
           /\ server' \in Servers
           /\ server'.alive = server.alive /\ server'.running = server.running
           /\ server'.owed = server.owed
           /\ server'.asking = server.asking \cup {Pending(a, s, server.running[s])}
           /\ Pending(a, s, server.running[s]) \in PendingApprovals
           /\ ApprovalLine(a, s) \in OutLines /\ Say(<<ApprovalLine(a, s)>>)
<1> DEFINE p == Pending(a, s, server.running[s])
<1>1. server \in Servers
  BY DEF Types
<1>2. server.running[s] \in Texts
  BY TypeFacts DEF ServerAsks, Turns
<1>3. p \in PendingApprovals
  BY <1>2 DEF Pending, PendingApprovals
<1>4. server' = [server EXCEPT !.asking = @ \cup {p}]
  BY DEF ServerAsks
<1> HIDE DEF p
<1>5. /\ server' \in Servers
      /\ server'.alive = server.alive /\ server'.running = server.running
      /\ server'.owed = server.owed /\ server'.asking = server.asking \cup {p}
  BY <1>1, <1>3, <1>4 DEF Servers
<1> QED
  BY <1>2, <1>3, <1>5, LineTypes DEF p, ServerAsks

LEMMA ServerAsksTypes ==
    ASSUME Types, NEW a \in Approvals, NEW s \in Sessions, ServerAsks(a, s)
    PROVE  Types'
<1> DEFINE l == ApprovalLine(a, s)
<1>1. l \in OutLines /\ Say(<<l>>)
  BY AskingServer
<1> HIDE DEF l
<1>2. <<l>> \in Seq(OutLines)
  BY <1>1
<1>3. /\ stdout' \in Seq(OutLines)
      /\ client.state # "ready" => stdout' = stdout
  BY <1>1, <1>2, SaidLines
<1>4. asked' \in SUBSET Approvals /\ server' \in Servers
  BY AskingServer DEF Types
<1> QED
  BY <1>3, <1>4 DEF ServerAsks, Types, bridgeVars, adapterVars, logVars

LEMMA ServerEndsTypes ==
    ASSUME Types, NEW s \in Sessions, ServerEndsTurn(s) PROVE Types'
<1>1. PICK f \in BOOLEAN : Say(<<CompletedLine(s, f)>>)
  BY DEF ServerEndsTurn
<1> DEFINE l == CompletedLine(s, f)
<1>2. server.running[s] \in Texts
  BY TypeFacts DEF ServerEndsTurn, Turns
<1>3. l \in OutLines /\ Say(<<l>>)
  BY <1>1, <1>2, LineTypes
<1> HIDE DEF l
<1>4. <<l>> \in Seq(OutLines)
  BY <1>3
<1>5. /\ stdout' \in Seq(OutLines)
      /\ client.state # "ready" => stdout' = stdout
  BY <1>3, <1>4, SaidLines
<1>6. server' \in Servers
  BY TurnOverFields DEF ServerEndsTurn
<1> QED
  BY <1>5, <1>6 DEF ServerEndsTurn, Types, bridgeVars, adapterVars, logVars

(* A notice is a status or an error.                                        *)
LEMMA NoticedServer ==
    ASSUME Types, NEW s \in Sessions, ServerNotifies(s)
    PROVE  \E l \in OutLines : l.kind \in {"status", "error"} /\ Say(<<l>>)
<1>1. CASE Say(<<StatusLine(s, Status(s))>>)
  <2>1. StatusLine(s, Status(s)) \in OutLines
    BY StatusType, LineTypes
  <2>2. StatusLine(s, Status(s)).kind = "status"
    BY DEF StatusLine
  <2> QED
    BY <1>1, <2>1, <2>2
<1>2. CASE Say(<<ErrorLine(s)>>)
  <2>1. ErrorLine(s) \in OutLines /\ ErrorLine(s).kind = "error"
    BY LineTypes DEF ErrorLine
  <2> QED
    BY <1>2, <2>1
<1> QED
  BY <1>1, <1>2 DEF ServerNotifies

LEMMA ServerNotifiesTypes ==
    ASSUME Types, NEW s \in Sessions, ServerNotifies(s) PROVE Types'
<1>1. PICK l \in OutLines : Say(<<l>>)
  BY NoticedServer
<1>2. <<l>> \in Seq(OutLines)
  BY <1>1
<1>3. /\ stdout' \in Seq(OutLines)
      /\ client.state # "ready" => stdout' = stdout
  BY <1>1, <1>2, SaidLines
<1>4. notices' \in 0 .. MaxNotices
  BY AdapterAssumption DEF ServerNotifies, Types
<1> QED
  BY <1>3, <1>4 DEF ServerNotifies, Types, bridgeVars, adapterVars, logVars

(* An app-server that has died.                                             *)
LEMMA DeadServer ==
    ASSUME Types, ServerDies
    PROVE  /\ server' \in Servers /\ ~server'.alive /\ server'.asking = {}
           /\ server'.running = [s \in Sessions |-> NoTurn] /\ server'.owed = {}
           /\ client' \in RpcClients /\ client'.stdin = <<>>
           /\ client'.pending = client.pending /\ client'.settled = client.settled
           /\ client'.state = client.state /\ client'.writable = client.writable
<1> DEFINE x == <<>>
<1>1. client \in RpcClients /\ x \in Seq(InLines)
  BY DEF Types
<1>2. client' = [client EXCEPT !.stdin = x]
  BY DEF ServerDies
<1>3. /\ client' \in RpcClients /\ client'.stdin = x
      /\ client'.pending = client.pending /\ client'.settled = client.settled
      /\ client'.state = client.state /\ client'.writable = client.writable
  <2> HIDE DEF x
  <2> QED
    BY <1>1, <1>2 DEF RpcClients
<1>4. /\ server' \in Servers /\ ~server'.alive /\ server'.asking = {}
      /\ server'.running = [s \in Sessions |-> NoTurn] /\ server'.owed = {}
  BY DEF ServerDies, Servers, Turns
<1> QED
  BY <1>3, <1>4

LEMMA ServerDiesTypes == ASSUME Types, ServerDies PROVE Types'
BY DeadServer DEF ServerDies, Types, bridgeVars, adapterVars, logVars

LEMMA CallTypes ==
    ASSUME Types, NEW s \in Sessions, CallsOn(s) PROVE Types'
<1>1. ASSUME NEW o \in Opens, ResumeSession(o, s)
      PROVE  Types'
  <2>1. Ask(o, "thread/resume", s, NoTurn) /\ o \in Jobs /\ NoTurn \in Turns
    BY <1>1 DEF ResumeSession, Jobs, Turns
  <2> QED
    BY <2>1, AskTypes
<1>2. ASSUME NEW o \in Opens, StartSession(o, s)
      PROVE  Types'
  <2>1. Ask(o, "thread/start", s, NoTurn) /\ o \in Jobs /\ NoTurn \in Turns
    BY <1>2 DEF StartSession, Jobs, Turns
  <2> QED
    BY <2>1, AskTypes
<1>3. ASSUME NEW i \in Interrupts, Interrupt(i, s)
      PROVE  Types'
  <2>1. /\ Ask(i, "turn/interrupt", s, record[s].turn) /\ i \in Jobs /\ i \in Interrupts
        /\ record[s].turn \in Turns /\ record[s].turn \in Texts
    BY <1>3, TypeFacts DEF Interrupt, Jobs, Turns
  <2> QED
    BY <2>1, AskTypes
<1> QED
  BY <1>1, <1>2, <1>3, SubmitTypes DEF CallsOn

LEMMA NextTypes == Types /\ [Next]_vars => Types'
<1> SUFFICES ASSUME Types, [Next]_vars
             PROVE  Types'
  OBVIOUS
<1>1. CASE UNCHANGED vars
  BY <1>1 DEF Types, vars, adapterVars, serverVars, logVars
<1>2. CASE Reads
  BY <1>2, ReadResponseTypes, ReadTurnStartedTypes, ReadTurnCompletedTypes,
     ReadStatusTypes, ReadErrorTypes, ReadApprovalTypes DEF Reads
<1>3. CASE GoesOn
  BY <1>3, GoOnRejectedTypes, GoOnOpenedTypes, GoOnLoadedTypes,
     GoOnStartedTypes, GoOnInterruptedTypes DEF GoesOn
<1>4. CASE Serves
  BY <1>4, ServerRefusesTypes, ServerOpensTypes, ServerStartsTypes,
     ServerInterruptsTypes, ServerTakesTypes DEF Serves
<1>5. ASSUME NEW s \in Sessions, ServerEndsTurn(s) \/ ServerNotifies(s) \/ CallsOn(s)
      PROVE  Types'
  BY <1>5, ServerEndsTypes, ServerNotifiesTypes, CallTypes
<1>6. ASSUME NEW s \in Sessions, NEW a \in Approvals, ServerAsks(a, s)
      PROVE  Types'
  BY <1>6, ServerAsksTypes
<1>7. ASSUME NEW r \in server.owed, ServerAnswersTurn(r)
      PROVE  Types'
  BY <1>7, ServerAnswersTypes
<1>8. ASSUME NEW p \in approvals, RespondToApproval(p) \/ Expire(p)
      PROVE  Types'
  BY <1>8, RespondTypes, ExpireTypes
<1>9. CASE TimeOut \/ LineTooLong \/ NoticeExit \/ Shutdown \/ ServerDies
  BY <1>9, TimeOutTypes, LineTooLongTypes, NoticeExitTypes, ShutdownTypes,
     ServerDiesTypes
<1> QED
  BY <1>1, <1>2, <1>3, <1>4, <1>5, <1>6, <1>7, <1>8, <1>9 DEF Next

-----------------------------------------------------------------------------
(* How the lines that wait to be read change. *)

Told == 1 .. Len(stdout)
Quiet == {"response", "status", "error"}

(* After d lines have been read, the lines are what they were, but for some *)
(* that are of one of the kinds.                                            *)
Comes(d, kinds) ==
    \A n \in 1 .. Len(stdout') :
        \/ n + d \in Told /\ stdout'[n] = stdout[n + d]
        \/ stdout'[n].kind \in kinds

(* The other way: what has gone was of one of the kinds.                    *)
Goes(d, kinds) ==
    \A n \in Told :
        \/ n - d \in 1 .. Len(stdout') /\ stdout'[n - d] = stdout[n]
        \/ stdout[n].kind \in kinds

(* The line l was written, behind lines that matter less.                   *)
Grown(l) ==
    /\ Len(stdout') \in Nat /\ Len(stdout) < Len(stdout')
    /\ stdout'[Len(stdout')] = l
    /\ \A n \in 1 .. Len(stdout') - 1 :
          \/ n \in Told /\ stdout'[n] = stdout[n]
          \/ Len(stdout) < n /\ stdout'[n].kind \in Quiet
    /\ \A n \in Told : n \in 1 .. Len(stdout') - 1 /\ stdout'[n] = stdout[n]

LEMMA ReadMoves ==
    ASSUME Types, NEW kind, Reading(kind)
    PROVE  Comes(1, {}) /\ Goes(1, {kind})
<1> DEFINE k == Len(stdout)
           m == Len(stdout')
<1>1. /\ k \in Nat \ {0} /\ m = k - 1
      /\ \A n \in 1 .. k - 1 : stdout'[n] = stdout[n + 1]
      /\ stdout[1].kind = kind
  BY ReadLine
<1> HIDE DEF k, m
<1>2. ASSUME NEW n \in 1 .. m
      PROVE  n + 1 \in 1 .. k /\ stdout'[n] = stdout[n + 1]
  BY <1>1
<1>3. ASSUME NEW n \in 1 .. k
      PROVE  \/ n - 1 \in 1 .. m /\ stdout'[n - 1] = stdout[n]
             \/ stdout[n].kind \in {kind}
  <2>1. CASE n = 1
    BY <1>1, <2>1
  <2>2. CASE n # 1
    <3>1. n - 1 \in 1 .. m /\ n - 1 \in 1 .. k - 1 /\ (n - 1) + 1 = n
      BY <1>1, <2>2
    <3> QED
      BY <1>1, <3>1
  <2> QED
    BY <2>1, <2>2
<1> QED
  BY <1>2, <1>3 DEF Comes, Goes, Told, k, m

LEMMA SameMoves ==
    ASSUME Types, stdout' = stdout
    PROVE  Comes(0, {}) /\ Goes(0, {})
<1>1. \A n \in Told : n + 0 = n /\ n - 0 = n
  BY TypeFacts DEF Told
<1> QED
  BY <1>1 DEF Comes, Goes, Told

LEMMA ClearedMoves ==
    ASSUME stdout' = <<>>
    PROVE  Comes(0, {})
BY DEF Comes

(* One line or two, the first of them quiet, are written.                   *)
LEMMA OneLine ==
    ASSUME Types, NEW l \in OutLines, Say(<<l>>)
    PROVE  /\ client.state = "ready" => Grown(l)
           /\ client.state # "ready" => stdout' = stdout
           /\ Comes(0, {l.kind}) /\ Goes(0, {})
<1> DEFINE k == Len(stdout)
           m == Len(stdout')
           ls == <<l>>
<1>1. ls \in Seq(OutLines) /\ Len(ls) = 1 /\ ls[1] = l
  OBVIOUS
<1>2. k \in Nat
  BY TypeFacts
<1>3. CASE client.state # "ready"
  <2>1. stdout' = stdout
    BY <1>1, <1>3, SaidLines
  <2>2. Comes(0, {}) /\ Goes(0, {})
    BY <2>1, SameMoves
  <2> QED
    BY <1>3, <2>1, <2>2 DEF Comes
<1>4. CASE client.state = "ready"
  <2>1. /\ m = k + Len(ls)
        /\ \A n \in 1 .. k + Len(ls) :
              stdout'[n] = IF n <= k THEN stdout[n] ELSE ls[n - k]
    <3>1. Say(ls)
      OBVIOUS
    <3> HIDE DEF ls
    <3> QED
      BY <1>1, <1>4, <3>1, SaidLines
  <2>2. /\ m = k + 1
        /\ \A n \in 1 .. k + 1 :
              stdout'[n] = IF n <= k THEN stdout[n] ELSE ls[n - k]
    BY <1>1, <2>1
  <2> HIDE DEF k, m, ls
  <2>3. /\ \A n \in 1 .. k : n \in 1 .. m /\ n \in 1 .. m - 1 /\ stdout'[n] = stdout[n]
        /\ \A n \in 1 .. m - 1 : n \in 1 .. k
        /\ m \in Nat /\ k < m /\ m \in 1 .. m
    BY <1>2, <2>2
  <2>4. stdout'[m] = l
    <3>1. m \in 1 .. k + 1 /\ ~(m <= k) /\ m - k = 1
      BY <1>2, <2>2
    <3> QED
      BY <1>1, <2>2, <3>1
  <2>5. \A n \in 1 .. m : n \in 1 .. m - 1 \/ n = m
    BY <2>3
  <2>6. Grown(l)
    BY <2>3, <2>4 DEF Grown, Told, k, m
  <2>7. \A n \in 1 .. k : n + 0 = n /\ n - 0 = n
    BY <1>2
  <2>8. Comes(0, {l.kind}) /\ Goes(0, {})
    BY <2>3, <2>4, <2>5, <2>7 DEF Comes, Goes, Told, k, m
  <2> QED
    BY <1>4, <2>6, <2>8
<1> QED
  BY <1>3, <1>4

LEMMA TwoLines ==
    ASSUME Types, NEW q \in OutLines, q.kind \in Quiet, NEW l \in OutLines,
           Say(<<q, l>>)
    PROVE  /\ client.state = "ready" =>
                 Grown(l) /\ stdout'[Len(stdout) + 1] = q
           /\ client.state # "ready" => stdout' = stdout
           /\ Comes(0, {q.kind, l.kind}) /\ Goes(0, {})
<1> DEFINE k == Len(stdout)
           m == Len(stdout')
           ls == <<q, l>>
<1>1. ls \in Seq(OutLines) /\ Len(ls) = 2 /\ ls[1] = q /\ ls[2] = l
  OBVIOUS
<1>2. k \in Nat
  BY TypeFacts
<1>3. CASE client.state # "ready"
  <2>1. stdout' = stdout
    <3> HIDE DEF ls
    <3> QED
      BY <1>1, <1>3, SaidLines DEF ls
  <2>2. Comes(0, {}) /\ Goes(0, {})
    BY <2>1, SameMoves
  <2> QED
    BY <1>3, <2>1, <2>2 DEF Comes
<1>4. CASE client.state = "ready"
  <2>1. /\ m = k + Len(ls)
        /\ \A n \in 1 .. k + Len(ls) :
              stdout'[n] = IF n <= k THEN stdout[n] ELSE ls[n - k]
    <3>1. Say(ls)
      OBVIOUS
    <3> HIDE DEF ls
    <3> QED
      BY <1>1, <1>4, <3>1, SaidLines
  <2>2. /\ m = k + 2
        /\ \A n \in 1 .. k + 2 :
              stdout'[n] = IF n <= k THEN stdout[n] ELSE ls[n - k]
    BY <1>1, <2>1
  <2> HIDE DEF k, m, ls
  <2>3. /\ \A n \in 1 .. k : n \in 1 .. m /\ n \in 1 .. m - 1 /\ stdout'[n] = stdout[n]
        /\ \A n \in 1 .. m - 1 : n \in 1 .. k \/ n = k + 1
        /\ m \in Nat /\ k < m /\ m \in 1 .. m /\ k < k + 1
    BY <1>2, <2>2
  <2>4. stdout'[m] = l /\ stdout'[k + 1] = q
    <3>1. /\ m \in 1 .. k + 2 /\ ~(m <= k) /\ m - k = 2
          /\ k + 1 \in 1 .. k + 2 /\ ~(k + 1 <= k) /\ (k + 1) - k = 1
      BY <1>2, <2>2
    <3> QED
      BY <1>1, <2>2, <3>1
  <2>5. \A n \in 1 .. m : n \in 1 .. m - 1 \/ n = m
    BY <2>3
  <2>6. Grown(l)
    BY <2>3, <2>4 DEF Grown, Told, k, m
  <2>7. \A n \in 1 .. k : n + 0 = n /\ n - 0 = n
    BY <1>2
  <2>8. Comes(0, {q.kind, l.kind}) /\ Goes(0, {})
    BY <2>3, <2>4, <2>5, <2>7 DEF Comes, Goes, Told, k, m
  <2> QED
    BY <1>4, <2>4, <2>6, <2>8 DEF k
<1> QED
  BY <1>3, <1>4

(* What each action of the app-server writes.                               *)
LEMMA QuietMoves ==
    ASSUME Types,
           \/ ServerRefuses \/ ServerOpens
           \/ \E r \in server.owed : ServerAnswersTurn(r)
           \/ \E s \in Sessions : ServerNotifies(s)
    PROVE  \E l \in OutLines : l.kind \in Quiet /\ Say(<<l>>)
<1>1. ASSUME NEW o \in Outcomes, Say(<<ResponseLine(o)>>)
      PROVE  \E l \in OutLines : l.kind \in Quiet /\ Say(<<l>>)
  <2>1. ResponseLine(o) \in OutLines /\ ResponseLine(o).kind \in Quiet
    BY LineTypes DEF ResponseLine, Quiet
  <2> QED
    BY <1>1, <2>1
<1>2. CASE ServerRefuses
  <2>1. Head(client.stdin).request \in Requests
    BY <1>2, TakenLine, InLineFields DEF ServerRefuses
  <2>2. Rejected(Head(client.stdin).request) \in Outcomes
    BY <2>1, AnswersToRequests
  <2> QED
    BY <1>1, <1>2, <2>2 DEF ServerRefuses
<1>3. CASE ServerOpens
  BY <1>1, <1>3, OpenedServer
<1>4. ASSUME NEW r \in server.owed, ServerAnswersTurn(r)
      PROVE  \E l \in OutLines : l.kind \in Quiet /\ Say(<<l>>)
  BY <1>1, <1>4, PaidServer DEF ServerAnswersTurn
<1>5. ASSUME NEW s \in Sessions, ServerNotifies(s)
      PROVE  \E l \in OutLines : l.kind \in Quiet /\ Say(<<l>>)
  BY <1>5, NoticedServer DEF Quiet
<1> QED
  BY <1>2, <1>3, <1>4, <1>5

LEMMA StartsMoves ==
    ASSUME Types, ServerStartsTurn, NEW r, r = Head(client.stdin).request
    PROVE  /\ Comes(0, {"response", "started"}) /\ Goes(0, {})
           /\ client.state = "ready" => Grown(StartedLine(r.session, r.turn))
           /\ client.state # "ready" => stdout' = stdout
<1> DEFINE q == ResponseLine(Resolved(r, "none"))
           l == StartedLine(r.session, r.turn)
<1>1. q \in OutLines /\ l \in OutLines /\ (Say(<<q, l>>) \/ Say(<<l>>))
  BY StartedServer, LineTypes
<1>2. /\ q.kind = "response" /\ q.kind \in Quiet /\ l.kind = "started"
      /\ l = StartedLine(r.session, r.turn)
  BY DEF ResponseLine, StartedLine, Quiet
<1> HIDE DEF q, l
<1>3. CASE Say(<<l>>)
  BY <1>1, <1>2, <1>3, OneLine DEF Comes
<1>4. CASE Say(<<q, l>>)
  BY <1>1, <1>2, <1>4, TwoLines DEF Comes
<1> QED
  BY <1>1, <1>3, <1>4

LEMMA InterruptsMoves ==
    ASSUME Types, ServerInterrupts, NEW r, r = Head(client.stdin).request
    PROVE  /\ Comes(0, {"response", "completed"}) /\ Goes(0, {})
           /\ client.state = "ready" => Grown(CompletedLine(r.session, FALSE))
           /\ client.state # "ready" => stdout' = stdout
<1> DEFINE q == ResponseLine(Resolved(r, "none"))
           l == CompletedLine(r.session, FALSE)
<1>1. q \in OutLines /\ l \in OutLines /\ Say(<<q, l>>)
  BY InterruptedServer, LineTypes
<1>2. /\ q.kind = "response" /\ q.kind \in Quiet /\ l.kind = "completed"
      /\ l = CompletedLine(r.session, FALSE)
  BY DEF ResponseLine, CompletedLine, Quiet
<1> HIDE DEF q, l
<1> QED
  BY <1>1, <1>2, TwoLines DEF Comes

LEMMA EndsMoves ==
    ASSUME Types, NEW s \in Sessions, ServerEndsTurn(s)
    PROVE  /\ Comes(0, {"completed"}) /\ Goes(0, {})
           /\ client.state = "ready" =>
                 \E failed \in BOOLEAN : Grown(CompletedLine(s, failed))
           /\ client.state # "ready" => stdout' = stdout
<1>1. PICK f \in BOOLEAN : Say(<<CompletedLine(s, f)>>)
  BY DEF ServerEndsTurn
<1> DEFINE l == CompletedLine(s, f)
<1>2. server.running[s] \in Texts
  BY TypeFacts DEF ServerEndsTurn, Turns
<1>3. l \in OutLines /\ Say(<<l>>)
  BY <1>1, <1>2, LineTypes
<1>4. l.kind = "completed" /\ l = CompletedLine(s, f)
  BY DEF CompletedLine
<1> HIDE DEF l
<1> QED
  BY <1>3, <1>4, OneLine

(* Whatever the app-server says but for an approval.                        *)
Others == {"response", "status", "error", "started", "completed"}

LEMMA ServerMoves ==
    ASSUME Types,
           \/ Serves
           \/ \E r \in server.owed : ServerAnswersTurn(r)
           \/ \E s \in Sessions : ServerNotifies(s) \/ ServerEndsTurn(s)
           \/ ServerDies
    PROVE  Comes(0, Others) /\ Goes(0, {})
<1>1. ASSUME NEW l \in OutLines, l.kind \in Quiet, Say(<<l>>)
      PROVE  Comes(0, Others) /\ Goes(0, {})
  BY <1>1, OneLine DEF Comes, Quiet, Others
<1>2. CASE \/ ServerRefuses \/ ServerOpens
           \/ \E r \in server.owed : ServerAnswersTurn(r)
           \/ \E s \in Sessions : ServerNotifies(s)
  BY <1>1, <1>2, QuietMoves
<1>3. CASE ServerStartsTurn
  BY <1>3, StartsMoves DEF Comes, Others
<1>4. CASE ServerInterrupts
  BY <1>4, InterruptsMoves DEF Comes, Others
<1>5. ASSUME NEW s \in Sessions, ServerEndsTurn(s)
      PROVE  Comes(0, Others) /\ Goes(0, {})
  BY <1>5, EndsMoves DEF Comes, Others
<1>6. CASE ServerTakesAnswer \/ ServerDies
  <2>1. stdout' = stdout
    BY <1>6 DEF ServerTakesAnswer, ServerDies
  <2> QED
    BY <2>1, SameMoves DEF Comes
<1> QED
  BY <1>2, <1>3, <1>4, <1>5, <1>6 DEF Serves

-----------------------------------------------------------------------------
(* Approvals. *)

IsAsked(n, a) == stdout[n].kind = "approval" /\ stdout[n].approval = a
Shown(a) == \E p \in approvals : p.approval = a

(* An approval is asked for in one line, is then shown once, and is then    *)
(* decided.                                                                 *)
ApprovalLines ==
    /\ \A a \in Approvals, m, n \in Told : IsAsked(m, a) /\ IsAsked(n, a) => m = n
    /\ \A a \in Approvals, n \in Told : IsAsked(n, a) =>
          /\ a \in asked /\ ~Shown(a)
          /\ approvalLog[a] = <<>> /\ decided[a] = <<>>
    /\ \A p, q \in approvals : p.approval = q.approval => p = q
    /\ \A p \in approvals :
          /\ p.approval \in asked
          /\ approvalLog[p.approval] = <<"requested">> /\ decided[p.approval] = <<>>
    /\ \A a \in Approvals \ asked : approvalLog[a] = <<>> /\ decided[a] = <<>>
    /\ ResolvedAsDecided

LEMMA ApprovalLinesInit == Init => ApprovalLines
BY DEF Init, ApprovalLines, Told, IsAsked, ResolvedAsDecided

(* Nothing new is asked, shown or decided.                                  *)
LEMMA ApprovalLinesKept ==
    ASSUME Types, ApprovalLines, NEW d \in {0, 1},
           Comes(d, Others),
           approvals' \in SUBSET approvals,
           UNCHANGED <<asked, approvalLog, decided>>
    PROVE  ApprovalLines'
<1>1. ASSUME NEW n \in 1 .. Len(stdout'), NEW a, IsAsked(n, a)'
      PROVE  n + d \in Told /\ IsAsked(n + d, a)
  BY <1>1 DEF Comes, Others, IsAsked
<1>2. \A a : Shown(a)' => Shown(a)
  BY DEF Shown
<1>3. ASSUME NEW a \in Approvals, NEW m \in 1 .. Len(stdout'),
             NEW n \in 1 .. Len(stdout'), IsAsked(m, a)', IsAsked(n, a)'
      PROVE  m = n
  <2>1. m + d = n + d
    BY <1>1, <1>3 DEF ApprovalLines
  <2> QED
    BY <2>1
<1>4. ASSUME NEW a \in Approvals, NEW n \in 1 .. Len(stdout'), IsAsked(n, a)'
      PROVE  /\ a \in asked' /\ ~Shown(a)'
             /\ approvalLog'[a] = <<>> /\ decided'[a] = <<>>
  BY <1>1, <1>2, <1>4 DEF ApprovalLines
<1>5. /\ \A p, q \in approvals' : p.approval = q.approval => p = q
      /\ \A p \in approvals' :
            /\ p.approval \in asked'
            /\ approvalLog'[p.approval] = <<"requested">>
            /\ decided'[p.approval] = <<>>
      /\ \A a \in Approvals \ asked' : approvalLog'[a] = <<>> /\ decided'[a] = <<>>
      /\ ResolvedAsDecided'
  BY DEF ApprovalLines, ResolvedAsDecided
<1> QED
  BY <1>3, <1>4, <1>5 DEF ApprovalLines, Told

(* A decision closes the history of an approval.                            *)
LEMMA DecisionLists ==
    ASSUME NEW d \in Decisions
    PROVE  /\ Append(<<>>, d) = <<d>> /\ Len(<<d>>) = 1
           /\ Append(<<"requested">>, d) = <<"requested">> \o <<d>>
           /\ <<d>> # <<>>
BY DEF Decisions

(* Approvals that are shown are answered and forgotten.                     *)
LEMMA ApprovalLinesAnswered ==
    ASSUME Types, ApprovalLines, NEW e \in {0, 1},
           Comes(e, Others),
           NEW some \in SUBSET approvals, approvals' = approvals \ some,
           NEW d \in Decisions, Answer(some, d), UNCHANGED asked
    PROVE  ApprovalLines'
<1>1. ASSUME NEW n \in 1 .. Len(stdout'), NEW a, IsAsked(n, a)'
      PROVE  n + e \in Told /\ IsAsked(n + e, a)
  BY <1>1 DEF Comes, Others, IsAsked
<1>2. /\ decided \in [Approvals -> Seq(Decisions)]
      /\ approvalLog \in [Approvals -> Seq({"requested"} \cup Decisions)]
      /\ \A p \in approvals : p.approval \in Approvals
      /\ d \in {"requested"} \cup Decisions
  BY TypeFacts DEF Types
<1>3. Unanswered(some) = some
  BY DEF ApprovalLines, Unanswered
<1>4. /\ decided' = Logged(decided, some, d)
      /\ approvalLog' = Logged(approvalLog, some, d)
  BY <1>3 DEF Answer
<1> DEFINE In(a) == Concerned(some, a)
<1>5. \A a \in Approvals :
         /\ In(a) => /\ decided'[a] = Append(decided[a], d)
                     /\ approvalLog'[a] = Append(approvalLog[a], d)
         /\ ~In(a) => decided'[a] = decided[a] /\ approvalLog'[a] = approvalLog[a]
  BY <1>2, <1>4, LoggedDecision, LoggedEntry
<1>6. \A a \in Approvals : In(a) =>
         /\ Shown(a) /\ a \in asked
         /\ approvalLog[a] = <<"requested">> /\ decided[a] = <<>>
  BY DEF ApprovalLines, Shown, Concerned
<1>7. \A a : Shown(a)' => Shown(a) /\ ~In(a)
  BY DEF Shown, ApprovalLines, Concerned
<1>8. \A a \in Approvals : In(a) =>
         decided'[a] = <<d>> /\ approvalLog'[a] = <<"requested">> \o <<d>>
  BY <1>5, <1>6, DecisionLists
<1>9. \A a \in Approvals : ~In(a) =>
         decided'[a] = decided[a] /\ approvalLog'[a] = approvalLog[a]
  BY <1>5
<1> HIDE DEF In
<1>10. ASSUME NEW a \in Approvals, NEW m \in 1 .. Len(stdout'),
              NEW n \in 1 .. Len(stdout'), IsAsked(m, a)', IsAsked(n, a)'
       PROVE  m = n
  <2>1. m + e = n + e
    BY <1>1, <1>10 DEF ApprovalLines
  <2> QED
    BY <2>1
<1>11. ASSUME NEW a \in Approvals, NEW n \in 1 .. Len(stdout'), IsAsked(n, a)'
       PROVE  /\ a \in asked' /\ ~Shown(a)'
              /\ approvalLog'[a] = <<>> /\ decided'[a] = <<>>
  <2>1. /\ a \in asked /\ ~Shown(a)
        /\ approvalLog[a] = <<>> /\ decided[a] = <<>>
    BY <1>1, <1>11 DEF ApprovalLines
  <2> QED
    BY <1>6, <1>7, <1>9, <2>1
<1>12. /\ \A p, q \in approvals' : p.approval = q.approval => p = q
       /\ \A p \in approvals' :
             /\ p.approval \in asked'
             /\ approvalLog'[p.approval] = <<"requested">>
             /\ decided'[p.approval] = <<>>
  <2>1. \A p \in approvals' : p \in approvals /\ ~In(p.approval)
    BY <1>7 DEF Shown
  <2> QED
    BY <1>2, <1>9, <2>1 DEF ApprovalLines
<1>13. \A a \in Approvals \ asked' : approvalLog'[a] = <<>> /\ decided'[a] = <<>>
  BY <1>6, <1>9 DEF ApprovalLines
<1>14. ResolvedAsDecided'
  <2>1. ASSUME NEW a \in Approvals
        PROVE  /\ Len(decided'[a]) <= 1
               /\ approvalLog'[a] # <<>> =>
                     approvalLog'[a] = <<"requested">> \o decided'[a]
    <3>1. CASE In(a)
      <4>1. decided'[a] = <<d>> /\ approvalLog'[a] = <<"requested">> \o <<d>>
        BY <1>8, <3>1
      <4>2. Len(<<d>>) <= 1
        BY DecisionLists
      <4> QED
        BY <4>1, <4>2
    <3>2. CASE ~In(a)
      BY <1>9, <3>2 DEF ApprovalLines, ResolvedAsDecided
    <3> QED
      BY <3>1, <3>2
  <2> QED
    BY <2>1 DEF ResolvedAsDecided
<1> QED
  BY <1>10, <1>11, <1>12, <1>13, <1>14 DEF ApprovalLines, Told

LEMMA ApprovalLinesAsked ==
    ASSUME Types, ApprovalLines, NEW a \in Approvals, NEW s \in Sessions,
           ServerAsks(a, s)
    PROVE  ApprovalLines'
<1> DEFINE l == ApprovalLine(a, s)
<1>1. /\ a \notin asked /\ asked' = asked \cup {a}
      /\ l \in OutLines /\ Say(<<l>>)
      /\ UNCHANGED <<approvals, approvalLog, decided>>
  BY AskingServer DEF ServerAsks, bridgeVars, adapterVars, logVars
<1>2. l.kind = "approval" /\ l.approval = a
  BY DEF ApprovalLine
<1> HIDE DEF l
<1>3. /\ client.state = "ready" => Grown(l)
      /\ client.state # "ready" => stdout' = stdout
  BY <1>1, OneLine
<1>4. ASSUME NEW n \in 1 .. Len(stdout'), NEW b \in Approvals, IsAsked(n, b)'
      PROVE  \/ n \in Told /\ IsAsked(n, b) /\ b # a
             \/ n = Len(stdout') /\ b = a
  <2>1. CASE stdout' = stdout
    BY <1>1, <1>4, <2>1 DEF IsAsked, Told, ApprovalLines
  <2>2. CASE Grown(l)
    <3>1. CASE n = Len(stdout')
      BY <1>2, <1>4, <2>2, <3>1 DEF Grown, IsAsked
    <3>2. CASE n # Len(stdout')
      <4>1. n \in 1 .. Len(stdout') - 1
        BY <2>2, <3>2 DEF Grown
      <4>2. n \in Told /\ stdout'[n] = stdout[n]
        BY <1>4, <2>2, <4>1 DEF Grown, IsAsked, Quiet
      <4> QED
        BY <1>1, <1>4, <4>2 DEF IsAsked, ApprovalLines
    <3> QED
      BY <3>1, <3>2
  <2> QED
    BY <1>3, <2>1, <2>2
<1>5. \A p \in approvals : p.approval # a
  BY <1>1 DEF ApprovalLines
<1>6. \A b : Shown(b)' <=> Shown(b)
  BY <1>1 DEF Shown
<1>7. ASSUME NEW b \in Approvals, NEW m \in 1 .. Len(stdout'),
             NEW n \in 1 .. Len(stdout'), IsAsked(m, b)', IsAsked(n, b)'
      PROVE  m = n
  BY <1>4, <1>7 DEF ApprovalLines
<1>8. ASSUME NEW b \in Approvals, NEW n \in 1 .. Len(stdout'), IsAsked(n, b)'
      PROVE  /\ b \in asked' /\ ~Shown(b)'
             /\ approvalLog'[b] = <<>> /\ decided'[b] = <<>>
  <2>1. CASE b = a
    BY <1>1, <1>5, <1>6, <2>1 DEF ApprovalLines, Shown
  <2>2. CASE b # a
    BY <1>1, <1>4, <1>6, <1>8, <2>2 DEF ApprovalLines
  <2> QED
    BY <2>1, <2>2
<1> QED
  BY <1>1, <1>7, <1>8 DEF ApprovalLines, Told, ResolvedAsDecided

LEMMA ApprovalLinesTaken ==
    ASSUME Types, ApprovalLines, ReadApprovalRequest
    PROVE  ApprovalLines'
<1> DEFINE p == Pending(Line.approval, Line.session, Line.turn)
           a == p.approval
<1>1. /\ Line.kind = "approval" /\ Line = stdout[1] /\ 1 \in Told
      /\ Line.approval \in Approvals
  BY ReadLine, LineFields DEF ReadApprovalRequest, Told
<1>2. Comes(1, {}) /\ UNCHANGED asked /\ TakeApproval(p)
  BY ReadMoves DEF ReadApprovalRequest, serverVars
<1>3. a \in Approvals /\ IsAsked(1, a) /\ p.approval = a
  BY <1>1 DEF Pending, IsAsked
<1> HIDE DEF p, a
<1>4. /\ a \in asked /\ ~Shown(a)
      /\ approvalLog[a] = <<>> /\ decided[a] = <<>>
  BY <1>1, <1>3 DEF ApprovalLines
<1>5. ASSUME NEW n \in 1 .. Len(stdout'), NEW b \in Approvals, IsAsked(n, b)'
      PROVE  n + 1 \in Told /\ IsAsked(n + 1, b) /\ b # a
  <2>1. n + 1 \in Told /\ IsAsked(n + 1, b)
    BY <1>2, <1>5 DEF Comes, IsAsked
  <2>2. b = a => n + 1 = 1
    BY <1>1, <1>3, <2>1 DEF ApprovalLines
  <2> QED
    BY <2>1, <2>2
<1>6. ASSUME NEW b \in Approvals, NEW m \in 1 .. Len(stdout'),
             NEW n \in 1 .. Len(stdout'), IsAsked(m, b)', IsAsked(n, b)'
      PROVE  m = n
  <2>1. m + 1 = n + 1
    BY <1>5, <1>6 DEF ApprovalLines
  <2> QED
    BY <2>1
<1>7. /\ decided \in [Approvals -> Seq(Decisions)]
      /\ approvalLog \in [Approvals -> Seq({"requested"} \cup Decisions)]
      /\ "cancel" \in Decisions /\ "requested" \in {"requested"} \cup Decisions
      /\ \A q \in {p} : q.approval = a
  BY <1>3 DEF Types, Decisions
<1>10. \A b : Concerned({p}, b) <=> b = a
  BY <1>7 DEF Concerned
<1>8. CASE record[p.session].approval # NoApproval
  <2>1. /\ decided' = Logged(decided, {p}, "cancel")
        /\ UNCHANGED <<approvals, approvalLog>>
    BY <1>2, <1>8 DEF TakeApproval
  <2>2. \A b \in Approvals :
           decided'[b] = IF b = a THEN <<"cancel">> ELSE decided[b]
    <3>1. Append(<<>>, "cancel") = <<"cancel">>
      OBVIOUS
    <3>2. \A b \in Approvals :
             /\ Concerned({p}, b) => decided'[b] = Append(decided[b], "cancel")
             /\ ~Concerned({p}, b) => decided'[b] = decided[b]
      BY <2>1 DEF Logged, Concerned
    <3>3. \A b \in Approvals :
             /\ b = a => decided'[b] = Append(decided[b], "cancel")
             /\ b # a => decided'[b] = decided[b]
      BY <1>10, <3>2
    <3> QED
      BY <1>4, <3>1, <3>3
  <2>3. \A b : Shown(b)' <=> Shown(b)
    BY <2>1 DEF Shown
  <2>4. ASSUME NEW b \in Approvals, NEW n \in 1 .. Len(stdout'), IsAsked(n, b)'
        PROVE  /\ b \in asked' /\ ~Shown(b)'
               /\ approvalLog'[b] = <<>> /\ decided'[b] = <<>>
    BY <1>2, <1>5, <2>1, <2>2, <2>3, <2>4 DEF ApprovalLines
  <2>5. \A q \in approvals : q.approval # a /\ q.approval \in Approvals
    BY <1>4, TypeFacts DEF Shown
  <2>6. ResolvedAsDecided'
    <3>1. Len(<<"cancel">>) <= 1
      OBVIOUS
    <3> QED
      BY <1>4, <2>1, <2>2, <3>1 DEF ApprovalLines, ResolvedAsDecided
  <2> QED
    BY <1>2, <1>4, <1>6, <2>1, <2>2, <2>4, <2>5, <2>6 DEF ApprovalLines, Told
<1>9. CASE record[p.session].approval = NoApproval
  <2>1. /\ approvals' = approvals \cup {p} /\ decided' = decided
        /\ approvalLog' = Logged(approvalLog, {p}, "requested")
    BY <1>2, <1>9 DEF TakeApproval
  <2>2. \A b \in Approvals :
           approvalLog'[b] = IF b = a THEN <<"requested">> ELSE approvalLog[b]
    <3>1. Append(<<>>, "requested") = <<"requested">>
      OBVIOUS
    <3>2. \A b \in Approvals :
             /\ Concerned({p}, b) => approvalLog'[b] = Append(approvalLog[b], "requested")
             /\ ~Concerned({p}, b) => approvalLog'[b] = approvalLog[b]
      BY <2>1 DEF Logged, Concerned
    <3>3. \A b \in Approvals :
             /\ b = a => approvalLog'[b] = Append(approvalLog[b], "requested")
             /\ b # a => approvalLog'[b] = approvalLog[b]
      BY <1>10, <3>2
    <3> QED
      BY <1>4, <3>1, <3>3
  <2>3. \A b : Shown(b)' <=> Shown(b) \/ b = a
    BY <1>7, <2>1 DEF Shown
  <2>4. ASSUME NEW b \in Approvals, NEW n \in 1 .. Len(stdout'), IsAsked(n, b)'
        PROVE  /\ b \in asked' /\ ~Shown(b)'
               /\ approvalLog'[b] = <<>> /\ decided'[b] = <<>>
    BY <1>2, <1>5, <2>1, <2>2, <2>3, <2>4 DEF ApprovalLines
  <2>5. \A q \in approvals : q.approval # a /\ q.approval \in Approvals
    BY <1>4, TypeFacts DEF Shown
  <2>6. ResolvedAsDecided'
    <3>1. <<"requested">> = <<"requested">> \o <<>>
      OBVIOUS
    <3> QED
      BY <1>4, <2>1, <2>2, <3>1 DEF ApprovalLines, ResolvedAsDecided
  <2>7. \A q, r \in approvals' : q.approval = r.approval => q = r
    BY <1>7, <2>1, <2>5 DEF ApprovalLines
  <2>8. \A q \in approvals' :
           /\ q.approval \in asked'
           /\ approvalLog'[q.approval] = <<"requested">>
           /\ decided'[q.approval] = <<>>
    BY <1>2, <1>3, <1>4, <1>7, <2>1, <2>2, <2>5 DEF ApprovalLines
  <2>9. \A b \in Approvals \ asked' : approvalLog'[b] = <<>> /\ decided'[b] = <<>>
    BY <1>2, <1>4, <2>1, <2>2 DEF ApprovalLines
  <2> QED
    BY <1>6, <2>4, <2>6, <2>7, <2>8, <2>9 DEF ApprovalLines, Told
<1> QED
  BY <1>8, <1>9

(* One approval is answered, or cannot be and is forgotten.                 *)
LEMMA ApprovalLinesOne ==
    ASSUME Types, ApprovalLines, NEW p \in approvals, NEW d \in Decisions,
           approvals' = approvals \ {p}, UNCHANGED <<stdout, asked>>,
           Answer({p}, d) \/ UNCHANGED <<decided, approvalLog>>
    PROVE  ApprovalLines'
<1>1. Comes(0, Others) /\ {p} \in SUBSET approvals /\ 0 \in {0, 1}
  BY SameMoves DEF Comes
<1>2. CASE Answer({p}, d)
  BY <1>1, <1>2, ApprovalLinesAnswered
<1>3. CASE UNCHANGED <<decided, approvalLog>>
  BY <1>1, <1>3, ApprovalLinesKept
<1> QED
  BY <1>2, <1>3

LEMMA ApprovalLinesCompleted ==
    ASSUME Types, ApprovalLines, ReadTurnCompleted
    PROVE  ApprovalLines'
<1> DEFINE ended == {p \in approvals : p.session = Line.session /\ p.turn = Line.turn}
<1>1. /\ Comes(1, Others) /\ ended \in SUBSET approvals
      /\ "cancel" \in Decisions /\ 1 \in {0, 1}
  BY ReadMoves DEF ReadTurnCompleted, Comes, Decisions
<1>2. approvals' = approvals \ ended /\ Answer(ended, "cancel") /\ UNCHANGED asked
  BY DEF ReadTurnCompleted, serverVars
<1> QED
  BY <1>1, <1>2, ApprovalLinesAnswered

LEMMA ApprovalLinesClosed ==
    ASSUME Types, ApprovalLines, Shutdown
    PROVE  ApprovalLines'
<1>1. CASE Answer(approvals, "cancel") /\ approvals' = {} /\ stdout' = <<>>
  <2>1. Comes(0, Others) /\ "cancel" \in Decisions /\ 0 \in {0, 1}
    BY <1>1 DEF Comes, Decisions
  <2>2. approvals' = approvals \ approvals /\ UNCHANGED asked
    BY <1>1 DEF Shutdown, serverVars
  <2> QED
    BY <1>1, <2>1, <2>2, ApprovalLinesAnswered
<1>2. CASE UNCHANGED <<decided, approvalLog, approvals, stdout>>
  <2>1. Comes(0, Others) /\ 0 \in {0, 1} /\ UNCHANGED asked
    BY <1>2, SameMoves DEF Comes, Shutdown, serverVars
  <2> QED
    BY <1>2, <2>1, ApprovalLinesKept
<1> QED
  BY <1>1, <1>2 DEF Shutdown

(* The steps that do not answer, show or ask anything.                      *)
LEMMA ApprovalLinesQuiet ==
    ASSUME Types, ApprovalLines,
           UNCHANGED <<approvals, asked, approvalLog, decided>>,
           \/ Comes(0, Others) \/ Comes(1, {})
           \/ stdout' \in {stdout, <<>>}
    PROVE  ApprovalLines'
<1>1. CASE Comes(0, Others) \/ stdout' \in {stdout, <<>>}
  <2>1. Comes(0, Others) /\ 0 \in {0, 1}
    BY <1>1, SameMoves DEF Comes
  <2> QED
    BY <2>1, ApprovalLinesKept
<1>2. CASE Comes(1, {})
  <2>1. Comes(1, Others) /\ 1 \in {0, 1}
    BY <1>2 DEF Comes
  <2> QED
    BY <2>1, ApprovalLinesKept
<1> QED
  BY <1>1, <1>2

LEMMA ApprovalLinesStep ==
    ASSUME Types, ApprovalLines, [Next]_vars
    PROVE  ApprovalLines'
<1>1. CASE UNCHANGED vars
  BY <1>1, ApprovalLinesQuiet DEF vars, adapterVars, serverVars, logVars
<1>2. CASE ReadResponse \/ ReadTurnStarted \/ ReadStatus \/ ReadError
  <2>1. /\ UNCHANGED <<approvals, asked, approvalLog, decided>>
        /\ \E kind : Reading(kind)
    BY <1>2 DEF ReadResponse, ReadTurnStarted, ReadStatus, ReadError, adapterVars,
       serverVars, logVars
  <2> QED
    BY <2>1, ReadMoves, ApprovalLinesQuiet
<1>3. CASE GoesOn
  <2>1. UNCHANGED <<approvals, asked, approvalLog, decided, stdout>>
    BY <1>3 DEF GoesOn, GoOnRejected, GoOnOpened, GoOnLoaded, GoOnStarted,
       GoOnInterrupted, adapterVars, serverVars, logVars
  <2> QED
    BY <2>1, ApprovalLinesQuiet
<1>4. CASE \/ Serves \/ ServerDies
           \/ \E r \in server.owed : ServerAnswersTurn(r)
           \/ \E s \in Sessions : ServerNotifies(s) \/ ServerEndsTurn(s)
  <2>1. Comes(0, Others)
    BY <1>4, ServerMoves
  <2>2. UNCHANGED <<approvals, asked, approvalLog, decided>>
    BY <1>4 DEF Serves, ServerRefuses, ServerOpens, ServerStartsTurn, ServerInterrupts,
       ServerTakesAnswer, Asks, Serving, ServerDies, ServerAnswersTurn,
       ServerNotifies, ServerEndsTurn, bridgeVars, adapterVars, logVars
  <2> QED
    BY <2>1, <2>2, ApprovalLinesQuiet
<1>5. CASE TimeOut \/ LineTooLong \/ NoticeExit \/ \E s \in Sessions : CallsOn(s)
  <2>1. /\ UNCHANGED <<approvals, asked, approvalLog, decided>>
        /\ stdout' \in {stdout, <<>>}
    BY <1>5 DEF TimeOut, LineTooLong, NoticeExit, CallsOn, SubmitText, ResumeSession,
       StartSession, Interrupt, Ask, adapterVars, serverVars, logVars
  <2> QED
    BY <2>1, ApprovalLinesQuiet
<1>6. ASSUME NEW p \in approvals, RespondToApproval(p) \/ Expire(p)
      PROVE  ApprovalLines'
  <2>1. {"accept", "cancel"} \subseteq Decisions
    BY DEF Decisions
  <2>2. /\ approvals' = approvals \ {p} /\ UNCHANGED <<stdout, asked>>
        /\ \/ Answer({p}, "accept") \/ Answer({p}, "cancel")
           \/ UNCHANGED <<decided, approvalLog>>
    BY <1>6 DEF RespondToApproval, Expire, serverVars
  <2> QED
    BY <2>1, <2>2, ApprovalLinesOne
<1>7. ASSUME NEW s \in Sessions, NEW a \in Approvals, ServerAsks(a, s)
      PROVE  ApprovalLines'
  BY <1>7, ApprovalLinesAsked
<1> QED
  BY <1>1, <1>2, <1>3, <1>4, <1>5, <1>6, <1>7, ApprovalLinesTaken,
     ApprovalLinesCompleted, ApprovalLinesClosed
  DEF Next, Reads

-----------------------------------------------------------------------------
(* The turns that approvals belong to. *)

Ends(n, s) == stdout[n].kind = "completed" /\ stdout[n].session = s
NextEnd(m, n, s) ==
    m < n /\ Ends(n, s) /\ \A k \in Told : m < k /\ Ends(k, s) => n <= k

(* The first turn of s to end, as it is told after line m, is t.            *)
EndsAfter(m, s, t) ==
    /\ \A n \in Told : NextEnd(m, n, s) => stdout[n].turn = t
    /\ \/ \E n \in Told : m < n /\ Ends(n, s)
       \/ ~server.alive
       \/ server.running[s] = t

(* An approval waits, shown or on its way in, for a turn that has not ended *)
(* before.                                                                  *)
EndsInv ==
    /\ \A m \in Told : stdout[m].kind = "approval" =>
          EndsAfter(m, stdout[m].session, stdout[m].turn)
    /\ client.state = "ready" =>
          \A p \in approvals : EndsAfter(0, p.session, p.turn)

(* What the app-server waits for is what has been asked.                    *)
AskingInv ==
    \A p \in server.asking :
        /\ p.approval \in asked
        /\ \A q \in server.asking \cup approvals : q.approval = p.approval => q = p
        /\ \A n \in Told : IsAsked(n, p.approval) =>
              stdout[n].session = p.session /\ stdout[n].turn = p.turn

(* An approval that waits is the one its session shows.                     *)
ShownInv ==
    client.state = "ready" =>
        \A p \in approvals : record[p.session].approval = p.approval

LEMMA WaitingInit == Init => EndsInv /\ AskingInv /\ ShownInv
BY DEF Init, EndsInv, AskingInv, ShownInv, Told

(* The turn t of s goes on, as far as the app-server can still end it.      *)
Runs(s, t) ==
    server'.alive =>
        server.alive /\ (server.running[s] = t => server'.running[s] = t)

(* The end of a turn is where it was, but for the line that was read.       *)
LEMMA EndsAfterRead ==
    ASSUME Types, NEW kind, Reading(kind), NEW s, NEW t, Runs(s, t),
           NEW m \in Nat, NEW i \in Nat,
           i + 1 = m \/ (i = 0 /\ m = 0 /\ ~Ends(1, s)),
           EndsAfter(m, s, t)
    PROVE  EndsAfter(i, s, t)'
<1>1. /\ Len(stdout) \in Nat \ {0} /\ Len(stdout') = Len(stdout) - 1
      /\ \A n \in 1 .. Len(stdout) - 1 : stdout'[n] = stdout[n + 1]
  BY ReadLine
<1>2. ASSUME NEW n \in 1 .. Len(stdout')
      PROVE  /\ n + 1 \in Told /\ (i < n <=> m < n + 1)
             /\ stdout'[n] = stdout[n + 1]
  BY <1>1, <1>2 DEF Told
<1>3. ASSUME NEW k \in Told, m < k, Ends(k, s)
      PROVE  k - 1 \in 1 .. Len(stdout') /\ (k - 1) + 1 = k
  BY <1>1, <1>3 DEF Told
<1>4. ASSUME NEW n \in 1 .. Len(stdout'), NextEnd(i, n, s)'
      PROVE  stdout'[n].turn = t
  <2>1. n + 1 \in Told /\ m < n + 1 /\ Ends(n + 1, s)
    BY <1>2, <1>4 DEF NextEnd, Ends
  <2>2. ASSUME NEW k \in Told, m < k, Ends(k, s)
        PROVE  n + 1 <= k
    <3>1. k - 1 \in 1 .. Len(stdout') /\ (k - 1) + 1 = k
      BY <1>3, <2>2
    <3>2. i < k - 1 /\ Ends(k - 1, s)'
      BY <1>2, <2>2, <3>1 DEF Ends
    <3>3. n <= k - 1
      BY <1>4, <3>1, <3>2 DEF NextEnd, Told
    <3> QED
      BY <3>1, <3>3
  <2>3. NextEnd(m, n + 1, s)
    BY <2>1, <2>2 DEF NextEnd
  <2> QED
    BY <1>2, <2>1, <2>3 DEF EndsAfter
<1>5. \/ \E n \in 1 .. Len(stdout') : i < n /\ Ends(n, s)'
      \/ ~server'.alive
      \/ server'.running[s] = t
  <2>1. ASSUME NEW k \in Told, m < k, Ends(k, s)
        PROVE  \E n \in 1 .. Len(stdout') : i < n /\ Ends(n, s)'
    <3>1. k - 1 \in 1 .. Len(stdout') /\ (k - 1) + 1 = k
      BY <1>3, <2>1
    <3>2. i < k - 1 /\ Ends(k - 1, s)'
      BY <1>2, <2>1, <3>1 DEF Ends
    <3> QED
      BY <3>1, <3>2
  <2> QED
    BY <2>1 DEF EndsAfter, Runs
<1> QED
  BY <1>4, <1>5 DEF EndsAfter, Told

(* Nothing was written about the end of a turn of s.                        *)
LEMMA EndsAfterKept ==
    ASSUME Types, NEW s, NEW t, Goes(0, {}), Runs(s, t), NEW m \in Nat,
           \A n \in 1 .. Len(stdout') :
              (n \in Told /\ stdout'[n] = stdout[n]) \/ ~Ends(n, s)',
           EndsAfter(m, s, t)
    PROVE  EndsAfter(m, s, t)'
<1>1. \A n \in Told : n \in 1 .. Len(stdout') /\ stdout'[n] = stdout[n]
  <2>1. \A n \in Told : n - 0 = n
    BY DEF Told
  <2> QED
    BY <2>1 DEF Goes
<1>2. ASSUME NEW n \in 1 .. Len(stdout'), NextEnd(m, n, s)'
      PROVE  stdout'[n].turn = t
  <2>1. n \in Told /\ stdout'[n] = stdout[n]
    BY <1>2 DEF NextEnd
  <2>2. NextEnd(m, n, s)
    BY <1>1, <1>2, <2>1 DEF NextEnd, Ends, Told
  <2> QED
    BY <2>1, <2>2 DEF EndsAfter
<1>3. \/ \E n \in 1 .. Len(stdout') : m < n /\ Ends(n, s)'
      \/ ~server'.alive
      \/ server'.running[s] = t
  BY <1>1 DEF EndsAfter, Runs, Ends
<1> QED
  BY <1>2, <1>3 DEF EndsAfter, Told

(* The end of the turn that s runs is written.                              *)
LEMMA EndsAfterEnd ==
    ASSUME Types, NEW s \in Sessions, NEW t, NEW f, server.alive,
           Grown(CompletedLine(s, f)), NEW m \in Nat, m <= Len(stdout),
           EndsAfter(m, s, t)
    PROVE  EndsAfter(m, s, t)'
<1> DEFINE l == CompletedLine(s, f)
<1>1. l.kind = "completed" /\ l.session = s /\ l.turn = server.running[s]
  BY DEF CompletedLine
<1>2. PICK k \in Nat :
      /\ k = Len(stdout') /\ Len(stdout) < k /\ Len(stdout) \in Nat /\ stdout'[k] = l
      /\ \A n \in 1 .. k - 1 :
            (n \in Told /\ stdout'[n] = stdout[n]) \/ stdout'[n].kind # "completed"
      /\ \A n \in Told : n \in 1 .. k - 1 /\ stdout'[n] = stdout[n]
  BY TypeFacts DEF Grown, Quiet
<1>3. k \in 1 .. k /\ m < k /\ Ends(k, s)'
  BY <1>1, <1>2 DEF Ends
<1>4. ASSUME NEW n \in 1 .. k, NextEnd(m, n, s)'
      PROVE  stdout'[n].turn = t
  <2>1. m < n /\ Ends(n, s)' /\ \A j \in 1 .. k : m < j /\ Ends(j, s)' => n <= j
    BY <1>2, <1>4 DEF NextEnd, Told
  <2>2. CASE \E e \in Told : m < e /\ Ends(e, s)
    <3>1. PICK e \in Told : m < e /\ Ends(e, s)
      BY <2>2
    <3>2. e \in 1 .. k /\ e < k /\ Ends(e, s)'
      BY <1>2, <3>1 DEF Ends
    <3>3. n <= e
      BY <2>1, <3>1, <3>2
    <3>4. n \in 1 .. k - 1
      BY <1>2, <3>2, <3>3
    <3>5. n \in Told /\ stdout'[n] = stdout[n]
      BY <1>2, <2>1, <3>4 DEF Ends
    <3>6. \A j \in Told : m < j /\ Ends(j, s) => n <= j
      <4>1. \A j \in Told : j \in 1 .. k
        BY <1>2
      <4> QED
        BY <1>2, <2>1, <4>1 DEF Ends
    <3>7. NextEnd(m, n, s)
      BY <2>1, <3>5, <3>6 DEF NextEnd, Ends
    <3> QED
      BY <3>5, <3>7 DEF EndsAfter
  <2>3. CASE ~\E e \in Told : m < e /\ Ends(e, s)
    <3>1. server.running[s] = t
      BY <2>3 DEF EndsAfter
    <3>2. n = k
      <4>1. n # k => n \in 1 .. k - 1
        BY <1>2
      <4> QED
        BY <1>2, <2>1, <2>3, <4>1 DEF Ends
    <3> QED
      BY <1>1, <1>2, <3>1, <3>2
  <2> QED
    BY <2>2, <2>3
<1> QED
  BY <1>2, <1>3, <1>4 DEF EndsAfter, Told

(* A line is read that neither asks for an approval nor ends a turn.        *)
LEMMA EndsInvRead ==
    ASSUME Types, EndsInv, NEW kind \in Quiet \cup {"started"}, Reading(kind),
           UNCHANGED <<approvals, server>>
    PROVE  EndsInv'
<1>1. /\ Len(stdout) \in Nat \ {0} /\ Len(stdout') = Len(stdout) - 1
      /\ \A n \in 1 .. Len(stdout) - 1 : stdout'[n] = stdout[n + 1]
      /\ client.state = "ready" /\ stdout[1].kind = kind
  BY ReadLine
<1>2. \A s, t : ~Ends(1, s) /\ Runs(s, t)
  BY <1>1 DEF Ends, Runs, Quiet
<1>3. ASSUME NEW i \in 1 .. Len(stdout'), stdout'[i].kind = "approval"
      PROVE  EndsAfter(i, stdout[i].session, stdout[i].turn)'
  <2>1. i + 1 \in Told /\ i \in Nat /\ i + 1 \in Nat /\ stdout'[i] = stdout[i + 1]
    BY <1>1 DEF Told
  <2>2. EndsAfter(i + 1, stdout[i + 1].session, stdout[i + 1].turn)
    BY <1>3, <2>1 DEF EndsInv
  <2>3. PICK s, t : /\ s = stdout'[i].session /\ t = stdout'[i].turn
                    /\ EndsAfter(i + 1, s, t)
    BY <2>1, <2>2
  <2>4. EndsAfter(i, s, t)'
    BY <1>2, <2>1, <2>3, EndsAfterRead
  <2> QED
    BY <2>3, <2>4 DEF EndsAfter, NextEnd, Ends
<1>4. ASSUME NEW p \in approvals'
      PROVE  EndsAfter(0, p.session, p.turn)'
  <2>1. EndsAfter(0, p.session, p.turn) /\ 0 \in Nat
    BY <1>1 DEF EndsInv
  <2> QED
    BY <1>2, <2>1, EndsAfterRead
<1> QED
  BY <1>3, <1>4 DEF EndsInv, Told

(* The approval that is read is one that waits from now on.                 *)
LEMMA EndsInvTaken ==
    ASSUME Types, EndsInv, ReadApprovalRequest
    PROVE  EndsInv'
<1> DEFINE p == Pending(Line.approval, Line.session, Line.turn)
<1>1. /\ Len(stdout) \in Nat \ {0} /\ Len(stdout') = Len(stdout) - 1
      /\ \A n \in 1 .. Len(stdout) - 1 : stdout'[n] = stdout[n + 1]
      /\ client.state = "ready" /\ stdout[1].kind = "approval"
      /\ Reading("approval") /\ stdout[1] = Line
  BY ReadLine DEF ReadApprovalRequest
<1>2. \A s, t : ~Ends(1, s) /\ Runs(s, t)
  BY <1>1 DEF Ends, Runs, ReadApprovalRequest, serverVars
<1>3. ASSUME NEW i \in 1 .. Len(stdout'), stdout'[i].kind = "approval"
      PROVE  EndsAfter(i, stdout[i].session, stdout[i].turn)'
  <2>1. i + 1 \in Told /\ i \in Nat /\ i + 1 \in Nat /\ stdout'[i] = stdout[i + 1]
    BY <1>1 DEF Told
  <2>2. EndsAfter(i + 1, stdout[i + 1].session, stdout[i + 1].turn)
    BY <1>3, <2>1 DEF EndsInv
  <2>3. PICK s, t : /\ s = stdout'[i].session /\ t = stdout'[i].turn
                    /\ EndsAfter(i + 1, s, t)
    BY <2>1, <2>2
  <2>4. EndsAfter(i, s, t)'
    BY <1>1, <1>2, <2>1, <2>3, EndsAfterRead
  <2> QED
    BY <2>3, <2>4 DEF EndsAfter, NextEnd, Ends
<1>4. EndsAfter(1, p.session, p.turn)
  BY <1>1 DEF EndsInv, Told, Pending
<1>5. \A q \in approvals' : q \in approvals \/ q = p
  BY DEF ReadApprovalRequest, TakeApproval
<1> HIDE DEF p
<1>6. ASSUME NEW q \in approvals'
      PROVE  EndsAfter(0, q.session, q.turn)'
  <2>1. 0 \in Nat /\ 1 \in Nat /\ 0 + 1 = 1
    OBVIOUS
  <2>2. CASE q \in approvals
    <3>1. EndsAfter(0, q.session, q.turn)
      BY <1>1, <2>2 DEF EndsInv
    <3> QED
      BY <1>1, <1>2, <2>1, <3>1, EndsAfterRead
  <2>3. CASE q = p
    <3>1. EndsAfter(1, q.session, q.turn)
      BY <1>4, <2>3
    <3> QED
      BY <1>1, <1>2, <2>1, <3>1, EndsAfterRead
  <2> QED
    BY <1>5, <2>2, <2>3
<1> QED
  BY <1>3, <1>6 DEF EndsInv, Told

(* When the end of a turn is read, the approvals that wait for a turn of    *)
(* the session are the turn's own.                                          *)
LEMMA EndedAreOwn ==
    ASSUME Types, EndsInv, ReadTurnCompleted, NEW p \in approvals,
           p.session = Line.session
    PROVE  p.turn = Line.turn /\ p \notin approvals'
<1>1. /\ client.state = "ready" /\ Line = stdout[1] /\ Line.kind = "completed"
      /\ 1 \in Told
  BY ReadLine DEF ReadTurnCompleted, Told
<1>2. NextEnd(0, 1, p.session)
  BY <1>1 DEF NextEnd, Ends, Told
<1>3. p.turn = Line.turn
  BY <1>1, <1>2 DEF EndsInv, EndsAfter
<1>4. approvals' =
         approvals \ {q \in approvals : q.session = Line.session /\ q.turn = Line.turn}
  BY DEF ReadTurnCompleted
<1> QED
  BY <1>3, <1>4

LEMMA EndsInvCompleted ==
    ASSUME Types, EndsInv, ReadTurnCompleted
    PROVE  EndsInv'
<1>1. /\ Len(stdout) \in Nat \ {0} /\ Len(stdout') = Len(stdout) - 1
      /\ \A n \in 1 .. Len(stdout) - 1 : stdout'[n] = stdout[n + 1]
      /\ client.state = "ready" /\ Reading("completed") /\ stdout[1] = Line
  BY ReadLine DEF ReadTurnCompleted
<1>2. /\ \A s, t : Runs(s, t)
      /\ approvals' \in SUBSET approvals
  BY DEF Runs, ReadTurnCompleted, serverVars
<1>3. ASSUME NEW i \in 1 .. Len(stdout'), stdout'[i].kind = "approval"
      PROVE  EndsAfter(i, stdout[i].session, stdout[i].turn)'
  <2>1. i + 1 \in Told /\ i \in Nat /\ i + 1 \in Nat /\ stdout'[i] = stdout[i + 1]
    BY <1>1 DEF Told
  <2>2. EndsAfter(i + 1, stdout[i + 1].session, stdout[i + 1].turn)
    BY <1>3, <2>1 DEF EndsInv
  <2>3. PICK s, t : /\ s = stdout'[i].session /\ t = stdout'[i].turn
                    /\ EndsAfter(i + 1, s, t)
    BY <2>1, <2>2
  <2>4. EndsAfter(i, s, t)'
    BY <1>1, <1>2, <2>1, <2>3, EndsAfterRead
  <2> QED
    BY <2>3, <2>4 DEF EndsAfter, NextEnd, Ends
<1>4. ASSUME NEW p \in approvals'
      PROVE  EndsAfter(0, p.session, p.turn)'
  <2>1. EndsAfter(0, p.session, p.turn) /\ 0 \in Nat
    BY <1>1, <1>2 DEF EndsInv
  <2>2. ~Ends(1, p.session)
    BY <1>1, <1>2, EndedAreOwn DEF Ends
  <2> QED
    BY <1>1, <1>2, <2>1, <2>2, EndsAfterRead
<1> QED
  BY <1>3, <1>4 DEF EndsInv, Told

(* Lines that ask for no approval are written.                              *)
LEMMA EndsInvSaid ==
    ASSUME Types, EndsInv, Comes(0, Others), approvals' \in SUBSET approvals,
           client'.state = client.state,
           \A s \in Sessions, t \in Texts, m \in Nat :
              m <= Len(stdout) /\ EndsAfter(m, s, t) => EndsAfter(m, s, t)'
    PROVE  EndsInv'
<1>1. ASSUME NEW i \in 1 .. Len(stdout'), stdout'[i].kind = "approval"
      PROVE  EndsAfter(i, stdout[i].session, stdout[i].turn)'
  <2>1. i \in Told /\ stdout'[i] = stdout[i] /\ i \in Nat /\ i <= Len(stdout)
    BY <1>1, TypeFacts DEF Comes, Others, Told
  <2>2. stdout[i].session \in Sessions /\ stdout[i].turn \in Texts
    BY <1>1, <2>1, TypeFacts, LineFields DEF Told
  <2>3. EndsAfter(i, stdout[i].session, stdout[i].turn)
    BY <1>1, <2>1 DEF EndsInv
  <2>4. EndsAfter(i, stdout'[i].session, stdout'[i].turn)
    BY <2>1, <2>3
  <2>5. PICK s \in Sessions, t \in Texts :
           /\ s = stdout'[i].session /\ t = stdout'[i].turn
           /\ EndsAfter(i, s, t)
    BY <2>1, <2>2, <2>4
  <2>6. EndsAfter(i, s, t)'
    BY <2>1, <2>5
  <2> QED
    BY <2>5, <2>6 DEF EndsAfter, NextEnd, Ends
<1>2. ASSUME NEW p \in approvals', client.state = "ready"
      PROVE  EndsAfter(0, p.session, p.turn)'
  <2>1. p.session \in Sessions /\ p.turn \in Texts /\ EndsAfter(0, p.session, p.turn)
    BY <1>2, TypeFacts DEF EndsInv
  <2>2. 0 \in Nat /\ 0 <= Len(stdout)
    BY TypeFacts
  <2> QED
    BY <2>1, <2>2
<1> QED
  BY <1>1, <1>2 DEF EndsInv, Told

(* Nobody reads any more.                                                   *)
LEMMA EndsInvDeaf ==
    ASSUME stdout' = <<>>, client'.state # "ready"
    PROVE  EndsInv'
BY DEF EndsInv, Told

-----------------------------------------------------------------------------
(* What the steps of the bridge leave as it is. *)

(* The client goes on: what was written to the app-server is still there.   *)
Keeps ==
    /\ client'.state = client.state /\ client'.writable = client.writable
    /\ \A i \in 1 .. Len(client.stdin) :
          i \in 1 .. Len(client'.stdin) /\ client'.stdin[i] = client.stdin[i]

(* The client has failed or is closed.                                      *)
Deafens ==
    /\ client'.state # "ready" /\ stdout' = <<>>
    /\ client'.writable => client.writable

SameApprovals == \A s \in Sessions : record'[s].approval = record[s].approval

LEMMA SameKeeps == ASSUME Types, client' = client PROVE Keeps
BY DEF Keeps

LEMMA RequestKeeps ==
    ASSUME Types, NEW c \in RpcClients, c.state = client.state,
           c.writable = client.writable, c.stdin = client.stdin,
           NEW r \in Requests, client' = Request(c, r)
    PROVE  Keeps
<1> DEFINE l == RequestLine(r)
           z == Append(c.stdin, l)
<1>1. c.stdin \in Seq(InLines) /\ l \in InLines /\ Len(c.stdin) \in Nat
  BY ClientFields, RequestFields
<1> HIDE DEF l
<1>2. \A i \in 1 .. Len(c.stdin) : i \in 1 .. Len(z) /\ z[i] = c.stdin[i]
  BY <1>1
<1>3. /\ client'.state = c.state /\ client'.writable = c.writable
      /\ client'.stdin = c.stdin \/ client'.stdin = z
  BY Requested DEF l
<1> HIDE DEF z
<1> QED
  BY <1>2, <1>3 DEF Keeps

LEMMA RespondKeeps ==
    ASSUME Types, NEW some \in SUBSET PendingApprovals, IsFiniteSet(some),
           NEW d \in Decisions, client' = RespondAll(some, d)
    PROVE  /\ Keeps
           /\ \A p \in Unanswered(some) :
                 \E i \in 1 .. Len(client'.stdin) :
                    /\ client'.stdin[i].kind = "answer"
                    /\ client'.stdin[i].approval = p.approval
<1>1. Len(client.stdin) \in Nat /\ Len(client'.stdin) \in Nat
      /\ Len(client.stdin) <= Len(client'.stdin)
  BY AnsweredAll, TypeFacts
<1>2. /\ client'.state = client.state /\ client'.writable = client.writable
      /\ \A i \in 1 .. Len(client.stdin) : client'.stdin[i] = client.stdin[i]
      /\ \A p \in Unanswered(some) :
            \E i \in 1 .. Len(client'.stdin) :
               /\ client'.stdin[i].kind = "answer"
               /\ client'.stdin[i].approval = p.approval
  BY AnsweredAll
<1> QED
  BY <1>1, <1>2 DEF Keeps

(* The bridge reads a line that neither asks for an approval nor ends a     *)
(* turn.                                                                    *)
LEMMA PlainReads ==
    ASSUME Types, ReadResponse \/ ReadTurnStarted \/ ReadStatus \/ ReadError
    PROVE  /\ \E kind \in Quiet \cup {"started"} : Reading(kind)
           /\ Keeps /\ SameApprovals
           /\ UNCHANGED <<bridge, approvals, asked, server>>
<1>1. CASE ReadResponse
  <2>1. Reading("response") /\ client' = DispatchResponse(client, Line.outcome)
        /\ UNCHANGED <<bridge, approvals, asked, server, record>>
    BY <1>1 DEF ReadResponse, adapterVars, serverVars
  <2>2. CASE IsPending(client, Line.outcome.request)
    <3>1. PICK k \in 1 .. Len(client.pending) :
              client.pending[k] = Line.outcome.request
      BY <2>2 DEF IsPending
    <3>2. client' = SettleRequest(client, Line.outcome)
      BY <2>1, <2>2 DEF DispatchResponse
    <3>3. Line.outcome \in Outcomes /\ client \in RpcClients
      BY <2>1, ReadLine, LineFields DEF Types
    <3>4. Keeps
      BY <3>1, <3>2, <3>3, SettledOne DEF Keeps
    <3> QED
      BY <2>1, <3>4 DEF Quiet, SameApprovals
  <2>3. CASE ~IsPending(client, Line.outcome.request)
    BY <2>1, <2>3, SameKeeps DEF DispatchResponse, Quiet, SameApprovals
  <2> QED
    BY <2>2, <2>3
<1>2. CASE ReadTurnStarted
  <2>1. /\ Reading("started") /\ client' = client
        /\ MarkTurnStarted(Recorded(Line.session), Line.session, Line.turn)
        /\ UNCHANGED <<bridge, approvals, asked, server>>
    BY <1>2 DEF ReadTurnStarted, serverVars
  <2>2. Line.session \in Sessions /\ Line.turn \in Texts
    BY <2>1, ReadLine, LineFields
  <2>3. SameApprovals
    BY <2>1, <2>2, RecordedFields, MarkedTurn DEF SameApprovals
  <2> QED
    BY <2>1, <2>3, SameKeeps
<1>3. CASE ReadStatus
  <2>1. /\ Reading("status") /\ client' = client
        /\ UNCHANGED <<bridge, approvals, asked, server>>
        /\ \/ record' = record
           \/ record' = [Recorded(Line.session) EXCEPT ![Line.session].state = Line.status]
    BY <1>3 DEF ReadStatus, serverVars
  <2>2. Line.session \in Sessions
    BY <2>1, ReadLine, LineFields
  <2>3. SameApprovals
    <3> DEFINE new == Recorded(Line.session)
    <3>1. /\ record' = record \/ record' = [new EXCEPT ![Line.session].state = Line.status]
          /\ new \in [Sessions -> ThreadRecords]
          /\ \A s \in Sessions : new[s].approval = record[s].approval
      BY <2>1, <2>2, RecordedFields
    <3> HIDE DEF new
    <3> QED
      BY <2>2, <3>1 DEF SameApprovals, ThreadRecords
  <2> QED
    BY <2>1, <2>3, SameKeeps DEF Quiet
<1>4. CASE ReadError
  <2>1. /\ Reading("error") /\ client' = client
        /\ UNCHANGED <<bridge, approvals, asked, server>>
        /\ record' = [Recorded(Line.session) EXCEPT ![Line.session].state = "failed"]
    BY <1>4 DEF ReadError, serverVars
  <2>2. Line.session \in Sessions
    BY <2>1, ReadLine, LineFields
  <2>3. SameApprovals
    BY <2>1, <2>2, RecordedFields, TypeFacts DEF SameApprovals, ThreadRecords
  <2> QED
    BY <2>1, <2>3, SameKeeps DEF Quiet
<1> QED
  BY <1>1, <1>2, <1>3, <1>4

(* A call begins, a request is given up, or code goes on after its await.   *)
LEMMA StartKeeps ==
    ASSUME Types, NEW c \in RpcClients, c.state = client.state,
           c.writable = client.writable, c.stdin = client.stdin,
           NEW x \in Texts, NEW s \in Sessions, StartTurn(c, x, s)
    PROVE  Keeps
<1>1. CASE client' = c
  BY <1>1 DEF Keeps
<1>2. CASE client' = Request(c, Call(x, "turn/start", s, x))
  <2>1. Call(x, "turn/start", s, x) \in Requests
    BY DEF Call, Requests, Methods, Turns, Jobs
  <2> QED
    BY <1>2, <2>1, RequestKeeps
<1> QED
  BY <1>1, <1>2 DEF StartTurn

LEMMA CallKeeps ==
    ASSUME Types, NEW s \in Sessions, CallsOn(s)
    PROVE  Keeps /\ UNCHANGED <<bridge, stdout, approvals, asked, server, record>>
<1>1. client \in RpcClients
  BY DEF Types
<1>2. UNCHANGED <<bridge, stdout, approvals, asked, server, record>>
  BY DEF CallsOn, SubmitText, ResumeSession, StartSession, Interrupt, Ask, adapterVars,
     serverVars
<1>3. ASSUME NEW j \in Jobs,
             NEW m \in {"thread/resume", "thread/start", "turn/interrupt"},
             NEW t \in Turns, m = "turn/interrupt" => j \in Interrupts /\ t \in Texts,
             Ask(j, m, s, t)
      PROVE  Keeps
  BY <1>1, <1>3, AskTypes, RequestKeeps
<1>4. ASSUME NEW x \in Texts, SubmitText(x, s)
      PROVE  Keeps
  <2>1. CASE record[s].loaded
    <3>1. StartTurn(client, x, s)
      BY <1>4, <2>1 DEF SubmitText
    <3> QED
      BY <1>1, <3>1, StartKeeps
  <2>2. CASE ~record[s].loaded
    <3>1. Call(x, "thread/resume", s, NoTurn) \in Requests
      BY DEF Call, Requests, Methods, Turns, Jobs
    <3>2. client' = Request(client, Call(x, "thread/resume", s, NoTurn))
      BY <1>4, <2>2 DEF SubmitText
    <3> QED
      BY <1>1, <3>1, <3>2, RequestKeeps
  <2> QED
    BY <2>1, <2>2
<1>5. ASSUME NEW o \in Opens, ResumeSession(o, s) \/ StartSession(o, s)
      PROVE  Keeps
  <2>1. \E m \in {"thread/resume", "thread/start"} : Ask(o, m, s, NoTurn)
    BY <1>5 DEF ResumeSession, StartSession
  <2>2. o \in Jobs /\ NoTurn \in Turns
    BY DEF Jobs, Turns
  <2> QED
    BY <1>3, <2>1, <2>2
<1>6. ASSUME NEW i \in Interrupts, Interrupt(i, s)
      PROVE  Keeps
  <2>1. /\ Ask(i, "turn/interrupt", s, record[s].turn) /\ i \in Jobs /\ i \in Interrupts
        /\ record[s].turn \in Turns /\ record[s].turn \in Texts
    BY <1>6, TypeFacts DEF Interrupt, Jobs, Turns
  <2> QED
    BY <1>3, <2>1
<1> QED
  BY <1>2, <1>4, <1>5, <1>6 DEF CallsOn

LEMMA GoOnKeeps ==
    ASSUME Types, GoesOn
    PROVE  Keeps /\ SameApprovals /\ UNCHANGED <<bridge, stdout, approvals, asked, server>>
<1>1. client.settled # <<>>
  BY DEF GoesOn, GoOnRejected, GoOnOpened, GoOnLoaded, GoOnStarted, GoOnInterrupted,
     Resolves, Settled
<1>2. UNCHANGED <<bridge, stdout, approvals, asked, server>>
  BY DEF GoesOn, GoOnRejected, GoOnOpened, GoOnLoaded, GoOnStarted, GoOnInterrupted,
     adapterVars, serverVars
<1>3. client' = Consumed => Keeps
  BY <1>1, ConsumedOne DEF Keeps
<1>4. CASE GoOnRejected \/ GoOnInterrupted
  BY <1>2, <1>3, <1>4 DEF GoOnRejected, GoOnInterrupted, Finish, SameApprovals,
     adapterVars
<1>5. CASE GoOnStarted
  <2>1. /\ client' = Consumed /\ Outcome.request.method = "turn/start"
        /\ MarkTurnStarted(record, Outcome.request.session, Outcome.request.turn)
    BY <1>5 DEF GoOnStarted, Finish, Resolves
  <2>2. Outcome.request.session \in Sessions /\ Outcome.request.turn \in Texts
    BY <1>1, <2>1, ConsumedOne, RequestFields
  <2>3. SameApprovals
    BY <2>1, <2>2, MarkedTurn, TypeFacts DEF SameApprovals
  <2> QED
    BY <1>2, <1>3, <2>1, <2>3
<1>6. CASE GoOnLoaded
  <2>1. /\ Outcome.request.method = "loaded" /\ record' = record
        /\ StartTurn(Consumed, Caller, Outcome.request.session)
    BY <1>6 DEF GoOnLoaded, Resolves, adapterVars
  <2>2. Outcome.request.session \in Sessions /\ Caller \in Texts
    BY <1>1, <2>1, ConsumedOne, RequestFields DEF Caller
  <2>3. Keeps
    BY <1>1, <2>1, <2>2, ConsumedOne, StartKeeps
  <2> QED
    BY <1>2, <2>1, <2>3 DEF SameApprovals
<1>7. CASE GoOnOpened
  BY <1>2, <1>7, OpenedFields DEF Keeps, SameApprovals
<1> QED
  BY <1>4, <1>5, <1>6, <1>7 DEF GoesOn

LEMMA TimeOutKeeps ==
    ASSUME Types, TimeOut
    PROVE  Keeps /\ UNCHANGED <<bridge, stdout, approvals, asked, server, record>>
<1>1. PICK k \in 1 .. Len(client.pending) :
          /\ client' = SettleRequest(client, Rejected(client.pending[k]))
          /\ Rejected(client.pending[k]) \in Outcomes
          /\ Rejected(client.pending[k]).request = client.pending[k]
  BY GivenUp
<1>2. client \in RpcClients
  BY DEF Types
<1>3. Keeps
  BY <1>1, <1>2, SettledOne DEF Keeps
<1> QED
  BY <1>3 DEF TimeOut, adapterVars, serverVars

LEMMA ClientFails ==
    ASSUME Types, LineTooLong \/ NoticeExit
    PROVE  Deafens /\ UNCHANGED <<bridge, approvals, asked, server, record>>
<1>1. CASE LineTooLong
  <2>1. client \in RpcClients /\ client' = FailAll(client, "failed") /\ stdout' = <<>>
    BY <1>1 DEF Types, LineTooLong
  <2> QED
    BY <1>1, <2>1, FailedAll DEF LineTooLong, Deafens, adapterVars, serverVars
<1>2. CASE NoticeExit
  BY <1>2, ExitedClient DEF NoticeExit, Deafens, adapterVars, serverVars
<1> QED
  BY <1>1, <1>2

(* The shutdown closes the client or stops the bridge halfway.              *)
LEMMA ShutdownLeaves ==
    ASSUME Types, Shutdown
    PROVE  /\ bridge' # "up" /\ UNCHANGED <<asked, server, record>>
           /\ \/ Deafens
              \/ UNCHANGED <<client, stdout, approvals>>
<1>1. CASE /\ client' = FailAll(RespondAll(approvals, "cancel"), "closed")
           /\ stdout' = <<>> /\ bridge' = "closing"
  <2> DEFINE c == RespondAll(approvals, "cancel")
  <2>1. "cancel" \in Decisions /\ approvals \in SUBSET PendingApprovals
        /\ IsFiniteSet(approvals)
    BY DEF Types, Decisions
  <2>2. c \in RpcClients /\ c.writable = client.writable
    BY <2>1, AnsweredAll
  <2>3. client' = FailAll(c, "closed")
    BY <1>1
  <2> HIDE DEF c
  <2> QED
    BY <1>1, <2>2, <2>3, FailedAll DEF Deafens, Shutdown, serverVars
<1>2. CASE bridge' = "crashed" /\ UNCHANGED <<client, stdout, approvals>>
  BY <1>2 DEF Shutdown, serverVars
<1> QED
  BY <1>1, <1>2 DEF Shutdown

Answered(a) ==
    \E i \in 1 .. Len(client.stdin) :
        client.stdin[i].kind = "answer" /\ client.stdin[i].approval = a

(* One approval is answered and cleared, if it can be.                      *)
LEMMA OneLeaves ==
    ASSUME Types, ApprovalLines, NEW p \in approvals, RespondToApproval(p) \/ Expire(p)
    PROVE  /\ approvals' = approvals \ {p} /\ UNCHANGED <<stdout, asked, server>>
           /\ bridge = "up" /\ p \in PendingApprovals /\ Keeps
           /\ \/ /\ client.writable /\ Answered(p.approval)'
                 /\ record' = AfterApproval(p.session)
              \/ ~client.writable /\ UNCHANGED record
<1>1. /\ {"accept", "cancel"} \subseteq Decisions
      /\ {p} \in SUBSET PendingApprovals /\ IsFiniteSet({p}) /\ p \in PendingApprovals
  BY OneAnswered DEF Decisions
<1>2. Unanswered({p}) = {p}
  BY DEF ApprovalLines, Unanswered
<1>3. /\ approvals' = approvals \ {p} /\ UNCHANGED <<stdout, asked, server>>
      /\ bridge = "up"
  BY DEF RespondToApproval, Expire, serverVars, Idle
<1>4. ASSUME NEW d \in {"accept", "cancel"}, client' = RespondAll({p}, d)
      PROVE  Keeps /\ Answered(p.approval)'
  BY <1>1, <1>2, <1>4, RespondKeeps DEF Answered
<1>5. \/ /\ client.writable /\ record' = AfterApproval(p.session)
         /\ \E d \in {"accept", "cancel"} : client' = RespondAll({p}, d)
      \/ ~client.writable /\ UNCHANGED <<client, record>>
  BY DEF RespondToApproval, Expire
<1> QED
  BY <1>1, <1>3, <1>4, <1>5, SameKeeps

(* The end of a turn clears what its session shows.                         *)
LEMMA CompletedLeaves ==
    ASSUME Types, ApprovalLines, ReadTurnCompleted
    PROVE  /\ Reading("completed") /\ Line.session \in Sessions /\ Line.turn \in Texts
           /\ Keeps /\ UNCHANGED <<bridge, asked, server>>
           /\ approvals' \in SUBSET approvals
           /\ \A p \in approvals :
                 \/ p \in approvals'
                 \/ /\ p.session = Line.session /\ p.turn = Line.turn
                    /\ Answered(p.approval)'
           /\ \A s \in Sessions :
                 /\ record'[s].approval =
                       IF s = Line.session THEN NoApproval ELSE record[s].approval
                 /\ record'[s].turn =
                       IF s = Line.session THEN NoTurn ELSE record[s].turn
<1> DEFINE ended == {p \in approvals : p.session = Line.session /\ p.turn = Line.turn}
           x == IF Line.failed THEN "failed" ELSE "idle"
<1>1. /\ Reading("completed") /\ Line.session \in Sessions /\ Line.turn \in Texts
  BY ReadLine, LineFields DEF ReadTurnCompleted
<1>2. /\ "cancel" \in Decisions /\ ended \in SUBSET PendingApprovals
      /\ IsFiniteSet(ended) /\ ended \in SUBSET approvals
  BY FS_Subset DEF Types, Decisions
<1>3. Unanswered(ended) = ended
  BY DEF ApprovalLines, Unanswered
<1>4. /\ client' = RespondAll(ended, "cancel") /\ approvals' = approvals \ ended
      /\ UNCHANGED <<bridge, asked, server>>
      /\ record' = [Recorded(Line.session) EXCEPT
                       ![Line.session].turn = NoTurn,
                       ![Line.session].approval = NoApproval,
                       ![Line.session].state = x]
  BY DEF ReadTurnCompleted, serverVars
<1>5. \A s \in Sessions :
         /\ record'[s].approval =
               IF s = Line.session THEN NoApproval ELSE record[s].approval
         /\ record'[s].turn =
               IF s = Line.session THEN NoTurn ELSE record[s].turn
  <2> HIDE DEF x
  <2>1. /\ Recorded(Line.session) \in [Sessions -> ThreadRecords]
        /\ \A s \in Sessions :
              /\ Recorded(Line.session)[s].turn = record[s].turn
              /\ Recorded(Line.session)[s].approval = record[s].approval
    BY <1>1, RecordedFields
  <2> QED
    BY <1>1, <1>4, <2>1 DEF ThreadRecords
<1>6. \A p \in approvals :
         p \in approvals' \/ (p \in ended /\ p.session = Line.session /\ p.turn = Line.turn)
  BY <1>4
<1> HIDE DEF ended
<1>7. Keeps /\ \A p \in ended : Answered(p.approval)'
  BY <1>2, <1>3, <1>4, RespondKeeps DEF Answered
<1>8. approvals' \in SUBSET approvals
  BY <1>4
<1> QED
  BY <1>1, <1>4, <1>5, <1>6, <1>7, <1>8

(* An approval is taken or turned down.                                     *)
LEMMA TakenLeaves ==
    ASSUME Types, ApprovalLines, ReadApprovalRequest,
           NEW p, p = Pending(Line.approval, Line.session, Line.turn)
    PROVE  /\ Reading("approval") /\ p \in PendingApprovals
           /\ Line = stdout[1] /\ 1 \in Told /\ IsAsked(1, p.approval)
           /\ p.session = stdout[1].session /\ p.turn = stdout[1].turn
           /\ client.state = "ready" /\ Keeps /\ UNCHANGED <<bridge, asked, server>>
           /\ \/ /\ record[p.session].approval # NoApproval
                 /\ UNCHANGED <<approvals, record>> /\ Answered(p.approval)'
              \/ /\ record[p.session].approval = NoApproval
                 /\ approvals' = approvals \cup {p}
                 /\ \A s \in Sessions :
                       record'[s].approval =
                          IF s = p.session THEN p.approval ELSE record[s].approval
<1>1. /\ Reading("approval") /\ Line = stdout[1] /\ 1 \in Told
      /\ client.state = "ready"
      /\ Line.kind = "approval" /\ Line.approval \in Approvals
      /\ Line.session \in Sessions /\ Line.turn \in Texts
  BY ReadLine, LineFields DEF ReadApprovalRequest, Told
<1>2. /\ p \in PendingApprovals /\ p.approval = Line.approval
      /\ p.session = Line.session /\ p.turn = Line.turn /\ p.session \in Sessions
  BY <1>1 DEF Pending, PendingApprovals
<1>3. IsAsked(1, p.approval)
  BY <1>1, <1>2 DEF IsAsked
<1>4. TakeApproval(p) /\ UNCHANGED <<bridge, asked, server>>
  BY DEF ReadApprovalRequest, serverVars
<1>5. CASE record[p.session].approval # NoApproval
  <2>1. client' = RespondAll({p}, "cancel") /\ UNCHANGED <<approvals, record>>
    BY <1>4, <1>5 DEF TakeApproval
  <2>2. /\ {p} \in SUBSET PendingApprovals /\ IsFiniteSet({p})
        /\ "cancel" \in Decisions
    BY <1>2, FS_Singleton DEF Decisions
  <2>3. Unanswered({p}) = {p}
    <3>1. decided[p.approval] = <<>>
      BY <1>1, <1>2, <1>3 DEF ApprovalLines
    <3> QED
      BY <3>1 DEF Unanswered
  <2>4. /\ Keeps
        /\ \A q \in {p} :
              \E i \in 1 .. Len(client'.stdin) :
                 /\ client'.stdin[i].kind = "answer"
                 /\ client'.stdin[i].approval = q.approval
    <3> DEFINE all == {p}
    <3>1. /\ client' = RespondAll(all, "cancel") /\ Unanswered(all) = all
          /\ all \in SUBSET PendingApprovals /\ IsFiniteSet(all)
      BY <2>1, <2>2, <2>3
    <3> HIDE DEF all
    <3>2. /\ Keeps
          /\ \A q \in Unanswered(all) :
                \E i \in 1 .. Len(client'.stdin) :
                   /\ client'.stdin[i].kind = "answer"
                   /\ client'.stdin[i].approval = q.approval
      BY <2>2, <3>1, RespondKeeps
    <3> QED
      BY <3>1, <3>2 DEF all
  <2>5. Answered(p.approval)'
    BY <2>4 DEF Answered
  <2> QED
    BY <1>1, <1>2, <1>3, <1>4, <1>5, <2>1, <2>4, <2>5
<1>6. CASE record[p.session].approval = NoApproval
  <2>1. /\ approvals' = approvals \cup {p} /\ client' = client
        /\ record' = [Recorded(p.session) EXCEPT
                         ![p.session].approval = p.approval,
                         ![p.session].state = "waiting_for_user"]
    BY <1>4, <1>6 DEF TakeApproval
  <2>2. /\ Recorded(p.session) \in [Sessions -> ThreadRecords]
        /\ \A s \in Sessions :
              Recorded(p.session)[s].approval = record[s].approval
    BY <1>2, RecordedFields
  <2>3. \A s \in Sessions :
           record'[s].approval =
              IF s = p.session THEN p.approval ELSE record[s].approval
    BY <1>2, <2>1, <2>2 DEF ThreadRecords
  <2>4. Keeps /\ approvals' = approvals \cup {p}
    BY <2>1, SameKeeps
  <2> QED
    BY <1>1, <1>2, <1>3, <1>4, <1>6, <2>3, <2>4
<1> QED
  BY <1>5, <1>6

(* A line behind quiet ones is the only one of its kind that is new.        *)
LEMMA SaidEnd ==
    ASSUME Types, NEW l, Grown(l) \/ stdout' = stdout
    PROVE  \A n \in 1 .. Len(stdout') :
              \/ n \in Told /\ stdout'[n] = stdout[n]
              \/ stdout'[n].kind \in Quiet \/ stdout'[n] = l
<1>1. CASE stdout' = stdout
  BY <1>1 DEF Told
<1>2. CASE Grown(l)
  <2>1. \A n \in 1 .. Len(stdout') : n \in 1 .. Len(stdout') - 1 \/ n = Len(stdout')
    BY <1>2 DEF Grown
  <2> QED
    BY <1>2, <2>1 DEF Grown
<1> QED
  BY <1>1, <1>2

(* An approval is asked for the turn that runs.                             *)
LEMMA EndsInvAsked ==
    ASSUME Types, EndsInv, NEW a \in Approvals, NEW s \in Sessions, ServerAsks(a, s)
    PROVE  EndsInv'
<1> DEFINE l == ApprovalLine(a, s)
<1>1. /\ l \in OutLines /\ Say(<<l>>)
      /\ server'.alive = server.alive /\ server'.running = server.running
  BY AskingServer
<1>2. l.kind = "approval" /\ l.session = s /\ l.turn = server.running[s]
  BY DEF ApprovalLine
<1>3. UNCHANGED <<approvals, client>>
  BY DEF ServerAsks, bridgeVars, adapterVars
<1> HIDE DEF l
<1>4. /\ client.state = "ready" => Grown(l)
      /\ client.state # "ready" => stdout' = stdout
      /\ Goes(0, {})
  BY <1>1, OneLine
<1>5. \A n \in 1 .. Len(stdout') :
         \/ n \in Told /\ stdout'[n] = stdout[n]
         \/ stdout'[n].kind \in Quiet \/ stdout'[n] = l
  BY <1>4, SaidEnd
<1>6. ASSUME NEW x \in Sessions, NEW t \in Texts, NEW m \in Nat, EndsAfter(m, x, t)
      PROVE  EndsAfter(m, x, t)'
  <2>1. Runs(x, t)
    BY <1>1 DEF Runs
  <2>2. \A n \in 1 .. Len(stdout') :
           (n \in Told /\ stdout'[n] = stdout[n]) \/ ~Ends(n, x)'
    BY <1>2, <1>5 DEF Ends, Quiet
  <2> QED
    BY <1>4, <1>6, <2>1, <2>2, EndsAfterKept
<1>7. ASSUME NEW i \in 1 .. Len(stdout'), stdout'[i].kind = "approval"
      PROVE  EndsAfter(i, stdout[i].session, stdout[i].turn)'
  <2>1. CASE i \in Told /\ stdout'[i] = stdout[i]
    <3>1. /\ stdout[i].session \in Sessions /\ stdout[i].turn \in Texts /\ i \in Nat
      BY <1>7, <2>1, TypeFacts, LineFields DEF Told
    <3>2. EndsAfter(i, stdout'[i].session, stdout'[i].turn)
      BY <1>7, <2>1 DEF EndsInv
    <3>3. PICK y \in Sessions, t \in Texts :
             /\ y = stdout'[i].session /\ t = stdout'[i].turn
             /\ EndsAfter(i, y, t)
      BY <2>1, <3>1, <3>2
    <3>4. EndsAfter(i, y, t)'
      BY <1>6, <3>1, <3>3
    <3> QED
      BY <3>3, <3>4 DEF EndsAfter, NextEnd, Ends
  <2>2. CASE ~(i \in Told /\ stdout'[i] = stdout[i])
    <3>1. stdout'[i] = l /\ client.state = "ready" /\ Grown(l)
      BY <1>4, <1>5, <1>7, <2>2 DEF Quiet, Told
    <3>2. i = Len(stdout')
      <4>1. i # Len(stdout') => i \in 1 .. Len(stdout') - 1
        BY <3>1 DEF Grown
      <4> QED
        BY <1>2, <1>7, <2>2, <3>1, <4>1 DEF Grown, Quiet
    <3>3. \A n \in 1 .. Len(stdout') : ~(i < n)
      BY <3>1, <3>2 DEF Grown
    <3>4. stdout'[i].session = s /\ server'.running[s] = stdout'[i].turn
      BY <1>1, <1>2, <3>1
    <3> QED
      BY <3>3, <3>4 DEF EndsAfter, NextEnd, Told
  <2> QED
    BY <2>1, <2>2
<1>8. ASSUME NEW p \in approvals', client'.state = "ready"
      PROVE  EndsAfter(0, p.session, p.turn)'
  <2>1. /\ p.session \in Sessions /\ p.turn \in Texts /\ 0 \in Nat
        /\ EndsAfter(0, p.session, p.turn)
    BY <1>3, <1>8, TypeFacts DEF EndsInv
  <2> QED
    BY <1>6, <2>1
<1> QED
  BY <1>7, <1>8 DEF EndsInv, Told

-----------------------------------------------------------------------------
(* No approval is lost. *)

LEMMA EndsInvStep ==
    ASSUME Types, ApprovalLines, EndsInv, [Next]_vars
    PROVE  EndsInv'
<1>1. CASE UNCHANGED vars
  <2>1. UNCHANGED <<stdout, server, approvals, client>>
    BY <1>1 DEF vars, adapterVars, serverVars
  <2> QED
    BY <2>1 DEF EndsInv, EndsAfter, NextEnd, Ends, Told
<1>2. CASE ReadResponse \/ ReadTurnStarted \/ ReadStatus \/ ReadError
  BY <1>2, PlainReads, EndsInvRead
<1>3. ASSUME Keeps, stdout' = stdout, UNCHANGED server, approvals' \in SUBSET approvals
      PROVE  EndsInv'
  BY <1>3 DEF EndsInv, EndsAfter, NextEnd, Ends, Told, Keeps
<1>4. CASE GoesOn \/ TimeOut \/ \E s \in Sessions : CallsOn(s)
  BY <1>3, <1>4, GoOnKeeps, TimeOutKeeps, CallKeeps
<1>5. CASE LineTooLong \/ NoticeExit \/ Shutdown
  <2>1. \/ Deafens
        \/ UNCHANGED <<client, stdout, approvals, server>>
    BY <1>5, ClientFails, ShutdownLeaves
  <2>2. CASE Deafens
    BY <2>2, EndsInvDeaf DEF Deafens
  <2>3. CASE UNCHANGED <<client, stdout, approvals, server>>
    BY <1>3, <2>3, SameKeeps
  <2> QED
    BY <2>1, <2>2, <2>3
<1>6. ASSUME NEW p \in approvals, RespondToApproval(p) \/ Expire(p)
      PROVE  EndsInv'
  <2>1. Keeps /\ stdout' = stdout /\ UNCHANGED server /\ approvals' \in SUBSET approvals
    BY <1>6, OneLeaves
  <2> QED
    BY <1>3, <2>1
<1>7. ASSUME Goes(0, {}), Comes(0, Others), UNCHANGED <<approvals>>,
             client'.state = client.state,
             \A s \in Sessions, t \in Texts : Runs(s, t),
             \A n \in 1 .. Len(stdout') :
                (n \in Told /\ stdout'[n] = stdout[n]) \/ stdout'[n].kind # "completed"
      PROVE  EndsInv'
  <2>1. \A s : \A n \in 1 .. Len(stdout') :
           (n \in Told /\ stdout'[n] = stdout[n]) \/ ~Ends(n, s)'
    BY <1>7 DEF Ends
  <2>2. \A s \in Sessions, t \in Texts, m \in Nat :
           EndsAfter(m, s, t) => EndsAfter(m, s, t)'
    BY <1>7, <2>1, EndsAfterKept
  <2> QED
    BY <1>7, <2>2, EndsInvSaid
<1>8. CASE \/ ServerRefuses \/ ServerOpens
           \/ \E r \in server.owed : ServerAnswersTurn(r)
           \/ \E s \in Sessions : ServerNotifies(s)
  <2>1. PICK l \in OutLines : l.kind \in Quiet /\ Say(<<l>>)
    BY <1>8, QuietMoves
  <2>2. Comes(0, {l.kind}) /\ Goes(0, {})
    BY <2>1, OneLine
  <2>3. /\ Comes(0, Others)
        /\ \A n \in 1 .. Len(stdout') :
              (n \in Told /\ stdout'[n] = stdout[n]) \/ stdout'[n].kind # "completed"
    <3>1. \A n \in 1 .. Len(stdout') : n + 0 = n
      BY DEF Told
    <3> QED
      BY <2>1, <2>2, <3>1 DEF Comes, Quiet, Others
  <2>4. /\ UNCHANGED <<approvals>> /\ client'.state = client.state
        /\ server'.alive = server.alive /\ server'.running = server.running
    BY <1>8, TakenLine, OpenedServer, PaidServer
    DEF ServerRefuses, ServerAnswersTurn, ServerNotifies, Serving, bridgeVars, adapterVars
  <2> QED
    BY <1>7, <2>2, <2>3, <2>4 DEF Runs
<1>9. CASE ServerStartsTurn
  <2> DEFINE r == Head(client.stdin).request
  <2>1. /\ Comes(0, {"response", "started"}) /\ Goes(0, {})
        /\ Serving("request")
        /\ r.session \in Sessions /\ server.running[r.session] = NoTurn
        /\ server'.alive = server.alive
        /\ server'.running = [server.running EXCEPT ![r.session] = r.turn]
    BY <1>9, StartsMoves, StartedServer
  <2>2. /\ UNCHANGED <<approvals>> /\ client'.state = client.state
    BY <2>1, TakenLine DEF Serving, bridgeVars, adapterVars
  <2>3. \A s \in Sessions, t \in Texts : Runs(s, t)
    <3>1. server.running \in [Sessions -> Turns]
      BY DEF Types, Servers
    <3> HIDE DEF r
    <3> QED
      BY <2>1, <3>1, AdapterAssumption DEF Runs
  <2>4. \A n \in 1 .. Len(stdout') : n + 0 = n
    BY DEF Told
  <2> QED
    BY <1>7, <2>1, <2>2, <2>3, <2>4 DEF Comes, Others
<1>10. CASE ServerTakesAnswer
  <2>1. /\ stdout' = stdout /\ UNCHANGED <<approvals>> /\ client'.state = client.state
        /\ server'.alive = server.alive /\ server'.running = server.running
    BY <1>10, AnsweredServer, TakenLine
    DEF ServerTakesAnswer, Serving, bridgeVars, adapterVars
  <2> QED
    BY <2>1 DEF EndsInv, EndsAfter, NextEnd, Ends, Told
<1>11. CASE ServerDies
  <2>1. /\ stdout' = stdout /\ UNCHANGED <<approvals>> /\ client'.state = client.state
        /\ ~server'.alive
    BY <1>11, DeadServer DEF ServerDies, bridgeVars, adapterVars
  <2> QED
    BY <2>1 DEF EndsInv, EndsAfter, NextEnd, Ends, Told
<1> DEFINE Over(r) ==
              /\ r \in Sessions /\ server.alive /\ server' = TurnOver(r)
              /\ UNCHANGED <<approvals>> /\ client'.state = client.state
              /\ Comes(0, Others) /\ Goes(0, {})
              /\ \A n \in 1 .. Len(stdout') :
                    \/ n \in Told /\ stdout'[n] = stdout[n]
                    \/ stdout'[n].kind # "completed" \/ stdout'[n].session = r
              /\ client.state # "ready" => stdout' = stdout
              /\ client.state = "ready" =>
                    \E f \in BOOLEAN : Grown(CompletedLine(r, f))
<1>12. ASSUME NEW r \in Sessions, Over(r)
       PROVE  EndsInv'
  <2>1. ASSUME NEW s \in Sessions, s # r, NEW t \in Texts, NEW m \in Nat,
               EndsAfter(m, s, t)
        PROVE  EndsAfter(m, s, t)'
    <3>1. server'.alive = server.alive /\ server'.running[s] = server.running[s]
      <4>1. server.running \in [Sessions -> Turns]
        BY DEF Types, Servers
      <4> QED
        BY <1>12, <2>1, <4>1, TurnOverFields
    <3>2. \A n \in 1 .. Len(stdout') :
             (n \in Told /\ stdout'[n] = stdout[n]) \/ ~Ends(n, s)'
      BY <1>12, <2>1 DEF Ends
    <3>3. Runs(s, t)
      BY <3>1 DEF Runs
    <3> QED
      BY <1>12, <2>1, <3>2, <3>3, EndsAfterKept
  <2>2. CASE client.state = "ready"
    <3>1. PICK f \in BOOLEAN : Grown(CompletedLine(r, f))
      BY <1>12, <2>2
    <3>2. \A t \in Texts, m \in Nat :
             m <= Len(stdout) /\ EndsAfter(m, r, t) => EndsAfter(m, r, t)'
      BY <1>12, <3>1, EndsAfterEnd
    <3> QED
      BY <1>12, <2>1, <3>2, EndsInvSaid
  <2>3. CASE client.state # "ready"
    <3>1. stdout' = <<>> /\ client'.state # "ready"
      BY <1>12, <2>3 DEF Types
    <3> QED
      BY <3>1, EndsInvDeaf
  <2> QED
    BY <2>2, <2>3
<1>13. CASE ServerInterrupts
  <2> DEFINE r == Head(client.stdin).request
  <2>1. /\ Serving("request") /\ r.session \in Sessions
        /\ server' = TurnOver(r.session)
        /\ Say(<<ResponseLine(Resolved(r, "none")), CompletedLine(r.session, FALSE)>>)
    BY <1>13, InterruptedServer
  <2>2. /\ Comes(0, {"response", "completed"}) /\ Goes(0, {})
        /\ client.state = "ready" => Grown(CompletedLine(r.session, FALSE))
        /\ client.state # "ready" => stdout' = stdout
    BY <1>13, InterruptsMoves
  <2>3. /\ UNCHANGED <<approvals>> /\ client'.state = client.state /\ server.alive
    BY <2>1, TakenLine DEF Serving, bridgeVars, adapterVars
  <2>4. CompletedLine(r.session, FALSE).session = r.session
    BY DEF CompletedLine
  <2>5. \A n \in 1 .. Len(stdout') :
           \/ n \in Told /\ stdout'[n] = stdout[n]
           \/ stdout'[n].kind # "completed" \/ stdout'[n].session = r.session
    <3> DEFINE l == CompletedLine(r.session, FALSE)
    <3>1. (Grown(l) \/ stdout' = stdout) /\ l.session = r.session
      BY <2>2, <2>4
    <3> HIDE DEF l
    <3> QED
      BY <3>1, SaidEnd DEF Quiet
  <2> HIDE DEF r
  <2>6. Over(r.session)
    BY <2>1, <2>2, <2>3, <2>5 DEF Comes, Others
  <2> QED
    BY <1>12, <2>1, <2>6
<1>14. ASSUME NEW s \in Sessions, ServerEndsTurn(s)
       PROVE  EndsInv'
  <2>1. /\ server' = TurnOver(s) /\ server.alive /\ UNCHANGED <<approvals, client>>
    BY <1>14 DEF ServerEndsTurn, bridgeVars, adapterVars
  <2>2. /\ Comes(0, {"completed"}) /\ Goes(0, {})
        /\ client.state = "ready" => \E f \in BOOLEAN : Grown(CompletedLine(s, f))
        /\ client.state # "ready" => stdout' = stdout
    BY <1>14, EndsMoves
  <2>3. \A f : CompletedLine(s, f).session = s
    BY DEF CompletedLine
  <2>4. \A n \in 1 .. Len(stdout') :
           \/ n \in Told /\ stdout'[n] = stdout[n]
           \/ stdout'[n].kind # "completed" \/ stdout'[n].session = s
    <3>1. PICK f : Grown(CompletedLine(s, f)) \/ stdout' = stdout
      BY <2>2
    <3> DEFINE l == CompletedLine(s, f)
    <3>2. (Grown(l) \/ stdout' = stdout) /\ l.session = s
      BY <2>3, <3>1
    <3> HIDE DEF l
    <3> QED
      BY <3>2, SaidEnd DEF Quiet
  <2>5. Over(s)
    BY <2>1, <2>2, <2>4 DEF Comes, Others
  <2> QED
    BY <1>12, <2>5
<1>15. ASSUME NEW s \in Sessions, NEW a \in Approvals, ServerAsks(a, s)
       PROVE  EndsInv'
  BY <1>15, EndsInvAsked
<1> QED
  BY <1>1, <1>2, <1>4, <1>5, <1>6, <1>8, <1>9, <1>10, <1>11, <1>13, <1>14, <1>15,
     EndsInvTaken, EndsInvCompleted
  DEF Next, Reads, Serves

(* The app-server waits for nothing more, unless it asks.                   *)
LEMMA ServerAsksLess ==
    ASSUME Types,
           \/ Serves \/ ServerDies
           \/ \E r \in server.owed : ServerAnswersTurn(r)
           \/ \E s \in Sessions : ServerNotifies(s) \/ ServerEndsTurn(s)
    PROVE  server'.asking \in SUBSET server.asking
<1>1. CASE ServerRefuses \/ \E s \in Sessions : ServerNotifies(s)
  BY <1>1 DEF ServerRefuses, ServerNotifies
<1>2. CASE ServerOpens
  BY <1>2, OpenedServer
<1>3. CASE ServerStartsTurn
  BY <1>3, StartedServer
<1>4. CASE ServerInterrupts
  BY <1>4, InterruptedServer, TurnOverFields
<1>5. CASE ServerTakesAnswer
  BY <1>5, AnsweredServer
<1>6. CASE ServerDies
  BY <1>6, DeadServer
<1>7. ASSUME NEW r \in server.owed, ServerAnswersTurn(r)
      PROVE  server'.asking \in SUBSET server.asking
  BY <1>7, PaidServer
<1>8. ASSUME NEW s \in Sessions, ServerEndsTurn(s)
      PROVE  server'.asking \in SUBSET server.asking
  BY <1>8, TurnOverFields DEF ServerEndsTurn
<1> QED
  BY <1>1, <1>2, <1>3, <1>4, <1>5, <1>6, <1>7, <1>8 DEF Serves

(* What the app-server waits for is no more than it was, and no approval    *)
(* was asked for or shown.                                                  *)
LEMMA AskingInvKept ==
    ASSUME AskingInv, server'.asking \in SUBSET server.asking, asked \in SUBSET asked',
           approvals' \in SUBSET approvals, NEW d \in {0, 1}, Comes(d, Others)
    PROVE  AskingInv'
<1>1. ASSUME NEW n \in 1 .. Len(stdout'), NEW a, IsAsked(n, a)'
      PROVE  n + d \in Told /\ IsAsked(n + d, a) /\ stdout'[n] = stdout[n + d]
  BY <1>1 DEF Comes, Others, IsAsked
<1> QED
  BY <1>1 DEF AskingInv, Told

LEMMA AskingInvAsked ==
    ASSUME Types, ApprovalLines, AskingInv, NEW a \in Approvals, NEW s \in Sessions,
           ServerAsks(a, s)
    PROVE  AskingInv'
<1> DEFINE l == ApprovalLine(a, s)
<1>0. PICK x : x = Pending(a, s, server.running[s])
  OBVIOUS
<1>1. /\ a \notin asked /\ asked' = asked \cup {a}
      /\ server'.asking = server.asking \cup {x}
      /\ l \in OutLines /\ Say(<<l>>)
      /\ UNCHANGED approvals
  BY <1>0, AskingServer DEF ServerAsks, bridgeVars, adapterVars
<1>2. /\ l.kind = "approval" /\ l.approval = a /\ l.session = s
      /\ l.turn = server.running[s]
      /\ x.approval = a /\ x.session = s /\ x.turn = server.running[s]
  BY <1>0 DEF ApprovalLine, Pending
<1> HIDE DEF l
<1>3. \A n \in 1 .. Len(stdout') :
         \/ n \in Told /\ stdout'[n] = stdout[n]
         \/ stdout'[n].kind \in Quiet \/ stdout'[n] = l
  <2>1. Grown(l) \/ stdout' = stdout
    BY <1>1, OneLine
  <2> QED
    BY <2>1, SaidEnd
<1>4. ASSUME NEW n \in 1 .. Len(stdout'), NEW b \in Approvals, IsAsked(n, b)'
      PROVE  \/ n \in Told /\ IsAsked(n, b) /\ stdout'[n] = stdout[n] /\ b # a
             \/ stdout'[n] = l /\ b = a
  <2>1. CASE n \in Told /\ stdout'[n] = stdout[n]
    <3>1. IsAsked(n, b)
      BY <1>4, <2>1 DEF IsAsked
    <3>2. b \in asked
      BY <2>1, <3>1 DEF ApprovalLines
    <3> QED
      BY <1>1, <2>1, <3>1, <3>2
  <2>2. CASE stdout'[n].kind \in Quiet
    BY <1>4, <2>2 DEF IsAsked, Quiet
  <2>3. CASE stdout'[n] = l
    BY <1>2, <1>4, <2>3 DEF IsAsked
  <2> QED
    BY <1>3, <2>1, <2>2, <2>3
<1>5. /\ \A p \in server.asking : p.approval # a /\ p.approval \in Approvals
      /\ \A p \in approvals : p.approval # a
  BY <1>1, TypeFacts DEF AskingInv, ApprovalLines
<1>6. ASSUME NEW p \in server.asking
      PROVE  /\ p.approval \in asked'
             /\ \A q \in server'.asking \cup approvals' :
                   q.approval = p.approval => q = p
             /\ \A n \in 1 .. Len(stdout') : IsAsked(n, p.approval)' =>
                   stdout'[n].session = p.session /\ stdout'[n].turn = p.turn
  BY <1>1, <1>2, <1>4, <1>5 DEF AskingInv
<1>7. /\ x.approval \in asked'
      /\ \A q \in server'.asking \cup approvals' : q.approval = x.approval => q = x
      /\ \A n \in 1 .. Len(stdout') : IsAsked(n, x.approval)' =>
            stdout'[n].session = x.session /\ stdout'[n].turn = x.turn
  BY <1>1, <1>2, <1>4, <1>5
<1> QED
  BY <1>1, <1>6, <1>7 DEF AskingInv, Told

LEMMA AskingInvTaken ==
    ASSUME Types, ApprovalLines, AskingInv, ReadApprovalRequest
    PROVE  AskingInv'
<1> DEFINE p == Pending(Line.approval, Line.session, Line.turn)
<1>1. /\ Reading("approval") /\ p \in PendingApprovals /\ 1 \in Told
      /\ IsAsked(1, p.approval) /\ p.session = stdout[1].session
      /\ p.turn = stdout[1].turn /\ UNCHANGED <<asked, server>>
      /\ \A q \in approvals' : q \in approvals \/ q = p
  BY TakenLeaves
<1> HIDE DEF p
<1>2. Comes(1, Others)
  BY <1>1, ReadMoves DEF Comes
<1>3. ASSUME NEW n \in 1 .. Len(stdout'), NEW a, IsAsked(n, a)'
      PROVE  n + 1 \in Told /\ IsAsked(n + 1, a) /\ stdout'[n] = stdout[n + 1]
  BY <1>2, <1>3 DEF Comes, Others, IsAsked
<1>4. \A q \in server.asking : q.approval = p.approval => q = p
  <2>1. ASSUME NEW q \in server.asking, q.approval = p.approval
        PROVE  q = p
    <3>1. q.session = p.session /\ q.turn = p.turn /\ q \in PendingApprovals
      BY <1>1, <2>1, TypeFacts DEF AskingInv
    <3> QED
      BY <1>1, <2>1, <3>1 DEF PendingApprovals
  <2> QED
    BY <2>1
<1> QED
  BY <1>1, <1>3, <1>4 DEF AskingInv, Told

LEMMA AskingInvStep ==
    ASSUME Types, ApprovalLines, AskingInv, [Next]_vars
    PROVE  AskingInv'
<1>1. CASE UNCHANGED vars
  <2>1. UNCHANGED <<stdout, server, approvals, asked>>
    BY <1>1 DEF vars, adapterVars, serverVars
  <2> QED
    BY <2>1 DEF AskingInv, IsAsked, Told
<1>2. ASSUME NEW kind, Reading(kind), UNCHANGED <<asked, server>>,
             approvals' \in SUBSET approvals
      PROVE  AskingInv'
  <2>1. Comes(1, Others) /\ 1 \in {0, 1}
    BY <1>2, ReadMoves DEF Comes
  <2> QED
    BY <1>2, <2>1, AskingInvKept
<1>3. CASE ReadResponse \/ ReadTurnStarted \/ ReadStatus \/ ReadError
  BY <1>2, <1>3, PlainReads
<1>4. CASE ReadTurnCompleted
  BY <1>2, <1>4, CompletedLeaves
<1>5. ASSUME stdout' \in {stdout, <<>>}, UNCHANGED <<asked, server>>,
             approvals' \in SUBSET approvals
      PROVE  AskingInv'
  <2>1. Comes(0, Others) /\ 0 \in {0, 1}
    BY <1>5, SameMoves DEF Comes
  <2> QED
    BY <1>5, <2>1, AskingInvKept
<1>6. CASE GoesOn \/ TimeOut \/ LineTooLong \/ NoticeExit \/ \E s \in Sessions : CallsOn(s)
  BY <1>5, <1>6, GoOnKeeps, TimeOutKeeps, CallKeeps, ClientFails DEF Deafens
<1>7. CASE Shutdown
  <2>1. approvals' \in SUBSET approvals
    BY <1>7 DEF Shutdown
  <2> QED
    BY <1>5, <1>7, <2>1, ShutdownLeaves DEF Deafens
<1>8. ASSUME NEW p \in approvals, RespondToApproval(p) \/ Expire(p)
      PROVE  AskingInv'
  BY <1>5, <1>8, OneLeaves
<1>9. CASE \/ Serves \/ ServerDies
           \/ \E r \in server.owed : ServerAnswersTurn(r)
           \/ \E s \in Sessions : ServerNotifies(s) \/ ServerEndsTurn(s)
  <2>1. Comes(0, Others) /\ 0 \in {0, 1}
    BY <1>9, ServerMoves
  <2>2. UNCHANGED <<approvals, asked>>
    BY <1>9 DEF Serves, ServerRefuses, ServerOpens, ServerStartsTurn, ServerInterrupts,
       ServerTakesAnswer, Asks, Serving, ServerDies, ServerAnswersTurn,
       ServerNotifies, ServerEndsTurn, bridgeVars, adapterVars
  <2>3. server'.asking \in SUBSET server.asking
    BY <1>9, ServerAsksLess
  <2> QED
    BY <2>1, <2>2, <2>3, AskingInvKept
<1>10. ASSUME NEW s \in Sessions, NEW a \in Approvals, ServerAsks(a, s)
       PROVE  AskingInv'
  BY <1>10, AskingInvAsked
<1> QED
  BY <1>1, <1>3, <1>4, <1>6, <1>7, <1>8, <1>9, <1>10, AskingInvTaken DEF Next, Reads

(* What the app-server does leaves the adapter as it is.                    *)
LEMMA ServerLeaves ==
    ASSUME Types,
           \/ Serves \/ ServerDies
           \/ \E r \in server.owed : ServerAnswersTurn(r)
           \/ \E s \in Sessions : ServerNotifies(s) \/ ServerEndsTurn(s)
           \/ \E s \in Sessions, a \in Approvals : ServerAsks(a, s)
    PROVE  /\ UNCHANGED bridgeVars
           /\ client'.state = client.state /\ client'.writable = client.writable
           /\ UNCHANGED <<bridge, record, approvals>>
<1>1. CASE Serves
  <2>1. \E kind : Serving(kind)
    BY <1>1 DEF Serves, ServerRefuses, ServerOpens, ServerStartsTurn, ServerInterrupts,
       ServerTakesAnswer, Asks
  <2> QED
    BY <2>1, TakenLine DEF Serving, bridgeVars, adapterVars
<1>2. CASE ServerDies
  BY <1>2, DeadServer DEF ServerDies, bridgeVars, adapterVars
<1>3. CASE \/ \E r \in server.owed : ServerAnswersTurn(r)
           \/ \E s \in Sessions : ServerNotifies(s) \/ ServerEndsTurn(s)
           \/ \E s \in Sessions, a \in Approvals : ServerAsks(a, s)
  BY <1>3 DEF ServerAnswersTurn, ServerNotifies, ServerEndsTurn, ServerAsks, bridgeVars,
     adapterVars
<1> QED
  BY <1>1, <1>2, <1>3

LEMMA ShownInvStep ==
    ASSUME Types, ApprovalLines, EndsInv, ShownInv, [Next]_vars
    PROVE  ShownInv'
<1>1. ASSUME client'.state = "ready" => client.state = "ready",
             approvals' \in SUBSET approvals, SameApprovals
      PROVE  ShownInv'
  BY <1>1, TypeFacts DEF ShownInv, SameApprovals
<1>2. CASE UNCHANGED vars
  BY <1>2 DEF vars, adapterVars, ShownInv
<1>3. CASE \/ ReadResponse \/ ReadTurnStarted \/ ReadStatus \/ ReadError
           \/ GoesOn \/ TimeOut \/ \E s \in Sessions : CallsOn(s)
  BY <1>1, <1>3, PlainReads, GoOnKeeps, TimeOutKeeps, CallKeeps
  DEF Keeps, SameApprovals
<1>4. CASE LineTooLong \/ NoticeExit \/ Shutdown
  <2>1. Deafens \/ UNCHANGED <<client, approvals, record>>
    BY <1>4, ClientFails, ShutdownLeaves
  <2> QED
    BY <2>1 DEF Deafens, ShownInv
<1>5. CASE ReadTurnCompleted
  <2>1. ASSUME NEW p \in approvals'
        PROVE  record'[p.session].approval = p.approval
    <3>1. p \in approvals /\ p \in PendingApprovals /\ p.session \in Sessions
      BY <1>5, <2>1, CompletedLeaves, TypeFacts
    <3>2. p.session # Line.session
      BY <1>5, <2>1, <3>1, EndedAreOwn
    <3>3. client.state = "ready" /\ record'[p.session].approval = record[p.session].approval
      BY <1>5, <3>1, <3>2, CompletedLeaves, ReadLine
    <3> QED
      BY <3>1, <3>3 DEF ShownInv
  <2> QED
    BY <2>1 DEF ShownInv
<1>6. CASE ReadApprovalRequest
  <2> DEFINE p == Pending(Line.approval, Line.session, Line.turn)
  <2>1. /\ client.state = "ready" /\ p \in PendingApprovals
        /\ \/ UNCHANGED <<approvals, record>>
           \/ /\ record[p.session].approval = NoApproval
              /\ approvals' = approvals \cup {p}
              /\ \A s \in Sessions :
                    record'[s].approval =
                       IF s = p.session THEN p.approval ELSE record[s].approval
    BY <1>6, TakenLeaves
  <2>2. \A q \in approvals : q.session \in Sessions /\ q.approval # NoApproval
    BY TypeFacts, AdapterAssumption
  <2>3. p.session \in Sessions
    BY <2>1, TypeFacts
  <2> HIDE DEF p
  <2> QED
    BY <2>1, <2>2, <2>3 DEF ShownInv
<1>7. ASSUME NEW p \in approvals, RespondToApproval(p) \/ Expire(p)
      PROVE  ShownInv'
  <2>1. /\ approvals' = approvals \ {p} /\ p \in PendingApprovals /\ Keeps
        /\ record' = AfterApproval(p.session) \/ record' = record
    BY <1>7, OneLeaves
  <2>2. p.session \in Sessions /\ \A q \in approvals : q.session \in Sessions
    BY <2>1, TypeFacts
  <2>3. \A s \in Sessions : s # p.session => record'[s].approval = record[s].approval
    BY <2>1, <2>2, AfterApprovalFields
  <2>4. ASSUME client.state = "ready", NEW q \in approvals'
        PROVE  q.session # p.session
    <3>1. q \in approvals /\ q # p /\ p \in approvals
      BY <2>1, <2>4
    <3>2. q.approval # p.approval
      BY <3>1 DEF ApprovalLines
    <3> QED
      BY <2>4, <3>1, <3>2 DEF ShownInv
  <2> QED
    BY <2>1, <2>2, <2>3, <2>4 DEF ShownInv, Keeps
<1>8. CASE \/ Serves \/ ServerDies
           \/ \E r \in server.owed : ServerAnswersTurn(r)
           \/ \E s \in Sessions : ServerNotifies(s) \/ ServerEndsTurn(s)
           \/ \E s \in Sessions, a \in Approvals : ServerAsks(a, s)
  BY <1>1, <1>8, ServerLeaves DEF SameApprovals
<1> QED
  BY <1>2, <1>3, <1>4, <1>5, <1>6, <1>7, <1>8 DEF Next, Reads

(* A session shows no approval that has been forgotten, as long as answers  *)
(* can be written.                                                          *)
ShowsInv ==
    bridge = "up" /\ client.writable =>
        \A s \in Sessions :
            \/ record[s].approval = NoApproval
            \/ \E p \in approvals :
                  p.session = s /\ p.approval = record[s].approval

LEMMA ShowsInvStep ==
    ASSUME Types, ApprovalLines, ShowsInv, [Next]_vars
    PROVE  ShowsInv'
<1>1. ASSUME bridge' = "up" /\ client'.writable => bridge = "up" /\ client.writable,
             approvals' = approvals, SameApprovals
      PROVE  ShowsInv'
  BY <1>1 DEF ShowsInv, SameApprovals
<1>2. CASE UNCHANGED vars
  BY <1>2 DEF vars, adapterVars, ShowsInv
<1>3. CASE \/ ReadResponse \/ ReadTurnStarted \/ ReadStatus \/ ReadError
           \/ GoesOn \/ TimeOut \/ \E s \in Sessions : CallsOn(s)
  BY <1>1, <1>3, PlainReads, GoOnKeeps, TimeOutKeeps, CallKeeps
  DEF Keeps, SameApprovals
<1>4. CASE LineTooLong \/ NoticeExit
  BY <1>1, <1>4, ClientFails DEF Deafens, SameApprovals
<1>5. CASE Shutdown
  BY <1>5, ShutdownLeaves DEF ShowsInv
<1>6. CASE ReadTurnCompleted
  <2>1. /\ Keeps /\ UNCHANGED bridge
        /\ \A p \in approvals : p \in approvals' \/ p.session = Line.session
        /\ \A s \in Sessions :
              record'[s].approval =
                 IF s = Line.session THEN NoApproval ELSE record[s].approval
    BY <1>6, CompletedLeaves
  <2> QED
    BY <2>1 DEF ShowsInv, Keeps
<1>7. CASE ReadApprovalRequest
  <2> DEFINE p == Pending(Line.approval, Line.session, Line.turn)
  <2>1. /\ Keeps /\ UNCHANGED bridge
        /\ \/ UNCHANGED <<approvals, record>>
           \/ /\ approvals' = approvals \cup {p}
              /\ \A s \in Sessions :
                    record'[s].approval =
                       IF s = p.session THEN p.approval ELSE record[s].approval
    BY <1>7, TakenLeaves
  <2> HIDE DEF p
  <2> QED
    BY <2>1 DEF ShowsInv, Keeps
<1>8. ASSUME NEW p \in approvals, RespondToApproval(p) \/ Expire(p)
      PROVE  ShowsInv'
  <2>1. /\ approvals' = approvals \ {p} /\ bridge = "up" /\ Keeps
        /\ p \in PendingApprovals
        /\ record' = AfterApproval(p.session) \/ ~client.writable
    BY <1>8, OneLeaves
  <2>2. CASE ~client.writable
    BY <2>1, <2>2 DEF ShowsInv, Keeps
  <2>3. CASE record' = AfterApproval(p.session)
    <3>1. \A s \in Sessions :
             record'[s].approval =
                IF s = p.session THEN NoApproval ELSE record[s].approval
      BY <2>1, <2>3, TypeFacts, AfterApprovalFields
    <3> QED
      BY <2>1, <3>1 DEF ShowsInv, Keeps
  <2> QED
    BY <2>1, <2>2, <2>3
<1>9. CASE \/ Serves \/ ServerDies
           \/ \E r \in server.owed : ServerAnswersTurn(r)
           \/ \E s \in Sessions : ServerNotifies(s) \/ ServerEndsTurn(s)
           \/ \E s \in Sessions, a \in Approvals : ServerAsks(a, s)
  BY <1>1, <1>9, ServerLeaves DEF SameApprovals
<1> QED
  BY <1>2, <1>3, <1>4, <1>5, <1>6, <1>7, <1>8, <1>9 DEF Next, Reads

(* An approval that the app-server waits for is on its way in, shown, or    *)
(* its answer is on its way out.                                            *)
AskedFor(a) == \E n \in Told : IsAsked(n, a)
Waits(p) ==
    \/ AskedFor(p.approval)
    \/ p \in approvals
    \/ Answered(p.approval)

WaitsInv == client.state = "ready" => \A p \in server.asking : Waits(p)

(* An answer stays in the pipe until the app-server takes it.               *)
LEMMA AnsweredKept ==
    ASSUME NEW a, Answered(a), Keeps
    PROVE  Answered(a)'
BY DEF Answered, Keeps

LEMMA AnsweredServed ==
    ASSUME Types, NEW kind, Serving(kind), NEW a, Answered(a),
           kind = "answer" => Head(client.stdin).approval # a
    PROVE  Answered(a)'
<1> DEFINE k == Len(client.stdin)
           m == Len(client'.stdin)
<1>1. /\ k \in Nat \ {0} /\ m = k - 1
      /\ \A i \in 1 .. k - 1 : client'.stdin[i] = client.stdin[i + 1]
      /\ client.stdin[1].kind = kind
      /\ kind = "answer" => client.stdin[1].approval # a
  BY TakenLine
<1>2. PICK i \in 1 .. k : client.stdin[i].kind = "answer" /\ client.stdin[i].approval = a
  BY DEF Answered
<1>3. i # 1
  BY <1>1, <1>2
<1>4. i - 1 \in 1 .. m /\ client'.stdin[i - 1] = client.stdin[i]
  <2> HIDE DEF k, m
  <2>1. i - 1 \in 1 .. m /\ i - 1 \in 1 .. k - 1 /\ (i - 1) + 1 = i
    BY <1>1, <1>3
  <2> QED
    BY <1>1, <2>1
<1> QED
  BY <1>2, <1>4 DEF Answered

(* Lines that ask are still there when none of them was read.               *)
LEMMA AskedKept ==
    ASSUME NEW d, NEW kinds, "approval" \notin kinds, Goes(d, kinds),
           NEW a, AskedFor(a)
    PROVE  AskedFor(a)'
<1>1. PICK n \in Told : IsAsked(n, a)
  BY DEF AskedFor
<1>2. n - d \in 1 .. Len(stdout') /\ stdout'[n - d] = stdout[n]
  BY <1>1 DEF Goes, IsAsked
<1> QED
  BY <1>1, <1>2 DEF AskedFor, IsAsked, Told

LEMMA WaitsInvStep ==
    ASSUME Types, ApprovalLines, AskingInv, WaitsInv, [Next]_vars
    PROVE  WaitsInv'
<1>1. ASSUME Keeps, Goes(0, {}), approvals' = approvals,
             server'.asking \in SUBSET server.asking
      PROVE  WaitsInv'
  <2>1. ASSUME client.state = "ready", NEW p \in server'.asking
        PROVE  Waits(p)'
    <3>1. Waits(p)
      BY <1>1, <2>1 DEF WaitsInv
    <3>2. CASE AskedFor(p.approval)
      <4>1. AskedFor(p.approval)'
        BY <1>1, <3>2, AskedKept
      <4> QED
        BY <4>1 DEF Waits
    <3>3. CASE Answered(p.approval)
      BY <1>1, <3>3, AnsweredKept DEF Waits
    <3> QED
      BY <1>1, <3>1, <3>2, <3>3 DEF Waits
  <2> QED
    BY <1>1, <2>1 DEF WaitsInv, Keeps
<1>2. CASE UNCHANGED vars
  BY <1>1, <1>2, SameKeeps, SameMoves DEF vars, adapterVars, serverVars
<1>3. CASE GoesOn \/ TimeOut \/ \E s \in Sessions : CallsOn(s)
  BY <1>1, <1>3, GoOnKeeps, TimeOutKeeps, CallKeeps, SameMoves
<1>4. CASE LineTooLong \/ NoticeExit \/ Shutdown
  <2>1. Deafens \/ UNCHANGED <<client, approvals, stdout, server>>
    BY <1>4, ClientFails, ShutdownLeaves
  <2> QED
    BY <1>1, <2>1, SameKeeps, SameMoves DEF Deafens, WaitsInv
<1>5. ASSUME NEW kind \in Others, Reading(kind), Keeps, UNCHANGED server,
             \A p \in approvals : p \in approvals' \/ Answered(p.approval)'
      PROVE  WaitsInv'
  <2>1. Goes(1, {kind}) /\ kind # "approval" /\ 1 \in {0, 1}
    BY <1>5, ReadMoves DEF Others
  <2>2. ASSUME client.state = "ready", NEW p \in server'.asking
        PROVE  Waits(p)'
    <3>1. Waits(p)
      BY <1>5, <2>2 DEF WaitsInv
    <3>2. CASE AskedFor(p.approval)
      <4>1. AskedFor(p.approval)'
        BY <2>1, <3>2, AskedKept
      <4> QED
        BY <4>1 DEF Waits
    <3>3. CASE Answered(p.approval)
      BY <1>5, <3>3, AnsweredKept DEF Waits
    <3> QED
      BY <1>5, <3>1, <3>2, <3>3 DEF Waits
  <2> QED
    BY <1>5, <2>2 DEF WaitsInv, Keeps
<1>6. CASE ReadResponse \/ ReadTurnStarted \/ ReadStatus \/ ReadError
  BY <1>5, <1>6, PlainReads DEF Quiet, Others
<1>7. CASE ReadTurnCompleted
  BY <1>5, <1>7, CompletedLeaves DEF Others
<1>8. CASE ReadApprovalRequest
  <2>0. PICK p : p = Pending(Line.approval, Line.session, Line.turn)
    OBVIOUS
  <2>1. /\ Reading("approval") /\ p \in PendingApprovals /\ 1 \in Told
        /\ IsAsked(1, p.approval)
        /\ p.session = stdout[1].session /\ p.turn = stdout[1].turn
        /\ Keeps /\ UNCHANGED server
        /\ \A q \in approvals : q \in approvals'
        /\ p \in approvals' \/ Answered(p.approval)'
    BY <1>8, <2>0, TakenLeaves
  <2>2. ASSUME client.state = "ready", NEW q \in server.asking
        PROVE  Waits(q)'
    <3>1. Waits(q)
      BY <2>2 DEF WaitsInv
    <3>2. CASE q.approval = p.approval
      <4>1. q.session = p.session /\ q.turn = p.turn /\ q \in PendingApprovals
        BY <2>1, <2>2, <3>2, TypeFacts DEF AskingInv
      <4>2. q = p
        BY <2>1, <3>2, <4>1 DEF PendingApprovals
      <4> QED
        BY <2>1, <4>2 DEF Waits
    <3>3. CASE q.approval # p.approval /\ AskedFor(q.approval)
      <4>1. PICK n \in Told : IsAsked(n, q.approval)
        BY <3>3 DEF AskedFor
      <4>2. n # 1
        BY <2>1, <3>3, <4>1 DEF IsAsked
      <4>3. n - 1 \in 1 .. Len(stdout') /\ stdout'[n - 1] = stdout[n]
        <5>1. /\ Len(stdout) \in Nat \ {0} /\ Len(stdout') = Len(stdout) - 1
              /\ \A i \in 1 .. Len(stdout) - 1 : stdout'[i] = stdout[i + 1]
          BY <2>1, ReadLine
        <5>2. /\ n - 1 \in 1 .. Len(stdout') /\ n - 1 \in 1 .. Len(stdout) - 1
              /\ (n - 1) + 1 = n
          BY <4>1, <4>2, <5>1 DEF Told
        <5> QED
          BY <5>1, <5>2
      <4>4. AskedFor(q.approval)'
        BY <4>1, <4>3 DEF AskedFor, IsAsked, Told
      <4> QED
        BY <4>4 DEF Waits
    <3>4. CASE Answered(q.approval)
      BY <2>1, <3>4, AnsweredKept DEF Waits
    <3> QED
      BY <2>1, <3>1, <3>2, <3>3, <3>4 DEF Waits
  <2> QED
    BY <2>1, <2>2 DEF WaitsInv, Keeps
<1>9. ASSUME NEW p \in approvals, RespondToApproval(p) \/ Expire(p)
      PROVE  WaitsInv'
  <2>1. /\ approvals' = approvals \ {p} /\ UNCHANGED <<stdout, server>> /\ Keeps
        /\ Answered(p.approval)' \/ ~client.writable
    BY <1>9, OneLeaves
  <2>2. ASSUME client.state = "ready", NEW q \in server.asking
        PROVE  Waits(q)'
    <3>1. Waits(q)
      BY <2>2 DEF WaitsInv
    <3>2. Answered(p.approval)'
      BY <2>1, <2>2 DEF Types
    <3>3. CASE AskedFor(q.approval)
      BY <2>1, <3>3 DEF Waits, AskedFor, IsAsked, Told
    <3>4. CASE Answered(q.approval)
      BY <2>1, <3>4, AnsweredKept DEF Waits
    <3> QED
      BY <2>1, <3>1, <3>2, <3>3, <3>4 DEF Waits
  <2> QED
    BY <2>1, <2>2 DEF WaitsInv, Keeps
<1>10. CASE \/ ServerRefuses \/ ServerOpens \/ ServerStartsTurn \/ ServerInterrupts
            \/ ServerTakesAnswer
  <2>1. /\ Goes(0, {}) /\ server'.asking \in SUBSET server.asking
        /\ approvals' = approvals /\ client'.state = client.state
    BY <1>10, ServerMoves, ServerAsksLess, ServerLeaves DEF Serves
  <2>2. ASSUME NEW p \in server'.asking, Answered(p.approval)
        PROVE  Answered(p.approval)'
    <3>1. CASE ServerTakesAnswer
      BY <2>2, <3>1, AnsweredServer, AnsweredServed
    <3>2. CASE Serving("request")
      BY <2>2, <3>2, AnsweredServed
    <3> QED
      BY <1>10, <3>1, <3>2 DEF ServerRefuses, ServerOpens, ServerStartsTurn,
         ServerInterrupts, Asks
  <2>3. ASSUME client.state = "ready", NEW p \in server'.asking
        PROVE  Waits(p)'
    <3>1. Waits(p)
      BY <2>1, <2>3 DEF WaitsInv
    <3>2. CASE AskedFor(p.approval)
      <4>1. AskedFor(p.approval)'
        BY <2>1, <3>2, AskedKept
      <4> QED
        BY <4>1 DEF Waits
    <3>3. CASE Answered(p.approval)
      BY <2>2, <2>3, <3>3 DEF Waits
    <3> QED
      BY <2>1, <3>1, <3>2, <3>3 DEF Waits
  <2> QED
    BY <2>1, <2>3 DEF WaitsInv
<1>11. CASE \/ \E r \in server.owed : ServerAnswersTurn(r)
            \/ \E s \in Sessions : ServerNotifies(s) \/ ServerEndsTurn(s)
  <2>1. client' = client
    BY <1>11 DEF ServerAnswersTurn, ServerNotifies, ServerEndsTurn
  <2>2. /\ Goes(0, {}) /\ server'.asking \in SUBSET server.asking
        /\ approvals' = approvals
    BY <1>11, ServerMoves, ServerAsksLess, ServerLeaves
  <2> QED
    BY <1>1, <2>1, <2>2, SameKeeps
<1>12. CASE ServerDies
  BY <1>12, DeadServer DEF WaitsInv
<1>13. ASSUME NEW s \in Sessions, NEW a \in Approvals, ServerAsks(a, s)
       PROVE  WaitsInv'
  <2> DEFINE l == ApprovalLine(a, s)
  <2>0. PICK x : x = Pending(a, s, server.running[s])
    OBVIOUS
  <2>1. /\ l \in OutLines /\ Say(<<l>>) /\ UNCHANGED <<client, approvals>>
        /\ server'.asking = server.asking \cup {x}
        /\ l.kind = "approval" /\ l.approval = x.approval
    BY <1>13, <2>0, AskingServer
    DEF ServerAsks, bridgeVars, adapterVars, ApprovalLine, Pending
  <2> HIDE DEF l
  <2>2. Goes(0, {}) /\ (client.state = "ready" => Grown(l))
    BY <2>1, OneLine
  <2>3. ASSUME client.state = "ready", NEW p \in server.asking
        PROVE  Waits(p)'
    <3>1. Waits(p)
      BY <2>3 DEF WaitsInv
    <3>2. CASE AskedFor(p.approval)
      <4>1. AskedFor(p.approval)'
        BY <2>2, <3>2, AskedKept
      <4> QED
        BY <4>1 DEF Waits
    <3> QED
      BY <2>1, <3>1, <3>2 DEF Waits, Answered
  <2>4. client.state = "ready" => Waits(x)'
    <3>1. Grown(l) => Len(stdout') \in 1 .. Len(stdout') /\ stdout'[Len(stdout')] = l
      BY TypeFacts DEF Grown
    <3> QED
      BY <2>1, <2>2, <3>1 DEF Waits, AskedFor, IsAsked, Told
  <2> QED
    BY <2>1, <2>3, <2>4 DEF WaitsInv
<1> QED
  BY <1>2, <1>3, <1>4, <1>6, <1>7, <1>8, <1>9, <1>10, <1>11, <1>12, <1>13
  DEF Next, Reads, Serves

(* What is known of the approvals.                                          *)
ApprovalsInv ==
    /\ Types /\ ApprovalLines /\ EndsInv /\ AskingInv
    /\ ShownInv /\ ShowsInv /\ WaitsInv

LEMMA ApprovalsInvInit == Init => ApprovalsInv
<1> SUFFICES ASSUME Init
             PROVE  ApprovalsInv
  OBVIOUS
<1>1. ShowsInv /\ WaitsInv
  BY DEF Init, ShowsInv, WaitsInv
<1> QED
  BY <1>1, InitTypes, ApprovalLinesInit, WaitingInit DEF ApprovalsInv

LEMMA ApprovalsInvNext == ApprovalsInv /\ [Next]_vars => ApprovalsInv'
BY NextTypes, ApprovalLinesStep, EndsInvStep, AskingInvStep, ShownInvStep,
   ShowsInvStep, WaitsInvStep DEF ApprovalsInv

LEMMA ApprovalsInvHolds == Spec => []ApprovalsInv
BY ApprovalsInvInit, ApprovalsInvNext, PTL DEF Spec

LEMMA ApprovalsInvSays == ApprovalsInv => ResolvedAsDecided /\ ApprovalsAreNotLost
<1> SUFFICES ASSUME ApprovalsInv
             PROVE  ResolvedAsDecided /\ ApprovalsAreNotLost
  OBVIOUS
<1>1. ASSUME client.state = "ready", NEW p \in server.asking
      PROVE  \/ \E i \in 1 .. Len(stdout) :
                   stdout[i].kind = "approval" /\ stdout[i].approval = p.approval
             \/ p \in approvals /\ record[p.session].approval = p.approval
             \/ \E i \in 1 .. Len(client.stdin) :
                   /\ client.stdin[i].kind = "answer"
                   /\ client.stdin[i].approval = p.approval
  BY <1>1 DEF ApprovalsInv, WaitsInv, Waits, AskedFor, Told, IsAsked, Answered, ShownInv
<1>2. ASSUME bridge = "up", client.writable, NEW s \in Sessions
      PROVE  \/ record[s].approval = NoApproval
             \/ \E p \in approvals :
                   p.session = s /\ p.approval = record[s].approval
  BY <1>2 DEF ApprovalsInv, ShowsInv
<1> QED
  BY <1>1, <1>2 DEF ApprovalsInv, ApprovalLines, ApprovalsAreNotLost

(* What the types are, and that the code's bounds on pending requests and   *)
(* remembered turns are kept.                                               *)
THEOREM TypesHold == Spec => []TypeOK
<1>1. Types => TypeOK
  <2> SUFFICES ASSUME Types
               PROVE  TypeOK
    OBVIOUS
  <2>1. client.state \in {"ready", "failed", "closed"} /\ client.writable \in BOOLEAN
    BY TypeFacts, ClientFields
  <2>2. \A s \in Sessions :
           /\ record[s].known \in BOOLEAN /\ record[s].loaded \in BOOLEAN
           /\ record[s].state \in {"idle", "working", "waiting_for_user", "failed"}
           /\ record[s].turn \in Texts \cup {NoTurn}
           /\ record[s].approval \in Approvals \cup {NoApproval}
    BY TypeFacts DEF ThreadRecords, Turns
  <2>3. server.alive \in BOOLEAN
    BY TypeFacts
  <2> QED
    BY <2>1, <2>2, <2>3 DEF Types, TypeOK
<1>2. Init => Types
  BY InitTypes
<1>3. Types /\ [Next]_vars => Types'
  BY NextTypes
<1> QED
  BY <1>1, <1>2, <1>3, PTL DEF Spec

(* What the 3DS is told of an approval is what the app-server was told:     *)
(* every approval gets at most one decision, whichever of the user, the     *)
(* timer, the end of the turn and the shutdown comes first.                 *)
THEOREM ResolvedAsDecidedHolds == Spec => []ResolvedAsDecided
BY ApprovalsInvHolds, ApprovalsInvSays, PTL

(* An approval that the app-server waits for is on its way in, shown, or    *)
(* its answer is on its way out; and no session shows one that is gone.     *)
THEOREM ApprovalsAreNotLostHolds == Spec => []ApprovalsAreNotLost
BY ApprovalsInvHolds, ApprovalsInvSays, PTL

-----------------------------------------------------------------------------
(* A text asks for its turn once. *)

(* The i-th line in the pipe asks for the turn of x.                        *)
AsksFor(i, x) ==
    /\ client.stdin[i].kind = "request"
    /\ client.stdin[i].request.method = "turn/start"
    /\ client.stdin[i].request.job = x

(* A turn is asked for in one line, which the app-server has not taken.     *)
AskedOnce ==
    \A x \in Texts, i \in 1 .. Len(client.stdin) : AsksFor(i, x) =>
        /\ x \notin carriedOut
        /\ \A j \in 1 .. Len(client.stdin) : AsksFor(j, x) => i = j

(* The texts whose turn was asked for or has begun.                         *)
Begun == {x \in Texts : x \in carriedOut
                        \/ \E i \in 1 .. Len(client.stdin) : AsksFor(i, x)}

(* The job of r waits, and has asked for no turn but by r.                  *)
Outstanding(r, jobs, begun) ==
    jobs[r.job] = "waiting" /\ (r.method # "turn/start" => r.job \notin begun)

(* A job waits for one request or one outcome.                              *)
JobsOf(c, jobs, begun) ==
    /\ \A i, j \in 1 .. Len(c.pending) :
          c.pending[i].job = c.pending[j].job => i = j
    /\ \A i, j \in 1 .. Len(c.settled) :
          c.settled[i].request.job = c.settled[j].request.job => i = j
    /\ \A i \in 1 .. Len(c.pending), j \in 1 .. Len(c.settled) :
          c.pending[i].job # c.settled[j].request.job
    /\ \A i \in 1 .. Len(c.pending) : Outstanding(c.pending[i], jobs, begun)
    /\ \A i \in 1 .. Len(c.settled) : Outstanding(c.settled[i].request, jobs, begun)

JobsInv ==
    /\ AskedOnce
    /\ JobsOf(client, job, Begun)
    /\ \A x \in Texts : job[x] = "new" => x \notin Begun

LEMMA JobsInvInit == Init => JobsInv
<1>1. ASSUME Init
      PROVE  /\ client.pending = <<>> /\ client.settled = <<>> /\ client.stdin = <<>>
             /\ carriedOut = {}
  BY <1>1 DEF Init, Started
<1> QED
  BY <1>1 DEF JobsInv, AskedOnce, JobsOf, Begun

(* Nobody asks for a turn, and nobody takes what was asked.                 *)
NoneAsks ==
    /\ carriedOut' = carriedOut
    /\ \A i \in 1 .. Len(client'.stdin) :
          \/ i \in 1 .. Len(client.stdin) /\ client'.stdin[i] = client.stdin[i]
          \/ client'.stdin[i].kind = "answer"

LEMMA NoneAsked ==
    ASSUME NoneAsks
    PROVE  /\ Begun' \subseteq Begun
           /\ AskedOnce => AskedOnce'
<1>1. ASSUME NEW x, NEW i \in 1 .. Len(client'.stdin), AsksFor(i, x)'
      PROVE  i \in 1 .. Len(client.stdin) /\ AsksFor(i, x)
  BY <1>1 DEF NoneAsks, AsksFor
<1>2. Begun' \subseteq Begun
  BY <1>1 DEF Begun, NoneAsks
<1>3. ASSUME AskedOnce
      PROVE  AskedOnce'
  BY <1>1, <1>3 DEF AskedOnce, NoneAsks
<1> QED
  BY <1>2, <1>3

(* The jobs stay, and so do, in any list, what they wait for.               *)
LEMMA JobsLeft ==
    ASSUME JobsInv, NoneAsks, job' = job, JobsOf(client', job, Begun)
    PROVE  JobsInv'
<1>1. JobsOf(client', job', Begun')
  BY NoneAsked DEF JobsOf, Outstanding
<1> QED
  BY <1>1, NoneAsked DEF JobsInv

LEMMA JobsKept ==
    ASSUME JobsInv, NoneAsks, job' = job,
           client'.pending = client.pending, client'.settled = client.settled
    PROVE  JobsInv'
<1>1. JobsOf(client', job, Begun)
  BY DEF JobsInv, JobsOf
<1> QED
  BY <1>1, JobsLeft

(* u is s with e behind it.                                                 *)
Extends(u, s, e) ==
    /\ Len(u) = Len(s) + 1 /\ Len(s) \in Nat
    /\ \A i \in 1 .. Len(s) : u[i] = s[i]
    /\ u[Len(s) + 1] = e

LEMMA AppendExtends ==
    ASSUME NEW S, NEW s \in Seq(S), NEW e \in S
    PROVE  Extends(Append(s, e), s, e)
BY DEF Extends

(* The job x has nothing outstanding at c.                                  *)
Free(c, x) ==
    /\ \A i \in 1 .. Len(c.pending) : c.pending[i].job # x
    /\ \A i \in 1 .. Len(c.settled) : c.settled[i].request.job # x

(* What is asked for when r is written.                                     *)
LEMMA AskedByRequest ==
    ASSUME NEW r \in Requests, Extends(client'.stdin, client.stdin, RequestLine(r)),
           carriedOut' = carriedOut, AskedOnce, r.job \notin Begun
    PROVE  /\ \A x \in Begun' : x \in Begun \/ (x = r.job /\ r.method = "turn/start")
           /\ AskedOnce'
<1> DEFINE k == Len(client.stdin)
<1>1. /\ Len(client'.stdin) = k + 1 /\ k \in Nat
      /\ \A i \in 1 .. k : client'.stdin[i] = client.stdin[i]
      /\ client'.stdin[k + 1].kind = "request" /\ client'.stdin[k + 1].request = r
  BY RequestFields DEF Extends
<1>2. \A i \in 1 .. Len(client'.stdin) : i \in 1 .. k \/ i = k + 1
  BY <1>1
<1>3. \A x : \A i \in 1 .. k : AsksFor(i, x)' <=> AsksFor(i, x)
  BY <1>1 DEF AsksFor
<1>4. ASSUME NEW x \in Texts, NEW i \in 1 .. Len(client'.stdin), AsksFor(i, x)'
      PROVE  \/ i \in 1 .. k /\ AsksFor(i, x) /\ x # r.job
             \/ i = k + 1 /\ x = r.job /\ r.method = "turn/start"
  <2>1. CASE i \in 1 .. k
    BY <1>3, <1>4, <2>1 DEF Begun
  <2>2. CASE i = k + 1
    BY <1>1, <1>4, <2>2 DEF AsksFor
  <2> QED
    BY <1>2, <2>1, <2>2
<1>5. ASSUME NEW x \in Begun'
      PROVE  x \in Begun \/ (x = r.job /\ r.method = "turn/start")
  <2>1. \/ x \in carriedOut
        \/ \E i \in 1 .. Len(client'.stdin) : AsksFor(i, x)'
    BY DEF Begun
  <2> QED
    BY <1>4, <2>1 DEF Begun
<1>6. ASSUME NEW x \in Texts, NEW i \in 1 .. Len(client'.stdin), AsksFor(i, x)'
      PROVE  /\ x \notin carriedOut
             /\ \A j \in 1 .. Len(client'.stdin) : AsksFor(j, x)' => i = j
  BY <1>4, <1>6 DEF AskedOnce, Begun
<1> QED
  BY <1>5, <1>6 DEF AskedOnce

(* The jobs and what was asked for change only where nothing is outstanding.*)
Spares(c, jobs, begun, jobs2, begun2) ==
    /\ \A x : jobs2[x] = jobs[x] \/ Free(c, x)
    /\ \A x \in begun2 : x \in begun \/ Free(c, x)

LEMMA JobsMoved ==
    ASSUME NEW c, NEW jobs, NEW begun, NEW jobs2, NEW begun2,
           JobsOf(c, jobs, begun), Spares(c, jobs, begun, jobs2, begun2)
    PROVE  JobsOf(c, jobs2, begun2)
<1>1. \A i \in 1 .. Len(c.pending) : Outstanding(c.pending[i], jobs2, begun2)
  BY DEF JobsOf, Outstanding, Free, Spares
<1>2. \A i \in 1 .. Len(c.settled) : Outstanding(c.settled[i].request, jobs2, begun2)
  BY DEF JobsOf, Outstanding, Free, Spares
<1> QED
  BY <1>1, <1>2 DEF JobsOf

(* One list of the two grows by an entry of a job that had none.            *)
LEMMA JobsAdded ==
    ASSUME NEW c, NEW d, NEW jobs, NEW begun, NEW r,
           JobsOf(c, jobs, begun), Free(c, r.job), Outstanding(r, jobs, begun),
           \/ Extends(d.pending, c.pending, r) /\ d.settled = c.settled
           \/ /\ d.pending = c.pending
              /\ \E o : Extends(d.settled, c.settled, o) /\ o.request = r
    PROVE  JobsOf(d, jobs, begun)
<1>1. /\ \A i, j \in 1 .. Len(c.pending) : c.pending[i].job = c.pending[j].job => i = j
      /\ \A i, j \in 1 .. Len(c.settled) :
            c.settled[i].request.job = c.settled[j].request.job => i = j
      /\ \A i \in 1 .. Len(c.pending), j \in 1 .. Len(c.settled) :
            c.pending[i].job # c.settled[j].request.job
  BY DEF JobsOf
<1>2. /\ \A i \in 1 .. Len(c.pending) :
            c.pending[i].job # r.job /\ Outstanding(c.pending[i], jobs, begun)
      /\ \A i \in 1 .. Len(c.settled) :
            /\ c.settled[i].request.job # r.job
            /\ Outstanding(c.settled[i].request, jobs, begun)
  BY DEF JobsOf, Free
<1>3. CASE Extends(d.pending, c.pending, r) /\ d.settled = c.settled
  <2>1. \A i \in 1 .. Len(d.pending) :
           \/ i \in 1 .. Len(c.pending) /\ d.pending[i] = c.pending[i]
           \/ i = Len(c.pending) + 1 /\ d.pending[i] = r
    BY <1>3 DEF Extends
  <2>2. \A i, j \in 1 .. Len(d.pending) : d.pending[i].job = d.pending[j].job => i = j
    BY <1>1, <1>2, <2>1
  <2>3. \A i \in 1 .. Len(d.pending), j \in 1 .. Len(d.settled) :
           d.pending[i].job # d.settled[j].request.job
    BY <1>1, <1>2, <1>3, <2>1
  <2>4. \A i \in 1 .. Len(d.pending) : Outstanding(d.pending[i], jobs, begun)
    BY <1>2, <2>1
  <2> QED
    BY <1>1, <1>2, <1>3, <2>2, <2>3, <2>4 DEF JobsOf
<1>4. CASE /\ d.pending = c.pending
           /\ \E o : Extends(d.settled, c.settled, o) /\ o.request = r
  <2>0. PICK o : Extends(d.settled, c.settled, o) /\ o.request = r
    BY <1>4
  <2>1. \A i \in 1 .. Len(d.settled) :
           \/ i \in 1 .. Len(c.settled) /\ d.settled[i] = c.settled[i]
           \/ i = Len(c.settled) + 1 /\ d.settled[i].request = r
    BY <2>0 DEF Extends
  <2>2. \A i, j \in 1 .. Len(d.settled) :
           d.settled[i].request.job = d.settled[j].request.job => i = j
    BY <1>1, <1>2, <2>1
  <2>3. \A i \in 1 .. Len(d.pending), j \in 1 .. Len(d.settled) :
           d.pending[i].job # d.settled[j].request.job
    BY <1>1, <1>2, <1>4, <2>1
  <2>4. \A i \in 1 .. Len(d.settled) : Outstanding(d.settled[i].request, jobs, begun)
    BY <1>2, <2>1
  <2> QED
    BY <1>1, <1>2, <1>4, <2>2, <2>3, <2>4 DEF JobsOf
<1> QED
  BY <1>3, <1>4

(* One list of the two loses an entry, of the job j: it has none any more.  *)
Loses(c, d, j) ==
    \/ \E p \in 1 .. Len(c.pending) :
          /\ Len(c.pending) \in Nat
          /\ Without(d.pending, c.pending, p) /\ d.settled = c.settled
          /\ j = c.pending[p].job
    \/ \E p \in 1 .. Len(c.settled) :
          /\ Len(c.settled) \in Nat
          /\ Without(d.settled, c.settled, p) /\ d.pending = c.pending
          /\ j = c.settled[p].request.job

LEMMA JobsDropped ==
    ASSUME NEW c, NEW d, NEW jobs, NEW begun, NEW j, JobsOf(c, jobs, begun),
           Loses(c, d, j)
    PROVE  JobsOf(d, jobs, begun) /\ Free(d, j)
<1>1. /\ \A i, k \in 1 .. Len(c.pending) : c.pending[i].job = c.pending[k].job => i = k
      /\ \A i, k \in 1 .. Len(c.settled) :
            c.settled[i].request.job = c.settled[k].request.job => i = k
      /\ \A i \in 1 .. Len(c.pending), k \in 1 .. Len(c.settled) :
            c.pending[i].job # c.settled[k].request.job
      /\ \A i \in 1 .. Len(c.pending) : Outstanding(c.pending[i], jobs, begun)
      /\ \A i \in 1 .. Len(c.settled) : Outstanding(c.settled[i].request, jobs, begun)
  BY DEF JobsOf
<1>2. ASSUME NEW p \in 1 .. Len(c.pending), Len(c.pending) \in Nat,
             Without(d.pending, c.pending, p), d.settled = c.settled,
             j = c.pending[p].job
      PROVE  JobsOf(d, jobs, begun) /\ Free(d, j)
  <2> DEFINE At(i) == IF i < p THEN i ELSE i + 1
  <2>0. /\ \A i \in 1 .. Len(d.pending) : /\ At(i) \in 1 .. Len(c.pending) /\ At(i) # p
                                     /\ d.pending[i] = c.pending[At(i)]
        /\ \A i, k \in 1 .. Len(d.pending) : At(i) = At(k) => i = k
    BY <1>2 DEF Without
  <2> HIDE DEF At
  <2>2. ASSUME NEW i \in 1 .. Len(d.pending), NEW k \in 1 .. Len(d.pending),
               d.pending[i].job = d.pending[k].job
        PROVE  i = k
    <3>1. c.pending[At(i)].job = c.pending[At(k)].job
      BY <2>0, <2>2
    <3>2. At(i) = At(k)
      BY <1>1, <2>0, <3>1
    <3> QED
      BY <2>0, <3>2
  <2>3. ASSUME NEW i \in 1 .. Len(d.pending)
        PROVE  /\ \A k \in 1 .. Len(d.settled) : d.pending[i].job # d.settled[k].request.job
               /\ Outstanding(d.pending[i], jobs, begun)
               /\ d.pending[i].job # j
    <3>1. At(i) \in 1 .. Len(c.pending) /\ At(i) # p /\ d.pending[i] = c.pending[At(i)]
      BY <2>0
    <3> QED
      BY <1>1, <1>2, <3>1
  <2>4. \A i \in 1 .. Len(d.settled) : d.settled[i].request.job # j
    BY <1>1, <1>2
  <2> QED
    BY <1>1, <1>2, <2>2, <2>3, <2>4 DEF JobsOf, Free
<1>3. ASSUME NEW p \in 1 .. Len(c.settled), Len(c.settled) \in Nat,
             Without(d.settled, c.settled, p), d.pending = c.pending,
             j = c.settled[p].request.job
      PROVE  JobsOf(d, jobs, begun) /\ Free(d, j)
  <2> DEFINE At(i) == IF i < p THEN i ELSE i + 1
  <2>0. /\ \A i \in 1 .. Len(d.settled) : /\ At(i) \in 1 .. Len(c.settled) /\ At(i) # p
                                     /\ d.settled[i] = c.settled[At(i)]
        /\ \A i, k \in 1 .. Len(d.settled) : At(i) = At(k) => i = k
    BY <1>3 DEF Without
  <2> HIDE DEF At
  <2>2. ASSUME NEW i \in 1 .. Len(d.settled), NEW k \in 1 .. Len(d.settled),
               d.settled[i].request.job = d.settled[k].request.job
        PROVE  i = k
    <3>1. c.settled[At(i)].request.job = c.settled[At(k)].request.job
      BY <2>0, <2>2
    <3>2. At(i) = At(k)
      BY <1>1, <2>0, <3>1
    <3> QED
      BY <2>0, <3>2
  <2>3. ASSUME NEW i \in 1 .. Len(d.settled)
        PROVE  /\ \A k \in 1 .. Len(d.pending) : d.pending[k].job # d.settled[i].request.job
               /\ Outstanding(d.settled[i].request, jobs, begun)
               /\ d.settled[i].request.job # j
    <3>1. At(i) \in 1 .. Len(c.settled) /\ At(i) # p /\ d.settled[i] = c.settled[At(i)]
      BY <2>0
    <3> QED
      BY <1>1, <1>3, <3>1
  <2>4. \A i \in 1 .. Len(d.pending) : d.pending[i].job # j
    BY <1>1, <1>3
  <2> QED
    BY <1>1, <1>3, <2>2, <2>3, <2>4 DEF JobsOf, Free
<1> QED
  BY <1>2, <1>3 DEF Loses

(* An outstanding job sends another request or, at first, its only one.     *)
LEMMA JobsRequested ==
    ASSUME Types, JobsInv, NEW c \in RpcClients, c.stdin = client.stdin,
           NEW r \in Requests, JobsOf(c, job, Begun), Free(c, r.job),
           r.job \notin Begun, client' = Request(c, r),
           job' = [job EXCEPT ![r.job] = "waiting"], carriedOut' = carriedOut
    PROVE  JobsInv'
<1>1. /\ job \in [Jobs -> {"new", "waiting", "succeeded", "failed"}]
      /\ r.job \in Jobs /\ c.stdin \in Seq(InLines) /\ RequestLine(r) \in InLines
      /\ c.settled \in Seq(Outcomes) /\ c.pending \in Seq(Requests)
      /\ Rejected(r) \in Outcomes /\ Rejected(r).request = r
  BY RequestFields, ClientFields DEF Types
<1>2. job'[r.job] = "waiting" /\ \A x : x # r.job => job'[x] = job[x]
  <2>1. \A x : x # r.job => x \in Jobs \/ x \notin Jobs
    OBVIOUS
  <2> QED
    BY <1>1 DEF Types
<1>3. AskedOnce /\ \A x \in Texts : job[x] = "new" => x \notin Begun
  BY DEF JobsInv
<1>4. ASSUME /\ client'.settled = Append(c.settled, Rejected(r))
             /\ client'.pending = c.pending /\ client'.stdin = c.stdin
      PROVE  JobsInv'
  <2>1. NoneAsks
    BY <1>4 DEF NoneAsks
  <2>2. Begun' \subseteq Begun /\ AskedOnce'
    BY <1>3, <2>1, NoneAsked
  <2>3. JobsOf(c, job', Begun')
    <3>1. Spares(c, job, Begun, job', Begun')
      BY <1>2, <2>2 DEF Spares
    <3> QED
      BY <3>1, JobsMoved
  <2>4. Extends(client'.settled, c.settled, Rejected(r))
    BY <1>1, <1>4, AppendExtends
  <2>5. Outstanding(r, job', Begun')
    BY <1>2, <2>2 DEF Outstanding
  <2>6. JobsOf(client', job', Begun')
    BY <1>1, <1>4, <2>3, <2>4, <2>5, JobsAdded
  <2> QED
    BY <1>2, <1>3, <2>2, <2>6 DEF JobsInv
<1>5. ASSUME /\ client'.settled = c.settled
             /\ client'.pending = Append(c.pending, r)
             /\ client'.stdin = Append(c.stdin, RequestLine(r))
      PROVE  JobsInv'
  <2>1. Extends(client'.stdin, client.stdin, RequestLine(r))
    BY <1>1, <1>5, AppendExtends
  <2>2. /\ \A x \in Begun' : x \in Begun \/ (x = r.job /\ r.method = "turn/start")
        /\ AskedOnce'
    BY <1>3, <2>1, AskedByRequest
  <2>3. JobsOf(c, job', Begun')
    <3>1. Spares(c, job, Begun, job', Begun')
      BY <1>2, <2>2 DEF Spares
    <3> QED
      BY <3>1, JobsMoved
  <2>4. Extends(client'.pending, c.pending, r)
    BY <1>1, <1>5, AppendExtends
  <2>5. Outstanding(r, job', Begun')
    BY <1>2, <2>2 DEF Outstanding
  <2>6. JobsOf(client', job', Begun')
    BY <1>5, <2>3, <2>4, <2>5, JobsAdded
  <2> QED
    BY <1>2, <1>3, <2>2, <2>6 DEF JobsInv
<1> QED
  BY <1>4, <1>5, Requested

(* A request that was pending settles.                                      *)
LEMMA JobsSettled ==
    ASSUME Types, JobsInv, NEW o \in Outcomes, NEW k \in 1 .. Len(client.pending),
           client.pending[k] = o.request, client' = SettleRequest(client, o),
           job' = job, carriedOut' = carriedOut
    PROVE  JobsInv'
<1>1. /\ client'.stdin = client.stdin
      /\ client'.settled = Append(client.settled, o)
      /\ client.settled \in Seq(Outcomes) /\ Len(client.pending) \in Nat
  BY TypeFacts, ClientFields, SettledOne
<1>2. PICK p \in 1 .. Len(client.pending) :
         client.pending[p] = o.request /\ Without(client'.pending, client.pending, p)
  BY TypeFacts, SettledOne
<1>3. NoneAsks
  BY <1>1 DEF NoneAsks
<1>4. PICK d : d = [pending |-> client'.pending, settled |-> client.settled]
  OBVIOUS
<1>5. d.pending = client'.pending /\ d.settled = client.settled
  BY <1>4
<1>6. JobsOf(d, job, Begun) /\ Free(d, o.request.job)
  <2>1. Loses(client, d, o.request.job)
    BY <1>1, <1>2, <1>5 DEF Loses
  <2>2. JobsOf(client, job, Begun)
    BY DEF JobsInv
  <2> QED
    BY <2>1, <2>2, JobsDropped
<1>7. Outstanding(o.request, job, Begun)
  BY DEF JobsInv, JobsOf
<1>8. Extends(client'.settled, d.settled, o)
  BY <1>1, <1>5, AppendExtends
<1>9. JobsOf(client', job, Begun)
  BY <1>5, <1>6, <1>7, <1>8, JobsAdded
<1> QED
  BY <1>3, <1>9, JobsLeft

(* What the first of the settled leaves to the others.                      *)
LEMMA JobsConsumed ==
    ASSUME Types, JobsInv, client.settled # <<>>, NEW d,
           d.pending = client.pending, d.settled = Tail(client.settled)
    PROVE  /\ JobsOf(d, job, Begun) /\ Free(d, Caller)
           /\ Outstanding(Outcome.request, job, Begun)
<1>1. /\ Len(client.settled) \in Nat \ {0} /\ Outcome = client.settled[1]
      /\ Len(Tail(client.settled)) = Len(client.settled) - 1
      /\ \A i \in 1 .. Len(client.settled) - 1 :
            Tail(client.settled)[i] = client.settled[i + 1]
  BY ConsumedOne
<1>2. /\ 1 \in 1 .. Len(client.settled) /\ Len(client.settled) \in Nat
      /\ Without(d.settled, client.settled, 1)
  BY <1>1 DEF Without
<1>3. Caller = client.settled[1].request.job
  BY <1>1 DEF Caller
<1>4. JobsOf(client, job, Begun)
  BY DEF JobsInv
<1>5. Loses(client, d, Caller)
  BY <1>2, <1>3 DEF Loses
<1>7. JobsOf(d, job, Begun) /\ Free(d, Caller)
  BY <1>4, <1>5, JobsDropped
<1>6. Outstanding(client.settled[1].request, job, Begun)
  BY <1>2, <1>4 DEF JobsOf
<1> QED
  BY <1>1, <1>6, <1>7

(* A job ends, whether its last outcome was consumed or it never waited.    *)
LEMMA JobsEnded ==
    ASSUME Types, JobsInv, NEW j \in Jobs, NEW phase \in {"succeeded", "failed"},
           JobsOf(client', job, Begun), Free(client', j), client'.stdin = client.stdin,
           job' = [job EXCEPT ![j] = phase], carriedOut' = carriedOut
    PROVE  JobsInv'
<1>1. job'[j] = phase /\ \A x : x # j => job'[x] = job[x]
  BY DEF Types
<1>2. NoneAsks
  BY DEF NoneAsks
<1>3. Begun' \subseteq Begun /\ AskedOnce'
  BY <1>2, NoneAsked DEF JobsInv
<1>4. Spares(client', job, Begun, job', Begun')
  BY <1>1, <1>3 DEF Spares
<1>5. JobsOf(client', job', Begun')
  BY <1>4, JobsMoved
<1> QED
  BY <1>1, <1>3, <1>5 DEF JobsInv

(* Code goes on: the job that waited ends or asks for more.                 *)
LEMMA JobsGoOn ==
    ASSUME Types, JobsInv, GoesOn
    PROVE  JobsInv'
<1>1. client.settled # <<>> /\ carriedOut' = carriedOut
  BY DEF GoesOn, GoOnRejected, GoOnOpened, GoOnLoaded, GoOnStarted, GoOnInterrupted,
     Resolves, Settled, serverVars
<1>2. /\ Consumed \in RpcClients /\ Consumed.pending = client.pending
      /\ Consumed.settled = Tail(client.settled) /\ Consumed.stdin = client.stdin
      /\ Outcome \in Outcomes /\ Outcome.request \in Requests /\ Caller \in Jobs
      /\ Caller = Outcome.request.job
  BY <1>1, ConsumedOne, RequestFields DEF Caller
<1>3. ASSUME NEW phase \in {"succeeded", "failed"},
             client'.pending = client.pending, client'.settled = Tail(client.settled),
             client'.stdin = client.stdin, job' = [job EXCEPT ![Caller] = phase]
      PROVE  JobsInv'
  <2>1. JobsOf(client', job, Begun) /\ Free(client', Caller)
    BY <1>1, <1>3, JobsConsumed
  <2> QED
    BY <1>1, <1>2, <1>3, <2>1, JobsEnded
<1>4. CASE GoOnRejected \/ GoOnStarted \/ GoOnInterrupted
  <2>1. Finish("failed") \/ Finish("succeeded")
    BY <1>4 DEF GoOnRejected, GoOnStarted, GoOnInterrupted
  <2> QED
    BY <1>2, <1>3, <2>1 DEF Finish
<1>5. CASE GoOnOpened
  <2>1. /\ client'.pending = client.pending /\ client'.stdin = client.stdin
        /\ Outcome.request.session \in Sessions
        /\ Outcome.request.method \in {"thread/resume", "thread/start"}
    BY <1>5, OpenedFields
  <2>2. CASE /\ client'.settled = Tail(client.settled)
             /\ job' = [job EXCEPT ![Caller] = "succeeded"]
    BY <1>3, <2>1, <2>2
  <2>3. CASE /\ Caller \in Texts /\ job' = job
             /\ client'.settled = Append(Tail(client.settled),
                                         LoadedBy(Caller, Outcome.request.session))
    <3>1. PICK o : o = LoadedBy(Caller, Outcome.request.session)
      OBVIOUS
    <3>2. /\ o \in Outcomes /\ o.request.job = Caller /\ o.request.method = "loaded"
      BY <2>1, <2>3, <3>1, LoadedOutcome
    <3>3. /\ JobsOf(Consumed, job, Begun) /\ Free(Consumed, o.request.job)
          /\ Outstanding(Outcome.request, job, Begun)
      BY <1>1, <1>2, <3>2, JobsConsumed
    <3>4. Outstanding(o.request, job, Begun)
      BY <1>2, <2>1, <3>2, <3>3 DEF Outstanding
    <3>5. Consumed.settled \in Seq(Outcomes)
      BY <1>2, ClientFields
    <3>6. Extends(client'.settled, Consumed.settled, o)
      BY <1>2, <2>3, <3>1, <3>2, <3>5, AppendExtends
    <3>7. client'.pending = Consumed.pending
      BY <1>2, <2>1
    <3>8. JobsOf(client', job, Begun)
      BY <3>3, <3>4, <3>6, <3>7, JobsAdded
    <3>9. NoneAsks
      BY <1>1, <2>1 DEF NoneAsks
    <3> QED
      BY <2>3, <3>8, <3>9, JobsLeft
  <2> QED
    BY <1>5, <2>2, <2>3, OpenedFields
<1>6. CASE GoOnLoaded
  <2>1. /\ Outcome.request.method = "loaded"
        /\ StartTurn(Consumed, Caller, Outcome.request.session)
    BY <1>6 DEF GoOnLoaded, Resolves
  <2>2. Outcome.request.session \in Sessions /\ Caller \in Texts
    BY <1>2, <2>1, RequestFields
  <2>3. CASE job' = [job EXCEPT ![Caller] = "failed"] /\ client' = Consumed
    BY <1>2, <1>3, <2>3
  <2>4. CASE /\ job' = [job EXCEPT ![Caller] = "waiting"]
             /\ client' = Request(Consumed, Call(Caller, "turn/start",
                                        Outcome.request.session, Caller))
    <3>1. PICK r : r = Call(Caller, "turn/start", Outcome.request.session, Caller)
      OBVIOUS
    <3>2. r \in Requests /\ r.job = Caller
      BY <2>2, <3>1 DEF Call, Requests, Methods, Turns, Jobs
    <3>3. /\ JobsOf(Consumed, job, Begun) /\ Free(Consumed, Caller)
          /\ Outstanding(Outcome.request, job, Begun)
      BY <1>1, <1>2, JobsConsumed
    <3>4. Caller \notin Begun
      BY <1>2, <2>1, <3>3 DEF Outstanding
    <3> QED
      BY <1>1, <1>2, <2>4, <3>1, <3>2, <3>3, <3>4, JobsRequested
  <2> QED
    BY <2>1, <2>3, <2>4 DEF StartTurn
<1> QED
  BY <1>4, <1>5, <1>6 DEF GoesOn

(* A call is made: its job is new.                                          *)
LEMMA JobsCalled ==
    ASSUME Types, JobsInv, NEW s \in Sessions, CallsOn(s)
    PROVE  JobsInv'
<1>1. client \in RpcClients /\ client.stdin = client.stdin
  BY DEF Types
<1>2. carriedOut' = carriedOut
  BY DEF CallsOn, SubmitText, ResumeSession, StartSession, Interrupt, Ask, serverVars
<1>3. ASSUME NEW j \in Jobs, job[j] = "new"
      PROVE  JobsOf(client, job, Begun) /\ Free(client, j) /\ j \notin Begun
  BY <1>3 DEF JobsInv, JobsOf, Outstanding, Free, Begun
<1>4. ASSUME NEW r \in Requests, job[r.job] = "new", client' = Request(client, r),
             job' = [job EXCEPT ![r.job] = "waiting"]
      PROVE  JobsInv'
  <2>1. r.job \in Jobs
    BY RequestFields
  <2>2. JobsOf(client, job, Begun) /\ Free(client, r.job) /\ r.job \notin Begun
    BY <1>3, <1>4, <2>1
  <2> QED
    BY <1>1, <1>2, <1>4, <2>2, JobsRequested
<1>5. ASSUME NEW j \in Jobs,
             NEW m \in {"thread/resume", "thread/start", "turn/interrupt"},
             NEW t \in Turns, m = "turn/interrupt" => j \in Interrupts /\ t \in Texts,
             Ask(j, m, s, t)
      PROVE  JobsInv'
  <2>1. PICK r : r = Call(j, m, s, t)
    OBVIOUS
  <2>2. r \in Requests /\ client' = Request(client, r)
    BY <1>5, <2>1, AskTypes
  <2>3. r.job = j
    BY <2>1 DEF Call
  <2> QED
    BY <1>4, <1>5, <2>2, <2>3 DEF Ask
<1>6. ASSUME NEW x \in Texts, SubmitText(x, s)
      PROVE  JobsInv'
  <2>0. x \in Jobs /\ job[x] = "new"
    BY <1>6 DEF SubmitText, Jobs
  <2>1. ASSUME NEW r, r \in {Call(x, "thread/resume", s, NoTurn),
                             Call(x, "turn/start", s, x)},
               client' = Request(client, r), job' = [job EXCEPT ![x] = "waiting"]
        PROVE  JobsInv'
    <3>1. r \in Requests /\ r.job = x
      BY <2>1 DEF Call, Requests, Methods, Turns, Jobs
    <3> QED
      BY <1>4, <2>0, <2>1, <3>1
  <2>2. CASE job' = [job EXCEPT ![x] = "failed"] /\ client' = client
    <3>1. JobsOf(client', job, Begun) /\ Free(client', x) /\ client'.stdin = client.stdin
      BY <1>3, <2>0, <2>2
    <3> QED
      BY <1>2, <2>0, <2>2, <3>1, JobsEnded
  <2> QED
    BY <1>6, <2>1, <2>2 DEF SubmitText, StartTurn
<1>7. ASSUME NEW o \in Opens, ResumeSession(o, s) \/ StartSession(o, s)
      PROVE  JobsInv'
  <2>1. \E m \in {"thread/resume", "thread/start"} : Ask(o, m, s, NoTurn)
    BY <1>7 DEF ResumeSession, StartSession
  <2>2. o \in Jobs /\ NoTurn \in Turns
    BY DEF Jobs, Turns
  <2> QED
    BY <1>5, <2>1, <2>2
<1>8. ASSUME NEW i \in Interrupts, Interrupt(i, s)
      PROVE  JobsInv'
  <2>1. /\ Ask(i, "turn/interrupt", s, record[s].turn) /\ i \in Jobs /\ i \in Interrupts
        /\ record[s].turn \in Turns /\ record[s].turn \in Texts
    BY <1>8, TypeFacts DEF Interrupt, Jobs, Turns
  <2> QED
    BY <1>5, <2>1
<1> QED
  BY <1>6, <1>7, <1>8 DEF CallsOn

(* Approvals are answered, or nothing is written.                           *)
LEMMA JobsAnswered ==
    ASSUME Types, JobsInv, NEW some \in SUBSET PendingApprovals, IsFiniteSet(some),
           NEW d \in Decisions, client' \in {client, RespondAll(some, d)},
           job' = job, carriedOut' = carriedOut
    PROVE  JobsInv'
<1>1. CASE client' = client
  <2>1. NoneAsks
    BY <1>1 DEF NoneAsks
  <2> QED
    BY <1>1, <2>1, JobsKept
<1>2. CASE client' = RespondAll(some, d)
  <2>1. /\ client'.pending = client.pending /\ client'.settled = client.settled
        /\ \A i \in 1 .. Len(client.stdin) : client'.stdin[i] = client.stdin[i]
        /\ \A i \in 1 .. Len(client'.stdin) :
              i \in 1 .. Len(client.stdin) \/ client'.stdin[i].kind = "answer"
    BY <1>2, AnsweredAll
  <2>2. NoneAsks
    BY <2>1 DEF NoneAsks
  <2> QED
    BY <2>1, <2>2, JobsKept
<1> QED
  BY <1>1, <1>2

(* The client fails: what was pending settles, in its order.                *)
LEMMA FailedLists ==
    ASSUME NEW c \in RpcClients, NEW st \in {"failed", "closed"}, c.state = "ready"
    PROVE  /\ Len(c.settled) \in Nat /\ Len(c.pending) \in Nat
           /\ Len(FailAll(c, st).pending) = 0
           /\ Len(FailAll(c, st).settled) = Len(c.settled) + Len(c.pending)
           /\ \A i \in 1 .. Len(c.settled) : FailAll(c, st).settled[i] = c.settled[i]
           /\ \A i \in 1 .. Len(c.pending) :
                 /\ FailAll(c, st).settled[Len(c.settled) + i].request = c.pending[i]
                 /\ ~FailAll(c, st).settled[Len(c.settled) + i].ok
<1>1. PICK z : z = [i \in 1 .. Len(c.pending) |-> Rejected(c.pending[i])]
  OBVIOUS
<1>2. PICK x : x = c.settled \o z
  OBVIOUS
<1>3. PICK e : e = <<>>
  OBVIOUS
<1>4. /\ c.settled \in Seq(Outcomes) /\ Len(c.settled) \in Nat /\ Len(c.pending) \in Nat
      /\ \A i \in 1 .. Len(c.pending) : c.pending[i] \in Requests
  BY ClientFields
<1>5. \A i \in 1 .. Len(c.pending) :
         /\ Rejected(c.pending[i]) \in Outcomes
         /\ Rejected(c.pending[i]).request = c.pending[i] /\ ~Rejected(c.pending[i]).ok
  BY <1>4, RequestFields
<1>6. /\ z \in Seq(Outcomes) /\ Len(z) = Len(c.pending)
      /\ \A i \in 1 .. Len(c.pending) : z[i] = Rejected(c.pending[i])
  BY <1>1, <1>4, <1>5
<1>7. /\ x \in Seq(Outcomes) /\ Len(x) = Len(c.settled) + Len(c.pending)
      /\ \A i \in 1 .. Len(c.settled) : x[i] = c.settled[i]
      /\ \A i \in 1 .. Len(c.pending) : x[Len(c.settled) + i] = z[i]
  <2>1. /\ x \in Seq(Outcomes) /\ Len(x) = Len(c.settled) + Len(z)
        /\ \A i \in 1 .. Len(c.settled) + Len(z) :
              x[i] = IF i <= Len(c.settled) THEN c.settled[i]
                     ELSE z[i - Len(c.settled)]
    <3>1. /\ c.settled \o z \in Seq(Outcomes)
          /\ Len(c.settled \o z) = Len(c.settled) + Len(z)
          /\ \A i \in 1 .. Len(c.settled) + Len(z) :
                (c.settled \o z)[i] = IF i <= Len(c.settled) THEN c.settled[i]
                                      ELSE z[i - Len(c.settled)]
      BY <1>4, <1>6, ConcatProperties
    <3> QED
      BY <1>2, <3>1
  <2>2. PICK a \in Nat : a = Len(c.settled)
    BY <1>4
  <2>3. PICK b \in Nat : b = Len(c.pending)
    BY <1>4
  <2>4. \A i \in 1 .. a + b : x[i] = IF i <= a THEN c.settled[i] ELSE z[i - a]
    BY <1>6, <2>1, <2>2, <2>3
  <2>5. \A i \in 1 .. a : x[i] = c.settled[i]
    BY <2>4
  <2>6. ASSUME NEW i \in 1 .. b
        PROVE  x[a + i] = z[i]
    <3>1. a + i \in 1 .. a + b /\ ~(a + i <= a) /\ (a + i) - a = i
      OBVIOUS
    <3> QED
      BY <2>4, <3>1
  <2> QED
    BY <1>6, <2>1, <2>2, <2>3, <2>5, <2>6
<1>8. e \in Seq(Requests) /\ Len(e) = 0
  BY <1>3
<1>9. FailAll(c, st) = [c EXCEPT !.state = st, !.pending = e, !.settled = x]
  BY <1>1, <1>2, <1>3 DEF FailAll
<1>10. FailAll(c, st).pending = e /\ FailAll(c, st).settled = x
  BY <1>7, <1>8, <1>9 DEF RpcClients
<1>11. \A i \in 1 .. Len(c.pending) :
          x[Len(c.settled) + i].request = c.pending[i] /\ ~x[Len(c.settled) + i].ok
  BY <1>5, <1>6, <1>7
<1> QED
  BY <1>4, <1>7, <1>8, <1>10, <1>11

LEMMA FailedJobs ==
    ASSUME NEW c \in RpcClients, NEW st \in {"failed", "closed"},
           NEW jobs, NEW begun, JobsOf(c, jobs, begun)
    PROVE  JobsOf(FailAll(c, st), jobs, begun)
<1>1. CASE c.state # "ready"
  <2>1. FailAll(c, st) = c
    BY <1>1 DEF FailAll
  <2> QED
    BY <2>1
<1>2. CASE c.state = "ready"
  <2>1. PICK d : d = FailAll(c, st)
    OBVIOUS
  <2>2. PICK m \in Nat : m = Len(c.settled)
    BY <1>2, FailedLists
  <2>3. PICK k \in Nat : k = Len(c.pending)
    BY <1>2, FailedLists
  <2>4. /\ Len(d.pending) = 0 /\ Len(d.settled) = m + k
        /\ \A i \in 1 .. m : d.settled[i] = c.settled[i]
        /\ \A i \in 1 .. k : d.settled[m + i].request = c.pending[i]
    BY <1>2, <2>1, <2>2, <2>3, FailedLists
  <2>5. ASSUME NEW i \in 1 .. m + k
        PROVE  \/ i <= m /\ i \in 1 .. m /\ d.settled[i] = c.settled[i]
               \/ /\ ~(i <= m) /\ i - m \in 1 .. k
                  /\ d.settled[i].request = c.pending[i - m]
    <3>2. CASE i <= m
      BY <2>4, <3>2
    <3>3. CASE ~(i <= m)
      <4>1. i - m \in 1 .. k /\ m + (i - m) = i
        BY <3>3
      <4> QED
        BY <2>4, <3>3, <4>1
    <3> QED
      BY <3>2, <3>3
  <2>6. ASSUME NEW i \in 1 .. m + k, NEW j \in 1 .. m + k,
               d.settled[i].request.job = d.settled[j].request.job
        PROVE  i = j
    <3>1. /\ \A a, b \in 1 .. m :
                 c.settled[a].request.job = c.settled[b].request.job => a = b
          /\ \A a, b \in 1 .. k : c.pending[a].job = c.pending[b].job => a = b
          /\ \A a \in 1 .. k, b \in 1 .. m : c.pending[a].job # c.settled[b].request.job
      BY <2>2, <2>3 DEF JobsOf
    <3>2. CASE i <= m /\ j <= m
      BY <2>5, <2>6, <3>1, <3>2
    <3>3. CASE i <= m /\ ~(j <= m)
      BY <2>5, <2>6, <3>1, <3>3
    <3>4. CASE ~(i <= m) /\ j <= m
      BY <2>5, <2>6, <3>1, <3>4
    <3>5. CASE ~(i <= m) /\ ~(j <= m)
      <4>1. /\ i - m \in 1 .. k /\ j - m \in 1 .. k
            /\ c.pending[i - m].job = c.pending[j - m].job
        BY <2>5, <2>6, <3>5
      <4>2. i - m = j - m
        BY <3>1, <4>1
      <4> QED
        BY <4>2
    <3> QED
      BY <3>2, <3>3, <3>4, <3>5
  <2>7. ASSUME NEW i \in 1 .. m + k
        PROVE  Outstanding(d.settled[i].request, jobs, begun)
    BY <2>2, <2>3, <2>5, <2>7 DEF JobsOf
  <2>8. JobsOf(d, jobs, begun)
    BY <2>4, <2>6, <2>7 DEF JobsOf
  <2> QED
    BY <2>1, <2>8
<1> QED
  BY <1>1, <1>2

LEMMA JobsFailed ==
    ASSUME Types, JobsInv, NEW c \in RpcClients, NEW st \in {"failed", "closed"},
           c.pending = client.pending, c.settled = client.settled,
           client'.pending = FailAll(c, st).pending,
           client'.settled = FailAll(c, st).settled, NoneAsks, job' = job
    PROVE  JobsInv'
<1>1. JobsOf(c, job, Begun)
  BY DEF JobsInv, JobsOf
<1>2. JobsOf(FailAll(c, st), job, Begun)
  BY <1>1, FailedJobs
<1>3. JobsOf(client', job, Begun)
  BY <1>2 DEF JobsOf
<1> QED
  BY <1>3, JobsLeft

LEMMA JobsStopped ==
    ASSUME Types, JobsInv, LineTooLong \/ NoticeExit \/ Shutdown
    PROVE  JobsInv'
<1>1. job' = job /\ carriedOut' = carriedOut /\ client \in RpcClients
  BY DEF LineTooLong, NoticeExit, Shutdown, serverVars, Types
<1>2. CASE LineTooLong
  <2>1. client' = FailAll(client, "failed")
    BY <1>2 DEF LineTooLong
  <2>2. client'.stdin = client.stdin
    BY <1>1, <2>1, FailedAll
  <2>3. NoneAsks
    BY <1>1, <2>2 DEF NoneAsks
  <2> QED
    BY <1>1, <2>1, <2>3, JobsFailed
<1>3. CASE NoticeExit
  <2>1. PICK c : c = FailAll(client, "failed")
    OBVIOUS
  <2>2. c \in RpcClients
    BY <1>1, <2>1, FailedAll
  <2>3. client' = [c EXCEPT !.writable = FALSE]
    BY <1>3, <2>1 DEF NoticeExit
  <2>4. client'.pending = c.pending /\ client'.settled = c.settled
    BY <2>2, <2>3 DEF RpcClients
  <2>5. NoneAsks
    BY <1>1, <1>3, ExitedClient DEF NoneAsks
  <2> QED
    BY <1>1, <2>1, <2>4, <2>5, JobsFailed
<1>4. CASE Shutdown
  <2>1. CASE client' = client
    <3>1. NoneAsks
      BY <1>1, <2>1 DEF NoneAsks
    <3> QED
      BY <1>1, <2>1, <3>1, JobsKept
  <2>2. CASE client' = FailAll(RespondAll(approvals, "cancel"), "closed")
    <3>1. PICK c : c = RespondAll(approvals, "cancel")
      OBVIOUS
    <3>2. "cancel" \in Decisions /\ approvals \in SUBSET PendingApprovals
          /\ IsFiniteSet(approvals)
      BY DEF Types, Decisions
    <3>3. /\ c \in RpcClients
          /\ c.pending = client.pending /\ c.settled = client.settled
          /\ \A i \in 1 .. Len(client.stdin) : c.stdin[i] = client.stdin[i]
          /\ \A i \in 1 .. Len(c.stdin) :
                i \in 1 .. Len(client.stdin) \/ c.stdin[i].kind = "answer"
      BY <3>1, <3>2, AnsweredAll
    <3>4. client' = FailAll(c, "closed")
      BY <2>2, <3>1
    <3>5. client'.stdin = c.stdin
      BY <3>3, <3>4, FailedAll
    <3>6. NoneAsks
      BY <1>1, <3>3, <3>5 DEF NoneAsks
    <3> QED
      BY <1>1, <3>3, <3>4, <3>6, JobsFailed
  <2> QED
    BY <1>4, <2>1, <2>2 DEF Shutdown
<1> QED
  BY <1>2, <1>3, <1>4

(* The app-server takes a line; if it asked for a turn, the turn may begin. *)
LEMMA JobsServed ==
    ASSUME Types, JobsInv, NEW kind, Serving(kind),
           \A x \in carriedOut' : x \in carriedOut \/ AsksFor(1, x),
           carriedOut \subseteq carriedOut', carriedOut' \subseteq Texts
    PROVE  JobsInv'
<1>1. /\ client'.pending = client.pending /\ client'.settled = client.settled
      /\ Len(client.stdin) \in Nat \ {0} /\ Len(client'.stdin) = Len(client.stdin) - 1
      /\ \A i \in 1 .. Len(client.stdin) - 1 : client'.stdin[i] = client.stdin[i + 1]
      /\ job' = job
  BY TakenLine DEF Serving, bridgeVars
<1>2. ASSUME NEW x, NEW i \in 1 .. Len(client'.stdin), AsksFor(i, x)'
      PROVE  i + 1 \in 1 .. Len(client.stdin) /\ AsksFor(i + 1, x) /\ i + 1 # 1
  BY <1>1, <1>2 DEF AsksFor
<1>3. 1 \in 1 .. Len(client.stdin)
  BY <1>1
<1>4. Begun' \subseteq Begun
  BY <1>2, <1>3 DEF Begun
<1>5. AskedOnce
  BY DEF JobsInv
<1>6. ASSUME NEW x \in Texts, NEW i \in 1 .. Len(client'.stdin), AsksFor(i, x)'
      PROVE  /\ x \notin carriedOut'
             /\ \A j \in 1 .. Len(client'.stdin) : AsksFor(j, x)' => i = j
  <2>1. i + 1 \in 1 .. Len(client.stdin) /\ AsksFor(i + 1, x) /\ i + 1 # 1
    BY <1>2, <1>6
  <2>2. x \notin carriedOut /\ ~AsksFor(1, x)
    BY <1>3, <1>5, <2>1 DEF AskedOnce
  <2>3. ASSUME NEW j \in 1 .. Len(client'.stdin), AsksFor(j, x)'
        PROVE  i = j
    <3>1. j + 1 \in 1 .. Len(client.stdin) /\ AsksFor(j + 1, x)
      BY <1>2, <2>3
    <3>2. i + 1 = j + 1
      BY <1>5, <2>1, <3>1 DEF AskedOnce
    <3> QED
      BY <1>1, <3>2
  <2> QED
    BY <2>2, <2>3
<1>7. AskedOnce'
  BY <1>6 DEF AskedOnce
<1>8. JobsOf(client, job, Begun) /\ \A x \in Texts : job[x] = "new" => x \notin Begun
  BY DEF JobsInv
<1>9. JobsOf(client', job', Begun')
  BY <1>1, <1>4, <1>8 DEF JobsOf, Outstanding
<1> QED
  BY <1>1, <1>4, <1>7, <1>8, <1>9 DEF JobsInv

LEMMA JobsInvStep ==
    ASSUME Types, JobsInv, [Next]_vars
    PROVE  JobsInv'
<1>1. ASSUME client' = client, job' = job, carriedOut' = carriedOut
      PROVE  JobsInv'
  <2>1. NoneAsks
    BY <1>1 DEF NoneAsks
  <2> QED
    BY <1>1, <2>1, JobsKept
<1>2. CASE UNCHANGED vars
  BY <1>1, <1>2 DEF vars, serverVars
<1>3. CASE ReadTurnStarted \/ ReadStatus \/ ReadError
  BY <1>1, <1>3 DEF ReadTurnStarted, ReadStatus, ReadError, serverVars
<1>4. CASE ReadResponse
  <2>1. /\ Reading("response") /\ client' = DispatchResponse(client, Line.outcome)
        /\ job' = job /\ carriedOut' = carriedOut
    BY <1>4 DEF ReadResponse, serverVars
  <2>2. Line.outcome \in Outcomes
    BY <2>1, ReadLine, LineFields
  <2>3. CASE IsPending(client, Line.outcome.request)
    <3>1. PICK k \in 1 .. Len(client.pending) :
              client.pending[k] = Line.outcome.request
      BY <2>3 DEF IsPending
    <3>2. client' = SettleRequest(client, Line.outcome)
      BY <2>1, <2>3 DEF DispatchResponse
    <3> QED
      BY <2>1, <2>2, <3>1, <3>2, JobsSettled
  <2>4. CASE ~IsPending(client, Line.outcome.request)
    BY <1>1, <2>1, <2>4 DEF DispatchResponse
  <2> QED
    BY <2>3, <2>4
<1>5. CASE ReadTurnCompleted
  <2> DEFINE ended == {p \in approvals : p.session = Line.session /\ p.turn = Line.turn}
  <2>1. /\ client' = RespondAll(ended, "cancel")
        /\ job' = job /\ carriedOut' = carriedOut
    BY <1>5 DEF ReadTurnCompleted, serverVars
  <2>2. /\ "cancel" \in Decisions /\ ended \in SUBSET PendingApprovals
        /\ IsFiniteSet(ended)
    BY FS_Subset DEF Types, Decisions
  <2> HIDE DEF ended
  <2> QED
    BY <2>1, <2>2, JobsAnswered
<1>6. CASE ReadApprovalRequest
  <2>1. PICK p : p = Pending(Line.approval, Line.session, Line.turn)
    OBVIOUS
  <2>2. p \in PendingApprovals
    BY <1>6, <2>1, ReadLine, LineFields DEF ReadApprovalRequest, Pending, PendingApprovals
  <2> DEFINE all == {p}
  <2>3. /\ "cancel" \in Decisions /\ all \in SUBSET PendingApprovals
        /\ IsFiniteSet(all)
    BY <2>2, FS_Singleton DEF Decisions
  <2>4. /\ client' \in {client, RespondAll(all, "cancel")}
        /\ job' = job /\ carriedOut' = carriedOut
    BY <1>6, <2>1 DEF ReadApprovalRequest, TakeApproval, serverVars
  <2> HIDE DEF all
  <2> QED
    BY <2>3, <2>4, JobsAnswered
<1>7. CASE TimeOut
  <2>1. PICK k \in 1 .. Len(client.pending) :
            /\ client' = SettleRequest(client, Rejected(client.pending[k]))
            /\ Rejected(client.pending[k]) \in Outcomes
            /\ Rejected(client.pending[k]).request = client.pending[k]
    BY <1>7, GivenUp
  <2>2. job' = job /\ carriedOut' = carriedOut
    BY <1>7 DEF TimeOut, serverVars
  <2> QED
    BY <2>1, <2>2, JobsSettled
<1>8. ASSUME NEW p \in approvals, RespondToApproval(p) \/ Expire(p)
      PROVE  JobsInv'
  <2> DEFINE all == {p}
  <2>1. /\ {"accept", "cancel"} \subseteq Decisions
        /\ all \in SUBSET PendingApprovals /\ IsFiniteSet(all)
    BY OneAnswered DEF Decisions
  <2>2. /\ \E d \in {"accept", "cancel"} : client' \in {client, RespondAll(all, d)}
        /\ job' = job /\ carriedOut' = carriedOut
    BY <1>8 DEF RespondToApproval, Expire, serverVars
  <2> HIDE DEF all
  <2> QED
    BY <2>1, <2>2, JobsAnswered
<1>9. CASE ServerRefuses \/ ServerOpens \/ ServerInterrupts \/ ServerTakesAnswer
  <2>1. /\ \E kind : Serving(kind)
        /\ carriedOut' = carriedOut
    BY <1>9 DEF ServerRefuses, ServerOpens, ServerInterrupts, ServerTakesAnswer, Asks
  <2>2. carriedOut \subseteq Texts
    BY DEF Types
  <2> QED
    BY <2>1, <2>2, JobsServed
<1>10. CASE ServerStartsTurn
  <2>1. PICK r : r = Head(client.stdin).request
    OBVIOUS
  <2>2. /\ Serving("request") /\ r \in Requests /\ r.method = "turn/start"
        /\ r.turn = r.job /\ r.turn \in Texts /\ carriedOut' = carriedOut \cup {r.turn}
    BY <1>10, <2>1, StartedServer
  <2>3. AsksFor(1, r.turn)
    BY <2>1, <2>2, TakenLine DEF AsksFor
  <2>4. carriedOut \subseteq Texts
    BY DEF Types
  <2>5. /\ \A x \in carriedOut' : x \in carriedOut \/ AsksFor(1, x)
        /\ carriedOut \subseteq carriedOut' /\ carriedOut' \subseteq Texts
    BY <2>2, <2>3, <2>4
  <2> QED
    BY <2>2, <2>5, JobsServed
<1>11. ASSUME \/ \E s \in Sessions, a \in Approvals : ServerAsks(a, s)
              \/ \E s \in Sessions : ServerEndsTurn(s) \/ ServerNotifies(s)
              \/ \E r \in server.owed : ServerAnswersTurn(r)
       PROVE  JobsInv'
  BY <1>1, <1>11 DEF ServerAsks, ServerEndsTurn, ServerNotifies, ServerAnswersTurn,
     bridgeVars
<1>12. CASE ServerDies
  <2>1. /\ client'.stdin = <<>> /\ client'.pending = client.pending
        /\ client'.settled = client.settled
    BY <1>12, DeadServer
  <2>2. job' = job /\ carriedOut' = carriedOut
    BY <1>12 DEF ServerDies, bridgeVars
  <2>3. NoneAsks
    BY <2>1, <2>2 DEF NoneAsks
  <2> QED
    BY <2>1, <2>2, <2>3, JobsKept
<1> QED
  BY <1>2, <1>3, <1>4, <1>5, <1>6, <1>7, <1>8, <1>9, <1>10, <1>11, <1>12,
     JobsGoOn, JobsCalled, JobsStopped DEF Next, Reads, Serves

-----------------------------------------------------------------------------
(* The lines that tell of turns. *)

IsStarted(n, t) == stdout[n].kind = "started" /\ stdout[n].turn = t
IsCompleted(n, t) == stdout[n].kind = "completed" /\ stdout[n].turn = t

(* The end of t has been published.                                         *)
Ended(t) == \E i \in 1 .. Len(turnLog[t]) : turnLog[t][i] = "completed"

(* The adapter knows that t has started, or will read it.                   *)
Heard(t) == t \in startedTurns \/ \E m \in Told : IsStarted(m, t)

(* A turn is told to have started and then, once, to have ended.            *)
LinesInv ==
    \A t \in Texts, n \in Told :
        /\ IsStarted(n, t) \/ IsCompleted(n, t) => t \in carriedOut /\ ~Ended(t)
        /\ IsCompleted(n, t) =>
              /\ Heard(t)
              /\ \A m \in Told : /\ IsCompleted(m, t) => m = n
                                 /\ IsStarted(m, t) => m < n

(* A turn that runs, in one session, has not been told to have ended.       *)
RunsInv ==
    \A s \in Sessions, t \in Texts : server.running[s] = t =>
        /\ t \in carriedOut /\ ~Ended(t)
        /\ \A n \in Told : ~IsCompleted(n, t)
        /\ \A r \in Sessions : server.running[r] = t => r = s
        /\ client.state = "ready" => Heard(t)

(* What is remembered has ended, and what has ended had begun.              *)
EndedInv ==
    \A t \in Texts : /\ Remembered(t) => Ended(t)
                     /\ Ended(t) => t \in carriedOut

TurnLines == LinesInv /\ RunsInv /\ EndedInv

LEMMA TurnLinesInit == Init => TurnLines
<1> SUFFICES ASSUME Init
             PROVE  TurnLines
  OBVIOUS
<1>1. /\ stdout = <<>> /\ terminalTurns = <<>>
      /\ turnLog = [t \in Texts |-> <<>>]
      /\ \A s \in Sessions : server.running[s] = NoTurn
  BY DEF Init
<1> QED
  BY <1>1, AdapterAssumption
  DEF TurnLines, LinesInv, RunsInv, EndedInv, Ended, Told, Remembered

(* Lines that do not tell of turns.                                         *)
Plain == {"response", "status", "error", "approval"}

(* No turn begins and no end of a turn is read.                             *)
Steady ==
    /\ \A t \in Texts : Ended(t)' <=> Ended(t)
    /\ \A s \in Sessions : server'.running[s] \in {server.running[s], NoTurn}
    /\ terminalTurns' = terminalTurns /\ carriedOut' = carriedOut
    /\ client'.state = "ready" => client.state = "ready"

StillHeard ==
    \/ stdout' = <<>> /\ client'.state # "ready"
    \/ \A t \in Texts : Heard(t) => Heard(t)'

LEMMA TurnLinesKept ==
    ASSUME Types, TurnLines, NEW d \in {0, 1}, Comes(d, Plain), Steady, StillHeard
    PROVE  TurnLines'
<1>1. ASSUME NEW n \in 1 .. Len(stdout'), NEW t,
             IsStarted(n, t)' \/ IsCompleted(n, t)'
      PROVE  /\ n + d \in Told
             /\ IsStarted(n, t)' => IsStarted(n + d, t)
             /\ IsCompleted(n, t)' => IsCompleted(n + d, t)
  BY <1>1 DEF Comes, IsStarted, IsCompleted, Plain
<1>2. /\ LinesInv /\ RunsInv /\ EndedInv
      /\ \A t \in Texts : Ended(t)' <=> Ended(t)
      /\ \A s \in Sessions : server'.running[s] \in {server.running[s], NoTurn}
      /\ terminalTurns' = terminalTurns /\ carriedOut' = carriedOut
      /\ client'.state = "ready" => client.state = "ready"
  BY DEF TurnLines, Steady
<1>3. ASSUME NEW t \in Texts, NEW n \in 1 .. Len(stdout')
      PROVE  /\ (IsStarted(n, t) \/ IsCompleted(n, t))' => t \in carriedOut' /\ ~Ended(t)'
             /\ IsCompleted(n, t)' =>
                   /\ Heard(t)'
                   /\ \A m \in 1 .. Len(stdout') :
                         /\ IsCompleted(m, t)' => m = n
                         /\ IsStarted(m, t)' => m < n
  <2>1. (IsStarted(n, t) \/ IsCompleted(n, t))' => t \in carriedOut' /\ ~Ended(t)'
    BY <1>1, <1>2 DEF LinesInv
  <2>2. ASSUME IsCompleted(n, t)'
        PROVE  Heard(t)'
    <3>1. n + d \in Told /\ IsCompleted(n + d, t)
      BY <1>1, <2>2
    <3>2. Heard(t) /\ stdout' # <<>>
      BY <1>2, <3>1 DEF LinesInv
    <3> QED
      BY <3>2 DEF StillHeard
  <2>3. ASSUME IsCompleted(n, t)', NEW m \in 1 .. Len(stdout')
        PROVE  /\ IsCompleted(m, t)' => m = n
               /\ IsStarted(m, t)' => m < n
    <3>1. n + d \in Told /\ IsCompleted(n + d, t)
      BY <1>1, <2>3
    <3>2. CASE IsCompleted(m, t)'
      <4>1. m + d = n + d
        BY <1>1, <1>2, <3>1, <3>2 DEF LinesInv
      <4> QED
        BY <3>2, <4>1 DEF IsStarted, IsCompleted
    <3>3. CASE IsStarted(m, t)'
      <4>1. m + d < n + d
        BY <1>1, <1>2, <3>1, <3>3 DEF LinesInv
      <4> QED
        BY <3>3, <4>1 DEF IsStarted, IsCompleted
    <3> QED
      BY <3>2, <3>3
  <2> QED
    BY <2>1, <2>2, <2>3
<1>4. LinesInv'
  BY <1>3 DEF LinesInv, Told
<1>5. ASSUME NEW s \in Sessions, NEW t \in Texts, server'.running[s] = t
      PROVE  /\ t \in carriedOut' /\ ~Ended(t)'
             /\ \A n \in 1 .. Len(stdout') : ~IsCompleted(n, t)'
             /\ \A r \in Sessions : server'.running[r] = t => r = s
             /\ client'.state = "ready" => Heard(t)'
  <2>1. \A r \in Sessions : server'.running[r] = t => server.running[r] = t
    BY <1>2, AdapterAssumption
  <2>2. /\ t \in carriedOut /\ ~Ended(t)
        /\ \A n \in Told : ~IsCompleted(n, t)
        /\ \A r \in Sessions : server.running[r] = t => r = s
        /\ client.state = "ready" => Heard(t)
    BY <1>2, <1>5, <2>1 DEF RunsInv
  <2>3. \A n \in 1 .. Len(stdout') : ~IsCompleted(n, t)'
    BY <1>1, <2>2
  <2>4. client'.state = "ready" => Heard(t)'
    BY <1>2, <2>2 DEF StillHeard
  <2> QED
    BY <1>2, <2>1, <2>2, <2>3, <2>4
<1>6. RunsInv'
  BY <1>5 DEF RunsInv, Told
<1>7. EndedInv'
  BY <1>2 DEF EndedInv, Remembered
<1> QED
  BY <1>4, <1>6, <1>7 DEF TurnLines

(* Nothing that the adapter publishes or remembers changes.                 *)
SameTurns == UNCHANGED <<turnLog, startedTurns, terminalTurns, carriedOut>>

Winds == \A s \in Sessions : server'.running[s] \in {server.running[s], NoTurn}

LEMMA HeardKept ==
    ASSUME NEW d \in {0, 1}, Goes(d, Plain), startedTurns \subseteq startedTurns'
    PROVE  \A t \in Texts : Heard(t) => Heard(t)'
BY DEF Heard, Goes, Plain, IsStarted, Told

LEMMA TurnLinesQuiet ==
    ASSUME Types, TurnLines, NEW d \in {0, 1}, Comes(d, Plain), Goes(d, Plain),
           SameTurns, Winds, client'.state = "ready" => client.state = "ready"
    PROVE  TurnLines'
<1>1. Steady
  BY DEF Steady, SameTurns, Winds, Ended
<1>2. StillHeard
  BY HeardKept DEF StillHeard, SameTurns
<1> QED
  BY <1>1, <1>2, TurnLinesKept

LEMMA TurnLinesDeaf ==
    ASSUME Types, TurnLines, stdout' = <<>>, client'.state # "ready", SameTurns, Winds
    PROVE  TurnLines'
<1>1. Steady
  BY DEF Steady, SameTurns, Winds, Ended
<1>2. StillHeard
  BY DEF StillHeard
<1>3. Comes(0, Plain)
  BY DEF Comes
<1> QED
  BY <1>1, <1>2, <1>3, TurnLinesKept

(* A turn that is marked as started has not ended by that.                  *)
LEMMA MarkedEnds ==
    ASSUME Types, NEW rs \in [Sessions -> ThreadRecords], NEW s \in Sessions,
           NEW t \in Texts, MarkTurnStarted(rs, s, t)
    PROVE  /\ \A u \in Texts : Ended(u)' <=> Ended(u)
           /\ startedTurns \subseteq startedTurns'
           /\ ~Remembered(t) => t \in startedTurns'
<1>1. turnLog \in [Texts -> Seq({"started", "completed"})]
  BY DEF Types
<1>2. PICK z : z = Append(turnLog[t], "started")
  OBVIOUS
<1>3. \A u \in Texts : turnLog'[u] = turnLog[u] \/ (u = t /\ turnLog'[u] = z)
  <2>1. turnLog' = turnLog \/ turnLog' = [turnLog EXCEPT ![t] = z]
    BY <1>2, MarkedTurn
  <2> QED
    BY <1>1, <2>1
<1>4. /\ Len(z) = Len(turnLog[t]) + 1 /\ Len(turnLog[t]) \in Nat
      /\ \A i \in 1 .. Len(turnLog[t]) : z[i] = turnLog[t][i]
      /\ z[Len(turnLog[t]) + 1] = "started"
  BY <1>1, <1>2
<1>5. ASSUME NEW i \in 1 .. Len(z), z[i] = "completed"
      PROVE  i \in 1 .. Len(turnLog[t]) /\ turnLog[t][i] = "completed"
  BY <1>4, <1>5
<1>6. ASSUME NEW i \in 1 .. Len(turnLog[t]), turnLog[t][i] = "completed"
      PROVE  i \in 1 .. Len(z) /\ z[i] = "completed"
  BY <1>4, <1>6
<1>7. \A u \in Texts : Ended(u)' <=> Ended(u)
  BY <1>3, <1>5, <1>6 DEF Ended
<1>8. startedTurns \subseteq startedTurns' /\ (~Remembered(t) => t \in startedTurns')
  BY MarkedTurn
<1> QED
  BY <1>7, <1>8

LEMMA TurnLinesReadStart ==
    ASSUME Types, TurnLines, ReadTurnStarted
    PROVE  TurnLines'
<1>1. PICK t : t = Line.turn
  OBVIOUS
<1>2. PICK s : s = Line.session
  OBVIOUS
<1>3. /\ Reading("started") /\ MarkTurnStarted(Recorded(s), s, t)
      /\ UNCHANGED <<client, terminalTurns, server, carriedOut>>
  BY <1>1, <1>2 DEF ReadTurnStarted, serverVars
<1>4. /\ Len(stdout) \in Nat \ {0} /\ Len(stdout') = Len(stdout) - 1
      /\ \A n \in 1 .. Len(stdout) - 1 : stdout'[n] = stdout[n + 1]
      /\ stdout[1].kind = "started" /\ stdout[1].turn = t
      /\ t \in Texts /\ s \in Sessions
  BY <1>1, <1>2, <1>3, ReadLine, LineFields
<1>5. Recorded(s) \in [Sessions -> ThreadRecords]
  BY <1>4, RecordedFields
<1>6. /\ \A u \in Texts : Ended(u)' <=> Ended(u)
      /\ startedTurns \subseteq startedTurns'
      /\ ~Remembered(t) => t \in startedTurns'
  BY <1>3, <1>4, <1>5, MarkedEnds
<1>7. t \in startedTurns'
  <2>1. 1 \in Told /\ IsStarted(1, t)
    BY <1>4 DEF Told, IsStarted
  <2>2. ~Ended(t) /\ (Remembered(t) => Ended(t))
    BY <1>4, <2>1 DEF TurnLines, LinesInv, EndedInv
  <2> QED
    BY <1>6, <2>2
<1>8. ASSUME NEW u \in Texts, NEW m \in Told, IsStarted(m, u)
      PROVE  Heard(u)'
  <2>1. CASE m = 1
    BY <1>4, <1>7, <1>8, <2>1 DEF Heard, IsStarted
  <2>2. CASE m # 1
    <3>1. m - 1 \in 1 .. Len(stdout') /\ m - 1 \in 1 .. Len(stdout) - 1 /\ (m - 1) + 1 = m
      BY <1>4, <2>2 DEF Told
    <3> QED
      BY <1>4, <1>8, <3>1 DEF Heard, IsStarted, Told
  <2> QED
    BY <2>1, <2>2
<1>9. StillHeard
  BY <1>6, <1>8 DEF StillHeard, Heard
<1>10. Steady
  BY <1>3, <1>6 DEF Steady
<1>11. Comes(1, Plain)
  BY <1>3, ReadMoves DEF Comes
<1> QED
  BY <1>9, <1>10, <1>11, TurnLinesKept

LEMMA TurnLinesGoOnStart ==
    ASSUME Types, TurnLines, GoOnStarted
    PROVE  TurnLines'
<1>1. PICK r : r = Outcome.request
  OBVIOUS
<1>2. /\ client.settled # <<>> /\ r.method = "turn/start" /\ stdout' = stdout
      /\ MarkTurnStarted(record, r.session, r.turn)
      /\ UNCHANGED <<terminalTurns, server, carriedOut>>
      /\ Finish("succeeded")
  BY <1>1 DEF GoOnStarted, Resolves, Settled, serverVars
<1>3. r.session \in Sessions /\ r.turn \in Texts /\ client'.state = client.state
  BY <1>1, <1>2, ConsumedOne, RequestFields, FinishTypes
<1>4. /\ \A u \in Texts : Ended(u)' <=> Ended(u)
      /\ startedTurns \subseteq startedTurns'
  BY <1>2, <1>3, MarkedEnds, TypeFacts
<1>5. Steady
  BY <1>2, <1>3, <1>4 DEF Steady
<1>6. Comes(0, Plain) /\ Goes(0, Plain)
  BY <1>2, SameMoves DEF Comes, Goes
<1>7. StillHeard
  BY <1>4, <1>6, HeardKept DEF StillHeard
<1> QED
  BY <1>5, <1>6, <1>7, TurnLinesKept

(* What #completeTurn() does to the turns.                                  *)
LEMMA CompletedTurn ==
    ASSUME Types, ReadTurnCompleted, NEW t, t = Line.turn
    PROVE  /\ Reading("completed") /\ t \in Texts /\ Line.session \in Sessions
           /\ Len(stdout) \in Nat \ {0} /\ Len(stdout') = Len(stdout) - 1
           /\ \A n \in 1 .. Len(stdout) - 1 : stdout'[n] = stdout[n + 1]
           /\ Line = stdout[1] /\ stdout[1].kind = "completed"
           /\ UNCHANGED <<server, carriedOut, bridge>>
           /\ client'.state = client.state
           /\ startedTurns' = startedTurns \ {t}
           /\ \A u \in Texts :
                 turnLog'[u] = IF u = t THEN Append(turnLog[t], "completed")
                               ELSE turnLog[u]
           /\ \A u \in Texts : Ended(u)' <=> (Ended(u) \/ u = t)
           /\ \A u \in Texts : Remembered(u)' => Remembered(u) \/ u = t
<1>1. /\ Reading("completed") /\ startedTurns' = startedTurns \ {t}
      /\ terminalTurns' = Remember(t)
      /\ turnLog' = [turnLog EXCEPT ![t] = Append(@, "completed")]
      /\ UNCHANGED <<server, carriedOut, bridge>>
  BY DEF ReadTurnCompleted, serverVars
<1>2. /\ Len(stdout) \in Nat \ {0} /\ Len(stdout') = Len(stdout) - 1
      /\ \A n \in 1 .. Len(stdout) - 1 : stdout'[n] = stdout[n + 1]
      /\ Line = stdout[1] /\ stdout[1].kind = "completed"
      /\ t \in Texts /\ Line.session \in Sessions
  BY <1>1, ReadLine, LineFields
<1>3. turnLog \in [Texts -> Seq({"started", "completed"})]
  BY DEF Types
<1>4. PICK z : z = Append(turnLog[t], "completed")
  OBVIOUS
<1>5. \A u \in Texts : turnLog'[u] = IF u = t THEN z ELSE turnLog[u]
  BY <1>1, <1>3, <1>4
<1>6. /\ Len(z) = Len(turnLog[t]) + 1 /\ Len(turnLog[t]) \in Nat
      /\ \A i \in 1 .. Len(turnLog[t]) : z[i] = turnLog[t][i]
      /\ z[Len(turnLog[t]) + 1] = "completed"
  BY <1>2, <1>3, <1>4
<1>7. Len(z) \in 1 .. Len(z) /\ z[Len(z)] = "completed"
  BY <1>6
<1>8. \A u \in Texts : Ended(u)' <=> (Ended(u) \/ u = t)
  BY <1>2, <1>5, <1>7 DEF Ended
<1>9. ASSUME NEW u \in Texts, Remembered(u)'
      PROVE  Remembered(u) \/ u = t
  <2>1. PICK i \in 1 .. Len(Remember(t)) : Remember(t)[i] = u
    BY <1>1, <1>9 DEF Remembered
  <2>2. terminalTurns \in Seq(Texts) /\ Len(terminalTurns) <= TerminalLimit
        /\ TerminalLimit \in Nat \ {0} /\ Len(terminalTurns) \in Nat
    BY <1>2, RememberedTurns, AdapterAssumption DEF Types
  <2>3. CASE Len(terminalTurns) < TerminalLimit
    <3>1. Remember(t) = Append(terminalTurns, t)
      BY <1>2, <2>3, RememberedTurns
    <3>2. i \in 1 .. Len(terminalTurns) + 1
      BY <1>2, <2>1, <2>2, <3>1
    <3>3. CASE i \in 1 .. Len(terminalTurns)
      BY <1>2, <2>1, <2>2, <3>1, <3>3 DEF Remembered
    <3>4. CASE i = Len(terminalTurns) + 1
      BY <1>2, <2>1, <2>2, <3>1, <3>4
    <3> QED
      BY <2>2, <3>2, <3>3, <3>4
  <2>4. CASE ~(Len(terminalTurns) < TerminalLimit)
    <3>1. /\ Len(Remember(t)) = TerminalLimit /\ Len(terminalTurns) = TerminalLimit
          /\ Remember(t)[Len(Remember(t))] = t
          /\ \A j \in 1 .. TerminalLimit - 1 : Remember(t)[j] = terminalTurns[j + 1]
      BY <1>2, <2>2, <2>4, RememberedTurns
    <3>2. CASE i = TerminalLimit
      BY <2>1, <3>1, <3>2
    <3>3. CASE i # TerminalLimit
      <4>1. i \in 1 .. TerminalLimit - 1 /\ i + 1 \in 1 .. Len(terminalTurns)
        BY <2>2, <3>1, <3>3
      <4> QED
        BY <2>1, <3>1, <4>1 DEF Remembered
    <3> QED
      BY <3>2, <3>3
  <2> QED
    BY <2>3, <2>4
<1>10. client'.state = client.state
  <2> DEFINE ended == {p \in approvals : p.session = Line.session /\ p.turn = t}
  <2>1. client' = RespondAll(ended, "cancel")
    BY DEF ReadTurnCompleted
  <2>2. /\ "cancel" \in Decisions /\ ended \in SUBSET PendingApprovals
        /\ IsFiniteSet(ended)
    BY FS_Subset DEF Types, Decisions
  <2> HIDE DEF ended
  <2> QED
    BY <2>1, <2>2, AnsweredAll
<1> QED
  BY <1>1, <1>2, <1>4, <1>5, <1>8, <1>9, <1>10

LEMMA TurnLinesReadEnd ==
    ASSUME Types, TurnLines, ReadTurnCompleted
    PROVE  TurnLines'
<1>1. PICK t : t = Line.turn
  OBVIOUS
<1>2. /\ Reading("completed") /\ t \in Texts
      /\ Len(stdout) \in Nat \ {0} /\ Len(stdout') = Len(stdout) - 1
      /\ \A n \in 1 .. Len(stdout) - 1 : stdout'[n] = stdout[n + 1]
      /\ stdout[1].kind = "completed" /\ stdout[1].turn = t
      /\ UNCHANGED <<server, carriedOut>> /\ client'.state = client.state
      /\ startedTurns' = startedTurns \ {t}
      /\ \A u \in Texts : Ended(u)' <=> (Ended(u) \/ u = t)
      /\ \A u \in Texts : Remembered(u)' => Remembered(u) \/ u = t
  BY <1>1, CompletedTurn
<1>3. LinesInv /\ RunsInv /\ EndedInv
  BY DEF TurnLines
<1>4. 1 \in Told /\ IsCompleted(1, t)
  BY <1>2 DEF Told, IsCompleted
<1>5. /\ t \in carriedOut
      /\ \A m \in Told : /\ IsCompleted(m, t) => m = 1
                         /\ ~IsStarted(m, t)
  <2>1. \A m \in Told : ~(m < 1)
    BY <1>2 DEF Told
  <2> QED
    BY <1>2, <1>3, <1>4, <2>1 DEF LinesInv
<1>6. ASSUME NEW n \in 1 .. Len(stdout')
      PROVE  /\ n + 1 \in Told /\ n + 1 # 1 /\ n \in Nat
             /\ \A u : /\ IsStarted(n, u)' <=> IsStarted(n + 1, u)
                       /\ IsCompleted(n, u)' <=> IsCompleted(n + 1, u)
  <2>1. n + 1 \in Told /\ n + 1 # 1 /\ n \in 1 .. Len(stdout) - 1 /\ n \in Nat
    BY <1>2 DEF Told
  <2> QED
    BY <1>2, <2>1 DEF IsStarted, IsCompleted
<1>7. ASSUME NEW u \in Texts, u # t, Heard(u)
      PROVE  Heard(u)'
  <2>1. CASE u \in startedTurns
    BY <1>2, <1>7, <2>1 DEF Heard
  <2>2. ASSUME NEW m \in Told, IsStarted(m, u)
        PROVE  Heard(u)'
    <3>1. m # 1
      BY <1>2, <2>2 DEF IsStarted
    <3>2. m - 1 \in 1 .. Len(stdout') /\ m - 1 \in 1 .. Len(stdout) - 1 /\ (m - 1) + 1 = m
      BY <1>2, <3>1 DEF Told
    <3> QED
      BY <1>2, <2>2, <3>2 DEF Heard, IsStarted, Told
  <2> QED
    BY <1>7, <2>1, <2>2 DEF Heard
<1>8. ASSUME NEW u \in Texts, NEW n \in 1 .. Len(stdout')
      PROVE  /\ (IsStarted(n, u) \/ IsCompleted(n, u))' => u \in carriedOut' /\ ~Ended(u)'
             /\ IsCompleted(n, u)' =>
                   /\ Heard(u)'
                   /\ \A m \in 1 .. Len(stdout') :
                         /\ IsCompleted(m, u)' => m = n
                         /\ IsStarted(m, u)' => m < n
  <2>1. IsStarted(n, u)' \/ IsCompleted(n, u)' => u # t
    BY <1>5, <1>6
  <2>2. (IsStarted(n, u) \/ IsCompleted(n, u))' => u \in carriedOut' /\ ~Ended(u)'
    BY <1>2, <1>3, <1>6, <2>1 DEF LinesInv
  <2>3. ASSUME IsCompleted(n, u)'
        PROVE  Heard(u)'
    BY <1>3, <1>6, <1>7, <2>1, <2>3 DEF LinesInv
  <2>4. ASSUME IsCompleted(n, u)', NEW m \in 1 .. Len(stdout')
        PROVE  /\ IsCompleted(m, u)' => m = n
               /\ IsStarted(m, u)' => m < n
    <3>1. n + 1 \in Told /\ IsCompleted(n + 1, u) /\ n \in Nat
      BY <1>6, <2>4
    <3>2. m + 1 \in Told /\ m \in Nat
      BY <1>6
    <3>3. IsCompleted(m, u)' => m + 1 = n + 1
      BY <1>3, <1>6, <3>1, <3>2 DEF LinesInv
    <3>4. IsStarted(m, u)' => m + 1 < n + 1
      BY <1>3, <1>6, <3>1, <3>2 DEF LinesInv
    <3>5. (m + 1 = n + 1 => m = n) /\ (m + 1 < n + 1 => m < n)
      BY <3>1, <3>2
    <3> QED
      BY <3>3, <3>4, <3>5
  <2> QED
    BY <2>2, <2>3, <2>4
<1>9. LinesInv'
  BY <1>8 DEF LinesInv, Told
<1>10. ASSUME NEW s \in Sessions, NEW u \in Texts, server'.running[s] = u
       PROVE  /\ u \in carriedOut' /\ ~Ended(u)'
              /\ \A n \in 1 .. Len(stdout') : ~IsCompleted(n, u)'
              /\ \A r \in Sessions : server'.running[r] = u => r = s
              /\ client'.state = "ready" => Heard(u)'
  <2>1. /\ u \in carriedOut /\ ~Ended(u)
        /\ \A n \in Told : ~IsCompleted(n, u)
        /\ \A r \in Sessions : server.running[r] = u => r = s
        /\ client.state = "ready" => Heard(u)
    BY <1>2, <1>3, <1>10 DEF RunsInv
  <2>2. u # t
    BY <1>4, <2>1
  <2>3. \A n \in 1 .. Len(stdout') : ~IsCompleted(n, u)'
    BY <1>6, <2>1
  <2> QED
    BY <1>2, <1>7, <2>1, <2>2, <2>3
<1>11. RunsInv'
  BY <1>10 DEF RunsInv, Told
<1>12. EndedInv'
  BY <1>2, <1>3, <1>5 DEF EndedInv
<1> QED
  BY <1>9, <1>11, <1>12 DEF TurnLines

(* A turn begins that nobody asked for before.                              *)
LEMMA TurnLinesStarts ==
    ASSUME Types, JobsInv, TurnLines, ServerStartsTurn
    PROVE  TurnLines'
<1>1. PICK r : r = Head(client.stdin).request
  OBVIOUS
<1>2. PICK t : t = r.turn
  OBVIOUS
<1>3. PICK s : s = r.session
  OBVIOUS
<1>4. PICK l : l = StartedLine(s, t)
  OBVIOUS
<1>5. /\ Serving("request") /\ t \in Texts /\ s \in Sessions /\ t = r.job
      /\ r.method = "turn/start" /\ server.running[s] = NoTurn
      /\ carriedOut' = carriedOut \cup {t}
      /\ server'.running = [server.running EXCEPT ![s] = t]
  BY <1>1, <1>2, <1>3, StartedServer
<1>6. /\ client.state = "ready" => Grown(l)
      /\ client.state # "ready" => stdout' = stdout
      /\ Goes(0, {})
  BY <1>1, <1>2, <1>3, <1>4, StartsMoves
<1>7. l.kind = "started" /\ l.turn = t
  BY <1>4 DEF StartedLine
<1>8. /\ client'.state = client.state
      /\ UNCHANGED <<turnLog, startedTurns, terminalTurns>>
  BY <1>5, TakenLine DEF Serving, bridgeVars, adapterVars, logVars
<1>9. t \notin carriedOut
  <2>1. 1 \in 1 .. Len(client.stdin) /\ AsksFor(1, t)
    BY <1>1, <1>5, TakenLine DEF AsksFor
  <2> QED
    BY <1>5, <2>1 DEF JobsInv, AskedOnce
<1>10. LinesInv /\ RunsInv /\ EndedInv
  BY DEF TurnLines
<1>11. /\ ~Ended(t)
       /\ \A n \in Told : ~IsStarted(n, t) /\ ~IsCompleted(n, t)
       /\ \A q \in Sessions : server.running[q] # t
  BY <1>5, <1>9, <1>10 DEF LinesInv, RunsInv, EndedInv
<1>12. ASSUME NEW n \in 1 .. Len(stdout'), NEW u
       PROVE  /\ IsCompleted(n, u)' => n \in Told /\ IsCompleted(n, u)
              /\ IsStarted(n, u)' => u = t \/ (n \in Told /\ IsStarted(n, u))
  <2>1. \/ n \in Told /\ stdout'[n] = stdout[n]
        \/ stdout'[n].kind \in Quiet \/ stdout'[n] = l
    BY <1>6, SaidEnd
  <2> QED
    BY <1>7, <2>1 DEF IsStarted, IsCompleted, Quiet
<1>13. \A u \in Texts : Heard(u) => Heard(u)'
  <2>1. Goes(0, Plain) /\ startedTurns \subseteq startedTurns'
    BY <1>6, <1>8 DEF Goes
  <2> QED
    BY <2>1, HeardKept
<1>14. client.state = "ready" => Heard(t)'
  <2>1. ASSUME Grown(l)
        PROVE  Heard(t)'
    <3>1. Len(stdout') \in 1 .. Len(stdout') /\ stdout'[Len(stdout')] = l
      BY <2>1, TypeFacts DEF Grown
    <3> QED
      BY <1>7, <3>1 DEF Heard, IsStarted, Told
  <2> QED
    BY <1>6, <2>1
<1>15. \A u \in Texts : Ended(u)' <=> Ended(u)
  BY <1>8 DEF Ended
<1>16. ASSUME NEW u \in Texts, NEW n \in 1 .. Len(stdout')
       PROVE  /\ (IsStarted(n, u) \/ IsCompleted(n, u))' => u \in carriedOut' /\ ~Ended(u)'
              /\ IsCompleted(n, u)' =>
                    /\ Heard(u)'
                    /\ \A m \in 1 .. Len(stdout') :
                          /\ IsCompleted(m, u)' => m = n
                          /\ IsStarted(m, u)' => m < n
  <2>1. CASE u = t
    BY <1>5, <1>11, <1>12, <1>15, <2>1
  <2>2. CASE u # t
    <3>1. /\ IsCompleted(n, u)' => n \in Told /\ IsCompleted(n, u)
          /\ IsStarted(n, u)' => n \in Told /\ IsStarted(n, u)
      BY <1>12, <2>2
    <3>2. (IsStarted(n, u) \/ IsCompleted(n, u))' => u \in carriedOut' /\ ~Ended(u)'
      BY <1>5, <1>10, <1>15, <3>1 DEF LinesInv
    <3>3. IsCompleted(n, u)' => Heard(u)'
      BY <1>10, <1>13, <3>1 DEF LinesInv
    <3>4. ASSUME IsCompleted(n, u)', NEW m \in 1 .. Len(stdout')
          PROVE  /\ IsCompleted(m, u)' => m = n
                 /\ IsStarted(m, u)' => m < n
      BY <1>10, <1>12, <2>2, <3>1, <3>4 DEF LinesInv
    <3> QED
      BY <3>2, <3>3, <3>4
  <2> QED
    BY <2>1, <2>2
<1>17. LinesInv'
  BY <1>16 DEF LinesInv, Told
<1>18. ASSUME NEW q \in Sessions, NEW u \in Texts, server'.running[q] = u
       PROVE  /\ u \in carriedOut' /\ ~Ended(u)'
              /\ \A n \in 1 .. Len(stdout') : ~IsCompleted(n, u)'
              /\ \A p \in Sessions : server'.running[p] = u => p = q
              /\ client'.state = "ready" => Heard(u)'
  <2>1. server.running \in [Sessions -> Turns]
    BY DEF Types, Servers
  <2>2. \A p \in Sessions : server'.running[p] = IF p = s THEN t ELSE server.running[p]
    BY <1>5, <2>1
  <2>3. CASE u = t
    <3>1. \A n \in 1 .. Len(stdout') : ~IsCompleted(n, u)'
      BY <1>11, <1>12, <2>3
    <3>2. \A p \in Sessions : server'.running[p] = u => p = s
      BY <1>11, <2>2, <2>3
    <3> QED
      BY <1>5, <1>8, <1>11, <1>14, <1>15, <1>18, <2>3, <3>1, <3>2
  <2>4. CASE u # t
    <3>1. server.running[q] = u
      BY <1>18, <2>2, <2>4
    <3>2. /\ u \in carriedOut /\ ~Ended(u)
          /\ \A n \in Told : ~IsCompleted(n, u)
          /\ \A p \in Sessions : server.running[p] = u => p = q
          /\ client.state = "ready" => Heard(u)
      BY <1>10, <3>1 DEF RunsInv
    <3>3. \A n \in 1 .. Len(stdout') : ~IsCompleted(n, u)'
      BY <1>12, <3>2
    <3>4. \A p \in Sessions : server'.running[p] = u => p = q
      BY <2>2, <2>4, <3>2
    <3> QED
      BY <1>5, <1>8, <1>13, <1>15, <3>2, <3>3, <3>4
  <2> QED
    BY <2>3, <2>4
<1>19. RunsInv'
  BY <1>18 DEF RunsInv, Told
<1>20. EndedInv'
  BY <1>5, <1>8, <1>10, <1>15 DEF EndedInv, Remembered
<1> QED
  BY <1>17, <1>19, <1>20 DEF TurnLines

(* The turn that s runs ends, and its end is written.                       *)
LEMMA TurnLinesOver ==
    ASSUME Types, TurnLines, NEW s \in Sessions, NEW t \in Texts,
           server.running[s] = t, server' = TurnOver(s),
           NEW f, client.state = "ready" => Grown(CompletedLine(s, f)),
           client.state # "ready" => stdout' = stdout,
           SameTurns, client'.state = client.state
    PROVE  TurnLines'
<1>1. server.running \in [Sessions -> Turns]
  BY DEF Types, Servers
<1>2. \A p \in Sessions : server'.running[p] = IF p = s THEN NoTurn ELSE server.running[p]
  BY <1>1, TurnOverFields
<1>3. Winds
  BY <1>2 DEF Winds
<1>4. CASE client.state # "ready"
  <2>1. Comes(0, Plain) /\ Goes(0, Plain)
    BY <1>4, SameMoves DEF Comes, Goes
  <2> QED
    BY <1>3, <2>1, TurnLinesQuiet
<1>5. CASE client.state = "ready"
  <2>1. PICK l : l = CompletedLine(s, f)
    OBVIOUS
  <2>2. l.kind = "completed" /\ l.turn = t
    BY <2>1 DEF CompletedLine
  <2>3. PICK k : k = Len(stdout')
    OBVIOUS
  <2>4. /\ k \in Nat /\ Len(stdout) < k /\ stdout'[k] = l
        /\ \A n \in 1 .. k - 1 : \/ n \in Told /\ stdout'[n] = stdout[n]
                                 \/ stdout'[n].kind \in Quiet
        /\ \A n \in Told : n \in 1 .. k - 1 /\ stdout'[n] = stdout[n]
    BY <1>5, <2>1, <2>3 DEF Grown
  <2>5. LinesInv /\ RunsInv /\ EndedInv
    BY DEF TurnLines
  <2>6. /\ t \in carriedOut /\ ~Ended(t) /\ Heard(t)
        /\ \A n \in Told : ~IsCompleted(n, t)
        /\ \A p \in Sessions : server.running[p] = t => p = s
    BY <1>5, <2>5 DEF RunsInv
  <2>7. ASSUME NEW n \in 1 .. k, NEW u
        PROVE  /\ IsStarted(n, u)' => n \in Told /\ IsStarted(n, u) /\ n < k
               /\ IsCompleted(n, u)' => \/ n \in Told /\ IsCompleted(n, u)
                                        \/ n = k /\ u = t
    <3>1. CASE n = k
      BY <2>2, <2>4, <3>1 DEF IsStarted, IsCompleted
    <3>2. CASE n # k
      <4>1. n \in 1 .. k - 1 /\ n < k
        BY <2>4, <3>2
      <4> QED
        BY <2>4, <4>1 DEF IsStarted, IsCompleted, Quiet
    <3> QED
      BY <3>1, <3>2
  <2>8. ASSUME NEW u \in Texts, Heard(u)
        PROVE  Heard(u)'
    BY <2>3, <2>4, <2>8 DEF Heard, IsStarted, Told, SameTurns
  <2>9. \A u \in Texts : Ended(u)' <=> Ended(u)
    BY DEF Ended, SameTurns
  <2>10. carriedOut' = carriedOut
    BY DEF SameTurns
  <2>11. ASSUME NEW u \in Texts, NEW n \in 1 .. k
         PROVE  /\ (IsStarted(n, u) \/ IsCompleted(n, u))' => u \in carriedOut' /\ ~Ended(u)'
                /\ IsCompleted(n, u)' =>
                      /\ Heard(u)'
                      /\ \A m \in 1 .. k :
                            /\ IsCompleted(m, u)' => m = n
                            /\ IsStarted(m, u)' => m < n
    <3>1. CASE u = t
      <4>1. \A m \in 1 .. k : IsCompleted(m, u)' => m = k
        BY <2>6, <2>7, <3>1
      <4> QED
        BY <2>6, <2>7, <2>8, <2>9, <2>10, <3>1, <4>1
    <3>2. CASE u # t
      <4>1. \A m \in 1 .. k : /\ IsStarted(m, u)' => m \in Told /\ IsStarted(m, u)
                              /\ IsCompleted(m, u)' => m \in Told /\ IsCompleted(m, u)
        BY <2>7, <3>2
      <4>2. (IsStarted(n, u) \/ IsCompleted(n, u))' => u \in carriedOut' /\ ~Ended(u)'
        BY <2>5, <2>9, <2>10, <4>1 DEF LinesInv
      <4>3. IsCompleted(n, u)' => Heard(u)'
        BY <2>5, <2>8, <4>1 DEF LinesInv
      <4>4. ASSUME IsCompleted(n, u)', NEW m \in 1 .. k
            PROVE  /\ IsCompleted(m, u)' => m = n
                   /\ IsStarted(m, u)' => m < n
        BY <2>5, <4>1, <4>4 DEF LinesInv
      <4> QED
        BY <4>2, <4>3, <4>4
    <3> QED
      BY <3>1, <3>2
  <2>12. LinesInv'
    BY <2>3, <2>11 DEF LinesInv, Told
  <2>13. ASSUME NEW q \in Sessions, NEW u \in Texts, server'.running[q] = u
         PROVE  /\ u \in carriedOut' /\ ~Ended(u)'
                /\ \A n \in 1 .. k : ~IsCompleted(n, u)'
                /\ \A p \in Sessions : server'.running[p] = u => p = q
                /\ client'.state = "ready" => Heard(u)'
    <3>1. q # s /\ server.running[q] = u
      BY <1>2, <2>13, AdapterAssumption
    <3>2. /\ u \in carriedOut /\ ~Ended(u)
          /\ \A n \in Told : ~IsCompleted(n, u)
          /\ \A p \in Sessions : server.running[p] = u => p = q
          /\ client.state = "ready" => Heard(u)
      BY <2>5, <3>1 DEF RunsInv
    <3>3. u # t
      BY <2>6, <3>1
    <3>4. \A n \in 1 .. k : ~IsCompleted(n, u)'
      BY <2>7, <3>2, <3>3
    <3>5. \A p \in Sessions : server'.running[p] = u => p = q
      BY <1>2, <3>2, AdapterAssumption
    <3> QED
      BY <2>8, <2>9, <2>10, <3>2, <3>4, <3>5
  <2>14. RunsInv'
    BY <2>3, <2>13 DEF RunsInv, Told
  <2>15. EndedInv'
    BY <2>5, <2>9, <2>10 DEF EndedInv, Remembered, SameTurns
  <2> QED
    BY <2>12, <2>14, <2>15 DEF TurnLines
<1> QED
  BY <1>4, <1>5

(* What leaves the turns alone.                                             *)
LEMMA TurnsLeft ==
    ASSUME Types, ApprovalLines,
           \/ UNCHANGED vars
           \/ ReadResponse \/ ReadStatus \/ ReadError \/ ReadApprovalRequest
           \/ GoOnRejected \/ GoOnOpened \/ GoOnLoaded \/ GoOnInterrupted
           \/ TimeOut \/ LineTooLong \/ NoticeExit \/ Shutdown
           \/ \E s \in Sessions : CallsOn(s)
           \/ \E p \in approvals : RespondToApproval(p) \/ Expire(p)
    PROVE  SameTurns /\ UNCHANGED server
<1>1. CASE \E s \in Sessions : CallsOn(s)
  BY <1>1 DEF CallsOn, SubmitText, ResumeSession, StartSession, Interrupt, Ask,
     SameTurns, adapterVars, serverVars, logVars
<1>2. CASE \/ UNCHANGED vars
           \/ ReadResponse \/ ReadStatus \/ ReadError \/ ReadApprovalRequest
  BY <1>2 DEF ReadResponse, ReadStatus, ReadError, ReadApprovalRequest,
     SameTurns, vars, adapterVars, serverVars, logVars
<1>3. CASE GoOnRejected \/ GoOnOpened \/ GoOnLoaded \/ GoOnInterrupted
  BY <1>3 DEF GoOnRejected, GoOnOpened, GoOnLoaded, GoOnInterrupted,
     SameTurns, adapterVars, serverVars, logVars
<1>4. CASE \/ TimeOut \/ LineTooLong \/ NoticeExit \/ Shutdown
           \/ \E p \in approvals : RespondToApproval(p) \/ Expire(p)
  BY <1>4 DEF TimeOut, LineTooLong, NoticeExit, Shutdown, RespondToApproval, Expire,
     SameTurns, adapterVars, serverVars, logVars
<1> QED
  BY <1>1, <1>2, <1>3, <1>4

(* What the app-server does leaves what is published alone.                 *)
LEMMA ServerSilence ==
    ASSUME Types,
           \/ ServerRefuses \/ ServerOpens \/ ServerStartsTurn
           \/ ServerInterrupts \/ ServerTakesAnswer
           \/ \E s \in Sessions, a \in Approvals : ServerAsks(a, s)
           \/ \E s \in Sessions : ServerEndsTurn(s) \/ ServerNotifies(s)
           \/ \E r \in server.owed : ServerAnswersTurn(r)
           \/ ServerDies
    PROVE  /\ UNCHANGED <<turnLog, startedTurns, terminalTurns>>
           /\ ServerStartsTurn \/ SameTurns
<1>1. UNCHANGED <<turnLog, startedTurns, terminalTurns>>
  BY ServerLeaves DEF Serves, bridgeVars, adapterVars, logVars
<1>2. ServerStartsTurn \/ carriedOut' = carriedOut
  BY DEF ServerRefuses, ServerOpens, ServerInterrupts, ServerTakesAnswer,
     ServerAsks, ServerEndsTurn, ServerNotifies, ServerAnswersTurn, ServerDies
<1> QED
  BY <1>1, <1>2 DEF SameTurns

LEMMA TurnLinesStep ==
    ASSUME Types, ApprovalLines, JobsInv, TurnLines, [Next]_vars
    PROVE  TurnLines'
<1>1. ASSUME stdout' = stdout, SameTurns, Winds,
             client'.state = "ready" => client.state = "ready"
      PROVE  TurnLines'
  <2>1. Comes(0, Plain) /\ Goes(0, Plain)
    BY <1>1, SameMoves DEF Comes, Goes
  <2> QED
    BY <1>1, <2>1, TurnLinesQuiet
<1>2. server' = server => Winds
  BY DEF Winds
<1>3. CASE UNCHANGED vars
  BY <1>1, <1>2, <1>3, TurnsLeft DEF vars
<1>4. CASE ReadResponse \/ ReadStatus \/ ReadError \/ ReadApprovalRequest
  <2>1. PICK kind \in Plain : Reading(kind)
    BY <1>4 DEF ReadResponse, ReadStatus, ReadError, ReadApprovalRequest, Plain
  <2>2. Comes(1, {}) /\ Goes(1, {kind}) /\ client.state = "ready"
    BY <2>1, ReadMoves, ReadLine
  <2>3. Comes(1, Plain) /\ Goes(1, Plain)
    BY <2>1, <2>2 DEF Comes, Goes
  <2>4. SameTurns /\ Winds
    BY <1>2, <1>4, TurnsLeft
  <2> QED
    BY <2>2, <2>3, <2>4, TurnLinesQuiet
<1>5. CASE ReadTurnStarted \/ ReadTurnCompleted \/ GoOnStarted
  BY <1>5, TurnLinesReadStart, TurnLinesReadEnd, TurnLinesGoOnStart
<1>6. CASE GoOnRejected \/ GoOnOpened \/ GoOnLoaded \/ GoOnInterrupted
  <2>1. SameTurns /\ Winds
    BY <1>2, <1>6, TurnsLeft
  <2>2. stdout' = stdout /\ client'.state = client.state
    BY <1>6, GoOnKeeps DEF GoesOn, Keeps
  <2> QED
    BY <1>1, <2>1, <2>2
<1>7. CASE TimeOut \/ \E s \in Sessions : CallsOn(s)
  <2>1. SameTurns /\ Winds
    BY <1>2, <1>7, TurnsLeft
  <2>2. stdout' = stdout /\ client'.state = client.state
    BY <1>7, TimeOutKeeps, CallKeeps DEF Keeps
  <2> QED
    BY <1>1, <2>1, <2>2
<1>8. CASE LineTooLong \/ NoticeExit \/ Shutdown
  <2>1. SameTurns /\ Winds
    BY <1>2, <1>8, TurnsLeft
  <2>2. Deafens \/ UNCHANGED <<client, stdout>>
    BY <1>8, ClientFails, ShutdownLeaves
  <2> QED
    BY <1>1, <2>1, <2>2, TurnLinesDeaf DEF Deafens
<1>9. CASE \E p \in approvals : RespondToApproval(p) \/ Expire(p)
  <2>1. SameTurns /\ Winds
    BY <1>2, <1>9, TurnsLeft
  <2>2. stdout' = stdout /\ client'.state = client.state
    BY <1>9, OneLeaves DEF Keeps
  <2> QED
    BY <1>1, <2>1, <2>2
<1>10. ASSUME NEW l \in OutLines, l.kind \in Plain, Say(<<l>>), SameTurns, Winds,
              client'.state = client.state
       PROVE  TurnLines'
  <2>1. Comes(0, {l.kind}) /\ Goes(0, {})
    BY <1>10, OneLine
  <2>2. Comes(0, Plain) /\ Goes(0, Plain)
    BY <1>10, <2>1 DEF Comes, Goes
  <2> QED
    BY <1>10, <2>2, TurnLinesQuiet
<1>11. CASE \/ ServerRefuses \/ ServerOpens
            \/ \E r \in server.owed : ServerAnswersTurn(r)
            \/ \E s \in Sessions : ServerNotifies(s)
  <2>1. PICK l \in OutLines : l.kind \in Quiet /\ Say(<<l>>)
    BY <1>11, QuietMoves
  <2>2. client'.state = client.state
    BY <1>11, ServerLeaves DEF Serves
  <2>3. SameTurns
    BY <1>11, ServerSilence
       DEF ServerRefuses, ServerOpens, ServerAnswersTurn, ServerNotifies, SameTurns
  <2>4. server'.running = server.running
    BY <1>11, OpenedServer, PaidServer DEF ServerRefuses, ServerNotifies
  <2> QED
    BY <1>10, <2>1, <2>2, <2>3, <2>4 DEF Winds, Quiet, Plain
<1>12. ASSUME NEW s \in Sessions, NEW a \in Approvals, ServerAsks(a, s)
       PROVE  TurnLines'
  <2>1. PICK l : l = ApprovalLine(a, s)
    OBVIOUS
  <2>2. /\ l \in OutLines /\ Say(<<l>>) /\ server'.running = server.running
    BY <1>12, <2>1, AskingServer
  <2>3. l.kind = "approval"
    BY <2>1 DEF ApprovalLine
  <2>4. client'.state = client.state
    BY <1>12, ServerLeaves
  <2>5. SameTurns
    BY <1>12, ServerSilence DEF ServerAsks, SameTurns
  <2> QED
    BY <1>10, <2>2, <2>3, <2>4, <2>5 DEF Winds, Plain
<1>13. CASE ServerStartsTurn
  BY <1>13, TurnLinesStarts
<1>14. CASE ServerTakesAnswer
  <2>1. stdout' = stdout /\ carriedOut' = carriedOut
    BY <1>14 DEF ServerTakesAnswer
  <2>2. server'.running = server.running
    BY <1>14, AnsweredServer
  <2>3. client'.state = client.state
    BY <1>14, ServerLeaves DEF Serves
  <2>4. SameTurns
    BY <1>14, <2>1, ServerSilence DEF SameTurns
  <2> QED
    BY <1>1, <2>1, <2>2, <2>3, <2>4 DEF Winds
<1>15. CASE ServerDies
  <2>1. stdout' = stdout /\ carriedOut' = carriedOut
    BY <1>15 DEF ServerDies
  <2>2. server'.running = [s \in Sessions |-> NoTurn]
    BY <1>15, DeadServer
  <2>3. client'.state = client.state
    BY <1>15, ServerLeaves
  <2>4. SameTurns
    BY <1>15, <2>1, ServerSilence DEF SameTurns
  <2> QED
    BY <1>1, <2>1, <2>2, <2>3, <2>4 DEF Winds
<1>16. CASE ServerInterrupts
  <2>1. PICK r : r = Head(client.stdin).request
    OBVIOUS
  <2>2. /\ r.session \in Sessions /\ r.turn \in Texts
        /\ server.running[r.session] = r.turn /\ server' = TurnOver(r.session)
    BY <1>16, <2>1, InterruptedServer
  <2>3. /\ client.state = "ready" => Grown(CompletedLine(r.session, FALSE))
        /\ client.state # "ready" => stdout' = stdout
    BY <1>16, <2>1, InterruptsMoves
  <2>4. client'.state = client.state
    BY <1>16, ServerLeaves DEF Serves
  <2>5. carriedOut' = carriedOut
    BY <1>16 DEF ServerInterrupts
  <2>6. SameTurns
    BY <1>16, <2>5, ServerSilence DEF SameTurns
  <2> QED
    BY <2>2, <2>3, <2>4, <2>6, TurnLinesOver
<1>17. ASSUME NEW s \in Sessions, ServerEndsTurn(s)
       PROVE  TurnLines'
  <2>1. /\ server.running[s] \in Texts /\ server' = TurnOver(s)
        /\ carriedOut' = carriedOut
    BY <1>17, TypeFacts DEF ServerEndsTurn, Turns
  <2>2. /\ client.state = "ready" =>
              \E failed \in BOOLEAN : Grown(CompletedLine(s, failed))
        /\ client.state # "ready" => stdout' = stdout
    BY <1>17, EndsMoves
  <2>3. PICK f : client.state = "ready" => Grown(CompletedLine(s, f))
    BY <2>2
  <2>4. client'.state = client.state
    BY <1>17, ServerLeaves
  <2>5. SameTurns
    BY <1>17, <2>1, ServerSilence DEF SameTurns
  <2> QED
    BY <2>1, <2>2, <2>3, <2>4, <2>5, TurnLinesOver
<1> QED
  BY <1>3, <1>4, <1>5, <1>6, <1>7, <1>8, <1>9, <1>11, <1>12, <1>13, <1>14, <1>15,
     <1>16, <1>17 DEF Next, Reads, GoesOn, Serves

-----------------------------------------------------------------------------
(* What is published of a turn. *)

(* The code that awaited turn/start goes on while the end of its turn, if   *)
(* the turn has ended, is still among the TerminalLimit that are            *)
(* remembered.                                                              *)
Timely ==
    \A i \in 1 .. Len(client.settled) :
        (/\ client.settled[i].ok /\ client.settled[i].request.method = "turn/start"
         /\ Ended(client.settled[i].request.turn))
        => Remembered(client.settled[i].request.turn)

(* A turn is among startedTurns between its two events.                     *)
Published ==
    \A t \in Texts :
        \/ turnLog[t] = <<>> /\ t \notin startedTurns
        \/ turnLog[t] = <<"started">> /\ t \in startedTurns
        \/ turnLog[t] = <<"started", "completed">> /\ t \notin startedTurns

LEMMA PublishedInit == Init => Published
BY DEF Init, Published

LEMMA AppendTwo ==
    ASSUME NEW S, NEW x \in S, NEW y \in S
    PROVE  Append(<<x>>, y) = <<x, y>>
<1>1. PICK a : a = <<x>>
  OBVIOUS
<1>2. PICK b : b = <<x, y>>
  OBVIOUS
<1>3. PICK c : c = Append(a, y)
  OBVIOUS
<1>4. a \in Seq(S) /\ Len(a) = 1 /\ a[1] = x
  BY <1>1
<1>5. b \in Seq(S) /\ Len(b) = 2 /\ b[1] = x /\ b[2] = y
  BY <1>2
<1>6. c \in Seq(S) /\ Len(c) = 2 /\ c[1] = x /\ c[2] = y
  <2>1. /\ c \in Seq(S) /\ Len(c) = Len(a) + 1
        /\ \A i \in 1 .. Len(a) : c[i] = a[i]
        /\ c[Len(a) + 1] = y
    <3>1. /\ Append(a, y) \in Seq(S) /\ Len(Append(a, y)) = Len(a) + 1
          /\ \A i \in 1 .. Len(a) : Append(a, y)[i] = a[i]
          /\ Append(a, y)[Len(a) + 1] = y
      BY <1>4, AppendProperties
    <3> QED
      BY <1>3, <3>1
  <2> QED
    BY <1>4, <2>1
<1>7. \A i \in 1 .. 2 : i = 1 \/ i = 2
  OBVIOUS
<1>8. c = b
  BY <1>5, <1>6, <1>7, SeqEqual
<1> QED
  BY <1>1, <1>2, <1>3, <1>8

LEMMA TurnLogs ==
    /\ Append(<<>>, "started") = <<"started">>
    /\ Append(<<"started">>, "completed") = <<"started", "completed">>
    /\ \A t \in Texts : turnLog[t] = <<"started", "completed">> => Ended(t)
<1>1. ASSUME NEW t \in Texts, turnLog[t] = <<"started", "completed">>
      PROVE  Ended(t)
  <2>1. 2 \in 1 .. Len(turnLog[t]) /\ turnLog[t][2] = "completed"
    BY <1>1
  <2> QED
    BY <2>1 DEF Ended
<1>2. Append(<<>>, "started") = <<"started">>
  OBVIOUS
<1>3. Append(<<"started">>, "completed") = <<"started", "completed">>
  <2>1. PICK S : S = {"started", "completed"}
    OBVIOUS
  <2>2. "started" \in S /\ "completed" \in S
    BY <2>1
  <2> QED
    BY <2>2, AppendTwo
<1> QED
  BY <1>1, <1>2, <1>3

LEMMA PublishedMarked ==
    ASSUME Types, Published, NEW rs \in [Sessions -> ThreadRecords], NEW s \in Sessions,
           NEW t \in Texts, MarkTurnStarted(rs, s, t), Ended(t) => Remembered(t)
    PROVE  Published'
<1>1. CASE Remembered(t)
  <2>1. turnLog' = turnLog /\ startedTurns' = startedTurns
    BY <1>1, MarkedTurn
  <2> QED
    BY <2>1 DEF Published
<1>2. CASE ~Remembered(t)
  <2>1. /\ startedTurns' = startedTurns \cup {t}
        /\ turnLog' = IF t \in startedTurns THEN turnLog
                      ELSE [turnLog EXCEPT ![t] = Append(@, "started")]
        /\ turnLog \in [Texts -> Seq({"started", "completed"})]
    BY <1>2, MarkedTurn DEF Types
  <2>2. turnLog[t] # <<"started", "completed">>
    BY <1>2, TurnLogs
  <2>3. CASE t \in startedTurns
    BY <2>1, <2>3 DEF Published
  <2>4. CASE t \notin startedTurns
    <3>1. turnLog[t] = <<>>
      BY <2>2, <2>4 DEF Published
    <3>2. turnLog' = [turnLog EXCEPT ![t] = <<"started">>]
      BY <2>1, <2>4, <3>1, TurnLogs
    <3>3. ASSUME NEW u \in Texts
          PROVE  \/ turnLog'[u] = <<>> /\ u \notin startedTurns'
                 \/ turnLog'[u] = <<"started">> /\ u \in startedTurns'
                 \/ turnLog'[u] = <<"started", "completed">> /\ u \notin startedTurns'
      <4>1. CASE u = t
        BY <2>1, <3>2, <4>1
      <4>2. CASE u # t
        <5>1. turnLog'[u] = turnLog[u] /\ (u \in startedTurns' <=> u \in startedTurns)
          BY <2>1, <3>2, <4>2
        <5> QED
          BY <5>1 DEF Published
      <4> QED
        BY <4>1, <4>2
    <3> QED
      BY <3>3 DEF Published
  <2> QED
    BY <2>3, <2>4
<1> QED
  BY <1>1, <1>2

LEMMA PublishedReadEnd ==
    ASSUME Types, TurnLines, Published, ReadTurnCompleted
    PROVE  Published'
<1>1. PICK t : t = Line.turn
  OBVIOUS
<1>2. /\ t \in Texts /\ Len(stdout) \in Nat \ {0}
      /\ Line = stdout[1] /\ stdout[1].kind = "completed"
      /\ startedTurns' = startedTurns \ {t}
      /\ \A u \in Texts :
            turnLog'[u] = IF u = t THEN Append(turnLog[t], "completed") ELSE turnLog[u]
  BY <1>1, CompletedTurn
<1>3. 1 \in Told /\ IsCompleted(1, t) /\ \A m \in Told : ~(m < 1)
  BY <1>1, <1>2 DEF Told, IsCompleted
<1>4. ~Ended(t) /\ t \in startedTurns
  BY <1>2, <1>3 DEF TurnLines, LinesInv, Heard
<1>5. turnLog[t] = <<"started">>
  BY <1>2, <1>4, TurnLogs DEF Published
<1>6. turnLog'[t] = <<"started", "completed">>
  BY <1>2, <1>5, TurnLogs
<1>7. ASSUME NEW u \in Texts
      PROVE  \/ turnLog'[u] = <<>> /\ u \notin startedTurns'
             \/ turnLog'[u] = <<"started">> /\ u \in startedTurns'
             \/ turnLog'[u] = <<"started", "completed">> /\ u \notin startedTurns'
  <2>1. CASE u = t
    BY <1>2, <1>6, <2>1
  <2>2. CASE u # t
    <3>1. turnLog'[u] = turnLog[u] /\ (u \in startedTurns' <=> u \in startedTurns)
      BY <1>2, <2>2
    <3> QED
      BY <3>1 DEF Published
  <2> QED
    BY <2>1, <2>2
<1> QED
  BY <1>7 DEF Published

(* The turn that the awaiting code marks as started.                        *)
LEMMA StartedOutcome ==
    ASSUME Types, Timely, GoOnStarted, NEW r, r = Outcome.request
    PROVE  /\ r \in Requests /\ r.session \in Sessions /\ r.turn \in Texts
           /\ r.method = "turn/start"
           /\ 1 \in 1 .. Len(client.settled) /\ Outcome = client.settled[1] /\ Outcome.ok
           /\ MarkTurnStarted(record, r.session, r.turn)
           /\ Ended(r.turn) => Remembered(r.turn)
           /\ record \in [Sessions -> ThreadRecords]
           /\ UNCHANGED <<stdout, server, carriedOut, terminalTurns>>
           /\ client'.settled = Tail(client.settled)
<1>1. /\ client.settled # <<>> /\ r.method = "turn/start" /\ Outcome.ok
      /\ MarkTurnStarted(record, r.session, r.turn)
      /\ UNCHANGED <<stdout, server, carriedOut, terminalTurns>>
      /\ client' = Consumed
  BY DEF GoOnStarted, Resolves, Settled, serverVars, Finish
<1>2. /\ r \in Requests /\ r.session \in Sessions /\ r.turn \in Texts
      /\ 1 \in 1 .. Len(client.settled) /\ Outcome = client.settled[1]
      /\ record \in [Sessions -> ThreadRecords]
      /\ client'.settled = Tail(client.settled)
  BY <1>1, ConsumedOne, RequestFields, TypeFacts
<1>3. Ended(r.turn) => Remembered(r.turn)
  BY <1>1, <1>2 DEF Timely
<1> QED
  BY <1>1, <1>2, <1>3

(* A turn whose start is read has not ended, and is marked.                 *)
LEMMA StartRead ==
    ASSUME Types, TurnLines, ReadTurnStarted,
           NEW s, s = Line.session, NEW t, t = Line.turn
    PROVE  /\ Reading("started") /\ s \in Sessions /\ t \in Texts
           /\ Len(stdout) \in Nat \ {0} /\ stdout[1] = Line
           /\ Recorded(s) \in [Sessions -> ThreadRecords]
           /\ MarkTurnStarted(Recorded(s), s, t)
           /\ ~Ended(t) /\ ~Remembered(t)
           /\ UNCHANGED <<client, server, carriedOut, terminalTurns>>
<1>1. /\ Reading("started") /\ MarkTurnStarted(Recorded(s), s, t)
      /\ UNCHANGED <<client, terminalTurns, server, carriedOut>>
  BY DEF ReadTurnStarted, serverVars
<1>2. /\ Len(stdout) \in Nat \ {0} /\ stdout[1] = Line
      /\ stdout[1].kind = "started" /\ t \in Texts /\ s \in Sessions
  BY <1>1, ReadLine, LineFields
<1>3. Recorded(s) \in [Sessions -> ThreadRecords]
  BY <1>2, RecordedFields
<1>4. 1 \in Told /\ IsStarted(1, t)
  BY <1>2 DEF Told, IsStarted
<1>5. ~Ended(t) /\ ~Remembered(t)
  BY <1>2, <1>4 DEF TurnLines, LinesInv, EndedInv
<1> QED
  BY <1>1, <1>2, <1>3, <1>5

LEMMA PublishedStep ==
    ASSUME Types, ApprovalLines, TurnLines, Timely, Published, [Next]_vars
    PROVE  Published'
<1>1. UNCHANGED <<turnLog, startedTurns>> => Published'
  BY DEF Published
<1>2. CASE ReadTurnStarted
  BY <1>2, StartRead, PublishedMarked
<1>3. CASE ReadTurnCompleted
  BY <1>3, PublishedReadEnd
<1>4. CASE GoOnStarted
  BY <1>4, StartedOutcome, PublishedMarked
<1>5. CASE \/ ServerRefuses \/ ServerOpens \/ ServerStartsTurn
           \/ ServerInterrupts \/ ServerTakesAnswer
           \/ \E s \in Sessions, a \in Approvals : ServerAsks(a, s)
           \/ \E s \in Sessions : ServerEndsTurn(s) \/ ServerNotifies(s)
           \/ \E r \in server.owed : ServerAnswersTurn(r)
           \/ ServerDies
  BY <1>1, <1>5, ServerSilence
<1>6. CASE \/ UNCHANGED vars
           \/ ReadResponse \/ ReadStatus \/ ReadError \/ ReadApprovalRequest
           \/ GoOnRejected \/ GoOnOpened \/ GoOnLoaded \/ GoOnInterrupted
           \/ TimeOut \/ LineTooLong \/ NoticeExit \/ Shutdown
           \/ \E s \in Sessions : CallsOn(s)
           \/ \E p \in approvals : RespondToApproval(p) \/ Expire(p)
  BY <1>1, <1>6, TurnsLeft DEF SameTurns
<1> QED
  BY <1>2, <1>3, <1>4, <1>5, <1>6 DEF Next, Reads, GoesOn, Serves

-----------------------------------------------------------------------------
(* The active turn of a session. *)

(* The n-th line tells what turn is active in s, or that none is.           *)
Tells(n, s) == stdout[n].kind \in {"started", "completed"} /\ stdout[n].session = s
LastTold(n, s) ==
    /\ n \in Told /\ Tells(n, s)
    /\ \A k \in Told : Tells(k, s) => k <= n

(* The last line about s that is to be read says what runs in s; if there   *)
(* is none, the record of s does.                                           *)
TellsInv ==
    \A s \in Sessions :
        /\ (\A n \in Told : ~Tells(n, s)) => record[s].turn = server.running[s]
        /\ \A n : LastTold(n, s) =>
              server.running[s] = IF stdout[n].kind = "started" THEN stdout[n].turn
                                  ELSE NoTurn

(* The turn that r asked for has begun, and it runs, unless its end will be *)
(* read or was published.                                                   *)
TurnKnown(r) ==
    /\ r.turn \in carriedOut
    /\ \/ Ended(r.turn)
       \/ \E n \in Told : IsCompleted(n, r.turn) /\ stdout[n].session = r.session
       \/ server.running[r.session] = r.turn

StartOk(o) == o.ok /\ o.request.method = "turn/start"

LineKnown(n) ==
    stdout[n].kind = "response" /\ StartOk(stdout[n].outcome) =>
        TurnKnown(stdout[n].outcome.request)

SettledKnown(i) ==
    StartOk(client.settled[i]) => TurnKnown(client.settled[i].request)

(* An answer to turn/start, owed, written or received, is about such a turn. *)
StartsKnown ==
    /\ \A r \in server.owed : TurnKnown(r)
    /\ \A n \in Told : LineKnown(n)
    /\ \A i \in 1 .. Len(client.settled) : SettledKnown(i)

Listening == client.state = "ready" /\ server.alive

KnownTurns == Listening => TellsInv /\ StartsKnown

LEMMA KnownTurnsInit == Init => KnownTurns
<1> SUFFICES ASSUME Init
             PROVE  KnownTurns
  OBVIOUS
<1>1. /\ stdout = <<>> /\ client.settled = <<>> /\ server.owed = {}
      /\ \A s \in Sessions : server.running[s] = NoTurn /\ record[s].turn = NoTurn
  BY DEF Init, Started
<1> QED
  BY <1>1 DEF KnownTurns, TellsInv, StartsKnown, LastTold, Told

(* Reading and writing other lines.                                         *)
SameActive ==
    \A s \in Sessions : /\ record'[s].turn = record[s].turn
                        /\ server'.running[s] = server.running[s]

LEMMA TellsQuiet ==
    ASSUME Types, TellsInv, NEW d \in {0, 1}, Comes(d, Plain), Goes(d, Plain), SameActive
    PROVE  TellsInv'
<1>1. ASSUME NEW n \in 1 .. Len(stdout'), NEW s, Tells(n, s)'
      PROVE  n + d \in Told /\ stdout'[n] = stdout[n + d] /\ Tells(n + d, s)
  BY <1>1 DEF Comes, Tells, Plain
<1>2. ASSUME NEW n \in Told, NEW s, Tells(n, s)
      PROVE  n - d \in 1 .. Len(stdout') /\ Tells(n - d, s)'
  BY <1>2 DEF Goes, Tells, Plain
<1>3. ASSUME NEW s \in Sessions, \A n \in 1 .. Len(stdout') : ~Tells(n, s)'
      PROVE  record'[s].turn = server'.running[s]
  <2>1. \A n \in Told : ~Tells(n, s)
    BY <1>2, <1>3
  <2> QED
    BY <2>1 DEF TellsInv, SameActive
<1>4. ASSUME NEW s \in Sessions, NEW n, LastTold(n, s)'
      PROVE  server'.running[s] = IF stdout'[n].kind = "started" THEN stdout'[n].turn
                                  ELSE NoTurn
  <2>1. /\ n \in 1 .. Len(stdout') /\ Tells(n, s)'
        /\ \A k \in 1 .. Len(stdout') : Tells(k, s)' => k <= n
    BY <1>4 DEF LastTold, Told
  <2>2. n + d \in Told /\ stdout'[n] = stdout[n + d] /\ Tells(n + d, s)
    BY <1>1, <2>1
  <2>3. ASSUME NEW k \in Told, Tells(k, s)
        PROVE  k <= n + d
    <3>1. k - d <= n
      BY <1>2, <2>1, <2>3
    <3> QED
      BY <2>1, <3>1 DEF Told
  <2>4. LastTold(n + d, s)
    BY <2>2, <2>3 DEF LastTold
  <2> QED
    BY <2>2, <2>4 DEF TellsInv, SameActive
<1> QED
  BY <1>3, <1>4 DEF TellsInv, Told

(* Reading what turn is active in s.                                        *)
LEMMA TellsRead ==
    ASSUME Types, TellsInv, NEW kind \in {"started", "completed"}, Reading(kind),
           NEW s, s = Line.session, server' = server,
           \A q \in Sessions : q # s => record'[q].turn = record[q].turn,
           record'[s].turn = IF Line.kind = "started" THEN Line.turn ELSE NoTurn
    PROVE  TellsInv'
<1>1. PICK k : k = Len(stdout)
  OBVIOUS
<1>2. /\ k \in Nat \ {0} /\ Len(stdout') = k - 1 /\ Line = stdout[1]
      /\ \A n \in 1 .. k - 1 : stdout'[n] = stdout[n + 1]
      /\ Line.kind = kind
  BY <1>1, ReadLine
<1>3. 1 \in Told /\ Tells(1, s)
  BY <1>1, <1>2 DEF Told, Tells
<1>4. ASSUME NEW n \in 1 .. k - 1, NEW q
      PROVE  n + 1 \in Told /\ n \in Nat /\ (Tells(n, q)' <=> Tells(n + 1, q))
  BY <1>1, <1>2 DEF Tells, Told
<1>5. ASSUME NEW n \in Told, n # 1
      PROVE  n - 1 \in 1 .. k - 1 /\ (n - 1) + 1 = n /\ n \in Nat
  BY <1>1, <1>2, <1>5 DEF Told
<1>6. ASSUME NEW q \in Sessions, \A n \in 1 .. k - 1 : ~Tells(n, q)'
      PROVE  record'[q].turn = server'.running[q]
  <2>1. \A n \in Told : n # 1 => ~Tells(n, q)
    BY <1>4, <1>5, <1>6
  <2>2. CASE q = s
    <3>1. LastTold(1, s)
      BY <1>3, <2>1, <2>2 DEF LastTold
    <3> QED
      BY <1>2, <2>2, <3>1 DEF TellsInv
  <2>3. CASE q # s
    <3>1. \A n \in Told : ~Tells(n, q)
      BY <1>2, <2>1, <2>3 DEF Tells
    <3> QED
      BY <2>3, <3>1 DEF TellsInv
  <2> QED
    BY <2>2, <2>3
<1>7. ASSUME NEW q \in Sessions, NEW n, LastTold(n, q)'
      PROVE  server'.running[q] = IF stdout'[n].kind = "started" THEN stdout'[n].turn
                                  ELSE NoTurn
  <2>1. /\ n \in 1 .. k - 1 /\ Tells(n, q)'
        /\ \A j \in 1 .. k - 1 : Tells(j, q)' => j <= n
    BY <1>2, <1>7 DEF LastTold, Told
  <2>2. n + 1 \in Told /\ stdout'[n] = stdout[n + 1] /\ Tells(n + 1, q) /\ n \in Nat
    BY <1>2, <1>4, <2>1
  <2>3. ASSUME NEW j \in Told, Tells(j, q)
        PROVE  j <= n + 1
    <3>1. CASE j = 1
      BY <2>2, <3>1
    <3>2. CASE j # 1
      <4>1. j - 1 \in 1 .. k - 1 /\ (j - 1) + 1 = j /\ j \in Nat
        BY <1>5, <3>2
      <4>2. Tells(j - 1, q)'
        BY <1>4, <2>3, <4>1
      <4>3. j - 1 <= n
        BY <2>1, <4>1, <4>2
      <4> QED
        BY <2>2, <4>1, <4>3
    <3> QED
      BY <3>1, <3>2
  <2>4. LastTold(n + 1, q)
    BY <2>2, <2>3 DEF LastTold
  <2> QED
    BY <2>2, <2>4 DEF TellsInv
<1> QED
  BY <1>2, <1>6, <1>7 DEF TellsInv, Told

(* Writing it.                                                              *)
LEMMA TellsGrown ==
    ASSUME Types, TellsInv, NEW l, l.kind \in {"started", "completed"}, Grown(l),
           NEW s, s = l.session, record' = record,
           \A q \in Sessions : q # s => server'.running[q] = server.running[q],
           server'.running[s] = IF l.kind = "started" THEN l.turn ELSE NoTurn
    PROVE  TellsInv'
<1>1. PICK k : k = Len(stdout')
  OBVIOUS
<1>2. /\ k \in Nat /\ Len(stdout) < k /\ stdout'[k] = l
      /\ \A n \in 1 .. k - 1 : \/ n \in Told /\ stdout'[n] = stdout[n]
                               \/ stdout'[n].kind \in Quiet
      /\ \A n \in Told : n \in 1 .. k - 1 /\ stdout'[n] = stdout[n]
  BY <1>1 DEF Grown
<1>3. k \in 1 .. k /\ Tells(k, s)'
  BY <1>2, TypeFacts DEF Tells
<1>4. ASSUME NEW n \in Told, NEW q
      PROVE  n \in 1 .. k /\ (Tells(n, q)' <=> Tells(n, q))
  BY <1>2 DEF Tells
<1>5. ASSUME NEW n \in 1 .. k, n # k, NEW q, Tells(n, q)'
      PROVE  n \in Told /\ stdout'[n] = stdout[n] /\ Tells(n, q)
  <2>1. n \in 1 .. k - 1
    BY <1>2, <1>5
  <2> QED
    BY <1>2, <1>5, <2>1 DEF Tells, Quiet
<1>6. ASSUME NEW q \in Sessions, \A n \in 1 .. k : ~Tells(n, q)'
      PROVE  record'[q].turn = server'.running[q]
  <2>1. q # s
    BY <1>3, <1>6
  <2>2. \A n \in Told : ~Tells(n, q)
    BY <1>4, <1>6
  <2> QED
    BY <2>1, <2>2 DEF TellsInv
<1>7. ASSUME NEW q \in Sessions, NEW n, LastTold(n, q)'
      PROVE  server'.running[q] = IF stdout'[n].kind = "started" THEN stdout'[n].turn
                                  ELSE NoTurn
  <2>1. /\ n \in 1 .. k /\ Tells(n, q)'
        /\ \A j \in 1 .. k : Tells(j, q)' => j <= n
    BY <1>1, <1>7 DEF LastTold, Told
  <2>2. CASE n = k
    <3>1. q = s
      BY <1>2, <2>1, <2>2 DEF Tells
    <3> QED
      BY <1>2, <2>2, <3>1
  <2>3. CASE n # k
    <3>1. n \in Told /\ stdout'[n] = stdout[n] /\ Tells(n, q)
      BY <1>5, <2>1, <2>3
    <3>2. q # s
      BY <1>2, <1>3, <2>1, <2>3
    <3>3. \A j \in Told : Tells(j, q) => j <= n
      BY <1>4, <2>1
    <3>4. LastTold(n, q)
      BY <3>1, <3>3 DEF LastTold
    <3> QED
      BY <3>1, <3>2, <3>4 DEF TellsInv
  <2> QED
    BY <2>2, <2>3
<1> QED
  BY <1>1, <1>6, <1>7 DEF TellsInv, Told

(* What is known of a turn stays known.                                     *)
KeepsKnown ==
    \A r \in Requests : r.method = "turn/start" /\ TurnKnown(r) => TurnKnown(r)'

EndsStay == \A t \in Texts : Ended(t) => Ended(t)'

RunsStay ==
    \A s \in Sessions, t \in Texts :
        server.running[s] = t => server'.running[s] = t

LEMMA KnownKept ==
    ASSUME NEW d \in {0, 1}, Goes(d, Plain \cup {"started"}),
           carriedOut \subseteq carriedOut', EndsStay, RunsStay
    PROVE  KeepsKnown
<1> SUFFICES ASSUME NEW r \in Requests, r.method = "turn/start", TurnKnown(r)
             PROVE  TurnKnown(r)'
  BY DEF KeepsKnown
<1>1. r.turn \in Texts /\ r.session \in Sessions
  BY RequestFields
<1>2. r.turn \in carriedOut'
  BY DEF TurnKnown
<1>3. CASE Ended(r.turn)
  BY <1>1, <1>2, <1>3 DEF EndsStay, TurnKnown
<1>4. CASE server.running[r.session] = r.turn
  BY <1>1, <1>2, <1>4 DEF RunsStay, TurnKnown
<1>5. ASSUME NEW n \in Told, IsCompleted(n, r.turn), stdout[n].session = r.session
      PROVE  TurnKnown(r)'
  <2>1. n - d \in 1 .. Len(stdout') /\ stdout'[n - d] = stdout[n]
    BY <1>5 DEF Goes, IsCompleted, Plain
  <2> QED
    BY <1>2, <1>5, <2>1 DEF TurnKnown, IsCompleted, Told
<1> QED
  BY <1>3, <1>4, <1>5 DEF TurnKnown

LEMMA KnownReadEnd ==
    ASSUME Types, ReadTurnCompleted
    PROVE  KeepsKnown
<1>1. PICK t : t = Line.turn
  OBVIOUS
<1>2. /\ Len(stdout) \in Nat \ {0} /\ Len(stdout') = Len(stdout) - 1
      /\ \A n \in 1 .. Len(stdout) - 1 : stdout'[n] = stdout[n + 1]
      /\ stdout[1].turn = t
      /\ UNCHANGED <<server, carriedOut>>
      /\ \A u \in Texts : Ended(u)' <=> (Ended(u) \/ u = t)
  BY <1>1, CompletedTurn
<1> SUFFICES ASSUME NEW r \in Requests, r.method = "turn/start", TurnKnown(r)
             PROVE  TurnKnown(r)'
  BY DEF KeepsKnown
<1>3. r.turn \in Texts /\ r.session \in Sessions
  BY RequestFields
<1>4. r.turn \in carriedOut'
  BY <1>2 DEF TurnKnown
<1>5. CASE Ended(r.turn) \/ r.turn = t
  BY <1>2, <1>3, <1>4, <1>5 DEF TurnKnown
<1>6. CASE server.running[r.session] = r.turn
  BY <1>2, <1>4, <1>6 DEF TurnKnown
<1>7. ASSUME NEW n \in Told, IsCompleted(n, r.turn), stdout[n].session = r.session,
             r.turn # t
      PROVE  TurnKnown(r)'
  <2>1. n # 1
    BY <1>2, <1>7 DEF IsCompleted
  <2>2. n - 1 \in 1 .. Len(stdout') /\ n - 1 \in 1 .. Len(stdout) - 1 /\ (n - 1) + 1 = n
    BY <1>2, <2>1 DEF Told
  <2> QED
    BY <1>2, <1>4, <1>7, <2>2 DEF TurnKnown, IsCompleted, Told
<1> QED
  BY <1>5, <1>6, <1>7 DEF TurnKnown

LEMMA KnownOver ==
    ASSUME Types, NEW s \in Sessions, server' = TurnOver(s),
           NEW f, Grown(CompletedLine(s, f)), SameTurns
    PROVE  KeepsKnown
<1>1. PICK l : l = CompletedLine(s, f)
  OBVIOUS
<1>2. l.kind = "completed" /\ l.turn = server.running[s] /\ l.session = s
  BY <1>1 DEF CompletedLine
<1>3. /\ Len(stdout') \in 1 .. Len(stdout') /\ stdout'[Len(stdout')] = l
      /\ \A n \in Told : n \in 1 .. Len(stdout') /\ stdout'[n] = stdout[n]
  BY <1>1, TypeFacts DEF Grown
<1>4. server.running \in [Sessions -> Turns]
  BY DEF Types, Servers
<1>5. \A q \in Sessions : q # s => server'.running[q] = server.running[q]
  BY <1>4, TurnOverFields
<1>6. turnLog' = turnLog /\ carriedOut' = carriedOut
  BY DEF SameTurns
<1> SUFFICES ASSUME NEW r \in Requests, r.method = "turn/start", TurnKnown(r)
             PROVE  TurnKnown(r)'
  BY DEF KeepsKnown
<1>7. r.turn \in carriedOut' /\ r.session \in Sessions
  BY <1>6, RequestFields DEF TurnKnown
<1>8. CASE Ended(r.turn)
  BY <1>6, <1>7, <1>8 DEF TurnKnown, Ended
<1>9. CASE server.running[r.session] = r.turn
  <2>1. CASE r.session = s
    BY <1>2, <1>3, <1>7, <1>9, <2>1 DEF TurnKnown, IsCompleted, Told
  <2>2. CASE r.session # s
    BY <1>5, <1>7, <1>9, <2>2 DEF TurnKnown
  <2> QED
    BY <2>1, <2>2
<1>10. ASSUME NEW n \in Told, IsCompleted(n, r.turn), stdout[n].session = r.session
       PROVE  TurnKnown(r)'
  BY <1>3, <1>7, <1>10 DEF TurnKnown, IsCompleted, Told
<1> QED
  BY <1>8, <1>9, <1>10 DEF TurnKnown

(* Where answers to turn/start come from.                                   *)
Brings ==
    \A n \in 1 .. Len(stdout') :
        (\E m \in Told : stdout'[n] = stdout[m]) \/ LineKnown(n)'

Owes == \A r \in server'.owed : r \in server.owed \/ TurnKnown(r)'

Settles ==
    \A i \in 1 .. Len(client'.settled) :
        \/ \E j \in 1 .. Len(client.settled) : client'.settled[i] = client.settled[j]
        \/ SettledKnown(i)'

LEMMA StartsKnownKept ==
    ASSUME Types, StartsKnown, KeepsKnown, Brings, Owes, Settles
    PROVE  StartsKnown'
<1>1. ASSUME NEW r \in server'.owed
      PROVE  TurnKnown(r)'
  <2>1. CASE r \in server.owed
    <3>1. r \in Requests /\ r.method = "turn/start" /\ TurnKnown(r)
      BY <2>1, TypeFacts DEF StartsKnown
    <3> QED
      BY <3>1 DEF KeepsKnown
  <2>2. CASE r \notin server.owed
    BY <1>1, <2>2 DEF Owes
  <2> QED
    BY <2>1, <2>2
<1>2. ASSUME NEW n \in 1 .. Len(stdout')
      PROVE  LineKnown(n)'
  <2>1. ASSUME NEW m \in Told, stdout'[n] = stdout[m],
               stdout[m].kind = "response", StartOk(stdout[m].outcome),
               NEW r, r = stdout[m].outcome.request
        PROVE  TurnKnown(r)'
    <3>1. stdout[m].outcome \in Outcomes
      BY <2>1, TypeFacts, LineFields DEF Told
    <3>2. r \in Requests /\ r.method = "turn/start" /\ TurnKnown(r)
      BY <2>1, <3>1 DEF StartsKnown, LineKnown, StartOk, Outcomes
    <3> QED
      BY <3>2 DEF KeepsKnown
  <2>2. ASSUME NEW m \in Told, stdout'[n] = stdout[m]
        PROVE  LineKnown(n)'
    <3>1. PICK r : r = stdout[m].outcome.request
      OBVIOUS
    <3>2. stdout'[n].outcome.request = r
      BY <2>2, <3>1
    <3>3. stdout'[n].kind = "response" /\ StartOk(stdout'[n].outcome) => TurnKnown(r)'
      BY <2>1, <2>2, <3>1
    <3> QED
      BY <3>2, <3>3 DEF LineKnown, TurnKnown, StartOk
  <2> QED
    BY <2>2 DEF Brings
<1>3. ASSUME NEW i \in 1 .. Len(client'.settled)
      PROVE  SettledKnown(i)'
  <2>1. ASSUME NEW j \in 1 .. Len(client.settled), client'.settled[i] = client.settled[j]
        PROVE  SettledKnown(i)'
    <3>1. PICK r : r = client.settled[j].request
      OBVIOUS
    <3>2. client'.settled[i].request = r /\ client.settled[j] \in Outcomes
      BY <2>1, <3>1, TypeFacts, ClientFields
    <3>3. StartOk(client.settled[j]) =>
             r \in Requests /\ r.method = "turn/start" /\ TurnKnown(r)
      BY <3>1, <3>2 DEF StartsKnown, SettledKnown, StartOk, Outcomes
    <3>4. StartOk(client'.settled[i]) => TurnKnown(r)'
      BY <2>1, <3>3 DEF KeepsKnown
    <3> QED
      BY <3>2, <3>4 DEF SettledKnown, TurnKnown, StartOk
  <2> QED
    BY <2>1 DEF Settles
<1> QED
  BY <1>1, <1>2, <1>3 DEF StartsKnown, Told

(* The active turns stay where no line tells of one.                        *)
LEMMA RecordsLeft ==
    ASSUME Types, ApprovalLines,
           \/ UNCHANGED vars
           \/ ReadResponse \/ ReadStatus \/ ReadError \/ ReadApprovalRequest
           \/ GoOnRejected \/ GoOnOpened \/ GoOnLoaded \/ GoOnInterrupted
           \/ TimeOut
           \/ \E s \in Sessions : CallsOn(s)
           \/ \E p \in approvals : RespondToApproval(p) \/ Expire(p)
    PROVE  SameActive
<1>1. server' = server
  BY TurnsLeft
<1>2. record' = record => SameActive
  BY <1>1 DEF SameActive
<1>3. CASE UNCHANGED vars \/ ReadResponse \/ GoOnRejected \/ GoOnLoaded \/ GoOnInterrupted
  BY <1>2, <1>3 DEF vars, ReadResponse, GoOnRejected, GoOnLoaded, GoOnInterrupted,
     adapterVars
<1>4. CASE TimeOut \/ \E s \in Sessions : CallsOn(s)
  BY <1>2, <1>4, TimeOutKeeps, CallKeeps
<1>5. CASE GoOnOpened
  BY <1>1, <1>5, OpenedFields DEF SameActive
<1>6. ASSUME NEW s \in Sessions, NEW rs, rs = Recorded(s),
             \/ \E x : record' = [rs EXCEPT ![s].state = x]
             \/ \E x, y : record' = [rs EXCEPT ![s].approval = x, ![s].state = y]
      PROVE  SameActive
  <2>1. rs \in [Sessions -> ThreadRecords] /\ \A q \in Sessions : rs[q].turn = record[q].turn
    BY <1>6, RecordedFields
  <2>2. ASSUME NEW x, record' = [rs EXCEPT ![s].state = x]
        PROVE  \A q \in Sessions : record'[q].turn = rs[q].turn
    BY <2>1, <2>2 DEF ThreadRecords
  <2>3. ASSUME NEW x, NEW y, record' = [rs EXCEPT ![s].approval = x, ![s].state = y]
        PROVE  \A q \in Sessions : record'[q].turn = rs[q].turn
    BY <2>1, <2>3 DEF ThreadRecords
  <2>4. \A q \in Sessions : record'[q].turn = rs[q].turn
    BY <1>6, <2>2, <2>3
  <2> QED
    BY <1>1, <2>1, <2>4 DEF SameActive
<1>7. CASE ReadStatus
  <2>1. PICK s : s = Line.session
    OBVIOUS
  <2>2. s \in Sessions
    BY <1>7, <2>1, ReadLine, LineFields DEF ReadStatus
  <2>3. PICK x : x = Line.status
    OBVIOUS
  <2>4. record' = record \/ record' = [Recorded(s) EXCEPT ![s].state = x]
    BY <1>7, <2>1, <2>3 DEF ReadStatus
  <2> QED
    BY <1>2, <1>6, <2>2, <2>4
<1>8. CASE ReadError
  <2>1. PICK s : s = Line.session
    OBVIOUS
  <2>2. s \in Sessions
    BY <1>8, <2>1, ReadLine, LineFields DEF ReadError
  <2>3. record' = [Recorded(s) EXCEPT ![s].state = "failed"]
    BY <1>8, <2>1 DEF ReadError
  <2> QED
    BY <1>6, <2>2, <2>3
<1>9. CASE ReadApprovalRequest
  <2>1. PICK p : p = Pending(Line.approval, Line.session, Line.turn)
    OBVIOUS
  <2>2. p.session \in Sessions
    BY <1>9, <2>1, TakenLeaves, TypeFacts
  <2>3. \/ record' = record
        \/ record' = [Recorded(p.session) EXCEPT
                         ![p.session].approval = p.approval,
                         ![p.session].state = "waiting_for_user"]
    BY <1>9, <2>1 DEF ReadApprovalRequest, TakeApproval
  <2> QED
    BY <1>2, <1>6, <2>2, <2>3
<1>10. ASSUME NEW p \in approvals, RespondToApproval(p) \/ Expire(p)
       PROVE  SameActive
  <2>1. /\ record' = AfterApproval(p.session) \/ record' = record
        /\ p.session \in Sessions
    BY <1>10, OneLeaves, TypeFacts
  <2> QED
    BY <1>1, <1>2, <2>1, AfterApprovalFields DEF SameActive
<1> QED
  BY <1>3, <1>4, <1>5, <1>7, <1>8, <1>9, <1>10

(* Outcomes that are as before, or not of a turn/start that succeeded.      *)
FromSettled(z) ==
    \A i \in 1 .. Len(z) :
        (\E j \in 1 .. Len(client.settled) : z[i] = client.settled[j]) \/ ~StartOk(z[i])

LEMMA FromAppend ==
    ASSUME NEW z \in Seq(Outcomes), FromSettled(z), NEW o \in Outcomes, ~StartOk(o)
    PROVE  FromSettled(Append(z, o))
<1>1. PICK y : y = Append(z, o)
  OBVIOUS
<1>2. /\ Len(z) \in Nat /\ Len(y) = Len(z) + 1 /\ y[Len(z) + 1] = o
      /\ \A i \in 1 .. Len(z) : y[i] = z[i]
  BY <1>1
<1>3. \A i \in 1 .. Len(y) : i \in 1 .. Len(z) \/ i = Len(z) + 1
  BY <1>2
<1>4. FromSettled(y)
  BY <1>2, <1>3 DEF FromSettled
<1> QED
  BY <1>1, <1>4

LEMMA FromRequest ==
    ASSUME NEW c \in RpcClients, FromSettled(c.settled), NEW r \in Requests
    PROVE  FromSettled(Request(c, r).settled)
<1>1. Rejected(r) \in Outcomes /\ ~StartOk(Rejected(r))
  BY RequestFields DEF StartOk
<1>2. c.settled \in Seq(Outcomes)
  BY ClientFields
<1>3. FromSettled(Append(c.settled, Rejected(r)))
  BY <1>1, <1>2, FromAppend
<1> QED
  BY <1>3, Requested

LEMMA FromStart ==
    ASSUME NEW c \in RpcClients, FromSettled(c.settled), NEW x \in Texts,
           NEW s \in Sessions, StartTurn(c, x, s)
    PROVE  FromSettled(client'.settled)
<1>1. Call(x, "turn/start", s, x) \in Requests
  BY DEF Call, Requests, Methods, Turns, Jobs
<1>2. client' = c \/ client' = Request(c, Call(x, "turn/start", s, x))
  BY DEF StartTurn
<1>3. FromSettled(Request(c, Call(x, "turn/start", s, x)).settled)
  BY <1>1, FromRequest
<1> QED
  BY <1>2, <1>3

LEMMA FromTail ==
    ASSUME Types, client.settled # <<>>
    PROVE  FromSettled(Tail(client.settled)) /\ Tail(client.settled) \in Seq(Outcomes)
<1>1. PICK z : z = Tail(client.settled)
  OBVIOUS
<1>2. PICK k : k = Len(client.settled)
  OBVIOUS
<1>3. /\ k \in Nat \ {0} /\ Len(z) = k - 1
      /\ \A i \in 1 .. k - 1 : z[i] = client.settled[i + 1]
      /\ Consumed \in RpcClients /\ Consumed.settled = z
  BY <1>1, <1>2, ConsumedOne
<1>4. \A i \in 1 .. k - 1 : i + 1 \in 1 .. k
  BY <1>3
<1>5. FromSettled(z)
  BY <1>2, <1>3, <1>4 DEF FromSettled
<1> QED
  BY <1>1, <1>3, <1>5, ClientFields

LEMMA FromGoOn ==
    ASSUME Types, GoesOn
    PROVE  FromSettled(client'.settled)
<1>1. client.settled # <<>>
  BY DEF GoesOn, GoOnRejected, GoOnOpened, GoOnLoaded, GoOnStarted, GoOnInterrupted,
     Resolves, Settled
<1>2. FromSettled(Tail(client.settled)) /\ Tail(client.settled) \in Seq(Outcomes)
  BY <1>1, FromTail
<1>3. Consumed \in RpcClients /\ Consumed.settled = Tail(client.settled)
  BY <1>1, ConsumedOne
<1>4. CASE GoOnRejected \/ GoOnInterrupted \/ GoOnStarted
  <2>1. client' = Consumed
    BY <1>4 DEF GoOnRejected, GoOnInterrupted, GoOnStarted, Finish
  <2> QED
    BY <1>2, <1>3, <2>1
<1>5. CASE GoOnLoaded
  <2>1. /\ Outcome.request.method = "loaded"
        /\ StartTurn(Consumed, Caller, Outcome.request.session)
    BY <1>5 DEF GoOnLoaded, Resolves
  <2>2. Outcome.request.session \in Sessions /\ Caller \in Texts
    BY <1>1, <2>1, ConsumedOne, RequestFields DEF Caller
  <2> QED
    BY <1>2, <1>3, <2>1, <2>2, FromStart
<1>6. CASE GoOnOpened
  <2>1. /\ Outcome.request.session \in Sessions
        /\ \/ /\ Caller \in Texts
              /\ client'.settled = Append(Tail(client.settled),
                                          LoadedBy(Caller, Outcome.request.session))
           \/ client'.settled = Tail(client.settled)
    BY <1>6, OpenedFields
  <2>2. CASE client'.settled = Tail(client.settled)
    BY <1>2, <2>2
  <2>3. ASSUME NEW o, o = LoadedBy(Caller, Outcome.request.session), Caller \in Texts,
               client'.settled = Append(Tail(client.settled), o)
        PROVE  FromSettled(client'.settled)
    <3>1. o \in Outcomes /\ o.request.method = "loaded"
      BY <2>1, <2>3, LoadedOutcome
    <3>2. ~StartOk(o)
      BY <3>1 DEF StartOk
    <3> QED
      BY <1>2, <2>3, <3>1, <3>2, FromAppend
  <2> QED
    BY <2>1, <2>2, <2>3
<1> QED
  BY <1>4, <1>5, <1>6 DEF GoesOn

LEMMA FromCalls ==
    ASSUME Types, TimeOut \/ \E s \in Sessions : CallsOn(s)
    PROVE  FromSettled(client'.settled)
<1>1. client \in RpcClients /\ client.settled \in Seq(Outcomes)
  BY ClientFields DEF Types
<1>2. FromSettled(client.settled)
  BY DEF FromSettled
<1>3. ASSUME NEW s \in Sessions, NEW j \in Jobs,
             NEW m \in {"thread/resume", "thread/start", "turn/interrupt"},
             NEW t \in Turns, m = "turn/interrupt" => j \in Interrupts /\ t \in Texts,
             Ask(j, m, s, t)
      PROVE  FromSettled(client'.settled)
  BY <1>1, <1>2, <1>3, AskTypes, FromRequest
<1>4. CASE TimeOut
  <2>1. PICK k \in 1 .. Len(client.pending) :
            /\ client' = SettleRequest(client, Rejected(client.pending[k]))
            /\ client.pending[k] \in Requests
            /\ Rejected(client.pending[k]) \in Outcomes
            /\ Rejected(client.pending[k]).request = client.pending[k]
    BY <1>4, GivenUp
  <2>2. PICK o : o = Rejected(client.pending[k])
    OBVIOUS
  <2>3. o \in Outcomes /\ ~StartOk(o) /\ client'.settled = Append(client.settled, o)
    BY <1>1, <2>1, <2>2, SettledOne, RequestFields DEF StartOk
  <2> QED
    BY <1>1, <1>2, <2>3, FromAppend
<1>5. ASSUME NEW s \in Sessions, NEW x \in Texts, SubmitText(x, s)
      PROVE  FromSettled(client'.settled)
  <2>1. CASE record[s].loaded
    BY <1>1, <1>2, <1>5, <2>1, FromStart DEF SubmitText
  <2>2. CASE ~record[s].loaded
    <3>1. Call(x, "thread/resume", s, NoTurn) \in Requests
      BY DEF Call, Requests, Methods, Turns, Jobs
    <3>2. client' = Request(client, Call(x, "thread/resume", s, NoTurn))
      BY <1>5, <2>2 DEF SubmitText
    <3> QED
      BY <1>1, <1>2, <3>1, <3>2, FromRequest
  <2> QED
    BY <2>1, <2>2
<1>6. ASSUME NEW s \in Sessions, NEW o \in Opens, ResumeSession(o, s) \/ StartSession(o, s)
      PROVE  FromSettled(client'.settled)
  <2>1. \E m \in {"thread/resume", "thread/start"} : Ask(o, m, s, NoTurn)
    BY <1>6 DEF ResumeSession, StartSession
  <2>2. o \in Jobs /\ NoTurn \in Turns
    BY DEF Jobs, Turns
  <2> QED
    BY <1>3, <2>1, <2>2
<1>7. ASSUME NEW s \in Sessions, NEW i \in Interrupts, Interrupt(i, s)
      PROVE  FromSettled(client'.settled)
  <2>1. /\ Ask(i, "turn/interrupt", s, record[s].turn) /\ i \in Jobs /\ i \in Interrupts
        /\ record[s].turn \in Turns /\ record[s].turn \in Texts
    BY <1>7, TypeFacts DEF Interrupt, Jobs, Turns
  <2> QED
    BY <1>3, <2>1
<1> QED
  BY <1>4, <1>5, <1>6, <1>7 DEF CallsOn

LEMMA FromKept ==
    ASSUME FromSettled(client'.settled)
    PROVE  Settles
BY DEF FromSettled, Settles, SettledKnown, StartOk

(* Lines that are written: they bring no answer to turn/start but of a turn *)
(* that is known.                                                           *)
FineLine(l) ==
    l.kind = "response" /\ StartOk(l.outcome) => TurnKnown(l.outcome.request)'

LEMMA BringsOld ==
    ASSUME NEW d \in {0, 1}, Comes(d, {})
    PROVE  Brings
BY DEF Comes, Brings

LEMMA BringsSaid ==
    ASSUME Types, NEW ls \in Seq(OutLines), Say(ls),
           \A i \in 1 .. Len(ls) : \A l : l = ls[i] => FineLine(l)
    PROVE  Brings
<1>1. ASSUME NEW n \in 1 .. Len(stdout'), NEW l, stdout'[n] = l, FineLine(l)
      PROVE  LineKnown(n)'
  BY <1>1 DEF LineKnown, FineLine, StartOk, TurnKnown
<1>2. CASE client.state # "ready"
  BY <1>2, SaidLines DEF Brings, Told
<1>3. CASE client.state = "ready"
  <2>1. PICK k : k = Len(stdout)
    OBVIOUS
  <2>2. PICK m : m = Len(ls)
    OBVIOUS
  <2>3. /\ k \in Nat /\ m \in Nat /\ Len(stdout') = k + m
        /\ \A n \in 1 .. k + m :
              stdout'[n] = IF n <= k THEN stdout[n] ELSE ls[n - k]
    BY <1>3, <2>1, <2>2, SaidLines, TypeFacts
  <2>4. ASSUME NEW n \in 1 .. k + m
        PROVE  (\E j \in Told : stdout'[n] = stdout[j]) \/ LineKnown(n)'
    <3>1. CASE n <= k
      BY <2>1, <2>3, <3>1 DEF Told
    <3>2. CASE ~(n <= k)
      <4>1. n - k \in 1 .. m
        BY <2>3, <3>2
      <4>2. PICK l : l = ls[n - k]
        OBVIOUS
      <4>3. stdout'[n] = l /\ FineLine(l)
        BY <2>2, <2>3, <3>2, <4>1, <4>2
      <4> QED
        BY <1>1, <2>3, <4>3
    <3> QED
      BY <3>1, <3>2
  <2> QED
    BY <2>3, <2>4 DEF Brings
<1> QED
  BY <1>2, <1>3

LEMMA BringsOne ==
    ASSUME Types, NEW l \in OutLines, Say(<<l>>), FineLine(l)
    PROVE  Brings
<1>1. PICK ls : ls = <<l>>
  OBVIOUS
<1>2. /\ ls \in Seq(OutLines) /\ Say(ls) /\ Len(ls) = 1 /\ ls[1] = l
  BY <1>1
<1>3. \A i \in 1 .. Len(ls) : ls[i] = l
  BY <1>2
<1> QED
  BY <1>2, <1>3, BringsSaid

LEMMA BringsTwo ==
    ASSUME Types, NEW q \in OutLines, NEW l \in OutLines, Say(<<q, l>>),
           FineLine(q), FineLine(l)
    PROVE  Brings
<1>1. PICK ls : ls = <<q, l>>
  OBVIOUS
<1>2. /\ ls \in Seq(OutLines) /\ Say(ls) /\ Len(ls) = 2 /\ ls[1] = q /\ ls[2] = l
  BY <1>1
<1>3. \A i \in 1 .. Len(ls) : ls[i] = q \/ ls[i] = l
  <2>1. \A i \in 1 .. 2 : i = 1 \/ i = 2
    OBVIOUS
  <2> QED
    BY <1>2, <2>1
<1> QED
  BY <1>2, <1>3, BringsSaid

LEMMA SettlesSame ==
    ASSUME client'.settled = client.settled
    PROVE  Settles
BY DEF Settles

(* Steps that tell of no turn.                                              *)
LEMMA KnownTurnsQuiet ==
    ASSUME Types, TellsInv, StartsKnown, NEW d \in {0, 1},
           Comes(d, Plain), Goes(d, Plain), SameActive, SameTurns, Brings, Owes, Settles
    PROVE  TellsInv' /\ StartsKnown'
<1>1. KeepsKnown
  <2>1. Goes(d, Plain \cup {"started"})
    BY DEF Goes
  <2>2. carriedOut \subseteq carriedOut' /\ EndsStay /\ RunsStay
    BY DEF SameTurns, SameActive, EndsStay, RunsStay, Ended
  <2> QED
    BY <2>1, <2>2, KnownKept
<1> QED
  BY <1>1, TellsQuiet, StartsKnownKept

LEMMA KnownReadStart ==
    ASSUME Types, TurnLines, TellsInv, StartsKnown, ReadTurnStarted
    PROVE  TellsInv' /\ StartsKnown'
<1>1. PICK s : s = Line.session
  OBVIOUS
<1>2. PICK t : t = Line.turn
  OBVIOUS
<1>3. /\ Reading("started") /\ s \in Sessions /\ t \in Texts
      /\ Len(stdout) \in Nat \ {0} /\ stdout[1] = Line
      /\ Recorded(s) \in [Sessions -> ThreadRecords]
      /\ MarkTurnStarted(Recorded(s), s, t)
      /\ ~Ended(t) /\ ~Remembered(t)
      /\ UNCHANGED <<client, server, carriedOut, terminalTurns>>
  BY <1>1, <1>2, StartRead
<1>4. Line.kind = "started"
  BY <1>3, ReadLine
<1>5. \A q \in Sessions : record'[q].turn = IF q = s THEN t ELSE record[q].turn
  <2>1. \A q \in Sessions :
           record'[q].turn = IF q = s /\ ~Remembered(t) THEN t ELSE Recorded(s)[q].turn
    BY <1>3, MarkedTurn
  <2>2. \A q \in Sessions : Recorded(s)[q].turn = record[q].turn
    BY <1>3, RecordedFields
  <2> QED
    BY <1>3, <2>1, <2>2
<1>6. TellsInv'
  <2>1. /\ \A q \in Sessions : q # s => record'[q].turn = record[q].turn
        /\ record'[s].turn = IF Line.kind = "started" THEN Line.turn ELSE NoTurn
        /\ server' = server
    BY <1>2, <1>3, <1>4, <1>5
  <2> QED
    BY <1>1, <1>3, <2>1, TellsRead
<1>7. KeepsKnown
  <2>1. Goes(1, Plain \cup {"started"})
    BY <1>3, ReadMoves DEF Goes
  <2>2. carriedOut \subseteq carriedOut' /\ EndsStay /\ RunsStay
    BY <1>3, MarkedEnds DEF EndsStay, RunsStay
  <2> QED
    BY <2>1, <2>2, KnownKept
<1>8. Brings /\ Owes /\ Settles
  BY <1>3, ReadMoves, BringsOld, SettlesSame DEF Owes
<1> QED
  BY <1>6, <1>7, <1>8, StartsKnownKept

(* Answers of approvals and the lines that are not responses settle nothing. *)
LEMMA SettledKept ==
    ASSUME Types, ApprovalLines,
           \/ UNCHANGED vars
           \/ ReadStatus \/ ReadError \/ ReadApprovalRequest
           \/ ReadTurnStarted \/ ReadTurnCompleted
           \/ \E p \in approvals : RespondToApproval(p) \/ Expire(p)
    PROVE  client'.settled = client.settled
<1>1. CASE UNCHANGED vars \/ ReadStatus \/ ReadError \/ ReadTurnStarted
  BY <1>1 DEF vars, ReadStatus, ReadError, ReadTurnStarted
<1>2. ASSUME NEW some \in SUBSET PendingApprovals, IsFiniteSet(some),
             NEW d \in Decisions, client' = client \/ client' = RespondAll(some, d)
      PROVE  client'.settled = client.settled
  BY <1>2, AnsweredAll
<1>3. CASE ReadApprovalRequest
  <2>1. PICK p : p = Pending(Line.approval, Line.session, Line.turn)
    OBVIOUS
  <2>2. p \in PendingApprovals
    BY <1>3, <2>1, TakenLeaves
  <2>3. {p} \in SUBSET PendingApprovals /\ IsFiniteSet({p}) /\ "cancel" \in Decisions
    BY <2>2, FS_Singleton DEF Decisions
  <2>4. client' = client \/ client' = RespondAll({p}, "cancel")
    BY <1>3, <2>1 DEF ReadApprovalRequest, TakeApproval
  <2> QED
    BY <1>2, <2>3, <2>4
<1>4. ASSUME NEW p \in approvals, RespondToApproval(p) \/ Expire(p)
      PROVE  client'.settled = client.settled
  <2>1. "accept" \in Decisions /\ "cancel" \in Decisions
    BY DEF Decisions
  <2>2. {p} \in SUBSET PendingApprovals /\ IsFiniteSet({p})
    BY <2>1, OneAnswered
  <2>3. \E d \in Decisions : client' = client \/ client' = RespondAll({p}, d)
    BY <1>4, <2>1 DEF RespondToApproval, Expire
  <2> QED
    BY <1>2, <2>2, <2>3
<1>5. CASE ReadTurnCompleted
  <2> DEFINE ended == {p \in approvals : p.session = Line.session /\ p.turn = Line.turn}
  <2>1. client' = RespondAll(ended, "cancel")
    BY <1>5 DEF ReadTurnCompleted
  <2>2. /\ "cancel" \in Decisions /\ ended \in SUBSET PendingApprovals
        /\ IsFiniteSet(ended)
    BY FS_Subset DEF Types, Decisions
  <2> HIDE DEF ended
  <2> QED
    BY <1>2, <2>1, <2>2
<1> QED
  BY <1>1, <1>3, <1>4, <1>5

LEMMA KnownReadCompleted ==
    ASSUME Types, ApprovalLines, TurnLines, TellsInv, StartsKnown, ReadTurnCompleted
    PROVE  TellsInv' /\ StartsKnown'
<1>1. PICK s : s = Line.session
  OBVIOUS
<1>2. /\ Reading("completed") /\ s \in Sessions /\ server' = server
      /\ \A q \in Sessions :
            record'[q].turn = IF q = s THEN NoTurn ELSE record[q].turn
  BY <1>1, CompletedLeaves
<1>3. Line.kind = "completed"
  BY <1>2, ReadLine
<1>4. TellsInv'
  <2>1. /\ \A q \in Sessions : q # s => record'[q].turn = record[q].turn
        /\ record'[s].turn = IF Line.kind = "started" THEN Line.turn ELSE NoTurn
    BY <1>2, <1>3
  <2> QED
    BY <1>1, <1>2, <2>1, TellsRead
<1>5. client'.settled = client.settled
  BY SettledKept
<1>6. Brings /\ Owes /\ Settles
  BY <1>2, <1>5, ReadMoves, BringsOld, SettlesSame DEF Owes
<1> QED
  BY <1>4, <1>6, KnownReadEnd, StartsKnownKept

(* The awaiting code marks a turn that runs, or whose end is to be read, or *)
(* that is remembered to have ended.                                        *)
LEMMA KnownGoOnStart ==
    ASSUME Types, TurnLines, Timely, TellsInv, StartsKnown, GoOnStarted
    PROVE  TellsInv' /\ StartsKnown'
<1>1. PICK r : r = Outcome.request
  OBVIOUS
<1>2. /\ r \in Requests /\ r.session \in Sessions /\ r.turn \in Texts
      /\ r.method = "turn/start"
      /\ 1 \in 1 .. Len(client.settled) /\ Outcome = client.settled[1] /\ Outcome.ok
      /\ MarkTurnStarted(record, r.session, r.turn)
      /\ Ended(r.turn) => Remembered(r.turn)
      /\ record \in [Sessions -> ThreadRecords]
      /\ UNCHANGED <<stdout, server, carriedOut, terminalTurns>>
  BY <1>1, StartedOutcome
<1>3. TurnKnown(r)
  BY <1>1, <1>2 DEF StartsKnown, SettledKnown, StartOk
<1>4. \A q \in Sessions :
         record'[q].turn = IF q = r.session /\ ~Remembered(r.turn) THEN r.turn
                           ELSE record[q].turn
  BY <1>2, MarkedTurn
<1>5. ASSUME NEW q \in Sessions, \A n \in Told : ~Tells(n, q)
      PROVE  record'[q].turn = server'.running[q]
  <2>1. record[q].turn = server.running[q]
    BY <1>5 DEF TellsInv
  <2>2. CASE q = r.session /\ ~Remembered(r.turn)
    <3>1. ~Ended(r.turn)
      BY <1>2, <2>2
    <3>2. \A n \in Told : ~(IsCompleted(n, r.turn) /\ stdout[n].session = r.session)
      BY <1>5, <2>2 DEF Tells, IsCompleted
    <3>3. server.running[r.session] = r.turn
      BY <1>3, <3>1, <3>2 DEF TurnKnown
    <3> QED
      BY <1>2, <1>4, <2>2, <3>3
  <2>3. CASE ~(q = r.session /\ ~Remembered(r.turn))
    BY <1>2, <1>4, <2>1, <2>3
  <2> QED
    BY <2>2, <2>3
<1>6. TellsInv'
  BY <1>2, <1>5 DEF TellsInv, LastTold, Tells, Told
<1>7. Comes(0, {}) /\ Goes(0, {})
  BY <1>2, SameMoves
<1>8. KeepsKnown
  <2>1. Goes(0, Plain \cup {"started"})
    BY <1>7 DEF Goes
  <2>2. carriedOut \subseteq carriedOut' /\ EndsStay /\ RunsStay
    BY <1>2, MarkedEnds DEF EndsStay, RunsStay
  <2> QED
    BY <2>1, <2>2, KnownKept
<1>9. Brings /\ Owes /\ Settles
  <2>1. Settles
    BY FromGoOn, FromKept DEF GoesOn
  <2> QED
    BY <1>2, <1>7, <2>1, BringsOld DEF Owes
<1> QED
  BY <1>6, <1>8, <1>9, StartsKnownKept

LEMMA KnownStarts ==
    ASSUME Types, TellsInv, StartsKnown, client.state = "ready", ServerStartsTurn
    PROVE  TellsInv' /\ StartsKnown'
<1>1. PICK r : r = Head(client.stdin).request
  OBVIOUS
<1>2. PICK l : l = StartedLine(r.session, r.turn)
  OBVIOUS
<1>3. PICK o : o = Resolved(r, "none")
  OBVIOUS
<1>4. PICK q : q = ResponseLine(o)
  OBVIOUS
<1>5. /\ Serving("request") /\ r \in Requests /\ r.method = "turn/start"
      /\ r.session \in Sessions /\ r.turn \in Texts
      /\ server.running[r.session] = NoTurn
      /\ carriedOut' = carriedOut \cup {r.turn}
      /\ server'.running = [server.running EXCEPT ![r.session] = r.turn]
      /\ \A p \in server'.owed : p \in server.owed \/ p = r
      /\ l \in OutLines /\ o \in Outcomes
      /\ Say(<<q, l>>) \/ Say(<<l>>)
  BY <1>1, <1>2, <1>3, <1>4, StartedServer
<1>6. /\ l.kind = "started" /\ l.session = r.session /\ l.turn = r.turn
      /\ q.kind = "response" /\ q.outcome = o /\ o.request = r /\ q \in OutLines
  BY <1>2, <1>3, <1>4, <1>5, LineTypes DEF StartedLine, ResponseLine, Resolved
<1>7. /\ Grown(l) /\ Goes(0, {})
  BY <1>1, <1>2, StartsMoves
<1>8. /\ UNCHANGED <<record, turnLog>> /\ client'.settled = client.settled
  BY <1>5, TakenLine DEF Serving, bridgeVars, adapterVars, logVars
<1>9. server.running \in [Sessions -> Turns]
  BY DEF Types, Servers
<1>10. \A p \in Sessions :
          server'.running[p] = IF p = r.session THEN r.turn ELSE server.running[p]
  BY <1>5, <1>9
<1>11. TellsInv'
  <2>1. /\ \A p \in Sessions : p # r.session => server'.running[p] = server.running[p]
        /\ server'.running[r.session] = IF l.kind = "started" THEN l.turn ELSE NoTurn
    BY <1>5, <1>6, <1>10
  <2> QED
    BY <1>6, <1>7, <1>8, <2>1, TellsGrown
<1>12. TurnKnown(r)'
  BY <1>5, <1>10 DEF TurnKnown
<1>13. KeepsKnown
  <2>1. Goes(0, Plain \cup {"started"})
    BY <1>7 DEF Goes
  <2>2. carriedOut \subseteq carriedOut' /\ EndsStay
    BY <1>5, <1>8 DEF EndsStay, Ended
  <2>3. RunsStay
    BY <1>5, <1>10, AdapterAssumption DEF RunsStay
  <2> QED
    BY <2>1, <2>2, <2>3, KnownKept
<1>14. Brings
  <2>1. FineLine(l)
    BY <1>6 DEF FineLine
  <2>2. FineLine(q)
    <3>1. q.outcome.request = r
      BY <1>6
    <3> QED
      BY <1>12, <3>1 DEF FineLine, TurnKnown
  <2> QED
    BY <1>5, <1>6, <2>1, <2>2, BringsOne, BringsTwo
<1>15. Owes
  BY <1>5, <1>12 DEF Owes
<1>16. Settles
  BY <1>8, SettlesSame
<1> QED
  BY <1>11, <1>13, <1>14, <1>15, <1>16, StartsKnownKept

(* The turn of s ends; q, if anything, is said before that.                 *)
LEMMA KnownTurnOver ==
    ASSUME Types, TellsInv, StartsKnown, client.state = "ready",
           NEW s \in Sessions, server' = TurnOver(s),
           NEW f, Grown(CompletedLine(s, f)),
           SameTurns, record' = record, client'.settled = client.settled, Brings
    PROVE  TellsInv' /\ StartsKnown'
<1>1. PICK l : l = CompletedLine(s, f)
  OBVIOUS
<1>2. l.kind = "completed" /\ l.session = s /\ Grown(l)
  BY <1>1 DEF CompletedLine
<1>3. server.running \in [Sessions -> Turns]
  BY DEF Types, Servers
<1>4. /\ \A p \in Sessions :
            server'.running[p] = IF p = s THEN NoTurn ELSE server.running[p]
      /\ server'.owed = server.owed
  BY <1>3, TurnOverFields
<1>5. TellsInv'
  <2>1. /\ \A p \in Sessions : p # s => server'.running[p] = server.running[p]
        /\ server'.running[s] = IF l.kind = "started" THEN l.turn ELSE NoTurn
    BY <1>2, <1>4
  <2> QED
    BY <1>2, <2>1, TellsGrown
<1>6. KeepsKnown
  BY KnownOver
<1>7. Owes /\ Settles
  BY <1>4, SettlesSame DEF Owes
<1> QED
  BY <1>5, <1>6, <1>7, StartsKnownKept

LEMMA KnownServed ==
    ASSUME Types, TellsInv, StartsKnown, client.state = "ready",
           \/ ServerRefuses \/ ServerOpens \/ ServerTakesAnswer
           \/ \E s \in Sessions, a \in Approvals : ServerAsks(a, s)
           \/ \E s \in Sessions : ServerNotifies(s)
           \/ \E r \in server.owed : ServerAnswersTurn(r)
    PROVE  TellsInv' /\ StartsKnown'
<1>1. /\ record' = record /\ client'.settled = client.settled
  <2>1. UNCHANGED <<record, client>> \/ \E kind : Serving(kind)
    BY DEF ServerRefuses, ServerOpens, ServerTakesAnswer, Asks, ServerAsks,
       ServerNotifies, ServerAnswersTurn, bridgeVars, adapterVars
  <2> QED
    BY <2>1, TakenLine DEF Serving, bridgeVars, adapterVars
<1>2. carriedOut' = carriedOut
  BY DEF ServerRefuses, ServerOpens, ServerTakesAnswer, ServerAsks, ServerNotifies,
     ServerAnswersTurn
<1>3. SameTurns
  BY <1>2, ServerSilence DEF SameTurns
<1>4. Settles
  BY <1>1, SettlesSame
<1>5. ASSUME server'.running = server.running, server'.owed \in SUBSET server.owed,
             NEW l \in OutLines, l.kind \in Plain, Say(<<l>>), FineLine(l)
      PROVE  TellsInv' /\ StartsKnown'
  <2>1. Comes(0, {l.kind}) /\ Goes(0, {})
    BY <1>5, OneLine
  <2>2. Comes(0, Plain) /\ Goes(0, Plain)
    BY <1>5, <2>1 DEF Comes, Goes
  <2>3. SameActive /\ Owes
    BY <1>1, <1>5 DEF SameActive, Owes
  <2>4. Brings
    BY <1>5, BringsOne
  <2> QED
    BY <1>3, <1>4, <2>2, <2>3, <2>4, KnownTurnsQuiet
<1>6. ASSUME NEW o \in Outcomes, NEW l, l = ResponseLine(o)
      PROVE  /\ l \in OutLines /\ l.kind = "response" /\ l.kind \in Plain /\ l.outcome = o
             /\ ~StartOk(o) => FineLine(l)
  BY <1>6, LineTypes DEF ResponseLine, Plain, FineLine
<1>7. CASE ServerRefuses
  <2>1. PICK r : r = Head(client.stdin).request
    OBVIOUS
  <2>2. PICK l : l = ResponseLine(Rejected(r))
    OBVIOUS
  <2>3. r \in Requests
    BY <1>7, <2>1, TakenLine, InLineFields DEF ServerRefuses
  <2>4. Rejected(r) \in Outcomes /\ ~StartOk(Rejected(r))
    BY <2>3, RequestFields DEF StartOk
  <2>5. Say(<<l>>) /\ server' = server
    BY <1>7, <2>1, <2>2 DEF ServerRefuses
  <2> QED
    BY <1>5, <1>6, <2>2, <2>4, <2>5
<1>8. CASE ServerOpens
  <2>1. PICK o \in Outcomes :
            /\ o.request.method \in {"thread/resume", "thread/start"}
            /\ Say(<<ResponseLine(o)>>)
    BY <1>8, OpenedServer
  <2>2. PICK l : l = ResponseLine(o)
    OBVIOUS
  <2>3. ~StartOk(o)
    BY <2>1 DEF StartOk
  <2>4. server'.running = server.running /\ server'.owed = server.owed
    BY <1>8, OpenedServer
  <2> QED
    BY <1>5, <1>6, <2>1, <2>2, <2>3, <2>4
<1>9. CASE ServerTakesAnswer
  <2>1. /\ stdout' = stdout /\ server'.running = server.running
        /\ server'.owed = server.owed
    BY <1>9, AnsweredServer DEF ServerTakesAnswer
  <2>2. Comes(0, {}) /\ Goes(0, {})
    BY <2>1, SameMoves
  <2>3. Comes(0, Plain) /\ Goes(0, Plain) /\ Brings
    BY <2>2, BringsOld DEF Comes, Goes
  <2>4. SameActive /\ Owes
    BY <1>1, <2>1 DEF SameActive, Owes
  <2> QED
    BY <1>3, <1>4, <2>3, <2>4, KnownTurnsQuiet
<1>10. ASSUME NEW s \in Sessions, NEW a \in Approvals, ServerAsks(a, s)
       PROVE  TellsInv' /\ StartsKnown'
  <2>1. PICK l : l = ApprovalLine(a, s)
    OBVIOUS
  <2>2. /\ l \in OutLines /\ Say(<<l>>) /\ server'.running = server.running
        /\ server'.owed = server.owed
    BY <1>10, <2>1, AskingServer
  <2>3. l.kind = "approval"
    BY <2>1 DEF ApprovalLine
  <2> QED
    BY <1>5, <2>2, <2>3 DEF FineLine, Plain
<1>11. ASSUME NEW s \in Sessions, ServerNotifies(s)
       PROVE  TellsInv' /\ StartsKnown'
  <2>1. PICK l \in OutLines : l.kind \in {"status", "error"} /\ Say(<<l>>)
    BY <1>11, NoticedServer
  <2>2. server' = server
    BY <1>11 DEF ServerNotifies
  <2> QED
    BY <1>5, <2>1, <2>2 DEF FineLine, Plain
<1>12. ASSUME NEW r \in server.owed, ServerAnswersTurn(r)
       PROVE  TellsInv' /\ StartsKnown'
  <2>1. PICK o : o = Resolved(r, "none")
    OBVIOUS
  <2>2. PICK l : l = ResponseLine(o)
    OBVIOUS
  <2>3. /\ server'.running = server.running /\ server'.owed \in SUBSET server.owed
        /\ r \in Requests /\ r.method = "turn/start" /\ o \in Outcomes /\ o.request = r
    BY <1>12, <2>1, PaidServer
  <2>4. Say(<<l>>)
    BY <1>12, <2>1, <2>2 DEF ServerAnswersTurn
  <2>5. TurnKnown(r) /\ turnLog' = turnLog
    BY <1>3 DEF StartsKnown, SameTurns
  <2>6. l \in OutLines /\ l.kind = "response" /\ l.kind \in Plain /\ l.outcome = o
    BY <1>6, <2>2, <2>3
  <2>7. TurnKnown(r)'
    <3>1. Goes(0, {})
      BY <2>4, <2>6, OneLine
    <3>2. Goes(0, Plain \cup {"started"})
      BY <3>1 DEF Goes
    <3>3. EndsStay /\ RunsStay /\ carriedOut \subseteq carriedOut'
      BY <1>2, <2>3, <2>5 DEF EndsStay, RunsStay, Ended
    <3>4. KeepsKnown
      BY <3>2, <3>3, KnownKept
    <3> QED
      BY <2>3, <2>5, <3>4 DEF KeepsKnown
  <2>8. FineLine(l)
    <3>1. l.outcome.request = r
      BY <2>3, <2>6
    <3> QED
      BY <2>7, <3>1 DEF FineLine, TurnKnown
  <2> QED
    BY <1>5, <2>3, <2>4, <2>6, <2>8
<1> QED
  BY <1>7, <1>8, <1>9, <1>10, <1>11, <1>12

(* A response settles a request as the line says.                           *)
LEMMA KnownReadResponse ==
    ASSUME Types, ApprovalLines, TellsInv, StartsKnown, ReadResponse
    PROVE  TellsInv' /\ StartsKnown'
<1>1. PICK o : o = Line.outcome
  OBVIOUS
<1>2. /\ Reading("response") /\ o \in Outcomes /\ 1 \in Told /\ Line = stdout[1]
      /\ stdout[1].kind = "response" /\ stdout[1].outcome = o
  <2>1. Reading("response")
    BY DEF ReadResponse
  <2> QED
    BY <1>1, <2>1, ReadLine, LineFields DEF Told
<1>3. SameActive /\ SameTurns /\ server' = server
  BY RecordsLeft, TurnsLeft
<1>4. Comes(1, {}) /\ Goes(1, {"response"})
  BY <1>2, ReadMoves
<1>5. Comes(1, Plain) /\ Goes(1, Plain) /\ Brings /\ Owes
  BY <1>3, <1>4, BringsOld DEF Comes, Goes, Plain, Owes
<1>6. KeepsKnown
  <2>1. Goes(1, Plain \cup {"started"})
    BY <1>5 DEF Goes
  <2>2. carriedOut \subseteq carriedOut' /\ EndsStay /\ RunsStay
    BY <1>3 DEF SameTurns, EndsStay, RunsStay, Ended
  <2> QED
    BY <2>1, <2>2, KnownKept
<1>7. StartOk(o) => TurnKnown(o.request)
  BY <1>2 DEF StartsKnown, LineKnown
<1>8. PICK r : r = o.request
  OBVIOUS
<1>9. StartOk(o) => TurnKnown(r)'
  <2>1. StartOk(o) => r \in Requests /\ r.method = "turn/start" /\ TurnKnown(r)
    BY <1>2, <1>7, <1>8 DEF StartOk, Outcomes
  <2> QED
    BY <1>6, <2>1 DEF KeepsKnown
<1>10. CASE IsPending(client, o.request)
  <2>1. client \in RpcClients /\ client.settled \in Seq(Outcomes)
    BY ClientFields DEF Types
  <2>2. PICK k \in 1 .. Len(client.pending) : client.pending[k] = o.request
    BY <1>10 DEF IsPending
  <2>3. client' = SettleRequest(client, o)
    BY <1>1, <1>10 DEF ReadResponse, DispatchResponse
  <2>4. PICK z : z = client'.settled
    OBVIOUS
  <2>5. z = Append(client.settled, o)
    BY <1>2, <2>1, <2>2, <2>3, <2>4, SettledOne
  <2>6. /\ Len(client.settled) \in Nat /\ Len(z) = Len(client.settled) + 1
        /\ z[Len(client.settled) + 1] = o
        /\ \A i \in 1 .. Len(client.settled) : z[i] = client.settled[i]
    BY <1>2, <2>1, <2>5
  <2>7. \A i \in 1 .. Len(z) : i \in 1 .. Len(client.settled) \/ z[i] = o
    BY <2>6
  <2>8. ASSUME NEW i \in 1 .. Len(z)
        PROVE  \/ \E j \in 1 .. Len(client.settled) :
                     client'.settled[i] = client.settled[j]
               \/ SettledKnown(i)'
    <3>1. CASE i \in 1 .. Len(client.settled)
      BY <2>4, <2>6, <3>1
    <3>2. CASE z[i] = o
      <4>1. client'.settled[i] = o /\ client'.settled[i].request = r
        BY <1>8, <2>4, <3>2
      <4> QED
        BY <1>9, <4>1 DEF SettledKnown, StartOk, TurnKnown
    <3> QED
      BY <2>7, <3>1, <3>2
  <2>9. Settles
    BY <2>4, <2>8 DEF Settles
  <2> QED
    BY <1>3, <1>5, <2>9, KnownTurnsQuiet
<1>11. CASE ~IsPending(client, o.request)
  <2>1. client' = client
    BY <1>1, <1>11 DEF ReadResponse, DispatchResponse
  <2> QED
    BY <1>3, <1>5, <2>1, SettlesSame, KnownTurnsQuiet
<1> QED
  BY <1>10, <1>11

(* A client that has failed, and an app-server that has died, stay so.      *)
LEMMA StillListening ==
    ASSUME Types, ApprovalLines, Listening', [Next]_vars
    PROVE  Listening
<1>1. CASE UNCHANGED vars
  BY <1>1 DEF vars, serverVars, Listening
<1>2. CASE ReadResponse \/ ReadTurnStarted \/ ReadStatus \/ ReadError
           \/ ReadApprovalRequest \/ ReadTurnCompleted
  <2>1. \/ \E kind \in Plain : Reading(kind)
        \/ Reading("started") \/ Reading("completed")
    BY <1>2 DEF ReadResponse, ReadTurnStarted, ReadStatus, ReadError,
       ReadApprovalRequest, ReadTurnCompleted, Plain
  <2>2. server' = server
    BY <1>2 DEF ReadResponse, ReadTurnStarted, ReadStatus, ReadError,
       ReadApprovalRequest, ReadTurnCompleted, serverVars
  <2> QED
    BY <2>1, <2>2, ReadLine DEF Listening
<1>3. CASE GoesOn \/ TimeOut \/ \E s \in Sessions : CallsOn(s)
  BY <1>3, GoOnKeeps, TimeOutKeeps, CallKeeps DEF Keeps, Listening
<1>4. CASE LineTooLong \/ NoticeExit \/ Shutdown
  BY <1>4, ClientFails, ShutdownLeaves DEF Deafens, Listening
<1>5. CASE \E p \in approvals : RespondToApproval(p) \/ Expire(p)
  BY <1>5, OneLeaves DEF Keeps, Listening
<1>6. CASE \/ Serves
           \/ \E r \in server.owed : ServerAnswersTurn(r)
           \/ \E s \in Sessions : ServerNotifies(s) \/ ServerEndsTurn(s)
           \/ \E s \in Sessions, a \in Approvals : ServerAsks(a, s)
  <2>1. client'.state = client.state
    BY <1>6, ServerLeaves
  <2>2. server.alive
    BY <1>6 DEF Serves, ServerRefuses, ServerOpens, ServerStartsTurn, ServerInterrupts,
       ServerTakesAnswer, Asks, Serving, ServerAnswersTurn, ServerNotifies,
       ServerEndsTurn, ServerAsks
  <2> QED
    BY <2>1, <2>2 DEF Listening
<1>7. CASE ServerDies
  BY <1>7, DeadServer DEF Listening
<1> QED
  BY <1>1, <1>2, <1>3, <1>4, <1>5, <1>6, <1>7 DEF Next, Reads

LEMMA KnownTurnsStep ==
    ASSUME Types, ApprovalLines, TurnLines, Timely, KnownTurns, [Next]_vars
    PROVE  KnownTurns'
<1> SUFFICES ASSUME Listening'
             PROVE  TellsInv' /\ StartsKnown'
  BY DEF KnownTurns
<1>1. /\ Listening /\ client.state = "ready" /\ TellsInv /\ StartsKnown
      /\ server'.alive /\ client'.state = "ready"
  BY StillListening DEF KnownTurns, Listening
<1>2. ASSUME stdout' = stdout, SameActive, SameTurns, server' = server, Settles
      PROVE  TellsInv' /\ StartsKnown'
  <2>1. Comes(0, {}) /\ Goes(0, {})
    BY <1>2, SameMoves
  <2>2. Comes(0, Plain) /\ Goes(0, Plain) /\ Brings /\ Owes
    BY <1>2, <2>1, BringsOld DEF Comes, Goes, Owes
  <2> QED
    BY <1>1, <1>2, <2>2, KnownTurnsQuiet
<1>3. CASE UNCHANGED vars
  BY <1>2, <1>3, RecordsLeft, TurnsLeft, SettledKept, SettlesSame DEF vars
<1>4. CASE ReadResponse
  BY <1>1, <1>4, KnownReadResponse
<1>5. CASE ReadStatus \/ ReadError \/ ReadApprovalRequest
  <2>1. PICK kind \in Plain : Reading(kind)
    BY <1>5 DEF ReadStatus, ReadError, ReadApprovalRequest, Plain
  <2>2. Comes(1, {}) /\ Goes(1, {kind})
    BY <2>1, ReadMoves
  <2>3. SameActive /\ SameTurns /\ server' = server
    BY <1>5, RecordsLeft, TurnsLeft
  <2>4. Comes(1, Plain) /\ Goes(1, Plain) /\ Brings /\ Owes
    BY <2>1, <2>2, <2>3, BringsOld DEF Comes, Goes, Owes
  <2>5. Settles
    BY <1>5, SettledKept, SettlesSame
  <2> QED
    BY <1>1, <2>3, <2>4, <2>5, KnownTurnsQuiet
<1>6. CASE ReadTurnStarted
  BY <1>1, <1>6, KnownReadStart
<1>7. CASE ReadTurnCompleted
  BY <1>1, <1>7, KnownReadCompleted
<1>8. CASE GoOnStarted
  BY <1>1, <1>8, KnownGoOnStart
<1>9. CASE GoOnRejected \/ GoOnOpened \/ GoOnLoaded \/ GoOnInterrupted
  <2>1. GoesOn
    BY <1>9 DEF GoesOn
  <2>2. stdout' = stdout /\ Settles
    BY <2>1, GoOnKeeps, FromGoOn, FromKept
  <2> QED
    BY <1>2, <1>9, <2>2, RecordsLeft, TurnsLeft
<1>10. CASE TimeOut \/ \E s \in Sessions : CallsOn(s)
  <2>1. stdout' = stdout
    BY <1>10, TimeOutKeeps, CallKeeps
  <2>2. Settles
    BY <1>10, FromCalls, FromKept
  <2> QED
    BY <1>2, <1>10, <2>1, <2>2, RecordsLeft, TurnsLeft
<1>11. CASE \E p \in approvals : RespondToApproval(p) \/ Expire(p)
  <2>1. stdout' = stdout
    BY <1>11, OneLeaves
  <2>2. Settles
    BY <1>11, SettledKept, SettlesSame
  <2> QED
    BY <1>2, <1>11, <2>1, <2>2, RecordsLeft, TurnsLeft
<1>12. CASE LineTooLong \/ NoticeExit \/ Shutdown
  <2>1. UNCHANGED <<client, stdout, record, server>>
    BY <1>1, <1>12, ClientFails, ShutdownLeaves DEF Deafens
  <2>2. SameTurns
    BY <1>12, TurnsLeft
  <2>3. SameActive
    BY <2>1 DEF SameActive
  <2> QED
    BY <1>2, <2>1, <2>2, <2>3, SettlesSame
<1>13. CASE ServerStartsTurn
  BY <1>1, <1>13, KnownStarts
<1>14. CASE \/ ServerRefuses \/ ServerOpens \/ ServerTakesAnswer
            \/ \E s \in Sessions, a \in Approvals : ServerAsks(a, s)
            \/ \E s \in Sessions : ServerNotifies(s)
            \/ \E r \in server.owed : ServerAnswersTurn(r)
  BY <1>1, <1>14, KnownServed
<1>15. CASE ServerInterrupts
  <2>1. PICK r : r = Head(client.stdin).request
    OBVIOUS
  <2>2. PICK o : o = Resolved(r, "none")
    OBVIOUS
  <2>3. PICK q : q = ResponseLine(o)
    OBVIOUS
  <2>4. PICK l : l = CompletedLine(r.session, FALSE)
    OBVIOUS
  <2>5. /\ Serving("request") /\ r.method = "turn/interrupt" /\ r.session \in Sessions
        /\ server.running[r.session] \in Texts /\ server' = TurnOver(r.session)
        /\ o \in Outcomes /\ o.request = r /\ Say(<<q, l>>)
    BY <1>15, <2>1, <2>2, <2>3, <2>4, InterruptedServer
  <2>6. /\ q \in OutLines /\ q.outcome = o /\ l \in OutLines /\ l.kind = "completed"
    BY <2>3, <2>4, <2>5, LineTypes DEF ResponseLine, CompletedLine
  <2>7. Grown(CompletedLine(r.session, FALSE))
    BY <1>1, <1>15, <2>1, InterruptsMoves
  <2>8. record' = record /\ client'.settled = client.settled
    BY <2>5, TakenLine DEF Serving, bridgeVars, adapterVars
  <2>9. carriedOut' = carriedOut
    BY <1>15 DEF ServerInterrupts
  <2>10. SameTurns
    BY <1>15, <2>9, ServerSilence DEF SameTurns
  <2>11. FineLine(q) /\ FineLine(l)
    BY <2>5, <2>6 DEF FineLine, StartOk
  <2>12. Brings
    BY <2>5, <2>6, <2>11, BringsTwo
  <2> QED
    BY <1>1, <2>5, <2>7, <2>8, <2>10, <2>12, KnownTurnOver
<1>16. ASSUME NEW s \in Sessions, ServerEndsTurn(s)
       PROVE  TellsInv' /\ StartsKnown'
  <2>1. /\ server.running[s] \in Texts /\ server' = TurnOver(s)
        /\ carriedOut' = carriedOut /\ client' = client /\ record' = record
    BY <1>16, TypeFacts DEF ServerEndsTurn, Turns, bridgeVars, adapterVars
  <2>2. PICK f \in BOOLEAN : Say(<<CompletedLine(s, f)>>)
    BY <1>16 DEF ServerEndsTurn
  <2>3. PICK l : l = CompletedLine(s, f)
    OBVIOUS
  <2>4. l \in OutLines /\ l.kind = "completed" /\ Say(<<l>>)
    BY <2>1, <2>2, <2>3, LineTypes DEF CompletedLine
  <2>5. Grown(CompletedLine(s, f)) /\ Brings
    BY <1>1, <2>3, <2>4, OneLine, BringsOne DEF FineLine
  <2>6. SameTurns
    BY <1>16, <2>1, ServerSilence DEF SameTurns
  <2> QED
    BY <1>1, <2>1, <2>5, <2>6, KnownTurnOver
<1>17. CASE ServerDies
  BY <1>1, <1>17, DeadServer
<1> QED
  BY <1>3, <1>4, <1>5, <1>6, <1>7, <1>8, <1>9, <1>10, <1>11, <1>12, <1>13, <1>14,
     <1>15, <1>16, <1>17 DEF Next, Reads, GoesOn, Serves

-----------------------------------------------------------------------------
(* What is known of the texts and their turns.                              *)
TurnsInv == Types /\ ApprovalLines /\ JobsInv /\ TurnLines

LEMMA TurnsInvHolds == Spec => []TurnsInv
<1>1. Init => TurnsInv
  BY InitTypes, ApprovalLinesInit, JobsInvInit, TurnLinesInit DEF TurnsInv
<1>2. TurnsInv /\ [Next]_vars => TurnsInv'
  BY NextTypes, ApprovalLinesStep, JobsInvStep, TurnLinesStep DEF TurnsInv
<1> QED
  BY <1>1, <1>2, PTL DEF Spec

(* A text has at most one request or answer on its way, whatever times out, *)
(* fails or is lost: none of its calls is made twice.                       *)
THEOREM CallsAreMadeOnce == Spec => []JobsInv
<1>1. TurnsInv => JobsInv
  BY DEF TurnsInv
<1> QED
  BY <1>1, TurnsInvHolds, PTL

(* The lines to be read tell the turns as they are: one that is announced   *)
(* runs, or its end comes later; an end that comes is the end of one that   *)
(* was announced or published; and none of that comes twice.                *)
THEOREM TurnLinesHold == Spec => []TurnLines
<1>1. TurnsInv => TurnLines
  BY DEF TurnsInv
<1> QED
  BY <1>1, TurnsInvHolds, PTL

(* A turn is published as started once and then as completed once, as long  *)
(* as no code that awaited turn/start goes on after TerminalLimit later     *)
(* turns have ended.                                                        *)
THEOREM TurnsAreBracketedHolds == Spec /\ []Timely => []TurnsAreBracketed
<1>1. Init => Published
  BY PublishedInit
<1>2. TurnsInv /\ Timely /\ Published /\ [Next]_vars => Published'
  BY PublishedStep DEF TurnsInv
<1>3. Published => TurnsAreBracketed
  BY DEF Published, TurnsAreBracketed
<1> QED
  BY <1>1, <1>2, <1>3, TurnsInvHolds, PTL DEF Spec

(* Under the same condition, when the bridge has read everything and        *)
(* nothing waits to go on, each session has the active turn that the        *)
(* app-server runs.                                                         *)
THEOREM KnowsTheTurnHolds == Spec /\ []Timely => []KnowsTheTurn
<1>1. Init => KnownTurns
  BY KnownTurnsInit
<1>2. TurnsInv /\ Timely /\ KnownTurns /\ [Next]_vars => KnownTurns'
  BY KnownTurnsStep DEF TurnsInv
<1>3. KnownTurns => KnowsTheTurn
  BY DEF KnownTurns, Listening, TellsInv, Told, KnowsTheTurn
<1> QED
  BY <1>1, <1>2, <1>3, TurnsInvHolds, PTL DEF Spec

-----------------------------------------------------------------------------
(* While no more than TerminalLimit turns were asked for, none is forgotten. *)
Few == IsFiniteSet(Texts) /\ Cardinality(Texts) <= TerminalLimit

RememberedTexts == {t \in Texts : Remembered(t)}

NoneForgotten ==
    /\ \A t \in Texts : Ended(t) => Remembered(t)
    /\ Cardinality(RememberedTexts) = Len(terminalTurns)

LEMMA NoneForgottenInit == Init => NoneForgotten
<1> SUFFICES ASSUME Init
             PROVE  NoneForgotten
  OBVIOUS
<1>1. terminalTurns = <<>> /\ \A t \in Texts : turnLog[t] = <<>>
  BY DEF Init
<1>2. RememberedTexts = {}
  BY <1>1 DEF RememberedTexts, Remembered
<1>3. Cardinality(RememberedTexts) = 0
  BY <1>2, FS_EmptySet
<1> QED
  BY <1>1, <1>3 DEF NoneForgotten, Ended

LEMMA NoneForgottenReadEnd ==
    ASSUME Few, Types, TurnLines, NoneForgotten, ReadTurnCompleted
    PROVE  NoneForgotten'
<1>1. PICK t : t = Line.turn
  OBVIOUS
<1>2. /\ t \in Texts /\ Line = stdout[1] /\ stdout[1].kind = "completed"
      /\ Len(stdout) \in Nat \ {0}
      /\ \A u \in Texts : Ended(u)' <=> (Ended(u) \/ u = t)
      /\ terminalTurns' = Remember(t)
  BY <1>1, CompletedTurn DEF ReadTurnCompleted
<1>3. ~Remembered(t)
  <2>1. 1 \in Told /\ IsCompleted(1, t)
    BY <1>1, <1>2 DEF Told, IsCompleted
  <2> QED
    BY <1>2, <2>1 DEF TurnLines, LinesInv, EndedInv
<1>4. PICK S : S = RememberedTexts
  OBVIOUS
<1>5. IsFiniteSet(S) /\ t \notin S /\ Cardinality(S) = Len(terminalTurns)
  BY <1>3, <1>4, FS_Subset DEF Few, RememberedTexts, NoneForgotten
<1>6. /\ IsFiniteSet(S \cup {t})
      /\ Cardinality(S \cup {t}) = Len(terminalTurns) + 1
  BY <1>5, FS_AddElement
<1>7. Cardinality(S \cup {t}) <= Cardinality(Texts)
  BY <1>2, <1>4, FS_Subset DEF Few, RememberedTexts
<1>8. Len(terminalTurns) \in Nat /\ TerminalLimit \in Nat /\ Cardinality(Texts) \in Nat
  BY <1>2, RememberedTurns, AdapterAssumption, FS_CardinalityType DEF Few
<1>9. Len(terminalTurns) < TerminalLimit
  BY <1>6, <1>7, <1>8 DEF Few
<1>10. PICK z : z = terminalTurns'
  OBVIOUS
<1>11. /\ Len(z) = Len(terminalTurns) + 1 /\ z[Len(terminalTurns) + 1] = t
       /\ \A i \in 1 .. Len(terminalTurns) : z[i] = terminalTurns[i]
  <2>1. z = Append(terminalTurns, t) /\ terminalTurns \in Seq(Texts)
    BY <1>2, <1>9, <1>10, RememberedTurns DEF Types
  <2> QED
    BY <1>2, <2>1
<1>12. \A u \in Texts : Remembered(u)' <=> (Remembered(u) \/ u = t)
  <2>1. \A i \in 1 .. Len(z) : i \in 1 .. Len(terminalTurns) \/ i = Len(terminalTurns) + 1
    BY <1>8, <1>11
  <2>2. /\ Len(terminalTurns) + 1 \in 1 .. Len(z)
        /\ \A i \in 1 .. Len(terminalTurns) : i \in 1 .. Len(z)
    BY <1>8, <1>11
  <2> QED
    BY <1>10, <1>11, <2>1, <2>2 DEF Remembered
<1>13. RememberedTexts' = S \cup {t}
  BY <1>2, <1>4, <1>12 DEF RememberedTexts
<1> QED
  BY <1>2, <1>6, <1>10, <1>11, <1>12, <1>13 DEF NoneForgotten

LEMMA NoneForgottenStep ==
    ASSUME Few, Types, ApprovalLines, TurnLines, NoneForgotten, [Next]_vars
    PROVE  NoneForgotten'
<1>1. ASSUME terminalTurns' = terminalTurns, \A t \in Texts : Ended(t)' => Ended(t)
      PROVE  NoneForgotten'
  BY <1>1 DEF NoneForgotten, RememberedTexts, Remembered
<1>2. UNCHANGED <<turnLog, terminalTurns>> => NoneForgotten'
  BY <1>1 DEF Ended
<1>3. CASE ReadTurnStarted
  <2>1. terminalTurns' = terminalTurns
    BY <1>3, StartRead
  <2>2. \A t \in Texts : Ended(t)' => Ended(t)
    BY <1>3, StartRead, MarkedEnds
  <2> QED
    BY <1>1, <2>1, <2>2
<1>4. CASE ReadTurnCompleted
  BY <1>4, NoneForgottenReadEnd
<1>5. CASE GoOnStarted
  <2>1. PICK r : r = Outcome.request
    OBVIOUS
  <2>2. /\ client.settled # <<>> /\ r.method = "turn/start"
        /\ MarkTurnStarted(record, r.session, r.turn)
        /\ terminalTurns' = terminalTurns
    BY <1>5, <2>1 DEF GoOnStarted, Resolves, Settled
  <2>3. /\ r.session \in Sessions /\ r.turn \in Texts
        /\ record \in [Sessions -> ThreadRecords]
    BY <2>1, <2>2, ConsumedOne, RequestFields, TypeFacts
  <2>4. \A t \in Texts : Ended(t)' => Ended(t)
    BY <2>2, <2>3, MarkedEnds
  <2> QED
    BY <1>1, <2>2, <2>4
<1>6. CASE \/ ServerRefuses \/ ServerOpens \/ ServerStartsTurn
           \/ ServerInterrupts \/ ServerTakesAnswer
           \/ \E s \in Sessions, a \in Approvals : ServerAsks(a, s)
           \/ \E s \in Sessions : ServerEndsTurn(s) \/ ServerNotifies(s)
           \/ \E r \in server.owed : ServerAnswersTurn(r)
           \/ ServerDies
  BY <1>2, <1>6, ServerSilence
<1>7. CASE \/ UNCHANGED vars
           \/ ReadResponse \/ ReadStatus \/ ReadError \/ ReadApprovalRequest
           \/ GoOnRejected \/ GoOnOpened \/ GoOnLoaded \/ GoOnInterrupted
           \/ TimeOut \/ LineTooLong \/ NoticeExit \/ Shutdown
           \/ \E s \in Sessions : CallsOn(s)
           \/ \E p \in approvals : RespondToApproval(p) \/ Expire(p)
  BY <1>2, <1>7, TurnsLeft DEF SameTurns
<1> QED
  BY <1>3, <1>4, <1>5, <1>6, <1>7 DEF Next, Reads, GoesOn, Serves

LEMMA NoneForgottenTimely == Types /\ NoneForgotten => Timely
<1> SUFFICES ASSUME Types, NoneForgotten, NEW i \in 1 .. Len(client.settled),
                    client.settled[i].request.method = "turn/start",
                    Ended(client.settled[i].request.turn)
             PROVE  Remembered(client.settled[i].request.turn)
  BY DEF Timely
<1>1. client.settled[i] \in Outcomes
  BY TypeFacts, ClientFields
<1>2. client.settled[i].request.turn \in Texts
  BY <1>1, RequestFields DEF Outcomes
<1> QED
  BY <1>2 DEF NoneForgotten

(* With no more texts than turns are remembered, both hold of every         *)
(* behaviour.                                                               *)
THEOREM FewTurnsAreKept ==
    ASSUME Few
    PROVE  Spec => [](TurnsAreBracketed /\ KnowsTheTurn)
<1>1. Init => NoneForgotten
  BY NoneForgottenInit
<1>2. TurnsInv /\ NoneForgotten /\ [Next]_vars => NoneForgotten'
  BY NoneForgottenStep DEF TurnsInv
<1>3. TurnsInv /\ NoneForgotten => Timely
  BY NoneForgottenTimely DEF TurnsInv
<1>4. Spec => []Timely
  BY <1>1, <1>2, <1>3, TurnsInvHolds, PTL DEF Spec
<1> QED
  BY <1>4, TurnsAreBracketedHolds, KnowsTheTurnHolds, PTL

-----------------------------------------------------------------------------
(* A turn/start that is answered with success was carried out. *)
AnswersCarried ==
    /\ \A r \in server.owed : r.turn \in carriedOut
    /\ \A n \in Told : stdout[n].kind = "response" /\ StartOk(stdout[n].outcome) =>
          stdout[n].outcome.request.turn \in carriedOut
    /\ \A i \in 1 .. Len(client.settled) : StartOk(client.settled[i]) =>
          client.settled[i].request.turn \in carriedOut

LEMMA AnswersCarriedInit == Init => AnswersCarried
<1> SUFFICES ASSUME Init
             PROVE  AnswersCarried
  OBVIOUS
<1>1. stdout = <<>> /\ client.settled = <<>> /\ server.owed = {}
  BY DEF Init, Started
<1> QED
  BY <1>1 DEF AnswersCarried, Told

(* The outcome o says no more than that.                                    *)
Bears(o) == StartOk(o) => o.request.turn \in carriedOut'
BearsLine(l) == l.kind = "response" => Bears(l.outcome)

OwesCarried == \A r \in server'.owed : r \in server.owed \/ r.turn \in carriedOut'

BringsCarried ==
    \A n \in 1 .. Len(stdout') :
        (\E m \in Told : stdout'[n] = stdout[m]) \/ BearsLine(stdout'[n])

SettlesCarried ==
    \A i \in 1 .. Len(client'.settled) :
        \/ \E j \in 1 .. Len(client.settled) : client'.settled[i] = client.settled[j]
        \/ Bears(client'.settled[i])

LEMMA AnswersKept ==
    ASSUME AnswersCarried, carriedOut \subseteq carriedOut',
           OwesCarried, BringsCarried, SettlesCarried
    PROVE  AnswersCarried'
<1>1. \A r \in server'.owed : r.turn \in carriedOut'
  BY DEF AnswersCarried, OwesCarried
<1>2. \A n \in 1 .. Len(stdout') : BearsLine(stdout'[n])
  <2>1. ASSUME NEW m \in Told
        PROVE  BearsLine(stdout[m])
    BY <2>1 DEF AnswersCarried, BearsLine, Bears
  <2> QED
    BY <2>1 DEF BringsCarried
<1>3. \A i \in 1 .. Len(client'.settled) : Bears(client'.settled[i])
  <2>1. ASSUME NEW j \in 1 .. Len(client.settled)
        PROVE  Bears(client.settled[j])
    BY <2>1 DEF AnswersCarried, Bears
  <2> QED
    BY <2>1 DEF SettlesCarried
<1> QED
  BY <1>1, <1>2, <1>3 DEF AnswersCarried, BearsLine, Bears, StartOk, Told

LEMMA SettledFrom ==
    ASSUME FromSettled(client'.settled)
    PROVE  SettlesCarried
BY DEF FromSettled, SettlesCarried, Bears

LEMMA SettledAsBefore ==
    ASSUME client'.settled = client.settled
    PROVE  SettlesCarried
BY DEF SettlesCarried

LEMMA LinesAsBefore ==
    ASSUME NEW d \in {0, 1}, Comes(d, {})
    PROVE  BringsCarried
BY DEF Comes, BringsCarried

LEMMA LinesSaid ==
    ASSUME Types, NEW ls \in Seq(OutLines), Say(ls),
           \A i \in 1 .. Len(ls) : BearsLine(ls[i])
    PROVE  BringsCarried
<1>1. CASE client.state # "ready"
  BY <1>1, SaidLines DEF BringsCarried, Told
<1>2. CASE client.state = "ready"
  <2>1. PICK k : k = Len(stdout)
    OBVIOUS
  <2>2. PICK m : m = Len(ls)
    OBVIOUS
  <2>3. /\ k \in Nat /\ m \in Nat /\ Len(stdout') = k + m
        /\ \A n \in 1 .. k + m :
              stdout'[n] = IF n <= k THEN stdout[n] ELSE ls[n - k]
    BY <1>2, <2>1, <2>2, SaidLines, TypeFacts
  <2>4. ASSUME NEW n \in 1 .. k + m
        PROVE  (\E j \in Told : stdout'[n] = stdout[j]) \/ BearsLine(stdout'[n])
    <3>1. CASE n <= k
      BY <2>1, <2>3, <3>1 DEF Told
    <3>2. CASE ~(n <= k)
      <4>1. n - k \in 1 .. m
        BY <2>3, <3>2
      <4>2. stdout'[n] = ls[n - k] /\ BearsLine(ls[n - k])
        BY <2>2, <2>3, <3>2, <4>1
      <4> QED
        BY <4>2
    <3> QED
      BY <3>1, <3>2
  <2> QED
    BY <2>3, <2>4 DEF BringsCarried
<1> QED
  BY <1>1, <1>2

LEMMA LineSaid ==
    ASSUME Types, NEW l \in OutLines, Say(<<l>>), BearsLine(l)
    PROVE  BringsCarried
<1>1. PICK ls : ls = <<l>>
  OBVIOUS
<1>2. /\ ls \in Seq(OutLines) /\ Say(ls) /\ Len(ls) = 1 /\ ls[1] = l
  BY <1>1
<1>3. \A i \in 1 .. Len(ls) : ls[i] = l
  BY <1>2
<1>4. \A i \in 1 .. Len(ls) : BearsLine(ls[i])
  BY <1>3
<1> QED
  BY <1>2, <1>4, LinesSaid

LEMMA LinesSaidTwo ==
    ASSUME Types, NEW q \in OutLines, NEW l \in OutLines, Say(<<q, l>>),
           BearsLine(q), BearsLine(l)
    PROVE  BringsCarried
<1>1. PICK ls : ls = <<q, l>>
  OBVIOUS
<1>2. /\ ls \in Seq(OutLines) /\ Say(ls) /\ Len(ls) = 2 /\ ls[1] = q /\ ls[2] = l
  BY <1>1
<1>3. \A i \in 1 .. Len(ls) : ls[i] = q \/ ls[i] = l
  <2>1. \A i \in 1 .. 2 : i = 1 \/ i = 2
    OBVIOUS
  <2> QED
    BY <1>2, <2>1
<1>4. \A i \in 1 .. Len(ls) : BearsLine(ls[i])
  BY <1>3
<1> QED
  BY <1>2, <1>4, LinesSaid

(* What fails with the client did not succeed.                              *)
LEMMA FromFailed ==
    ASSUME NEW c \in RpcClients, NEW st \in {"failed", "closed"}, FromSettled(c.settled)
    PROVE  FromSettled(FailAll(c, st).settled)
<1>1. CASE c.state # "ready"
  <2>1. FailAll(c, st) = c
    BY <1>1 DEF FailAll
  <2> QED
    BY <2>1
<1>2. CASE c.state = "ready"
  <2>1. PICK z : z = FailAll(c, st).settled
    OBVIOUS
  <2>2. PICK m \in Nat : m = Len(c.settled)
    BY <1>2, FailedLists
  <2>3. PICK k \in Nat : k = Len(c.pending)
    BY <1>2, FailedLists
  <2>4. /\ Len(z) = m + k
        /\ \A i \in 1 .. m : z[i] = c.settled[i]
        /\ \A i \in 1 .. k : ~z[m + i].ok
    BY <1>2, <2>1, <2>2, <2>3, FailedLists
  <2>5. ASSUME NEW i \in 1 .. m + k
        PROVE  (\E j \in 1 .. Len(client.settled) : z[i] = client.settled[j]) \/ ~StartOk(z[i])
    <3>1. CASE i <= m
      BY <2>2, <2>4, <3>1 DEF FromSettled
    <3>2. CASE ~(i <= m)
      <4>1. i - m \in 1 .. k /\ m + (i - m) = i
        BY <3>2
      <4>2. ~z[i].ok
        BY <2>4, <4>1
      <4> QED
        BY <4>2 DEF StartOk
    <3> QED
      BY <3>1, <3>2
  <2> QED
    BY <2>1, <2>4, <2>5 DEF FromSettled
<1> QED
  BY <1>1, <1>2

LEMMA FromStopped ==
    ASSUME Types, LineTooLong \/ NoticeExit \/ Shutdown
    PROVE  FromSettled(client'.settled)
<1>1. client \in RpcClients /\ FromSettled(client.settled)
  BY DEF Types, FromSettled
<1>2. CASE LineTooLong
  BY <1>1, <1>2, FromFailed DEF LineTooLong
<1>3. CASE NoticeExit
  <2>1. PICK c : c = FailAll(client, "failed")
    OBVIOUS
  <2>2. c \in RpcClients /\ FromSettled(c.settled)
    BY <1>1, <2>1, FailedAll, FromFailed
  <2>3. client' = [c EXCEPT !.writable = FALSE]
    BY <1>3, <2>1 DEF NoticeExit
  <2>4. client'.settled = c.settled
    BY <2>2, <2>3 DEF RpcClients
  <2> QED
    BY <2>2, <2>4
<1>4. CASE Shutdown
  <2>1. PICK c : c = RespondAll(approvals, "cancel")
    OBVIOUS
  <2>2. "cancel" \in Decisions /\ approvals \in SUBSET PendingApprovals
        /\ IsFiniteSet(approvals)
    BY DEF Types, Decisions
  <2>3. c \in RpcClients /\ c.settled = client.settled
    BY <2>1, <2>2, AnsweredAll
  <2>4. client' = client \/ client' = FailAll(c, "closed")
    BY <1>4, <2>1 DEF Shutdown
  <2> QED
    BY <1>1, <2>3, <2>4, FromFailed
<1> QED
  BY <1>2, <1>3, <1>4

LEMMA AnswersServed ==
    ASSUME Types, AnswersCarried,
           \/ ServerRefuses \/ ServerOpens \/ ServerStartsTurn
           \/ ServerInterrupts \/ ServerTakesAnswer
           \/ \E s \in Sessions, a \in Approvals : ServerAsks(a, s)
           \/ \E s \in Sessions : ServerEndsTurn(s) \/ ServerNotifies(s)
           \/ \E r \in server.owed : ServerAnswersTurn(r)
           \/ ServerDies
    PROVE  AnswersCarried'
<1>1. SettlesCarried
  <2>1. client' = client \/ ServerDies \/ \E kind : Serving(kind)
    BY DEF ServerRefuses, ServerOpens, ServerStartsTurn, ServerInterrupts,
       ServerTakesAnswer, Asks, ServerAsks, ServerEndsTurn, ServerNotifies,
       ServerAnswersTurn
  <2> QED
    BY <2>1, TakenLine, DeadServer, SettledAsBefore
<1>2. ServerStartsTurn \/ carriedOut' = carriedOut
  BY ServerSilence DEF SameTurns
<1>3. ASSUME carriedOut' = carriedOut, server'.owed \in SUBSET server.owed, BringsCarried
      PROVE  AnswersCarried'
  <2>1. OwesCarried
    BY <1>3 DEF OwesCarried
  <2> QED
    BY <1>1, <1>3, <2>1, AnswersKept
<1>4. ASSUME NEW o \in Outcomes, NEW l, l = ResponseLine(o)
      PROVE  /\ l \in OutLines
             /\ Bears(o) => BearsLine(l)
  BY <1>4, LineTypes DEF ResponseLine, BearsLine
<1>5. CASE ServerRefuses
  <2>1. PICK r : r = Head(client.stdin).request
    OBVIOUS
  <2>2. PICK o : o = Rejected(r)
    OBVIOUS
  <2>3. r \in Requests
    BY <1>5, <2>1, TakenLine, InLineFields DEF ServerRefuses
  <2>4. o \in Outcomes /\ Bears(o)
    BY <2>2, <2>3, RequestFields DEF Bears, StartOk
  <2>5. Say(<<ResponseLine(o)>>) /\ server' = server
    BY <1>5, <2>1, <2>2 DEF ServerRefuses
  <2>6. BringsCarried
    BY <1>4, <2>4, <2>5, LineSaid
  <2> QED
    BY <1>2, <1>3, <1>5, <2>5, <2>6 DEF ServerRefuses
<1>6. CASE ServerOpens
  <2>1. PICK o \in Outcomes :
            /\ o.request.method \in {"thread/resume", "thread/start"}
            /\ Say(<<ResponseLine(o)>>)
    BY <1>6, OpenedServer
  <2>2. Bears(o)
    BY <2>1 DEF Bears, StartOk
  <2>3. server'.owed = server.owed /\ carriedOut' = carriedOut
    BY <1>6, OpenedServer DEF ServerOpens
  <2>4. BringsCarried
    BY <1>4, <2>1, <2>2, LineSaid
  <2> QED
    BY <1>3, <2>3, <2>4
<1>7. CASE ServerTakesAnswer \/ ServerDies
  <2>1. /\ stdout' = stdout /\ server'.owed \in SUBSET server.owed
        /\ carriedOut' = carriedOut
    BY <1>7, AnsweredServer, DeadServer DEF ServerTakesAnswer, ServerDies
  <2>2. BringsCarried
    BY <2>1, SameMoves, LinesAsBefore
  <2> QED
    BY <1>3, <2>1, <2>2
<1>8. ASSUME NEW s \in Sessions, NEW a \in Approvals, ServerAsks(a, s)
      PROVE  AnswersCarried'
  <2>1. PICK l : l = ApprovalLine(a, s)
    OBVIOUS
  <2>2. /\ l \in OutLines /\ Say(<<l>>) /\ server'.owed = server.owed
        /\ carriedOut' = carriedOut
    BY <1>8, <2>1, AskingServer DEF ServerAsks
  <2>3. BearsLine(l)
    BY <2>1 DEF ApprovalLine, BearsLine
  <2> QED
    BY <1>3, <2>2, <2>3, LineSaid
<1>9. ASSUME NEW s \in Sessions, ServerNotifies(s)
      PROVE  AnswersCarried'
  <2>1. PICK l \in OutLines : l.kind \in {"status", "error"} /\ Say(<<l>>)
    BY <1>9, NoticedServer
  <2>2. BearsLine(l) /\ server' = server /\ carriedOut' = carriedOut
    BY <1>9, <2>1 DEF ServerNotifies, BearsLine
  <2> QED
    BY <1>3, <2>1, <2>2, LineSaid
<1>10. ASSUME NEW s \in Sessions, ServerEndsTurn(s)
       PROVE  AnswersCarried'
  <2>1. /\ server.running[s] \in Texts /\ server' = TurnOver(s)
        /\ carriedOut' = carriedOut
    BY <1>10, TypeFacts DEF ServerEndsTurn, Turns
  <2>2. server'.owed = server.owed
    BY <2>1, TurnOverFields
  <2>3. PICK f \in BOOLEAN : Say(<<CompletedLine(s, f)>>)
    BY <1>10 DEF ServerEndsTurn
  <2>4. PICK l : l = CompletedLine(s, f)
    OBVIOUS
  <2>5. l \in OutLines /\ BearsLine(l) /\ Say(<<l>>)
    BY <2>1, <2>3, <2>4, LineTypes DEF CompletedLine, BearsLine
  <2> QED
    BY <1>3, <2>1, <2>2, <2>5, LineSaid
<1>11. ASSUME NEW r \in server.owed, ServerAnswersTurn(r)
       PROVE  AnswersCarried'
  <2>1. PICK o : o = Resolved(r, "none")
    OBVIOUS
  <2>2. /\ server'.owed \in SUBSET server.owed /\ o \in Outcomes /\ o.request = r
        /\ carriedOut' = carriedOut /\ Say(<<ResponseLine(o)>>)
    BY <1>11, <2>1, PaidServer DEF ServerAnswersTurn
  <2>3. Bears(o)
    BY <2>2 DEF Bears, AnswersCarried
  <2>4. BringsCarried
    BY <1>4, <2>2, <2>3, LineSaid
  <2> QED
    BY <1>3, <2>2, <2>4
<1>12. CASE ServerInterrupts
  <2>1. PICK r : r = Head(client.stdin).request
    OBVIOUS
  <2>2. PICK o : o = Resolved(r, "none")
    OBVIOUS
  <2>3. PICK q : q = ResponseLine(o)
    OBVIOUS
  <2>4. PICK l : l = CompletedLine(r.session, FALSE)
    OBVIOUS
  <2>5. /\ r.method = "turn/interrupt" /\ r.session \in Sessions
        /\ server.running[r.session] \in Texts /\ server' = TurnOver(r.session)
        /\ o \in Outcomes /\ o.request = r /\ Say(<<q, l>>)
        /\ carriedOut' = carriedOut
    BY <1>12, <2>1, <2>2, <2>3, <2>4, InterruptedServer DEF ServerInterrupts
  <2>6. Bears(o)
    BY <2>5 DEF Bears, StartOk
  <2>7. q \in OutLines /\ BearsLine(q)
    BY <1>4, <2>3, <2>5, <2>6
  <2>8. l \in OutLines /\ BearsLine(l)
    BY <2>4, <2>5, LineTypes DEF CompletedLine, BearsLine
  <2>9. server'.owed = server.owed
    BY <2>5, TurnOverFields
  <2> QED
    BY <1>3, <2>5, <2>7, <2>8, <2>9, LinesSaidTwo
<1>13. CASE ServerStartsTurn
  <2>1. PICK r : r = Head(client.stdin).request
    OBVIOUS
  <2>2. PICK o : o = Resolved(r, "none")
    OBVIOUS
  <2>3. PICK q : q = ResponseLine(o)
    OBVIOUS
  <2>4. PICK l : l = StartedLine(r.session, r.turn)
    OBVIOUS
  <2>5. /\ carriedOut' = carriedOut \cup {r.turn}
        /\ \A p \in server'.owed : p \in server.owed \/ p = r
        /\ l \in OutLines /\ o \in Outcomes
        /\ Say(<<q, l>>) \/ Say(<<l>>)
    BY <1>13, <2>1, <2>2, <2>3, <2>4, StartedServer
  <2>6. o.request = r
    BY <2>2 DEF Resolved
  <2>7. Bears(o)
    BY <2>5, <2>6 DEF Bears
  <2>8. q \in OutLines /\ BearsLine(q)
    BY <1>4, <2>3, <2>5, <2>7
  <2>9. BearsLine(l)
    BY <2>4 DEF StartedLine, BearsLine
  <2>10. BringsCarried
    BY <2>5, <2>8, <2>9, LineSaid, LinesSaidTwo
  <2>11. OwesCarried
    BY <2>5 DEF OwesCarried
  <2> QED
    BY <1>1, <2>5, <2>10, <2>11, AnswersKept
<1> QED
  BY <1>5, <1>6, <1>7, <1>8, <1>9, <1>10, <1>11, <1>12, <1>13

LEMMA AnswersCarriedStep ==
    ASSUME Types, ApprovalLines, AnswersCarried, [Next]_vars
    PROVE  AnswersCarried'
<1>1. ASSUME carriedOut' = carriedOut, server' = server, BringsCarried, SettlesCarried
      PROVE  AnswersCarried'
  <2>1. OwesCarried
    BY <1>1 DEF OwesCarried
  <2> QED
    BY <1>1, <2>1, AnswersKept
<1>2. ASSUME NEW kind, Reading(kind)
      PROVE  BringsCarried
  BY <1>2, ReadMoves, LinesAsBefore
<1>3. stdout' = stdout \/ stdout' = <<>> => BringsCarried
  BY SameMoves, ClearedMoves, LinesAsBefore
<1>4. CASE ReadStatus \/ ReadError \/ ReadApprovalRequest \/ ReadTurnStarted
           \/ ReadTurnCompleted
  <2>1. \/ Reading("status") \/ Reading("error") \/ Reading("approval")
        \/ Reading("started") \/ Reading("completed")
    BY <1>4 DEF ReadStatus, ReadError, ReadApprovalRequest, ReadTurnStarted,
       ReadTurnCompleted
  <2>2. carriedOut' = carriedOut /\ server' = server
    BY <1>4 DEF ReadStatus, ReadError, ReadApprovalRequest, ReadTurnStarted,
       ReadTurnCompleted, serverVars
  <2>3. SettlesCarried
    BY <1>4, SettledKept, SettledAsBefore
  <2> QED
    BY <1>1, <1>2, <2>1, <2>2, <2>3
<1>5. CASE ReadResponse
  <2>1. PICK o : o = Line.outcome
    OBVIOUS
  <2>2. Reading("response") /\ carriedOut' = carriedOut /\ server' = server
    BY <1>5 DEF ReadResponse, serverVars
  <2>3. /\ o \in Outcomes /\ 1 \in Told /\ stdout[1].kind = "response"
        /\ stdout[1].outcome = o
    BY <2>1, <2>2, ReadLine, LineFields DEF Told
  <2>4. Bears(o)
    BY <2>2, <2>3 DEF AnswersCarried, Bears
  <2>5. CASE IsPending(client, o.request)
    <3>1. client \in RpcClients /\ client.settled \in Seq(Outcomes)
      BY ClientFields DEF Types
    <3>2. PICK k \in 1 .. Len(client.pending) : client.pending[k] = o.request
      BY <2>5 DEF IsPending
    <3>3. client' = SettleRequest(client, o)
      BY <1>5, <2>1, <2>5 DEF ReadResponse, DispatchResponse
    <3>4. PICK z : z = client'.settled
      OBVIOUS
    <3>5. z = Append(client.settled, o)
      BY <2>3, <3>1, <3>2, <3>3, <3>4, SettledOne
    <3>6. /\ Len(client.settled) \in Nat /\ Len(z) = Len(client.settled) + 1
          /\ z[Len(client.settled) + 1] = o
          /\ \A i \in 1 .. Len(client.settled) : z[i] = client.settled[i]
      BY <2>3, <3>1, <3>5
    <3>7. \A i \in 1 .. Len(z) : i \in 1 .. Len(client.settled) \/ z[i] = o
      BY <3>6
    <3>8. SettlesCarried
      BY <2>4, <3>4, <3>6, <3>7 DEF SettlesCarried
    <3> QED
      BY <1>1, <1>2, <2>2, <3>8
  <2>6. CASE ~IsPending(client, o.request)
    <3>1. client' = client
      BY <1>5, <2>1, <2>6 DEF ReadResponse, DispatchResponse
    <3> QED
      BY <1>1, <1>2, <2>2, <3>1, SettledAsBefore
  <2> QED
    BY <2>5, <2>6
<1>6. CASE UNCHANGED vars \/ \E p \in approvals : RespondToApproval(p) \/ Expire(p)
  <2>1. stdout' = stdout
    BY <1>6, OneLeaves DEF vars
  <2>2. SettlesCarried
    BY <1>6, SettledKept, SettledAsBefore
  <2> QED
    BY <1>1, <1>3, <1>6, <2>1, <2>2, TurnsLeft DEF SameTurns
<1>7. CASE GoesOn
  <2>1. stdout' = stdout /\ server' = server /\ carriedOut' = carriedOut
    BY <1>7, GoOnKeeps DEF GoesOn, GoOnRejected, GoOnOpened, GoOnLoaded, GoOnStarted,
       GoOnInterrupted, serverVars
  <2> QED
    BY <1>1, <1>3, <1>7, <2>1, FromGoOn, SettledFrom
<1>8. CASE TimeOut \/ \E s \in Sessions : CallsOn(s)
  <2>1. stdout' = stdout
    BY <1>8, TimeOutKeeps, CallKeeps
  <2> QED
    BY <1>1, <1>3, <1>8, <2>1, FromCalls, SettledFrom, TurnsLeft DEF SameTurns
<1>9. CASE LineTooLong \/ NoticeExit \/ Shutdown
  <2>1. stdout' = stdout \/ stdout' = <<>>
    BY <1>9, ClientFails, ShutdownLeaves DEF Deafens
  <2> QED
    BY <1>1, <1>3, <1>9, <2>1, FromStopped, SettledFrom, TurnsLeft DEF SameTurns
<1> QED
  BY <1>4, <1>5, <1>6, <1>7, <1>8, <1>9, AnswersServed DEF Next, Reads, Serves

-----------------------------------------------------------------------------
(* Each text moves as an agent call. *)
InPipe(x) == server.alive /\ StillInPipe(x)

(* The job x stays; nobody asks anew for what it asked for and gave up.     *)
Stays(x) ==
    /\ job'[x] = job[x] /\ (x \in carriedOut => x \in carriedOut')
    /\ job[x] = "failed" /\ x \notin carriedOut =>
          (InPipe(x)' \/ x \in carriedOut' => InPipe(x))

Begins(x) ==
    /\ job[x] = "new" /\ job'[x] \in {"waiting", "failed"} /\ x \notin carriedOut'
    /\ job'[x] = "failed" => ~InPipe(x)'

Fails(x) ==
    /\ job[x] = "waiting" /\ job'[x] = "failed"
    /\ x \in carriedOut' <=> x \in carriedOut

Succeeds(x) == job[x] = "waiting" /\ job'[x] = "succeeded" /\ x \in carriedOut

LEMMA StageMoves ==
    ASSUME Types, Types', NEW x \in Texts, Stays(x) \/ Begins(x) \/ Fails(x) \/ Succeeds(x)
    PROVE  Text!Step(x) \/ Stage(x)' = Stage(x)
<1>1. ASSUME NEW a, NEW b, Stage(x) = a, Stage(x)' = b
      PROVE  Text!Move(x, a, b)
  BY <1>1 DEF Text!Move
<1>2. /\ job[x] \in {"new", "waiting", "succeeded", "failed"}
      /\ job'[x] \in {"new", "waiting", "succeeded", "failed"}
  BY DEF Types, Jobs
<1>3. /\ job[x] = "new" => Stage(x) = "new"
      /\ job[x] = "waiting" => Stage(x) = IF x \in carriedOut THEN "done" ELSE "fresh"
      /\ job[x] = "succeeded" => Stage(x) = "succeeded"
      /\ job[x] = "failed" =>
            Stage(x) = IF x \in carriedOut THEN "failed after the effect"
                       ELSE IF InPipe(x) THEN "adrift" ELSE "failed"
  BY DEF Stage, InPipe
<1>4. /\ job'[x] = "new" => Stage(x)' = "new"
      /\ job'[x] = "waiting" => Stage(x)' = IF x \in carriedOut' THEN "done" ELSE "fresh"
      /\ job'[x] = "succeeded" => Stage(x)' = "succeeded"
      /\ job'[x] = "failed" =>
            Stage(x)' = IF x \in carriedOut' THEN "failed after the effect"
                        ELSE IF InPipe(x)' THEN "adrift" ELSE "failed"
  BY DEF Stage, InPipe
<1>5. CASE Stays(x)
  <2>1. CASE job[x] = "new" \/ job[x] = "succeeded"
    <3>1. job'[x] = job[x]
      BY <1>5 DEF Stays
    <3>2. CASE job[x] = "new"
      <4>1. Stage(x) = "new" /\ Stage(x)' = "new"
        BY <1>3, <1>4, <3>1, <3>2
      <4> QED
        BY <4>1
    <3>3. CASE job[x] = "succeeded"
      <4>1. Stage(x) = "succeeded" /\ Stage(x)' = "succeeded"
        BY <1>3, <1>4, <3>1, <3>3
      <4> QED
        BY <4>1
    <3> QED
      BY <2>1, <3>2, <3>3
  <2>2. CASE job[x] = "waiting"
    <3>1. Stage(x)' = Stage(x) \/ (Stage(x) = "fresh" /\ Stage(x)' = "done")
      BY <1>3, <1>4, <1>5, <2>2 DEF Stays
    <3> QED
      BY <1>1, <3>1 DEF Text!Step, Text!Perform
  <2>3. CASE job[x] = "failed"
    <3>1. \/ Stage(x)' = Stage(x)
          \/ Stage(x) = "adrift" /\ Stage(x)' \in {"failed after the effect", "failed"}
      BY <1>3, <1>4, <1>5, <2>3 DEF Stays
    <3> QED
      BY <1>1, <3>1 DEF Text!Step, Text!Perform, Text!Sink
  <2> QED
    BY <1>2, <2>1, <2>2, <2>3
<1>6. CASE Begins(x)
  <2>1. Stage(x) = "new" /\ Stage(x)' \in {"fresh", "failed"}
    BY <1>3, <1>4, <1>6 DEF Begins
  <2> QED
    BY <1>1, <2>1 DEF Text!Step, Text!Ask
<1>7. CASE Fails(x)
  <2>1. \/ Stage(x) = "done" /\ Stage(x)' = "failed after the effect"
        \/ Stage(x) = "fresh" /\ Stage(x)' \in {"adrift", "failed"}
    BY <1>3, <1>4, <1>7 DEF Fails
  <2> QED
    BY <1>1, <2>1 DEF Text!Step, Text!FailLate, Text!GiveUp, Text!Fail
<1>8. CASE Succeeds(x)
  <2>1. Stage(x) = "done" /\ Stage(x)' = "succeeded"
    BY <1>3, <1>4, <1>8 DEF Succeeds
  <2> QED
    BY <1>1, <2>1 DEF Text!Step, Text!Succeed
<1> QED
  BY <1>5, <1>6, <1>7, <1>8

(* What is in the pipe was in it before.                                    *)
PipeFades == \A x \in Texts : StillInPipe(x)' => StillInPipe(x)

LEMMA PipeOld ==
    ASSUME \A i \in 1 .. Len(client'.stdin) :
              \/ \E j \in 1 .. Len(client.stdin) : client'.stdin[i] = client.stdin[j]
              \/ client'.stdin[i].kind = "answer"
    PROVE  PipeFades
<1>1. ASSUME NEW x \in Texts, NEW i \in 1 .. Len(client'.stdin),
             client'.stdin[i].kind = "request", client'.stdin[i].request.job = x,
             client'.stdin[i].request.method = "turn/start"
      PROVE  StillInPipe(x)
  BY <1>1 DEF StillInPipe
<1> QED
  BY <1>1 DEF PipeFades, StillInPipe

LEMMA PipeSame ==
    ASSUME client'.stdin = client.stdin
    PROVE  PipeFades
BY DEF PipeFades, StillInPipe

LEMMA PipeAnswered ==
    ASSUME Types, NEW some \in SUBSET PendingApprovals, IsFiniteSet(some),
           NEW d \in Decisions, client' = client \/ client'.stdin = RespondAll(some, d).stdin
    PROVE  PipeFades
<1>1. CASE client' = client
  BY <1>1, PipeSame
<1>2. CASE client'.stdin = RespondAll(some, d).stdin
  <2>1. /\ \A i \in 1 .. Len(client.stdin) : client'.stdin[i] = client.stdin[i]
        /\ \A i \in 1 .. Len(client'.stdin) :
              i \in 1 .. Len(client.stdin) \/ client'.stdin[i].kind = "answer"
    BY <1>2, AnsweredAll
  <2> QED
    BY <2>1, PipeOld
<1> QED
  BY <1>1, <1>2

LEMMA PipeTaken ==
    ASSUME Types, NEW kind, Serving(kind)
    PROVE  PipeFades
<1>1. /\ Len(client.stdin) \in Nat \ {0} /\ Len(client'.stdin) = Len(client.stdin) - 1
      /\ \A i \in 1 .. Len(client.stdin) - 1 : client'.stdin[i] = client.stdin[i + 1]
  BY TakenLine
<1>2. \A i \in 1 .. Len(client'.stdin) : i + 1 \in 1 .. Len(client.stdin)
  BY <1>1
<1> QED
  BY <1>1, <1>2, PipeOld

(* The request r is written, or refused.                                    *)
LEMMA PipeRequested ==
    ASSUME NEW c \in RpcClients, c.stdin = client.stdin, NEW r \in Requests,
           client' = Request(c, r), NEW x \in Texts, StillInPipe(x)'
    PROVE  StillInPipe(x) \/ (x = r.job /\ r.method = "turn/start")
<1>1. PICK z : z = client'.stdin
  OBVIOUS
<1>2. PICK l : l = RequestLine(r)
  OBVIOUS
<1>3. l \in InLines /\ l.request = r
  BY <1>2, RequestFields
<1>4. CASE z = client.stdin
  BY <1>1, <1>4 DEF StillInPipe
<1>5. CASE z = Append(client.stdin, l)
  <2>1. client.stdin \in Seq(InLines)
    BY ClientFields
  <2>2. /\ Len(client.stdin) \in Nat /\ Len(z) = Len(client.stdin) + 1
        /\ z[Len(client.stdin) + 1] = l
        /\ \A i \in 1 .. Len(client.stdin) : z[i] = client.stdin[i]
    BY <1>3, <1>5, <2>1
  <2>3. \A i \in 1 .. Len(z) : i \in 1 .. Len(client.stdin) \/ z[i] = l
    BY <2>2
  <2> QED
    BY <1>1, <1>3, <2>2, <2>3 DEF StillInPipe
<1> QED
  BY <1>1, <1>2, <1>4, <1>5, Requested

Moves(x) == Stays(x) \/ Begins(x) \/ Fails(x) \/ Succeeds(x)

(* The texts stay when nobody asks and nothing is carried out.              *)
Untouched ==
    /\ carriedOut' = carriedOut /\ job' = job
    /\ server'.alive => server.alive
    /\ PipeFades

LEMMA UntouchedStays ==
    ASSUME Untouched, NEW x \in Texts
    PROVE  Moves(x)
<1>1. InPipe(x)' => InPipe(x)
  BY DEF Untouched, PipeFades, InPipe
<1> QED
  BY <1>1 DEF Untouched, Moves, Stays

(* The job j settles, or asks by r; another text stays.                     *)
LEMMA OthersStay ==
    ASSUME Types, NEW j \in Jobs, NEW phase, job' = [job EXCEPT ![j] = phase],
           carriedOut' = carriedOut, server' = server, NEW x \in Texts, x # j,
           StillInPipe(x)' => StillInPipe(x)
    PROVE  Moves(x)
<1>1. InPipe(x)' => InPipe(x)
  BY DEF InPipe
<1>2. job'[x] = job[x]
  BY DEF Types, Jobs
<1> QED
  BY <1>1, <1>2 DEF Moves, Stays

LEMMA AskingMoves ==
    ASSUME Types, JobsInv, NEW c \in RpcClients, c.stdin = client.stdin,
           NEW r \in Requests, client' = Request(c, r),
           job' = [job EXCEPT ![r.job] = "waiting"], job[r.job] \in {"new", "waiting"},
           carriedOut' = carriedOut, server' = server, NEW x \in Texts
    PROVE  Moves(x)
<1>1. r.job \in Jobs
  BY RequestFields
<1>2. CASE x # r.job
  <2>1. StillInPipe(x)' => StillInPipe(x)
    BY <1>2, PipeRequested
  <2> QED
    BY <1>1, <1>2, <2>1, OthersStay
<1>3. CASE x = r.job
  <2>1. job'[x] = "waiting"
    BY <1>1, <1>3 DEF Types
  <2>2. CASE job[x] = "new"
    <3>1. x \notin carriedOut
      BY <2>2 DEF JobsInv, Begun
    <3> QED
      BY <2>1, <2>2, <3>1 DEF Moves, Begins
  <2>3. CASE job[x] = "waiting"
    BY <2>1, <2>3 DEF Moves, Stays
  <2> QED
    BY <1>3, <2>2, <2>3
<1> QED
  BY <1>2, <1>3

LEMMA CallsMove ==
    ASSUME Types, JobsInv, NEW s \in Sessions, CallsOn(s), NEW y \in Texts
    PROVE  Moves(y)
<1>1. client \in RpcClients /\ client.stdin = client.stdin
  BY DEF Types
<1>2. carriedOut' = carriedOut /\ server' = server
  BY DEF CallsOn, SubmitText, ResumeSession, StartSession, Interrupt, Ask, serverVars
<1>3. ASSUME NEW r \in Requests, job[r.job] = "new", client' = Request(client, r),
             job' = [job EXCEPT ![r.job] = "waiting"]
      PROVE  Moves(y)
  BY <1>1, <1>2, <1>3, AskingMoves
<1>4. ASSUME NEW j \in Jobs,
             NEW m \in {"thread/resume", "thread/start", "turn/interrupt"},
             NEW t \in Turns, m = "turn/interrupt" => j \in Interrupts /\ t \in Texts,
             Ask(j, m, s, t)
      PROVE  Moves(y)
  <2>1. PICK r : r = Call(j, m, s, t)
    OBVIOUS
  <2>2. r \in Requests /\ client' = Request(client, r)
    BY <1>4, <2>1, AskTypes
  <2>3. r.job = j
    BY <2>1 DEF Call
  <2> QED
    BY <1>3, <1>4, <2>2, <2>3 DEF Ask
<1>5. ASSUME NEW x \in Texts, SubmitText(x, s)
      PROVE  Moves(y)
  <2>1. x \in Jobs /\ job[x] = "new"
    BY <1>5 DEF SubmitText, Jobs
  <2>2. ASSUME NEW r, r \in {Call(x, "thread/resume", s, NoTurn),
                             Call(x, "turn/start", s, x)},
               client' = Request(client, r), job' = [job EXCEPT ![x] = "waiting"]
        PROVE  Moves(y)
    <3>1. r \in Requests /\ r.job = x
      BY <2>2 DEF Call, Requests, Methods, Turns, Jobs
    <3> QED
      BY <1>3, <2>1, <2>2, <3>1
  <2>3. CASE job' = [job EXCEPT ![x] = "failed"] /\ client' = client
    <3>1. StillInPipe(y)' => StillInPipe(y)
      BY <2>3 DEF StillInPipe
    <3>2. CASE y # x
      BY <1>2, <2>1, <2>3, <3>1, <3>2, OthersStay
    <3>3. CASE y = x
      <4>1. job[y] = "new" /\ job'[y] = "failed"
        BY <2>1, <2>3, <3>3 DEF Types
      <4>2. y \notin Begun
        BY <4>1 DEF JobsInv
      <4>3. y \notin carriedOut /\ ~StillInPipe(y)
        BY <4>2 DEF Begun, AsksFor, StillInPipe
      <4> QED
        BY <1>2, <3>1, <4>1, <4>3 DEF Moves, Begins, InPipe
    <3> QED
      BY <3>2, <3>3
  <2> QED
    BY <1>5, <2>2, <2>3 DEF SubmitText, StartTurn
<1>6. ASSUME NEW o \in Opens, ResumeSession(o, s) \/ StartSession(o, s)
      PROVE  Moves(y)
  <2>1. \E m \in {"thread/resume", "thread/start"} : Ask(o, m, s, NoTurn)
    BY <1>6 DEF ResumeSession, StartSession
  <2>2. o \in Jobs /\ NoTurn \in Turns
    BY DEF Jobs, Turns
  <2> QED
    BY <1>4, <2>1, <2>2
<1>7. ASSUME NEW i \in Interrupts, Interrupt(i, s)
      PROVE  Moves(y)
  <2>1. /\ Ask(i, "turn/interrupt", s, record[s].turn) /\ i \in Jobs /\ i \in Interrupts
        /\ record[s].turn \in Turns /\ record[s].turn \in Texts
    BY <1>7, TypeFacts DEF Interrupt, Jobs, Turns
  <2> QED
    BY <1>4, <2>1
<1> QED
  BY <1>5, <1>6, <1>7 DEF CallsOn

(* The code that awaited goes on.                                           *)
LEMMA GoesOnMoves ==
    ASSUME Types, JobsInv, AnswersCarried, GoesOn, NEW x \in Texts
    PROVE  Moves(x)
<1>1. /\ client.settled # <<>> /\ carriedOut' = carriedOut /\ server' = server
  BY DEF GoesOn, GoOnRejected, GoOnOpened, GoOnLoaded, GoOnStarted, GoOnInterrupted,
     Resolves, Settled, serverVars
<1>2. /\ Consumed \in RpcClients /\ Consumed.pending = client.pending
      /\ Consumed.settled = Tail(client.settled) /\ Consumed.stdin = client.stdin
      /\ Outcome \in Outcomes /\ Outcome.request \in Requests /\ Caller \in Jobs
      /\ Caller = Outcome.request.job
      /\ 1 \in 1 .. Len(client.settled) /\ Outcome = client.settled[1]
  BY <1>1, ConsumedOne, RequestFields DEF Caller
<1>3. Outstanding(Outcome.request, job, Begun)
  BY <1>1, <1>2, JobsConsumed
<1>4. job[Caller] = "waiting"
  BY <1>2, <1>3 DEF Outstanding
<1>5. ASSUME NEW phase \in {"succeeded", "failed"}, client'.stdin = client.stdin,
             job' = [job EXCEPT ![Caller] = phase],
             phase = "succeeded" => Caller \notin Texts \/ Caller \in carriedOut
      PROVE  Moves(x)
  <2>1. StillInPipe(x)' => StillInPipe(x)
    BY <1>5 DEF StillInPipe
  <2>2. CASE x # Caller
    BY <1>1, <1>2, <1>5, <2>1, <2>2, OthersStay
  <2>3. CASE x = Caller
    <3>1. job[x] = "waiting" /\ job'[x] = phase
      BY <1>2, <1>4, <1>5, <2>3 DEF Types
    <3>2. CASE phase = "failed"
      BY <1>1, <3>1, <3>2 DEF Moves, Fails
    <3>3. CASE phase = "succeeded"
      BY <1>5, <2>3, <3>1, <3>3 DEF Moves, Succeeds
    <3> QED
      BY <1>5, <3>2, <3>3
  <2> QED
    BY <2>2, <2>3
<1>6. CASE GoOnRejected
  <2>1. Finish("failed")
    BY <1>6 DEF GoOnRejected
  <2> QED
    BY <1>2, <1>5, <2>1 DEF Finish
<1>7. CASE GoOnStarted
  <2>1. /\ Finish("succeeded") /\ Outcome.ok /\ Outcome.request.method = "turn/start"
    BY <1>7 DEF GoOnStarted, Resolves
  <2>2. Outcome.request.turn \in carriedOut
    BY <1>2, <2>1 DEF AnswersCarried, StartOk
  <2>3. Caller \in carriedOut
    BY <1>2, <2>1, <2>2, RequestFields
  <2> QED
    BY <1>2, <1>5, <2>1, <2>3 DEF Finish
<1>8. CASE GoOnInterrupted
  <2>1. /\ Finish("succeeded") /\ Outcome.request.method = "turn/interrupt"
    BY <1>8 DEF GoOnInterrupted, Resolves
  <2>2. Caller \notin Texts
    BY <1>2, <2>1, RequestFields, AdapterAssumption
  <2> QED
    BY <1>2, <1>5, <2>1, <2>2 DEF Finish
<1>9. CASE GoOnOpened
  <2>1. client'.stdin = client.stdin
    BY <1>9, OpenedFields
  <2>2. CASE Caller \in Texts
    <3>1. job' = job
      BY <1>9, <2>2 DEF GoOnOpened
    <3>2. Untouched
      BY <1>1, <2>1, <3>1, PipeSame DEF Untouched
    <3> QED
      BY <3>2, UntouchedStays
  <2>3. CASE Caller \notin Texts
    <3>1. Finish("succeeded")
      BY <1>9, <2>3 DEF GoOnOpened
    <3> QED
      BY <1>5, <2>1, <2>3, <3>1 DEF Finish
  <2> QED
    BY <2>2, <2>3
<1>10. CASE GoOnLoaded
  <2>1. /\ Outcome.request.method = "loaded"
        /\ StartTurn(Consumed, Caller, Outcome.request.session)
    BY <1>10 DEF GoOnLoaded, Resolves
  <2>2. Outcome.request.session \in Sessions /\ Caller \in Texts
    BY <1>2, <2>1, RequestFields
  <2>3. CASE job' = [job EXCEPT ![Caller] = "failed"] /\ client' = Consumed
    BY <1>2, <1>5, <2>3
  <2>4. CASE /\ job' = [job EXCEPT ![Caller] = "waiting"]
             /\ client' = Request(Consumed, Call(Caller, "turn/start",
                                        Outcome.request.session, Caller))
    <3>1. PICK r : r = Call(Caller, "turn/start", Outcome.request.session, Caller)
      OBVIOUS
    <3>2. r \in Requests /\ r.job = Caller
      BY <2>2, <3>1 DEF Call, Requests, Methods, Turns, Jobs
    <3> QED
      BY <1>1, <1>2, <1>4, <2>4, <3>1, <3>2, AskingMoves
  <2> QED
    BY <2>1, <2>3, <2>4 DEF StartTurn
<1> QED
  BY <1>6, <1>7, <1>8, <1>9, <1>10 DEF GoesOn

(* Answers are written, or nothing.                                         *)
LEMMA AnsweringMoves ==
    ASSUME Types, NEW some \in SUBSET PendingApprovals, IsFiniteSet(some),
           NEW d \in Decisions, client' \in {client, RespondAll(some, d)},
           job' = job, carriedOut' = carriedOut, server' = server
    PROVE  Untouched
<1>1. client' = client \/ client'.stdin = RespondAll(some, d).stdin
  OBVIOUS
<1>2. PipeFades
  BY <1>1, PipeAnswered
<1> QED
  BY <1>2 DEF Untouched

LEMMA ReadsTouchNothing ==
    ASSUME Types, Reads
    PROVE  Untouched
<1>1. job' = job /\ carriedOut' = carriedOut /\ server' = server
  BY DEF Reads, ReadResponse, ReadTurnStarted, ReadTurnCompleted, ReadStatus, ReadError,
     ReadApprovalRequest, serverVars
<1>2. ASSUME client'.stdin = client.stdin
      PROVE  Untouched
  BY <1>1, <1>2, PipeSame DEF Untouched
<1>3. CASE ReadTurnStarted \/ ReadStatus \/ ReadError
  BY <1>2, <1>3 DEF ReadTurnStarted, ReadStatus, ReadError
<1>4. CASE ReadResponse
  <2>1. Reading("response") /\ client' = DispatchResponse(client, Line.outcome)
    BY <1>4 DEF ReadResponse
  <2>2. Line.outcome \in Outcomes /\ client \in RpcClients
    BY <2>1, ReadLine, LineFields DEF Types
  <2>3. CASE IsPending(client, Line.outcome.request)
    <3>1. PICK k \in 1 .. Len(client.pending) :
              client.pending[k] = Line.outcome.request
      BY <2>3 DEF IsPending
    <3>2. client' = SettleRequest(client, Line.outcome)
      BY <2>1, <2>3 DEF DispatchResponse
    <3> QED
      BY <1>2, <2>2, <3>1, <3>2, SettledOne
  <2>4. CASE ~IsPending(client, Line.outcome.request)
    BY <1>2, <2>1, <2>4 DEF DispatchResponse
  <2> QED
    BY <2>3, <2>4
<1>5. CASE ReadTurnCompleted
  <2> DEFINE ended == {p \in approvals : p.session = Line.session /\ p.turn = Line.turn}
  <2>1. client' = RespondAll(ended, "cancel")
    BY <1>5 DEF ReadTurnCompleted
  <2>2. /\ "cancel" \in Decisions /\ ended \in SUBSET PendingApprovals
        /\ IsFiniteSet(ended)
    BY FS_Subset DEF Types, Decisions
  <2> HIDE DEF ended
  <2> QED
    BY <1>1, <2>1, <2>2, AnsweringMoves
<1>6. CASE ReadApprovalRequest
  <2>1. PICK p : p = Pending(Line.approval, Line.session, Line.turn)
    OBVIOUS
  <2>2. p \in PendingApprovals
    BY <1>6, <2>1, ReadLine, LineFields DEF ReadApprovalRequest, Pending, PendingApprovals
  <2> DEFINE all == {p}
  <2>3. /\ "cancel" \in Decisions /\ all \in SUBSET PendingApprovals
        /\ IsFiniteSet(all)
    BY <2>2, FS_Singleton DEF Decisions
  <2>4. client' \in {client, RespondAll(all, "cancel")}
    BY <1>6, <2>1 DEF ReadApprovalRequest, TakeApproval
  <2> HIDE DEF all
  <2> QED
    BY <1>1, <2>3, <2>4, AnsweringMoves
<1> QED
  BY <1>3, <1>4, <1>5, <1>6 DEF Reads

LEMMA StopsTouchNothing ==
    ASSUME Types, LineTooLong \/ NoticeExit \/ Shutdown
    PROVE  Untouched
<1>1. /\ job' = job /\ carriedOut' = carriedOut /\ server' = server
      /\ client \in RpcClients
  BY DEF LineTooLong, NoticeExit, Shutdown, serverVars, Types
<1>2. ASSUME client'.stdin = client.stdin
      PROVE  Untouched
  BY <1>1, <1>2, PipeSame DEF Untouched
<1>3. CASE LineTooLong
  BY <1>1, <1>2, <1>3, FailedAll DEF LineTooLong
<1>4. CASE NoticeExit
  BY <1>2, <1>4, ExitedClient
<1>5. CASE Shutdown
  <2>1. CASE client' = client
    BY <1>2, <2>1
  <2>2. CASE client' = FailAll(RespondAll(approvals, "cancel"), "closed")
    <3>1. "cancel" \in Decisions /\ approvals \in SUBSET PendingApprovals
          /\ IsFiniteSet(approvals)
      BY DEF Types, Decisions
    <3>2. RespondAll(approvals, "cancel") \in RpcClients
      BY <3>1, AnsweredAll
    <3>3. client'.stdin = RespondAll(approvals, "cancel").stdin
      BY <2>2, <3>2, FailedAll
    <3>4. PipeFades
      BY <3>1, <3>3, PipeAnswered
    <3> QED
      BY <1>1, <3>4 DEF Untouched
  <2> QED
    BY <1>5, <2>1, <2>2 DEF Shutdown
<1> QED
  BY <1>3, <1>4, <1>5

(* The app-server carries out the text whose turn it starts.                *)
LEMMA StartingMoves ==
    ASSUME Types, ServerStartsTurn, NEW x \in Texts
    PROVE  Moves(x)
<1>1. PICK r : r = Head(client.stdin).request
  OBVIOUS
<1>2. /\ Serving("request") /\ r \in Requests /\ r.method = "turn/start"
      /\ r.turn = r.job /\ carriedOut' = carriedOut \cup {r.turn}
      /\ server'.alive = server.alive
  BY <1>1, StartedServer
<1>3. /\ server.alive /\ client.stdin[1].kind = "request"
      /\ client.stdin[1].request = r /\ 1 \in 1 .. Len(client.stdin)
      /\ job' = job
  BY <1>1, <1>2, TakenLine DEF Serving, bridgeVars
<1>4. PipeFades
  BY <1>2, TakenLine, PipeTaken
<1>5. InPipe(x)' => InPipe(x)
  BY <1>2, <1>4 DEF PipeFades, InPipe
<1>6. CASE x # r.turn
  BY <1>2, <1>3, <1>5, <1>6 DEF Moves, Stays
<1>7. CASE x = r.turn
  <2>1. InPipe(x)
    BY <1>2, <1>3, <1>7 DEF InPipe, StillInPipe
  <2> QED
    BY <1>2, <1>3, <2>1 DEF Moves, Stays
<1> QED
  BY <1>6, <1>7

LEMMA ServerTouchesNothing ==
    ASSUME Types,
           \/ ServerRefuses \/ ServerOpens \/ ServerInterrupts \/ ServerTakesAnswer
           \/ ServerDies
           \/ \E r \in server.owed : ServerAnswersTurn(r)
           \/ \E s \in Sessions : ServerNotifies(s) \/ ServerEndsTurn(s)
           \/ \E s \in Sessions, a \in Approvals : ServerAsks(a, s)
    PROVE  Untouched
<1>1. CASE ServerRefuses \/ ServerOpens \/ ServerInterrupts \/ ServerTakesAnswer
  <2>1. PICK kind : Serving(kind)
    BY <1>1 DEF ServerRefuses, ServerOpens, ServerInterrupts, ServerTakesAnswer, Asks
  <2>2. server.alive /\ job' = job
    BY <2>1 DEF Serving, bridgeVars
  <2>3. carriedOut' = carriedOut
    BY <1>1 DEF ServerRefuses, ServerOpens, ServerInterrupts, ServerTakesAnswer
  <2> QED
    BY <2>1, <2>2, <2>3, PipeTaken DEF Untouched
<1>2. CASE ServerDies
  <2>1. /\ job' = job /\ carriedOut' = carriedOut /\ server.alive
        /\ client' = [client EXCEPT !.stdin = <<>>]
    BY <1>2 DEF ServerDies, bridgeVars
  <2>2. client'.stdin = <<>>
    BY <2>1 DEF Types, RpcClients
  <2>3. PipeFades
    BY <2>2 DEF PipeFades, StillInPipe
  <2> QED
    BY <2>1, <2>3 DEF Untouched
<1>3. CASE \/ \E r \in server.owed : ServerAnswersTurn(r)
           \/ \E s \in Sessions : ServerNotifies(s) \/ ServerEndsTurn(s)
           \/ \E s \in Sessions, a \in Approvals : ServerAsks(a, s)
  <2>1. /\ job' = job /\ carriedOut' = carriedOut /\ server.alive
        /\ client' = client
    BY <1>3 DEF ServerAnswersTurn, ServerNotifies, ServerEndsTurn, ServerAsks, bridgeVars
  <2> QED
    BY <2>1, PipeSame DEF Untouched
<1> QED
  BY <1>1, <1>2, <1>3

LEMMA StepMoves ==
    ASSUME Types, JobsInv, AnswersCarried, [Next]_vars, NEW x \in Texts
    PROVE  Moves(x)
<1>1. CASE UNCHANGED vars
  <2>1. client' = client /\ job' = job /\ carriedOut' = carriedOut /\ server' = server
    BY <1>1 DEF vars, serverVars
  <2>2. Untouched
    BY <2>1, PipeSame DEF Untouched
  <2> QED
    BY <2>2, UntouchedStays
<1>2. CASE Reads
  BY <1>2, ReadsTouchNothing, UntouchedStays
<1>3. CASE GoesOn
  BY <1>3, GoesOnMoves
<1>4. CASE ServerStartsTurn
  BY <1>4, StartingMoves
<1>5. CASE \/ ServerRefuses \/ ServerOpens \/ ServerInterrupts \/ ServerTakesAnswer
           \/ ServerDies
           \/ \E r \in server.owed : ServerAnswersTurn(r)
           \/ \E s \in Sessions : ServerNotifies(s) \/ ServerEndsTurn(s)
           \/ \E s \in Sessions, a \in Approvals : ServerAsks(a, s)
  BY <1>5, ServerTouchesNothing, UntouchedStays
<1>6. CASE \E s \in Sessions : CallsOn(s)
  BY <1>6, CallsMove
<1>7. CASE \E p \in approvals : RespondToApproval(p) \/ Expire(p)
  <2>1. PICK p \in approvals : RespondToApproval(p) \/ Expire(p)
    BY <1>7
  <2> DEFINE all == {p}
  <2>2. /\ {"accept", "cancel"} \subseteq Decisions
        /\ all \in SUBSET PendingApprovals /\ IsFiniteSet(all)
    BY OneAnswered DEF Decisions
  <2>3. /\ \E d \in {"accept", "cancel"} : client' \in {client, RespondAll(all, d)}
        /\ job' = job /\ carriedOut' = carriedOut /\ server' = server
    BY <2>1 DEF RespondToApproval, Expire, serverVars
  <2> HIDE DEF all
  <2>4. Untouched
    BY <2>2, <2>3, AnsweringMoves
  <2> QED
    BY <2>4, UntouchedStays
<1>8. CASE TimeOut
  <2>1. PICK k \in 1 .. Len(client.pending) :
            /\ client' = SettleRequest(client, Rejected(client.pending[k]))
            /\ Rejected(client.pending[k]) \in Outcomes
            /\ Rejected(client.pending[k]).request = client.pending[k]
    BY <1>8, GivenUp
  <2>2. client \in RpcClients /\ job' = job /\ carriedOut' = carriedOut /\ server' = server
    BY <1>8 DEF TimeOut, Types, serverVars
  <2>3. client'.stdin = client.stdin
    BY <2>1, <2>2, SettledOne
  <2>4. Untouched
    BY <2>2, <2>3, PipeSame DEF Untouched
  <2> QED
    BY <2>4, UntouchedStays
<1>9. CASE LineTooLong \/ NoticeExit \/ Shutdown
  BY <1>9, StopsTouchNothing, UntouchedStays
<1> QED
  BY <1>1, <1>2, <1>3, <1>4, <1>5, <1>6, <1>7, <1>8, <1>9 DEF Next, Serves

(* The refinement mapping. *)
Stages == [x \in Texts |-> Stage(x)]

CarriedInv == TurnsInv /\ AnswersCarried

LEMMA CarriedInvHolds == Spec => []CarriedInv
<1>1. Init => AnswersCarried
  BY AnswersCarriedInit
<1>2. TurnsInv /\ AnswersCarried /\ [Next]_vars => AnswersCarried'
  BY AnswersCarriedStep DEF TurnsInv
<1>3. CarriedInv <=> TurnsInv /\ AnswersCarried
  BY DEF CarriedInv
<1> QED
  BY <1>1, <1>2, <1>3, TurnsInvHolds, PTL DEF Spec

LEMMA StagesStep ==
    ASSUME CarriedInv, CarriedInv', [Next]_vars
    PROVE  [Text!Next]_Stages
<1>1. ASSUME NEW x \in Texts
      PROVE  Text!Step(x) \/ Stage(x)' = Stage(x)
  <2>1. Moves(x)
    BY StepMoves DEF CarriedInv, TurnsInv
  <2>2. Stays(x) \/ Begins(x) \/ Fails(x) \/ Succeeds(x)
    BY <2>1 DEF Moves
  <2> QED
    BY <2>2, StageMoves DEF CarriedInv, TurnsInv
<1>2. Text!Next
  BY <1>1 DEF Text!Next
<1> QED
  BY <1>2

(* The adapter keeps what CommandExecution assumes of an agent call, for    *)
(* each of its texts: it succeeds only if the app-server started its turn,  *)
(* and a failure says nothing of the turn, which may begin afterwards as    *)
(* long as what was asked is in the pipe.  This is TextsAreAgentCalls       *)
(* without its liveness: that every call settles.                           *)
THEOREM TextsMoveAsCalls == Spec => Text!Init /\ [][Text!Next]_Stages
<1>1. Init => Text!Init
  BY DEF Init, Text!Init, Stage, Jobs
<1>2. CarriedInv /\ CarriedInv' /\ [Next]_vars => [Text!Next]_Stages
  BY StagesStep
<1> QED
  BY <1>1, <1>2, CarriedInvHolds, PTL DEF Spec
=============================================================================
