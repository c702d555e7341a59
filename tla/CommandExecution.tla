-------------------------- MODULE CommandExecution --------------------------
(***************************************************************************)
(* How the bridge executes a mutating command once although the 3DS sends  *)
(* it again after every lost acknowledgement: the bounded registry of      *)
(* accepted commands (bridge/src/command-registry.ts) and the map of       *)
(* commands in flight (BridgeApplication.#executeCommand in                *)
(* bridge/src/server.ts).                                                  *)
(*                                                                         *)
(* A caller is a pushed connection or an HTTP request: it asks for one     *)
(* command and waits for the answer.  The agent's part of a command (the   *)
(* awaited action()) is a run: it is fresh until it takes effect, done     *)
(* afterwards, and settles as a success or a failure.  A failure says      *)
(* little: a JSON-RPC call may time out although the app-server has        *)
(* carried it out, or carries it out afterwards                            *)
(* (bridge/src/codex-app-server-client.ts).                                *)
(***************************************************************************)
EXTENDS Endings, FiniteSets

CONSTANTS
    Callers,
    Commands,
    NoCommand,     \* what a caller that does not wait waits for
    Capacity,      \* acknowledgements the registry holds (256 in the code)
    MaxStarts,     \* bound: runs started
    MaxRestarts    \* bound: restarts of the bridge process

ASSUME ExecutionAssumption ==
    /\ NoCommand \notin Commands
    /\ Capacity \in Nat \ {0}
    /\ MaxStarts \in Nat
    /\ MaxRestarts \in Nat

VARIABLES
    registry,    \* remembered command ids, oldest first
    inFlight,    \* commands whose promise is in the in-flight map
    waiting,     \* per caller, the command whose answer it awaits
    fresh,       \* per command, runs the agent has not carried out
    done,        \* per command, runs carried out and not settled
    adrift,      \* per command, runs given up that may be carried out yet
    performed,   \* history: per command, times it took effect
    accepted,    \* history: commands ever accepted
    order,       \* history: commands in the order accepted since the last restart
    excused,     \* history: per command, times the bridge lost the knowledge
                 \* that it took effect
    acked,       \* history: commands some caller was told are accepted
    starts, restarts

execVars == <<registry, inFlight, waiting, fresh, done, adrift>>
historyVars == <<performed, accepted, order, excused, acked, starts,
                 restarts>>
vars == <<execVars, historyVars>>

(* The commands in a sequence of command ids. *)
Ids(seq) == {seq[i] : i \in 1 .. Len(seq)}

Waiters(c) == {k \in Callers : waiting[k] = c}

Idle == [c \in Commands |-> 0]

Init ==
    /\ registry = <<>>
    /\ inFlight = {}
    /\ waiting = [k \in Callers |-> NoCommand]
    /\ fresh = Idle
    /\ done = Idle
    /\ adrift = Idle
    /\ performed = Idle
    /\ accepted = {}
    /\ order = <<>>
    /\ excused = Idle
    /\ acked = {}
    /\ starts = 0
    /\ restarts = 0

(* The bridge forgets that the commands in forgotten took effect. *)
Excuse(forgotten) ==
    [c \in Commands |-> excused[c] + (IF c \in forgotten THEN 1 ELSE 0)]

-----------------------------------------------------------------------------
(* CommandRegistry.remember(): a Map keeps the place of a key set again, so *)
(* only a new id can push the oldest one out.                               *)
Remember(r, c) ==
    IF c \in Ids(r) THEN r
    ELSE IF Len(r) < Capacity THEN Append(r, c)
    ELSE Append(Tail(r), c)

(* #executeCommand() of a remembered command answers at once.               *)
AnswerFromRegistry(k, c) ==
    /\ waiting[k] = NoCommand
    /\ c \in Ids(registry)
    /\ acked' = acked \cup {c}
    /\ UNCHANGED <<execVars, performed, accepted, order, excused, starts,
                   restarts>>

(* #executeCommand() of a command in flight awaits the same promise.        *)
JoinInFlight(k, c) ==
    /\ waiting[k] = NoCommand
    /\ c \notin Ids(registry)
    /\ c \in inFlight
    /\ waiting' = [waiting EXCEPT ![k] = c]
    /\ UNCHANGED <<registry, inFlight, fresh, done, adrift, historyVars>>

(* A faulty #executeCommand() that does not look at the commands in flight. *)
StartAlways(k, c) ==
    /\ starts < MaxStarts
    /\ waiting[k] = NoCommand
    /\ c \notin Ids(registry)
    /\ inFlight' = inFlight \cup {c}
    /\ fresh' = [fresh EXCEPT ![c] = @ + 1]
    /\ waiting' = [waiting EXCEPT ![k] = c]
    /\ starts' = starts + 1
    /\ UNCHANGED <<registry, done, adrift, performed, accepted, order,
                   excused, acked, restarts>>

(* A faulty #executeCommand() that does not look at the registry. *)
StartForgetful(k, c) ==
    /\ starts < MaxStarts
    /\ waiting[k] = NoCommand
    /\ c \notin inFlight
    /\ inFlight' = inFlight \cup {c}
    /\ fresh' = [fresh EXCEPT ![c] = @ + 1]
    /\ waiting' = [waiting EXCEPT ![k] = c]
    /\ starts' = starts + 1
    /\ UNCHANGED <<registry, done, adrift, performed, accepted, order,
                   excused, acked, restarts>>

(* #executeCommand() of a new command calls action() and registers its      *)
(* promise before anything else can run.                                    *)
Start(k, c) ==
    /\ starts < MaxStarts
    /\ waiting[k] = NoCommand
    /\ c \notin Ids(registry)
    /\ c \notin inFlight
    /\ inFlight' = inFlight \cup {c}
    /\ fresh' = [fresh EXCEPT ![c] = @ + 1]
    /\ waiting' = [waiting EXCEPT ![k] = c]
    /\ starts' = starts + 1
    /\ UNCHANGED <<registry, done, adrift, performed, accepted, order,
                   excused, acked, restarts>>

(* The agent carries out a run. *)
Perform(c) ==
    /\ fresh[c] > 0
    /\ fresh' = [fresh EXCEPT ![c] = @ - 1]
    /\ done' = [done EXCEPT ![c] = @ + 1]
    /\ performed' = [performed EXCEPT ![c] = @ + 1]
    /\ UNCHANGED <<registry, inFlight, waiting, adrift, accepted, order,
                   excused, acked, starts, restarts>>

(* A faulty settlement that answers only one of the callers. *)
SettleOne(c) ==
    /\ inFlight' = inFlight \ {c}
    /\ \/ Waiters(c) = {} /\ UNCHANGED waiting
       \/ \E k \in Waiters(c) : waiting' = [waiting EXCEPT ![k] = NoCommand]

(* The promise of c settles: everybody who awaits it is answered, and the   *)
(* finally block takes it out of the map.                                   *)
Settle(c) ==
    /\ inFlight' = inFlight \ {c}
    /\ waiting' = [k \in Callers |->
                      IF k \in Waiters(c) THEN NoCommand ELSE waiting[k]]

(* A faulty #executeCommand() that does not await action(). *)
SucceedEarly(c) ==
    /\ fresh[c] > 0
    /\ fresh' = [fresh EXCEPT ![c] = @ - 1]
    /\ registry' = Remember(registry, c)
    /\ Settle(c)
    /\ acked' = IF Waiters(c) # {} THEN acked \cup {c} ELSE acked
    /\ accepted' = accepted \cup {c}
    /\ order' = Append(order, c)
    /\ excused' = Excuse(Ids(registry) \ Ids(registry'))
    /\ UNCHANGED <<done, adrift, performed, starts, restarts>>

(* action() resolves: the acknowledgement is remembered and handed to every *)
(* waiting caller.                                                          *)
Succeed(c) ==
    /\ done[c] > 0
    /\ done' = [done EXCEPT ![c] = @ - 1]
    /\ registry' = Remember(registry, c)
    /\ Settle(c)
    /\ acked' = IF Waiters(c) # {} THEN acked \cup {c} ELSE acked
    /\ accepted' = accepted \cup {c}
    /\ order' = Append(order, c)
    /\ excused' = Excuse(Ids(registry) \ Ids(registry'))
    /\ UNCHANGED <<fresh, adrift, performed, starts, restarts>>

(* action() rejects and nothing happened.  Failures are not remembered: the *)
(* same id may be tried again.                                              *)
Fail(c) ==
    /\ fresh[c] > 0
    /\ fresh' = [fresh EXCEPT ![c] = @ - 1]
    /\ Settle(c)
    /\ UNCHANGED <<registry, done, adrift, historyVars>>

(* action() times out before the agent got to it, which may still happen.   *)
GiveUp(c) ==
    /\ fresh[c] > 0
    /\ fresh' = [fresh EXCEPT ![c] = @ - 1]
    /\ adrift' = [adrift EXCEPT ![c] = @ + 1]
    /\ Settle(c)
    /\ UNCHANGED <<registry, done, historyVars>>

(* The agent carries out what it was asked in a call given up since.        *)
PerformAdrift(c) ==
    /\ adrift[c] > 0
    /\ adrift' = [adrift EXCEPT ![c] = @ - 1]
    /\ performed' = [performed EXCEPT ![c] = @ + 1]
    /\ excused' = Excuse({c})
    /\ UNCHANGED <<registry, inFlight, waiting, fresh, done, accepted, order,
                   acked, starts, restarts>>

(* action() rejects although the agent did what it was asked.               *)
FailLate(c) ==
    /\ done[c] > 0
    /\ done' = [done EXCEPT ![c] = @ - 1]
    /\ excused' = Excuse({c})
    /\ Settle(c)
    /\ UNCHANGED <<registry, fresh, adrift, performed, accepted, order, acked,
                   starts, restarts>>

(* The caller's connection closes.  Its await goes on, but nobody is left   *)
(* to read the answer.                                                      *)
Abandon(k) ==
    /\ waiting[k] # NoCommand
    /\ waiting' = [waiting EXCEPT ![k] = NoCommand]
    /\ UNCHANGED <<registry, inFlight, fresh, done, adrift, historyVars>>

(* The bridge process restarts: all of this was in its memory, and the      *)
(* app-server is its child.                                                 *)
Restart ==
    /\ restarts < MaxRestarts
    /\ restarts' = restarts + 1
    /\ registry' = <<>>
    /\ inFlight' = {}
    /\ waiting' = [k \in Callers |-> NoCommand]
    /\ fresh' = Idle
    /\ done' = Idle
    /\ adrift' = Idle
    /\ order' = <<>>
    /\ excused' = Excuse(Ids(registry) \cup {c \in Commands : done[c] > 0})
    /\ UNCHANGED <<performed, accepted, acked, starts>>

Call(k, c) == AnswerFromRegistry(k, c) \/ JoinInFlight(k, c) \/ Start(k, c)

SettleSomehow(c) == Succeed(c) \/ Fail(c) \/ GiveUp(c) \/ FailLate(c)

Next ==
    \/ \E k \in Callers, c \in Commands : Call(k, c)
    \/ \E k \in Callers : Abandon(k)
    \/ \E c \in Commands : Perform(c) \/ PerformAdrift(c) \/ SettleSomehow(c)
    \/ Restart

(* Every action() settles: the agent's calls either answer or time out.     *)
Fairness == \A c \in Commands : WF_vars(Perform(c) \/ SettleSomehow(c))

Spec == Init /\ [][Next]_vars /\ Fairness

-----------------------------------------------------------------------------
TypeOK ==
    /\ registry \in Seq(Commands)
    /\ inFlight \subseteq Commands
    /\ waiting \in [Callers -> Commands \cup {NoCommand}]
    /\ fresh \in [Commands -> Nat]
    /\ done \in [Commands -> Nat]
    /\ adrift \in [Commands -> Nat]
    /\ performed \in [Commands -> Nat]
    /\ accepted \subseteq Commands
    /\ order \in Seq(Commands)
    /\ excused \in [Commands -> Nat]
    /\ acked \subseteq Commands
    /\ starts \in Nat /\ restarts \in Nat

(* However calls for the same command interleave, the bridge never awaits   *)
(* two runs of it at a time, and the in-flight map holds exactly the        *)
(* commands it awaits.                                                      *)
SingleRun ==
    \A c \in Commands : fresh[c] + done[c] = IF c \in inFlight THEN 1 ELSE 0

(* No caller awaits a promise nobody will settle, and nobody awaits a       *)
(* command the registry could have answered.                                *)
WaitersHaveARun ==
    \A k \in Callers : waiting[k] # NoCommand =>
        waiting[k] \in inFlight /\ waiting[k] \notin Ids(registry)

(* An acknowledgement is never early: whoever was told that a command is    *)
(* accepted was told after it took effect.                                  *)
AckMeansPerformed == \A c \in acked : performed[c] > 0

(* A command takes effect once, and once more only for each time the bridge *)
(* had a reason not to know: the call failed and the effect came all the    *)
(* same, Capacity newer commands pushed it out of the registry, or the      *)
(* process restarted.                                                       *)
AtMostOnce == \A c \in Commands : performed[c] <= 1 + excused[c]

(* The registry holds exactly the Capacity most recently accepted commands  *)
(* (since the last restart), none of them twice.                            *)
RegistryIsRecent ==
    /\ EndsWith(order, registry)
    /\ Len(registry) = IF Len(order) < Capacity THEN Len(order) ELSE Capacity
    /\ \A i, j \in 1 .. Len(registry) : registry[i] = registry[j] => i = j

(* Every caller is answered or hung up on: no interleaving of duplicates,   *)
(* failures and restarts leaves one waiting for ever.                       *)
EveryCallerAnswered ==
    \A k \in Callers : waiting[k] # NoCommand ~> waiting[k] = NoCommand
=============================================================================
