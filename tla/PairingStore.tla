---------------------------- MODULE PairingStore ----------------------------
(***************************************************************************)
(* The device credentials of the bridges (bridge/src/pairing.ts, used by   *)
(* server.ts and index.ts): a store in the memory of the process that      *)
(* serves, its file, and the operator's second process that revokes a      *)
(* device in the same file.                                                *)
(*                                                                         *)
(* No call of a store begins while another one runs, as Node.js runs them, *)
(* but the operator's write may come between what a call does to the file. *)
(* One call reads or writes the whole file in one step.  A key is known by *)
(* the number of the device it was issued to.                              *)
(***************************************************************************)
EXTENDS Integers, Sequences, FiniteSets

CONSTANTS
    Machines,    \* the bridges
    MaxCodes,    \* bound: offers made
    MaxRevokes   \* bound: devices revoked

ASSUME PairingStoreAssumption == {MaxCodes, MaxRevokes} \subseteq Nat

VARIABLES
    store,    \* per machine: the file, #devices (mem), the code of #offer
              \* or 0, #loadedStamp, and the step the running call is at;
              \* overtaken: history, see WriteCommand
    codes,    \* history: the machine that offered each code
    issued,   \* history: the machine and the code of each device
    command,  \* the operator's process, which runs once at a time
    revoked,  \* history: devices whose revocation was written
    lost      \* history: devices such a write dropped with it

storeVars == <<store, codes, issued, command, revoked, lost>>

NoCommand == [phase |-> "none", machine |-> "none", device |-> 0, devices |-> {}]

Pristine ==
    [file |-> {}, mem |-> {}, stamp |-> 0, offer |-> 0, step |-> "none",
     overtaken |-> FALSE]

StoreInit ==
    /\ store = [m \in Machines |-> Pristine]
    /\ codes = <<>> /\ issued = <<>>
    /\ command = NoCommand /\ revoked = {} /\ lost = {}

Devices == 1..Len(issued)

-----------------------------------------------------------------------------
(* #fileStamp(), taken for what it tells at least, the size of the file: a   *)
(* revocation makes that smaller, and all else that is written the bridge    *)
(* writes and stamps itself.                                                 *)
FileStamp(s) == Cardinality(s.file)

(* #load() and #persist() up to the stamp, which is the step after.  Our own *)
(* write must not look like someone else's change.                           *)
Load(s) == [s EXCEPT !.mem = s.file, !.step = "stamp", !.overtaken = FALSE]
Persist(s) == [s EXCEPT !.file = s.mem, !.step = "stamp", !.overtaken = FALSE]

Stamp(s) == [s EXCEPT !.stamp = FileStamp(s), !.step = "none"]

GoOn(s) ==
    CASE s.step = "none" -> s
      [] s.step = "write" -> Persist(s)
      [] s.step = "stamp" -> Stamp(s)

(* What a call goes on with is a step of its own while the operator's        *)
(* process is between its two, and is taken at once otherwise: nothing else  *)
(* comes between.                                                            *)
Settled(m, s) == IF command.machine = m THEN s ELSE GoOn(GoOn(s))

Becomes(m, s) ==
    /\ store' = [store EXCEPT ![m] = s]
    /\ UNCHANGED <<codes, issued, command, revoked, lost>>

Continue(m) ==
    /\ store[m].step # "none"
    /\ Becomes(m, Settled(m, GoOn(store[m])))

(* createOffer() *)
CreateOffer(s, code) == [s EXCEPT !.offer = code]

(* The bridge is started: it shows a code with --pair, or if it knows no    *)
(* device.  One that is killed within a call is as if killed after it.      *)
StartBridge(m) ==
    /\ Len(codes) < MaxCodes /\ store[m].step = "none"
    /\ \E pair \in BOOLEAN :
          LET offers == pair \/ store[m].file = {}
          IN  /\ store' = [store EXCEPT ![m] =
                    Settled(m, CreateOffer(Load(@),
                                   IF offers THEN Len(codes) + 1 ELSE 0))]
              /\ codes' = IF offers THEN Append(codes, m) ELSE codes
    /\ UNCHANGED <<issued, command, revoked, lost>>

(* The time to live of an offer is over. *)
ExpireOffer(m) ==
    /\ store[m].offer # 0
    /\ Becomes(m, [store[m] EXCEPT !.offer = 0])

Opens(m, code) == code # 0 /\ store[m].offer = code

(* redeem(): the code is consumed, the new device is written to the file.   *)
(* Faulty ones leave the offer open, or the file for later.                 *)
Add(s, device) == [s EXCEPT !.mem = @ \cup {device}]

RedeemedOpen(s, device) == Persist(Add(s, device))
RedeemedInMemory(s, device) == [Add(s, device) EXCEPT !.offer = 0]

Redeemed(s, device) == Persist([Add(s, device) EXCEPT !.offer = 0])

Redeem(m, code) ==
    /\ store[m].step = "none"
    /\ IF ~Opens(m, code) THEN UNCHANGED storeVars
       ELSE
         /\ issued' = Append(issued, [machine |-> m, code |-> code])
         /\ store' = [store EXCEPT ![m] = Settled(m, Redeemed(@, Len(issued) + 1))]
         /\ UNCHANGED <<codes, command, revoked, lost>>

(* verifyToken() lets a device pass that is in memory, which it may trust    *)
(* if the file has the stamp; otherwise that is read again first.  A faulty  *)
(* one always trusts it.  #touch() may write the time it was last seen.      *)
TrustAlways(s) == TRUE
MayTrust(s) == s.stamp = FileStamp(s)

ReloadIfChanged(m) ==
    /\ store[m].step = "none" /\ ~MayTrust(store[m])
    /\ Becomes(m, Settled(m, Load(store[m])))

VerifyToken(m, device, accepted) ==
    /\ store[m].step = "none" /\ MayTrust(store[m])
    /\ accepted = (device \in store[m].mem)
    /\ \E step \in {"none", "write"} :
          /\ step = "write" => accepted
          /\ Becomes(m, Settled(m, [store[m] EXCEPT !.step = step]))

(* Requests of other handhelds, known or not. *)
OthersAsk(m) ==
    \/ ReloadIfChanged(m)
    \/ \E device \in store[m].mem : VerifyToken(m, device, TRUE)

-----------------------------------------------------------------------------
(* --revoke-device: the process loads the file and writes it back.          *)
LoadCommand ==
    /\ command.phase = "none" /\ Cardinality(revoked) < MaxRevokes
    /\ \E m \in Machines : \E device \in store[m].file :
          /\ store[m].step = "none"
          /\ command' = [phase |-> "loaded", machine |-> m, device |-> device,
                         devices |-> store[m].file]
    /\ UNCHANGED <<store, codes, issued, revoked, lost>>

(* A write between what a call reads or writes and its stamp is taken for    *)
(* what the call saw: it is overtaken until the file is read again.          *)
WriteCommand ==
    /\ command.phase = "loaded"
    /\ LET m == command.machine
           left == command.devices \ {command.device}
       IN  /\ store' = [store EXCEPT ![m].file = left,
                    ![m].overtaken = @ \/ store[m].step = "stamp"]
           /\ revoked' = revoked \cup {command.device}
           /\ lost' = lost \cup (store[m].file \ command.devices)
    /\ command' = NoCommand
    /\ UNCHANGED <<codes, issued>>

StoreStep ==
    \/ \E m \in Machines : ExpireOffer(m) \/ OthersAsk(m) \/ Continue(m)
    \/ LoadCommand \/ WriteCommand
=============================================================================
