------------------------------- MODULE Pairing -------------------------------
(***************************************************************************)
(* Pairing the 3DS with a machine (client-3ds/source/main.c and pairing.c) *)
(* with the bridges' stores (PairingStore) and the viewfinder              *)
(* (Viewfinder): from the start screen the user scans or types a code, the *)
(* code is exchanged for a device key, the key is saved on the SD card,    *)
(* and the session that follows shows it.                                  *)
(*                                                                         *)
(* The console may be switched off at any time, a connection may be lost   *)
(* at any time, and a request on it may still be served.  The bridges      *)
(* demand a key (--require-pairing).                                       *)
(***************************************************************************)
EXTENDS Viewfinder, PairingStore

CONSTANTS
    Built,        \* the machine of THREEGENT_SERVER_HOST
    MaxMistakes   \* bound: codes mistyped, writes to the SD card that fail

ASSUME PairingAssumption == Built \in Machines /\ MaxMistakes \in Nat

VARIABLES
    at,         \* the loop the main thread is in
    camera, scanner,
    sd,         \* what pairing_load() makes of the pairing file
    record,     \* pairing_record, the active endpoint and the device token
    control,    \* the machine control_socket is connected to, or none
    request,    \* the control transaction
    push,       \* the phase of the pushed link, which goes to the active
                \* endpoint with its token: stopped, waiting, ready; sent,
                \* executed if it has a command
    strays,     \* pairing requests sent on connections that were closed
    told,       \* what the screen says of the pairing it was left with
    mistakes

cameraVars == <<camera, scanner>>
links == <<control, request, push>>
clientVars == <<sd, record, links, strays, told, mistakes>>
vars == <<storeVars, at, cameraVars, clientVars>>

Nobody == "none"
Broken == 0       \* a key that was cut when it was written
NoRecord == [machine |-> Nobody, device |-> Broken]
NoRequest == [phase |-> "idle", machine |-> Nobody, code |-> 0, device |-> 0]

ActiveMachine(r) == IF r = NoRecord THEN Built ELSE r.machine

Init ==
    /\ StoreInit
    /\ at = "home" /\ camera = CameraOff /\ scanner = NoScanner
    /\ sd = NoRecord /\ record = NoRecord
    /\ control = Nobody /\ request = NoRequest /\ push = "stopped"
    /\ strays = {}
    /\ told = "nothing" /\ mistakes = 0

(* network_reset_connections(): a request that was sent may yet be served,  *)
(* which matters if its code is the one on offer.                           *)
Strays == IF request.phase = "sent" /\ Opens(request.machine, request.code)
          THEN strays \cup {[machine |-> request.machine, code |-> request.code]}
          ELSE strays

ResetConnections ==
    /\ control' = Nobody /\ request' = NoRequest /\ push' = "stopped"
    /\ strays' = Strays

-----------------------------------------------------------------------------
(* The start screen, run_qr_pairing() up to its loop, and the loop.         *)
StartScan ==
    /\ at = "home"
    /\ \/ /\ at' = "aiming" /\ told' = "nothing"
          /\ camera' = Arm(CameraOff) /\ scanner' = BeginScanner
       \/ /\ at' = "told" /\ told' = "failed"   \* the camera cannot be opened
          /\ UNCHANGED cameraVars
    /\ UNCHANGED <<storeVars, sd, record, links, strays, mistakes>>

(* The loop ends: the camera is stopped, the worker is told to stop.        *)
LeaveScan(outcome, read) ==
    /\ at' = "joining" /\ told' = outcome
    /\ camera' = CameraOff /\ scanner' = StopScanner(read)

(* B or START; Y. *)
BackOut ==
    /\ at = "aiming"
    /\ \E outcome \in {"cancelled", "typing"} : LeaveScan(outcome, scanner)
    /\ UNCHANGED <<storeVars, sd, record, links, strays, mistakes>>

TakeAndParse(read) ==
    IF read.ready /\ ParseUrl(read.payload)
    THEN LeaveScan("decoded", TakePayload(read))
    ELSE /\ scanner' = IF read.ready THEN TakePayload(read) ELSE read
         /\ UNCHANGED <<at, told>>

(* What the camera may see: our code only if a bridge has shown one. *)
Seen == {sight \in Sights : codes # <<>> \/ \A i \in DOMAIN sight : sight[i] # Ours}

(* A frame of the loop, without keys. *)
AimFrame ==
    /\ at = "aiming"
    /\ \/ /\ NeedsRestart(camera)
          /\ TakeAndParse(scanner)
          /\ camera' = IF at' = "joining" THEN CameraOff ELSE Restart(camera)
       \/ /\ FrameReady(camera)
          /\ \E sight \in Seen : TakeAndParse(Submit(scanner, sight))
          /\ camera' = IF at' = "joining" THEN CameraOff ELSE Arm(camera)
       \/ /\ ~camera.error /\ ~camera.arrived
          /\ TakeAndParse(scanner)
          /\ camera' = IF at' = "joining" THEN CameraOff ELSE camera
       \/ LeaveScan("failed", scanner)
       \/ FrameReady(camera) /\ \E sight \in Seen :
             LeaveScan("failed", Submit(scanner, sight))
    /\ UNCHANGED <<storeVars, sd, record, links, strays, mistakes>>

Service ==
    /\ at = "aiming"
    /\ CameraStep(camera, camera')
    /\ UNCHANGED <<storeVars, at, scanner, clientVars>>

Worker ==
    /\ WorkerStep(scanner, scanner')
    /\ UNCHANGED <<storeVars, at, camera, clientVars>>

(* qr_scanner_end() has joined the worker. *)
Joined ==
    /\ at = "joining" /\ scanner.pc = "ended"
    /\ scanner' = NoScanner
    /\ at' = IF told = "decoded" THEN "asking"
             ELSE IF told = "typing" THEN "typing"
             ELSE IF told = "failed" THEN "told" ELSE "home"
    /\ told' = IF told = "failed" THEN told ELSE "nothing"
    /\ UNCHANGED <<storeVars, camera, sd, record, links, strays, mistakes>>

-----------------------------------------------------------------------------
(* pairing_exchange(), from a code that was scanned or typed.  A scanned    *)
(* one was shown by its machine, if not necessarily just now.               *)
Exchange(m, code) ==
    /\ strays' = Strays
    /\ \/ /\ at' = "exchanging" /\ UNCHANGED told
          /\ control' = m
          /\ request' = [phase |-> "sent", machine |-> m, code |-> code,
                         device |-> 0]
       \/ /\ at' = "told" /\ told' = "failed"      \* no connection
          /\ control' = Nobody /\ request' = NoRequest

ExchangeScanned ==
    /\ at = "asking"
    /\ \E code \in 1..Len(codes) : Exchange(codes[code], code)
    /\ UNCHANGED <<storeVars, cameraVars, sd, record, push, mistakes>>

(* run_manual_pairing() *)
StartTyping ==
    /\ at = "home"
    /\ at' = "typing" /\ told' = "nothing"
    /\ UNCHANGED <<storeVars, cameraVars, sd, record, links, strays, mistakes>>

(* Cancel; a text that cannot be read. *)
TypingFails ==
    /\ at = "typing"
    /\ \/ at' = "home" /\ UNCHANGED told
       \/ /\ \E typed \in {Newer, Partial, Stray} : ~ParseManual(typed)
          /\ at' = "told" /\ told' = "failed"
    /\ UNCHANGED <<storeVars, cameraVars, sd, record, links, strays, mistakes>>

(* What is typed is a code that was shown, or another code or machine.      *)
ExchangeTyped ==
    /\ at = "typing" /\ ParseManual(Ours)
    /\ \/ /\ \E code \in 1..Len(codes) : Exchange(codes[code], code)
          /\ UNCHANGED mistakes
       \/ /\ mistakes < MaxMistakes /\ mistakes' = mistakes + 1
          /\ \E m \in Machines, code \in 0..Len(codes) : Exchange(m, code)
    /\ UNCHANGED <<storeVars, cameraVars, sd, record, push>>

(* The bridge answers a pairing request, also one nobody waits for.         *)
ServePairing ==
    /\ at = "exchanging" /\ request.phase = "sent"
    /\ Redeem(request.machine, request.code)
    /\ request' = [request EXCEPT !.phase = "answered",
          !.device = IF issued' = issued THEN 0 ELSE Len(issued')]
    /\ UNCHANGED <<at, cameraVars, sd, record, control, push, strays, told, mistakes>>

ServeStray ==
    /\ \E stray \in strays :
          /\ strays' = strays \ {stray}
          /\ Redeem(stray.machine, stray.code) \/ UNCHANGED storeVars
    /\ UNCHANGED <<at, cameraVars, sd, record, links, told, mistakes>>

(* Another handheld pairs. *)
OtherPairs ==
    /\ \E m \in Machines : store[m].offer # 0 /\ Redeem(m, store[m].offer)
    /\ UNCHANGED <<at, cameraVars, clientVars>>

(* pairing_wait_for_control(): cancelled, or the connection fails.          *)
ExchangeFails ==
    /\ at = "exchanging"
    /\ at' = "told" /\ told' = "failed"
    /\ ResetConnections
    /\ UNCHANGED <<storeVars, cameraVars, sd, record, mistakes>>

Refused ==
    /\ at = "exchanging" /\ request.phase = "answered" /\ request.device = 0
    /\ at' = "told" /\ told' = "failed"
    /\ request' = NoRequest
    /\ control' \in {control, Nobody}
    /\ UNCHANGED <<storeVars, cameraVars, sd, record, push, strays, mistakes>>

(* pairing_save(): what is on the card then, and what it returns.  The file *)
(* may not open; it may be cut, before the key is complete or within it.  A *)
(* faulty one does not ask whether all was written.                         *)
Cut(r) == {NoRecord, [r EXCEPT !.device = Broken]}

SaveUnchecked(r) ==
    {[sd |-> sd, saved |-> FALSE]}
    \cup {[sd |-> x, saved |-> TRUE] : x \in Cut(r) \cup {r}}

Save(r) ==
    {[sd |-> sd, saved |-> FALSE], [sd |-> r, saved |-> TRUE]}
    \cup {[sd |-> x, saved |-> FALSE] : x \in Cut(r)}

(* apply_pairing() *)
Apply(r) == record' = r /\ ResetConnections

Paired ==
    /\ at = "exchanging" /\ request.phase = "answered" /\ request.device # 0
    /\ LET r == [machine |-> request.machine, device |-> request.device]
       IN  \E result \in Save(r) :
              /\ result.sd = r \/ mistakes < MaxMistakes
              /\ mistakes' = IF result.sd = r THEN mistakes ELSE mistakes + 1
              /\ sd' = result.sd
              /\ told' = IF result.saved THEN "paired" ELSE "unsaved"
              /\ Apply(r)
    /\ at' = "told"
    /\ UNCHANGED <<storeVars, cameraVars>>

Acknowledge ==
    /\ at = "told"
    /\ at' = "home" /\ told' = "nothing"
    /\ UNCHANGED <<storeVars, cameraVars, sd, record, links, strays, mistakes>>

(* forget_pairing() *)
Forget ==
    /\ at = "home" /\ record # NoRecord
    /\ \/ /\ sd' = NoRecord /\ Apply(NoRecord)
          /\ told' = "forgotten" /\ UNCHANGED mistakes
       \/ /\ mistakes < MaxMistakes /\ mistakes' = mistakes + 1
          /\ UNCHANGED <<sd, record, links, strays, told>>
    /\ UNCHANGED <<storeVars, at, cameraVars>>

(* The application is closed or the console is switched off, and it starts  *)
(* again from the card.                                                     *)
Relaunch ==
    /\ at' = "home" /\ camera' = CameraOff /\ scanner' = NoScanner
    /\ Apply(sd)
    /\ told' = "nothing"
    /\ UNCHANGED <<storeVars, sd, mistakes>>

-----------------------------------------------------------------------------
(* A session: network_prepare_connections(), requests, and leaving it.  A   *)
(* faulty preparation keeps the control connection there is.                *)
PrepareKeeping == UNCHANGED control
Prepare == control' = Nobody

Connect ==
    /\ at = "home"
    /\ at' = "session" /\ told' = "nothing"
    /\ Prepare
    /\ UNCHANGED <<storeVars, cameraVars, sd, record, request, push, strays,
                   mistakes>>

Ask ==
    /\ at = "session" /\ request = NoRequest
    /\ control' = IF control = Nobody THEN ActiveMachine(record) ELSE control
    /\ request' = [phase |-> "asked", machine |-> control', code |-> 0,
                   device |-> 0]
    /\ UNCHANGED <<storeVars, at, cameraVars, sd, record, push, strays, told,
                   mistakes>>

(* authorizeToken(), of every request and of the hello of a pushed link. *)
Authorize(m, accepted) ==
    IF record = NoRecord THEN ~accepted /\ UNCHANGED storeVars
    ELSE VerifyToken(m, record.device, accepted)

ServeRequest ==
    /\ request.phase = "asked"
    /\ \E accepted \in BOOLEAN :
          /\ Authorize(request.machine, accepted)
          /\ request' = [request EXCEPT !.phase = "answered",
                !.device = IF accepted THEN record.device ELSE 0]
    /\ UNCHANGED <<at, cameraVars, sd, record, control, push, strays, told,
                   mistakes>>

(* With a task to show, the pushed link is started: network_push_start().   *)
ReadAnswer ==
    /\ at = "session" /\ request # NoRequest
    /\ \/ /\ request.phase = "answered" /\ control' \in {control, Nobody}
          /\ push' \in {push} \cup
                (IF request.device # 0 /\ push = "stopped" THEN {"waiting"} ELSE {})
       \/ control' = Nobody /\ UNCHANGED push       \* the connection fails
    /\ request' = NoRequest
    /\ UNCHANGED <<storeVars, at, cameraVars, sd, record, strays, told, mistakes>>

(* The link connects and says hello; a bridge that refuses it closes it.    *)
Hello ==
    /\ push = "waiting"
    /\ \E accepted \in BOOLEAN :
          /\ Authorize(ActiveMachine(record), accepted)
          /\ push' = IF accepted THEN "ready" ELSE "waiting"
    /\ UNCHANGED <<at, cameraVars, sd, record, control, request, strays, told,
                   mistakes>>

(* A command of the ready link, and its acknowledgement; and the end of the *)
(* link, or its being stopped and started again.                            *)
PushStep ==
    /\ \/ push = "ready" /\ push' = "sent"
       \/ push = "executed" /\ push' = "ready"
       \/ push \in {"ready", "sent", "executed"} /\ push' = "waiting"
    /\ UNCHANGED <<storeVars, at, cameraVars, sd, record, control, request,
                   strays, told, mistakes>>

(* #handleCommand(): the link has said hello, and its key is not looked at. *)
HandleCommand ==
    /\ push = "sent" /\ store[ActiveMachine(record)].step = "none"
    /\ push' = "executed"
    /\ UNCHANGED <<storeVars, at, cameraVars, sd, record, control, request,
                   strays, told, mistakes>>

Leave ==
    /\ at = "session"
    /\ at' = "home"
    /\ ResetConnections
    /\ UNCHANGED <<storeVars, cameraVars, sd, record, told, mistakes>>

Bridges == StoreStep /\ UNCHANGED <<at, cameraVars, clientVars>>

RestartBridge(m) ==
    /\ StartBridge(m)
    /\ push' = IF push # "stopped" /\ ActiveMachine(record) = m THEN "waiting" ELSE push
    /\ UNCHANGED <<at, cameraVars, sd, record, control, request, strays, told,
                   mistakes>>

Next ==
    \/ StartScan \/ BackOut \/ AimFrame \/ Service \/ Worker \/ Joined
    \/ StartTyping \/ TypingFails \/ ExchangeScanned \/ ExchangeTyped
    \/ ServePairing \/ ServeStray \/ OtherPairs \/ ExchangeFails \/ Refused
    \/ Paired \/ Acknowledge \/ Forget \/ Relaunch
    \/ Connect \/ Ask \/ ServeRequest \/ ReadAnswer \/ Leave
    \/ Hello \/ PushStep \/ HandleCommand
    \/ Bridges \/ \E m \in Machines : RestartBridge(m)

(* The worker thread runs while the main thread waits to join it.           *)
Fairness == WF_vars(Worker \/ Joined)

Spec == Init /\ [][Next]_vars /\ Fairness

-----------------------------------------------------------------------------
(* What the pairing screen says is on the card: after "paired" the whole    *)
(* key is there, after "forgotten" none, so that a relaunch agrees.         *)
SaidIsSaved ==
    /\ told = "paired" => sd = record /\ record.device # Broken
    /\ told = "forgotten" => sd = NoRecord /\ record = NoRecord

(* The 3DS never believes it is paired with a machine that does not know    *)
(* it: whatever was cancelled, replayed, restarted or saved badly on the    *)
(* way, the machine of its record issued its key and has it in its file,    *)
(* unless the operator's command took it out.                               *)
PairedIsKnown ==
    record.device # Broken =>
        /\ issued[record.device].machine = record.machine
        /\ record.device \in store[record.machine].file \cup revoked \cup lost

(* A code is exchanged for one key at most: a request that was given up,    *)
(* repeated or served late mints no second one.                             *)
OneCodeOneKey ==
    \A d, e \in Devices : issued[d].code = issued[e].code => d = e

(* Requests of a session go to the machine that is shown as connected, not  *)
(* over a connection left from pairing with another one.                    *)
RequestsReachTheirMachine ==
    at = "session" /\ control # Nobody => control = ActiveMachine(record)

(* Whom a running bridge lets pass, by a request or by the hello of a link,  *)
(* its file lists at that moment: a key another process revoked is refused   *)
(* without a restart, unless the revocation was written between what a call  *)
(* read or wrote and the stamp it took of that.                              *)
Lists(m) == record.device \in store[m].file \/ store[m].overtaken

AdmittedIsListed ==
    [][/\ request.phase = "asked" /\ request'.phase = "answered"
             /\ request'.device # 0
          => Lists(request.machine)
       /\ push = "waiting" /\ push' = "ready" => Lists(ActiveMachine(record))]_vars

(* "Confirm the handheld is refused on its next action without restarting    *)
(* the bridge" (HARDWARE_TEST_CHECKLIST): also a command of a pushed link is *)
(* not executed for a device that the bridge's file does not list.           *)
RevokedIsRefused ==
    [][push = "sent" /\ push' = "executed"
       => record.device \in store[record.machine].file]_vars

(* The image the worker decodes is not replaced under it.                   *)
ImageIsStable ==
    [][scanner.pc = "decoding" /\ scanner'.pc = "decoding"
       => scanner'.image = scanner.image]_vars

(* Leaving the viewfinder never waits for its worker for ever, wherever the *)
(* worker is when it is told to stop: the one-shot event is not lost.       *)
EveryScanEnds == at = "joining" ~> at # "joining"
=============================================================================
