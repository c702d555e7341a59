----------------------------- MODULE Viewfinder -----------------------------
(***************************************************************************)
(* Looking for a pairing code through the camera, as operators on two      *)
(* records: the streamed camera (client-3ds/source/camera_capture.c) and   *)
(* the QR scanner with its worker thread (client-3ds/source/qr_scanner.c). *)
(* The camera's service, the worker and the frame loop of the main thread  *)
(* run concurrently; the main thread preempts the worker, so that a frame  *)
(* of it is one step.                                                      *)
(*   camera: armed, a transfer is queued; arrived, stream_event is         *)
(*     signalled; error, stream_error_event is.  What a frame shows, codes *)
(*     in the order the decoder meets them, is chosen when it is looked at.*)
(*   scanner: event, frame_submitted; busy, stopping, ready, payload as in *)
(*     the code; image, the codes in the decoder's image; next, index; pc  *)
(*     of the worker.                                                      *)
(* What nobody reads any more (an image that was examined, a payload that  *)
(* was taken) is forgotten here.                                           *)
(***************************************************************************)
EXTENDS Integers, Sequences

CONSTANT Sights   \* bound: what the camera may see, sequences of codes

(* A code: has it our prefix, which version, which of the fields.           *)
Fields == {"h", "p", "q", "c"}
Ours == [prefix |-> TRUE, version |-> 1, fields |-> Fields]
Newer == [Ours EXCEPT !.version = 2]
Partial == [Ours EXCEPT !.fields = @ \ {"q"}]
Stray == [prefix |-> FALSE, version |-> 1, fields |-> {}]

ASSUME SightsAssumption == Sights \subseteq Seq({Ours, Newer, Partial, Stray})

(* pairing_parse_url(), pairing_parse_manual() *)
ParseUrl(code) == code.prefix /\ code.version = 1 /\ Fields \subseteq code.fields

ParseManual(code) == IF code.prefix THEN ParseUrl(code) ELSE Fields \subseteq code.fields

-----------------------------------------------------------------------------
CameraOff == [armed |-> FALSE, arrived |-> FALSE, error |-> FALSE]

(* stream_arm(); stream_restart() does the same after a new start.          *)
Arm(camera) == [camera EXCEPT !.armed = TRUE, !.arrived = FALSE]
Restart(camera) == [Arm(camera) EXCEPT !.error = FALSE]

(* The service: a frame is there, or a buffer error; or it stalls silently. *)
CameraStep(camera, camera2) ==
    /\ camera.armed
    /\ \/ ~camera.arrived /\ ~camera.error
          /\ camera2 = [camera EXCEPT !.arrived = TRUE]
       \/ camera2 = [camera EXCEPT !.error = TRUE]

(* camera_capture_stream_read(): what the frame loop finds.  A stream that  *)
(* is silent may have been so for CAMERA_STREAM_STALL_MS.                   *)
NeedsRestart(camera) == camera.error \/ ~camera.arrived

FrameReady(camera) == ~camera.error /\ camera.arrived

-----------------------------------------------------------------------------
NoScanner == [event |-> FALSE, busy |-> FALSE, stopping |-> FALSE,
              ready |-> FALSE, payload |-> Stray, image |-> <<>>, next |-> 1,
              pc |-> "none"]

(* qr_scanner_begin() *)
BeginScanner == [NoScanner EXCEPT !.pc = "waiting"]

(* qr_scanner_submit(); a faulty one does not ask whether the worker is     *)
(* still at the last image.                                                 *)
SubmitAtAnyTime(scanner, frame) ==
    IF scanner.ready THEN scanner
    ELSE [scanner EXCEPT !.image = frame, !.busy = TRUE, !.event = TRUE]

Submit(scanner, frame) ==
    IF scanner.busy \/ scanner.ready THEN scanner
    ELSE [scanner EXCEPT !.image = frame, !.busy = TRUE, !.event = TRUE]

(* qr_scanner_take_payload() *)
TakePayload(scanner) == [scanner EXCEPT !.ready = FALSE, !.payload = Stray]

(* qr_scanner_end() up to the join. *)
StopScanner(scanner) ==
    IF scanner.pc = "none" THEN scanner
    ELSE [scanner EXCEPT !.stopping = TRUE, !.event = TRUE]

(* qr_worker(): woken by the one-shot event; a faulty worker looks for work *)
(* before it asks whether to stop.                                          *)
WakeForWork(scanner) ==
    [scanner EXCEPT !.event = FALSE,
        !.pc = IF ~scanner.busy THEN "waiting"
               ELSE IF scanner.stopping THEN "ended" ELSE "decoding",
        !.next = 1]

Wake(scanner) ==
    [scanner EXCEPT !.event = FALSE,
        !.pc = IF scanner.stopping THEN "ended"
               ELSE IF scanner.busy THEN "decoding" ELSE "waiting",
        !.next = 1]

(* Code after code until one was decoded and nobody has taken it.           *)
Decode(scanner, legible) ==
    IF scanner.next > Len(scanner.image) \/ scanner.ready
    THEN [scanner EXCEPT !.busy = FALSE, !.pc = "waiting", !.image = <<>>, !.next = 1]
    ELSE [scanner EXCEPT !.next = @ + 1,
            !.ready = legible,
            !.payload = IF legible THEN scanner.image[scanner.next] ELSE @]

WorkerStep(scanner, scanner2) ==
    \/ scanner.pc = "waiting" /\ scanner.event /\ scanner2 = Wake(scanner)
    \/ /\ scanner.pc = "decoding"
       /\ \E legible \in BOOLEAN : scanner2 = Decode(scanner, legible)
=============================================================================
