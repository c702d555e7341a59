----------------------------- MODULE MediaStream -----------------------------
(***************************************************************************)
(* Push-to-talk and photos: the 3DS streams a recording to the bridge      *)
(* while it is made, or uploads a photo, over the one media transaction    *)
(* (client-3ds/source/network.c, audio_transaction) from the loops of      *)
(* client-3ds/source/main.c; the bridge saves it and transcribes it        *)
(* (bridge/src/server.ts, wav.ts, photo.ts).                               *)
(*                                                                         *)
(* The client is one thread: an action is one network_pump(), or one frame *)
(* of the loop that records or of the loop that uploads.  The microphone's *)
(* service writes its ring at any time.  A connection may be lost at any   *)
(* time; every phase but an idle stream has a deadline that may expire.    *)
(***************************************************************************)
EXTENDS Microphone

CONSTANTS
    BufferSize,      \* of microphone_stream_buffer and of a chunk
    Threshold,       \* MIC_STREAM_SEND_THRESHOLD
    PhotoSize,       \* THREEGENT_PHOTO_BYTES
    MaxWritten,      \* bound: blocks the service writes in a capture
    MaxAttempts      \* bound: recordings and photos

ASSUME MediaStreamAssumption ==
    /\ {Threshold, BufferSize, PhotoSize} \subseteq Nat \ {0}
    /\ Threshold <= BufferSize

VARIABLES
    mic,        \* the microphone
    buffer,     \* microphone_stream_buffer
    rec,        \* recording_session_active, microphone_stop_requested,
                \* microphone_network_finish_requested
    photo,      \* the upload loop of capture_and_upload_photo(): its offset
    away,       \* the agent loop was left by START
    tx,         \* audio_transaction
    sock,       \* what the media connection is: none, prepared or stream
    up, down,   \* what is on it and not yet read, in either direction
    serving,    \* the bridge's handler of the request on it
    orphans,    \* per kind, the phase of a handler whose client has gone
    saved,      \* history: what the bridge saved of the last upload
    attempts

deviceVars == <<mic, buffer>>
clientVars == <<mic, buffer, rec, photo, away, tx>>
lineVars == <<sock, up, down, serving>>
mediaVars == <<clientVars, lineVars, orphans, saved, attempts>>

Kinds == {"audio", "photo"}
NotRecording == [active |-> FALSE, stop |-> FALSE, finish |-> FALSE]
NoPhoto == [active |-> FALSE, offset |-> 0, finish |-> FALSE]
NoTransaction == [phase |-> "idle", kind |-> "none", output |-> <<>>,
                  finish |-> FALSE]
NotServing == [phase |-> "idle", kind |-> "none", body |-> <<>>]
NothingSaved == <<>>

MediaInit ==
    /\ mic = MicrophoneOff /\ buffer = <<>>
    /\ rec = NotRecording /\ photo = NoPhoto /\ away = FALSE
    /\ tx = NoTransaction
    /\ sock \in {"none", "prepared"} /\ up = <<>> /\ down = <<>>
    /\ serving = NotServing
    /\ orphans = [k \in Kinds |-> "none"]
    /\ saved = NothingSaved
    /\ attempts = 0

-----------------------------------------------------------------------------
(* The connection.  A handler whose client goes away finds out later.       *)
Orphaned ==
    IF serving.phase \in {"reading", "working"}
    THEN [orphans EXCEPT ![serving.kind] = serving.phase]
    ELSE orphans

CloseMedia ==
    /\ sock' = "none" /\ up' = <<>> /\ down' = <<>>
    /\ serving' = NotServing /\ orphans' = Orphaned

KeepLine == UNCHANGED <<lineVars, orphans>>

Uploading == tx.phase \in {"connecting", "header", "streaming", "end", "receiving"}

(* network_audio_stream_can_write() *)
CanWrite(t) == t.phase = "streaming" /\ t.output = <<>> /\ ~t.finish

Write(t, data) == [t EXCEPT !.output = data]

(* begin_media_stream(): on the prepared connection or on a new one. *)
BeginStream(kind) ==
    /\ tx.phase = "idle"
    /\ tx' = [NoTransaction EXCEPT !.kind = kind,
                 !.phase = IF sock = "prepared" THEN "header" ELSE "connecting"]
    /\ sock' = "stream"
    /\ saved' = NothingSaved
    /\ UNCHANGED <<up, down, serving, orphans>>

(* fail_audio(); a faulty one keeps the connection for the next upload.     *)
FailKeepingLine ==
    /\ tx' = [tx EXCEPT !.phase = "failed"]
    /\ sock' = "prepared" /\ UNCHANGED <<up, down, serving, orphans>>

FailAudio ==
    /\ tx' = [tx EXCEPT !.phase = "failed"]
    /\ CloseMedia

(* A stream that waits for the microphone has no deadline.  A faulty test   *)
(* gives none to the wait for the answer either, which may be long.         *)
HasDeadlineToSend ==
    /\ tx.phase # "receiving"
    /\ tx.phase # "streaming" \/ tx.output # <<>> \/ tx.finish

HasDeadline == tx.phase # "streaming" \/ tx.output # <<>> \/ tx.finish

SentFrame(frame) ==
    /\ up' = Append(up, frame)
    /\ UNCHANGED <<sock, down, serving, orphans>>

(* pump_audio(), phase by phase. *)
Connected ==
    /\ tx.phase = "connecting"
    /\ tx' = [tx EXCEPT !.phase = "header"]
    /\ KeepLine

SendHeader ==
    /\ tx.phase = "header"
    /\ tx' = [tx EXCEPT !.phase = "streaming"]
    /\ SentFrame([type |-> "header", kind |-> tx.kind])

SendChunk ==
    /\ tx.phase = "streaming" /\ tx.output # <<>>
    /\ tx' = [tx EXCEPT !.output = <<>>]
    /\ SentFrame([type |-> "chunk", data |-> tx.output])

BeginEnd ==
    /\ tx.phase = "streaming" /\ tx.output = <<>> /\ tx.finish
    /\ tx' = [tx EXCEPT !.phase = "end"]
    /\ KeepLine

SendEnd ==
    /\ tx.phase = "end"
    /\ tx' = [tx EXCEPT !.phase = "receiving"]
    /\ SentFrame([type |-> "end"])

Answered ==
    /\ tx.phase = "receiving" /\ down # <<>>
    /\ IF ~Head(down).ok THEN FailAudio
       ELSE /\ tx' = [tx EXCEPT !.phase = "succeeded"]
            /\ IF Head(down).reusable
               THEN /\ sock' = "prepared" /\ down' = Tail(down)
                    /\ UNCHANGED <<up, serving, orphans>>
               ELSE CloseMedia

PumpAudio ==
    /\ Uploading
    /\ \/ Connected \/ SendHeader \/ SendChunk \/ BeginEnd \/ SendEnd \/ Answered
       \/ HasDeadline /\ FailAudio
    /\ UNCHANGED <<deviceVars, rec, photo, away, saved, attempts>>

-----------------------------------------------------------------------------
(* The loop that records.                                                   *)

(* begin_microphone_capture(): the microphone first, then the stream; if    *)
(* that cannot begin the capture is closed again.                           *)
BeginRecording ==
    /\ ~away /\ ~rec.active /\ ~photo.active /\ attempts < MaxAttempts
    /\ attempts' = attempts + 1
    /\ buffer' = <<>>
    /\ \/ /\ BeginStream("audio")
          /\ mic' = BeginCapture
          /\ rec' = [NotRecording EXCEPT !.active = TRUE]
       \/ /\ mic' = FinishCapture(BeginCapture)
          /\ UNCHANGED <<rec, tx, lineVars, orphans, saved>>
    /\ UNCHANGED <<photo, away>>

Hearing ==
    /\ mic.sampling /\ mic.written < MaxWritten
    /\ mic' = Hear(mic)
    /\ UNCHANGED <<buffer, rec, photo, away, tx, lineVars, orphans, saved, attempts>>

(* stop_failed_microphone_stream() *)
StopFailed(m) ==
    /\ mic' = FinishCapture(m)
    /\ buffer' = <<>>
    /\ rec' = NotRecording
    /\ tx' = NoTransaction
    /\ CloseMedia

(* request_microphone_finish(): R is let go. *)
Release ==
    /\ ~away /\ rec.active /\ ~rec.stop
    /\ \/ /\ mic.open
          /\ mic' = FinishCapture(mic)
          /\ rec' = [rec EXCEPT !.stop = TRUE]
          /\ UNCHANGED <<buffer, tx, lineVars, orphans>>
       \/ StopFailed(BreakCapture(mic))
    /\ UNCHANGED <<photo, away, saved, attempts>>

(* send_microphone_stream_buffer(): d is what drain_microphone_samples()    *)
(* works on, the microphone, the buffer and the transaction.                *)
SendBuffer(d, force) ==
    IF /\ d.buffer # <<>>
       /\ force \/ Len(d.buffer) >= Threshold
       /\ CanWrite(d.tx)
    THEN [d EXCEPT !.tx = Write(d.tx, d.buffer), !.buffer = <<>>]
    ELSE d

Fill(d) ==
    LET room == BufferSize - Len(d.buffer)
    IN  [d EXCEPT !.buffer = @ \o BlocksRead(d.mic, room),
                  !.mic = ReadCapture(d.mic, room)]

(* All is drained if nothing is in the buffer and the last chunk has gone;  *)
(* a faulty test only asks whether the microphone has more.                 *)
DrainedOnRead(d) == Readable(d.mic, BufferSize) = 0

Drained(d) == d.buffer = <<>> /\ CanWrite(d.tx)

(* drain_microphone_samples().  Its loop goes on while it reads and sends,  *)
(* and sends at most one chunk, for only the network makes room for         *)
(* another.  So: a full buffer is sent; the microphone is read and what was *)
(* read is sent; and if it was, the microphone is read again.               *)
MakeRoom(d) == IF Len(d.buffer) < BufferSize THEN d ELSE SendBuffer(d, TRUE)

ReadAndSend(d, force) ==
    IF Len(d.buffer) < BufferSize THEN SendBuffer(Fill(d), force) ELSE d

ReadAgain(d) == IF d.buffer = <<>> THEN Fill(d) ELSE d

Draining == [mic |-> mic, buffer |-> buffer, tx |-> tx]

(* update_microphone_capture() *)
RecordingFails ==
    /\ tx.phase \in {"failed", "idle"}
    /\ StopFailed(mic)
    /\ UNCHANGED saved

RecordingSucceeds ==
    /\ tx.phase = "succeeded"
    /\ tx' = NoTransaction
    /\ rec' = NotRecording /\ buffer' = <<>>
    /\ UNCHANGED <<mic, lineVars, orphans, saved>>

RecordingEnded(d) == rec.stop /\ Drained(d) /\ ~rec.finish /\ tx.phase = "streaming"

RecordingGoesOn ==
    /\ Uploading
    /\ \E room \in {MakeRoom(Draining)} :
       \E read \in {ReadAndSend(room, rec.stop)} :
       \E d \in {ReadAgain(read)} :
          IF RecordingEnded(d) /\ d.mic.total = 0 THEN StopFailed(d.mic)
          ELSE /\ mic' = IF d.mic.full THEN FinishCapture(d.mic) ELSE d.mic
               /\ buffer' = d.buffer
               /\ tx' = [d.tx EXCEPT !.finish = @ \/ RecordingEnded(d)]
               /\ rec' = [rec EXCEPT !.stop = @ \/ d.mic.full,
                                     !.finish = @ \/ RecordingEnded(d)]
               /\ KeepLine
    /\ UNCHANGED saved

MicrophoneBreaks ==
    /\ Uploading /\ mic.sampling
    /\ StopFailed(BreakCapture(mic))
    /\ UNCHANGED saved

RecordingFrame ==
    /\ ~away /\ rec.active
    /\ RecordingFails \/ RecordingSucceeds \/ RecordingGoesOn \/ MicrophoneBreaks
    /\ UNCHANGED <<photo, away, attempts>>

(* START: the connections are reset, the recording is not.  It is stopped   *)
(* when the agent loop is entered again.                                    *)
Leave ==
    /\ ~away /\ ~photo.active
    /\ away' = TRUE
    /\ tx' = NoTransaction
    /\ CloseMedia
    /\ UNCHANGED <<deviceVars, rec, photo, saved, attempts>>

(* network_prepare_connections(), which may fail. *)
Return ==
    /\ away
    /\ away' = FALSE
    /\ sock' \in {"none", "prepared"}
    /\ UNCHANGED <<deviceVars, rec, photo, tx, up, down, serving, orphans, saved,
                   attempts>>

-----------------------------------------------------------------------------
(* capture_and_upload_photo(), after the photo was taken and accepted.      *)
BeginPhoto ==
    /\ ~away /\ ~rec.active /\ ~photo.active /\ attempts < MaxAttempts
    /\ attempts' = attempts + 1
    /\ BeginStream("photo")
    /\ photo' = [NoPhoto EXCEPT !.active = TRUE]
    /\ UNCHANGED <<deviceVars, rec, away>>

PhotoEnds ==
    /\ tx.phase \in {"failed", "succeeded"}
    /\ tx' = NoTransaction /\ photo' = NoPhoto
    /\ KeepLine

PhotoWrites ==
    /\ photo.offset < PhotoSize /\ CanWrite(tx)
    /\ LET size == Min({PhotoSize - photo.offset, BufferSize})
       IN  /\ tx' = Write(tx, [i \in 1..size |-> photo.offset + i])
           /\ photo' = [photo EXCEPT !.offset = @ + size]
    /\ KeepLine

PhotoFinishes ==
    /\ Uploading
    /\ photo.offset = PhotoSize /\ ~photo.finish
    /\ tx' = [tx EXCEPT !.finish = TRUE]
    /\ photo' = [photo EXCEPT !.finish = TRUE]
    /\ KeepLine

(* START aborts the upload. *)
AbortPhoto ==
    /\ photo.active
    /\ tx' = NoTransaction /\ photo' = NoPhoto
    /\ CloseMedia
    /\ UNCHANGED <<deviceVars, rec, away, saved, attempts>>

PhotoFrame ==
    /\ photo.active
    /\ PhotoEnds \/ PhotoWrites \/ PhotoFinishes
    /\ UNCHANGED <<deviceVars, rec, away, saved, attempts>>

-----------------------------------------------------------------------------
(* The bridge.                                                              *)

(* #audioCaptureActive, #photoCaptureActive *)
Busy(kind) == orphans[kind] # "none"

Refusal == [ok |-> FALSE, reusable |-> TRUE]

(* A request is refused while another upload of its kind is active. *)
ReadHeader ==
    /\ Head(up).type = "header"
    /\ LET kind == Head(up).kind
       IN  IF Busy(kind)
           THEN /\ serving' = [NotServing EXCEPT !.phase = "refused"]
                /\ down' = Append(down, Refusal)
           ELSE /\ serving' = [phase |-> "reading", kind |-> kind, body |-> <<>>]
                /\ UNCHANGED down
    /\ UNCHANGED saved

(* savePcmRequestAsWav(), saveRgb565RequestAsBmp(): chunk by chunk. *)
ReadChunk ==
    /\ Head(up).type = "chunk"
    /\ serving' = IF serving.phase = "reading"
                  THEN [serving EXCEPT !.body = @ \o Head(up).data] ELSE serving
    /\ UNCHANGED <<down, saved>>

(* The file is renamed into place, and transcribed. *)
ReadEnd ==
    /\ Head(up).type = "end"
    /\ IF serving.phase = "reading"
       THEN /\ serving' = [serving EXCEPT !.phase = "working"]
            /\ saved' = serving.body
       ELSE serving' = NotServing /\ UNCHANGED saved
    /\ UNCHANGED down

ReadUpload ==
    /\ up # <<>>
    /\ ReadHeader \/ ReadChunk \/ ReadEnd
    /\ up' = Tail(up)
    /\ UNCHANGED <<clientVars, sock, orphans, attempts>>

AnswerUpload ==
    /\ serving.phase = "working"
    /\ \E ok, reusable \in BOOLEAN :
          down' = Append(down, [ok |-> ok, reusable |-> reusable])
    /\ serving' = NotServing
    /\ UNCHANGED <<clientVars, sock, up, orphans, saved, attempts>>

(* The handler of a request whose client has gone ends: a body that is not  *)
(* complete is thrown away, a complete one is transcribed to its end.       *)
OrphanEnds ==
    /\ \E kind \in Kinds :
          /\ orphans[kind] # "none"
          /\ orphans' = [orphans EXCEPT ![kind] = "none"]
    /\ UNCHANGED <<clientVars, lineVars, saved, attempts>>

MediaNext ==
    \/ PumpAudio
    \/ BeginRecording \/ Hearing \/ Release \/ RecordingFrame \/ Leave \/ Return
    \/ BeginPhoto \/ PhotoFrame \/ AbortPhoto
    \/ ReadUpload \/ AnswerUpload \/ OrphanEnds

(* The loops run: the network is pumped and each loop makes its frames.     *)
MediaFairness ==
    /\ WF_mediaVars(PumpAudio)
    /\ WF_mediaVars(RecordingFrame)
    /\ WF_mediaVars(PhotoFrame)

MediaSpec == MediaInit /\ [][MediaNext]_mediaVars /\ MediaFairness

-----------------------------------------------------------------------------
Numbered(n) == [i \in 1..n |-> i]

(* What the bridge saves of an upload is all of it, once and in order: the  *)
(* photo the user accepted, or every block spoken until R was let go or the *)
(* longest recording was reached, unless the ring was overwritten unread.   *)
UploadIsWhole ==
    /\ photo.active /\ saved # NothingSaved => saved = Numbered(PhotoSize)
    /\ rec.active /\ saved # NothingSaved /\ ~mic.lapped =>
          saved = Numbered(IF mic.full THEN PcmCapacity ELSE mic.written)

(* The client takes for the answer to an upload what answers that upload:   *)
(* when it tells the user that the audio or the photo was accepted, the     *)
(* bridge has saved it, whatever became of the uploads before it.           *)
AcceptedIsSaved == tx.phase = "succeeded" => saved # NothingSaved

(* A recording whose end was asked for ends, and so does an upload of a     *)
(* photo: no lost connection, no silent bridge and no empty microphone      *)
(* keeps the user in it.                                                    *)
EveryUploadEnds ==
    /\ rec.stop ~> (~rec.active \/ away)
    /\ photo.active ~> ~photo.active
=============================================================================
