----------------------------- MODULE Microphone -----------------------------
(***************************************************************************)
(* The capture of the 3DS microphone (client-3ds/source/microphone.c), as  *)
(* operators on a record.  The service writes samples round and round in a *)
(* shared buffer; the client knows its write offset and its own read       *)
(* offset and no more.  The unit is a block of samples; the blocks of a    *)
(* capture are numbered from 1 in the order they were spoken.              *)
(*   written  blocks the service wrote,   read  shared_read_offset,        *)
(*   stopped  stopped_write_offset,       total total_pcm_size,            *)
(*   sampling, open, full  as in the code,                                 *)
(*   lapped   history: the service overwrote blocks nobody had read.       *)
(***************************************************************************)
EXTENDS Integers, Sequences, FiniteSetsExt

CONSTANTS
    RingSize,    \* shared_data_size
    PcmCapacity  \* PCM_CAPACITY, the longest recording

ASSUME MicrophoneAssumption ==
    /\ RingSize \in Nat \ {0}
    /\ PcmCapacity \in Nat \ {0}

MicrophoneOff ==
    [written |-> 0, read |-> 0, stopped |-> 0, total |-> 0, sampling |-> FALSE,
     open |-> FALSE, full |-> FALSE, lapped |-> FALSE]

(* microphone_begin_capture(), unless it is refused. *)
BeginCapture == [MicrophoneOff EXCEPT !.sampling = TRUE, !.open = TRUE]

(* The service writes a block. *)
Hear(mic) ==
    [mic EXCEPT !.written = @ + 1,
                !.lapped = @ \/ mic.written + 1 - mic.total >= RingSize]

(* Between two offsets of the ring: a full ring looks like an empty one. *)
Available(mic) ==
    LET write == IF mic.sampling THEN mic.written % RingSize ELSE mic.stopped
    IN  IF write >= mic.read THEN write - mic.read
        ELSE RingSize - mic.read + write

(* microphone_read_capture() into a buffer with that much room.  The n      *)
(* blocks before the write offset are the last n that were written.  At     *)
(* PCM_CAPACITY the sampling is stopped.                                    *)
Readable(mic, room) ==
    IF mic.full THEN 0 ELSE Min({room, PcmCapacity - mic.total, Available(mic)})

BlocksRead(mic, room) ==
    [i \in 1..Readable(mic, room) |-> mic.written - Available(mic) + i]

ReadCapture(mic, room) ==
    LET n == Readable(mic, room)
        read == [mic EXCEPT !.read = (@ + n) % RingSize, !.total = @ + n]
    IN  IF read.total < PcmCapacity THEN read
        ELSE [read EXCEPT !.sampling = FALSE, !.full = TRUE,
                          !.stopped = read.read]

(* microphone_finish_capture() *)
FinishCapture(mic) ==
    IF ~mic.sampling THEN mic
    ELSE [mic EXCEPT !.sampling = FALSE, !.stopped = mic.written % RingSize]

(* The service has stopped, or one of its calls fails. *)
BreakCapture(mic) == [mic EXCEPT !.sampling = FALSE, !.open = FALSE]
=============================================================================
