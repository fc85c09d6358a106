------------------------------- MODULE Transfer -------------------------------
(***************************************************************************)
(* axfer transfer: frames between a PCM device and one or more containers  *)
(* (files), over the mapper and the frame cache of the irq-rw scheduler    *)
(* (axfer/subcmd-transfer.c, container.c, xfer-libasound.c,                *)
(* xfer-libasound-irq-rw.c, frame-cache.c, mapper-*.c).                    *)
(*                                                                         *)
(* Frames and bytes are counted, their values are left out.  A read or     *)
(* write of a descriptor is a step of its own, because a signal can come   *)
(* between two of them.  An answer "not ready" (-EAGAIN) changes nothing.  *)
(***************************************************************************)
EXTENDS Integers, FiniteSets

CONSTANTS Count,        \* number of containers
          Frame,        \* bytes of one frame in a container
          Magic,        \* bytes read ahead to detect the format (4)
          Buffer,       \* frames_per_buffer of the device
          MaxFrames,    \* bound on the frames that are asked for
          MaxSize,      \* max_size of the format, in bytes
          MaxBytes,     \* bound on what a descriptor gives or takes
          Word          \* values of an unsigned int

Containers == 1 .. Count

ASSUME CountAssumption == Count \in Nat \ {0}
ASSUME SizeAssumption  == /\ {Frame, Magic, Buffer, MaxFrames} \subseteq Nat \ {0}
                          /\ {MaxSize, MaxBytes} \subseteq Nat
\* a first request of one frame holds the magic bytes
ASSUME MagicAssumption == Magic =< Frame
\* what is asked for and the limits of the formats with a header fit in 32 bits
ASSUME WordAssumption  == Word \in Nat /\ Word > Frame * MaxFrames /\ Word > MaxSize

VARIABLES dir, raw, finish, claimed,    \* direction, raw containers, finish_at_xrun,
                                        \* frame counts of the containers
          room,                         \* bytes a descriptor still gives or takes
          cntr, interrupted, failed,
          cache, want, n, actual,
          i, rest,                      \* the container at work, bytes to move
          pcm, dev,                     \* the device, frames it gave or took
          pc

\* History: bytes moved by each descriptor; a stop was met at the loop's top.
VARIABLES moved, early

setup == <<dir, raw, finish, claimed>>
vars  == <<setup, room, cntr, interrupted, failed, cache, want, n, actual, i,
           rest, pcm, dev, pc, moved, early>>

Playback == dir = "playback"

\* total_frame_count: the least count of any container
Expected == CHOOSE f \in {claimed[c] : c \in Containers} :
                \A c \in Containers : f =< claimed[c]

\* max_size as container_context_pre_process leaves it
Limit == MaxSize - (MaxSize \div Frame)

\* byte_count of a request of f frames to container c: less the magic bytes,
\* and no more than the container still holds
ByteCount(c, f) ==
    LET byte == f * Frame - (IF cntr[c].magic THEN Magic ELSE 0)
    IN  IF ~raw /\ byte =< Limit /\ cntr[c].handled > Limit - byte
        THEN (Limit - cntr[c].handled) % Word
        ELSE byte

Flags ==
    /\ dir \in {"playback", "capture"} /\ raw \in BOOLEAN /\ finish \in BOOLEAN
    /\ interrupted \in BOOLEAN /\ failed \in BOOLEAN /\ early \in BOOLEAN
    /\ pcm \in {"prepared", "running", "xrun"}
    /\ pc \in {"ask", "map", "move", "device", "count", "done", "aborted"}

Tables ==
    /\ claimed \in [Containers -> 1 .. MaxFrames]
    /\ room \in [Containers -> 0 .. MaxBytes]
    /\ cntr \in [Containers -> [handled : Nat, eof : BOOLEAN, magic : BOOLEAN,
                                header : Nat]]
    /\ moved \in [Containers -> Nat]

Counters ==
    /\ cache \in Nat /\ want \in Nat /\ n \in Nat
    /\ actual \in Nat /\ rest \in Nat /\ dev \in Nat
    /\ i \in 1 .. Count + 1

TypeOK == Flags /\ Tables /\ Counters

(***************************************************************************)
(* container_parser_init or container_builder_init, and the pre_process    *)
(* calls: the magic bytes were read.                                       *)
(***************************************************************************)
Init ==
    /\ dir \in {"playback", "capture"} /\ raw \in BOOLEAN /\ finish \in BOOLEAN
    /\ claimed \in [Containers -> 1 .. MaxFrames]
    /\ ~Playback /\ ~raw => \A c \in Containers : claimed[c] =< MaxSize \div Frame
    /\ room \in [Containers -> 0 .. MaxBytes]
    /\ cntr = [c \in Containers |-> [handled |-> 0, eof |-> FALSE,
                                     magic |-> raw /\ Playback, header |-> 0]]
    /\ moved = [c \in Containers |-> IF raw /\ Playback THEN Magic ELSE 0]
    /\ interrupted = FALSE /\ failed = FALSE /\ early = FALSE
    /\ cache = 0 /\ want = 0 /\ n = 0 /\ actual = 0 /\ dev = 0
    /\ i = 1 /\ rest = 0 /\ pcm = "prepared" /\ pc = "ask"

-----------------------------------------------------------------------------
(***************************************************************************)
(* One turn of context_process_frames up to the device or the mapper.      *)
(***************************************************************************)

\* context_post_process: the builders write their headers again.  Nobody looks at
\* what that returns, and to stdout it is not tried: the estimate of the beginning,
\* here 0, then stays.
Finish ==
    /\ pc' = "done"
    /\ \E written \in SUBSET Containers :
          cntr' = [c \in Containers |->
                     IF Playback \/ raw \/ c \notin written THEN cntr[c]
                     ELSE [cntr[c] EXCEPT !.header = cntr[c].handled]]

\* the loop is left after handle_unix_signal_for_finish
Leave ==
    /\ pc = "ask" /\ interrupted
    /\ Finish
    /\ UNCHANGED <<setup, room, interrupted, failed, cache, want, n, actual, i,
                   rest, pcm, dev, moved, early>>

\* xfer_libasound_process_frames after -EPIPE: with --finish-at-xrun the
\* transfer fails, else the stream is prepared and frame_count is f
Recover(f) ==
    /\ IF finish
       THEN failed' = TRUE /\ Finish /\ UNCHANGED <<want, pcm>>
       ELSE want' = f /\ pcm' = "prepared" /\ pc' = "count"
            /\ UNCHANGED <<failed, cntr>>
    /\ UNCHANGED <<setup, room, interrupted, cache, n, actual, i, rest, dev, moved>>

\* irq_rw_process_frames finds the stream stopped: frame_count is still what
\* was asked for
FindStopped ==
    /\ pc = "ask" /\ ~interrupted /\ pcm = "xrun"
    /\ Recover(Expected - actual)
    /\ early' = TRUE

\* snd_pcm_avail or snd_pcm_readi finds it stopped
StopsInCall ==
    /\ pc = "ask" /\ ~interrupted /\ pcm = "running"
    /\ Recover(0)
    /\ UNCHANGED early

NotTrimmed(avail) == avail                  \* mutant: all that is available

\* what read_frames and write_frames trim the available count to
Trimmed(avail) == IF Expected - actual < avail THEN Expected - actual ELSE avail

\* write_frames: the cache is filled from the containers, if it is too short
AskPlayback ==
    /\ pc = "ask" /\ ~interrupted /\ Playback /\ pcm # "xrun"
    /\ \E avail \in 1 .. Buffer :
          IF Trimmed(avail) > cache
          THEN n' = Trimmed(avail) - cache /\ pc' = "map"
          ELSE n' = Trimmed(avail) /\ pc' = "device"
    /\ UNCHANGED <<setup, room, cntr, interrupted, failed, cache, want, actual,
                   i, rest, pcm, dev, moved, early>>

\* read_frames: the cache is filled from the device, if it is too short
AskCapture ==
    /\ pc = "ask" /\ ~interrupted /\ ~Playback /\ pcm # "xrun"
    /\ \E avail \in 1 .. Buffer :
          IF Trimmed(avail) > cache
          THEN \E r \in 1 .. Trimmed(avail) - cache :
                  cache' = cache + r /\ dev' = dev + r /\ n' = cache + r
          ELSE n' = Trimmed(avail) /\ UNCHANGED <<cache, dev>>
    /\ pcm' = "running" /\ pc' = "map"
    /\ UNCHANGED <<setup, room, cntr, interrupted, failed, want, actual, i, rest,
                   moved, early>>

-----------------------------------------------------------------------------
(***************************************************************************)
(* The mapper: container_context_process_frames of one container after the *)
(* other.                                                                  *)
(***************************************************************************)

Enter ==
    /\ pc = "map" /\ i =< Count /\ ~cntr[i].eof
    /\ rest' = ByteCount(i, n)
    /\ cntr' = [cntr EXCEPT ![i].magic = FALSE]
    /\ pc' = "move"
    /\ UNCHANGED <<setup, room, interrupted, failed, cache, want, n, actual, i,
                   pcm, dev, moved, early>>

\* assert(!cntr->eof)
Abort ==
    /\ pc = "map" /\ i =< Count /\ cntr[i].eof
    /\ pc' = "aborted"
    /\ UNCHANGED <<setup, room, cntr, interrupted, failed, cache, want, n, actual,
                   i, rest, pcm, dev, moved, early>>

\* one read or write of container_recursive_read or container_recursive_write
Move ==
    /\ pc = "move" /\ rest > 0 /\ ~interrupted
    /\ \E k \in 1 .. rest :
          /\ k =< room[i]
          /\ rest' = rest - k
          /\ room'  = [room EXCEPT ![i] = @ - k]
          /\ moved' = [moved EXCEPT ![i] = @ + k]
    /\ UNCHANGED <<setup, cntr, interrupted, failed, cache, want, n, actual, i, pcm,
                   dev, pc, early>>

\* the whole request is counted, whatever was moved; end says the file ended
Handled(end) ==
    LET handled == cntr[i].handled + n * Frame
    IN  cntr' = [cntr EXCEPT
                   ![i].handled = handled,
                   ![i].eof = @ \/ end \/ (~raw /\ handled = Limit)]

\* all was moved, or a signal came, or the file is at its end
Exit ==
    /\ pc = "move"
    /\ \/ (rest = 0 \/ interrupted) /\ Handled(FALSE)
       \/ Playback /\ rest > 0 /\ ~interrupted /\ room[i] = 0 /\ Handled(TRUE)
    /\ i' = i + 1 /\ rest' = 0 /\ pc' = "map"
    /\ UNCHANGED <<setup, room, interrupted, failed, cache, want, n, actual, pcm,
                   dev, moved, early>>

\* the signal came in the call: -EINTR, and the loop starts again
CallInterrupted ==
    /\ pc = "move" /\ rest > 0 /\ ~interrupted
    /\ interrupted' = TRUE /\ pc' = "ask"
    /\ UNCHANGED <<setup, room, cntr, failed, cache, want, n, actual, i, rest, pcm,
                   dev, moved, early>>

ErrorIgnored ==                     \* mutant: the failing write is passed over
    /\ pc = "move" /\ ~Playback /\ rest > 0 /\ ~interrupted /\ room[i] = 0
    /\ Handled(FALSE) /\ i' = i + 1 /\ rest' = 0 /\ pc' = "map"
    /\ UNCHANGED <<setup, room, interrupted, failed, cache, want, n, actual, pcm,
                   dev, moved, early>>

\* no room on the disk
WriteFails ==
    /\ pc = "move" /\ ~Playback /\ rest > 0 /\ ~interrupted /\ room[i] = 0
    /\ failed' = TRUE /\ Finish
    /\ UNCHANGED <<setup, room, interrupted, cache, want, n, actual, i, rest, pcm,
                   dev, moved, early>>

\* The request after one that was cut at the limit has wrapped: it leaves the frame
\* buffer, and the call fails or the process dies.
LeavesBuffer ==
    /\ pc = "move" /\ ~interrupted /\ rest > Frame * Buffer
    /\ \/ pc' = "aborted" /\ UNCHANGED <<failed, cntr>>
       \/ failed' = TRUE /\ Finish
    /\ UNCHANGED <<setup, room, interrupted, cache, want, n, actual, i, rest, pcm,
                   dev, moved, early>>

\* all containers have handled n frames: into the cache, or out of it
Mapped ==
    /\ pc = "map" /\ i > Count
    /\ IF Playback
       THEN cache' = cache + n /\ n' = cache + n /\ pc' = "device" /\ UNCHANGED want
       ELSE cache' = cache - n /\ n' = 0 /\ want' = n /\ pc' = "count"
    /\ i' = 1
    /\ UNCHANGED <<setup, room, cntr, interrupted, failed, actual, rest, pcm, dev,
                   moved, early>>

-----------------------------------------------------------------------------
(***************************************************************************)
(* The playback device, the end of a turn, and what comes from outside.    *)
(***************************************************************************)

CacheEmptied ==           \* mutant: the cache is reduced by what was asked for
    /\ pc = "device" /\ pcm # "xrun"
    /\ \E h \in 1 .. n : cache' = cache - n /\ dev' = dev + h /\ want' = h
    /\ pcm' = "running" /\ pc' = "count"
    /\ UNCHANGED <<setup, room, cntr, interrupted, failed, n, actual, i, rest, moved,
                   early>>

\* snd_pcm_writei takes some of the frames in the cache
DeviceWrite ==
    /\ pc = "device" /\ pcm # "xrun"
    /\ \E h \in 1 .. n : cache' = cache - h /\ dev' = dev + h /\ want' = h
    /\ pcm' = "running" /\ pc' = "count"
    /\ UNCHANGED <<setup, room, cntr, interrupted, failed, n, actual, i, rest, moved,
                   early>>

WriteStopped ==
    /\ pc = "device" /\ pcm = "xrun"
    /\ Recover(0)
    /\ UNCHANGED early

\* a signal (of either kind) comes while it waits: -EINTR, continue
WriteInterrupted ==
    /\ pc = "device" /\ pcm # "xrun"
    /\ pc' = "ask"
    /\ interrupted' \in {interrupted, TRUE}
    /\ UNCHANGED <<setup, room, cntr, failed, cache, want, n, actual, i, rest, pcm,
                   dev, moved, early>>

TallyOver ==                             \* mutant: while (actual <= expected)
    /\ pc = "count"
    /\ IF \E c \in Containers : cntr[c].eof
       THEN Finish /\ UNCHANGED actual
       ELSE /\ actual' = actual + want
            /\ IF actual' > Expected THEN Finish
               ELSE pc' = "ask" /\ UNCHANGED cntr
    /\ want' = 0
    /\ UNCHANGED <<setup, room, interrupted, failed, cache, n, i, rest, pcm, dev,
                   moved, early>>

\* the end of the loop's body
Tally ==
    /\ pc = "count"
    /\ IF \E c \in Containers : cntr[c].eof
       THEN Finish /\ UNCHANGED actual
       ELSE /\ actual' = actual + want
            /\ IF actual' >= Expected THEN Finish
               ELSE pc' = "ask" /\ UNCHANGED cntr
    /\ want' = 0
    /\ UNCHANGED <<setup, room, interrupted, failed, cache, n, i, rest, pcm, dev,
                   moved, early>>

\* handle_unix_signal_for_finish
Signal ==
    /\ ~interrupted /\ pc \notin {"done", "aborted"}
    /\ interrupted' = TRUE
    /\ UNCHANGED <<setup, room, cntr, failed, cache, want, n, actual, i, rest, pcm,
                   dev, pc, moved, early>>

\* the device runs dry or over; so does one that cannot pause, when the
\* program is suspended
Xrun ==
    /\ pcm = "running" /\ pc \notin {"done", "aborted"}
    /\ pcm' = "xrun"
    /\ UNCHANGED <<setup, room, cntr, interrupted, failed, cache, want, n, actual, i,
                   rest, dev, pc, moved, early>>

Step == \/ Leave \/ FindStopped \/ Enter \/ Abort \/ Move \/ Exit \/ WriteFails
        \/ LeavesBuffer \/ Mapped \/ WriteStopped \/ Tally

Next == \/ Step \/ AskPlayback \/ AskCapture \/ DeviceWrite
        \/ StopsInCall \/ CallInterrupted \/ WriteInterrupted \/ Signal \/ Xrun

\* The program runs on, and the device takes or gives frames again and again.
Spec == /\ Init /\ [][Next]_vars
        /\ WF_vars(Step) /\ WF_vars(AskPlayback)
        /\ SF_vars(AskCapture) /\ SF_vars(DeviceWrite)

-----------------------------------------------------------------------------
\* The frames a container has passed on, all requests before this one.
Passed == IF Playback THEN dev + cache ELSE dev - cache

\* No frame is lost or doubled between the device, the cache and the
\* containers, over stops of the stream, short writes and signals: each
\* container has handled what the device has or the cache holds, and the
\* containers the mapper has served already one request more (write_frames,
\* read_frames, frame_cache_reduce, process_containers).
Conserved ==
    \A c \in Containers :
        cntr[c].handled = Frame * (Passed + (IF c < i THEN n ELSE 0))

\* The b bytes a container is said to have are in the file, or it has the bytes up
\* to the limit of its format, where a request was cut; all but lost of them.
Holds(c, b, lost) ==
    \/ b =< moved[c] + lost
    \/ ~raw /\ b > Limit /\ Limit =< moved[c] + lost

\* No header that a capture has written at its end claims bytes that are not in the
\* file (container_context_post_process), whatever ended it; but the request a signal
\* breaks is counted, and so is what the limit of the format cut off.
HeaderIsTrue ==
    pc = "done" =>
        \A c \in Containers :
            Holds(c, cntr[c].header, IF interrupted THEN Frame * Buffer ELSE 0)

\* A transfer that ends by its count has moved every frame asked for between
\* the device and each container, up to the limit of the format, and leaves none
\* in the cache (context_process_frames), unless the stream was found stopped at
\* the top of the loop.
EndsWhole ==
    (pc = "done" /\ ~interrupted /\ ~failed /\ ~early
        /\ \A c \in Containers : ~cntr[c].eof) =>
    /\ dev = Expected /\ cache = 0
    /\ \A c \in Containers : /\ cntr[c].handled = Frame * Expected
                            /\ Holds(c, Frame * Expected, 0)

\* The transfer ends, whatever stops and signals come.
TransferEnds == <>(pc \in {"done", "aborted"})
=============================================================================
