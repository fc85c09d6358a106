------------------------------ MODULE MmapTransfer ------------------------------
(***************************************************************************)
(* axfer/xfer-libasound-irq-mmap.c, xfer-libasound-timer-mmap.c: frames    *)
(* between a file and the mapped buffer of a device, woken by interrupts   *)
(* or by a timer of the program's own.  The device goes on by itself, and  *)
(* what the program knows of its position may be old.  The timer backend   *)
(* starts playback over silence and takes the rest of it back.             *)
(*                                                                         *)
(* A frame has the number it left its source with, the file or the device; *)
(* silence is 0.  The mapper and the loop of the transfer are in Transfer. *)
(***************************************************************************)
EXTENDS Integers

CONSTANTS Size,       \* frames_per_buffer
          Margin,     \* frames the rewind leaves to the device (32)
          Expected    \* frames asked for

Parameters == {Size, Margin, Expected} \subseteq Nat \ {0}

VARIABLES dir, timer, use_waiter, finish_at_xrun,
          state,                     \* of the stream
          ring, rd, wr, fill,        \* the buffer: oldest frame, next free, frames in it
          known,                     \* fill as of the last look at the device
          src, out,                  \* last frame that left the source, that was delivered
          fresh,                     \* history: frames from the source since the start
          going,                     \* history: one was delivered since the start
          need_forward_or_rewind,
          s, n, actual, moved,       \* moved: frames of the file
          pc

setup == <<dir, timer, use_waiter, finish_at_xrun>>
buffer == <<ring, rd, wr, fill, known>>
frames == <<src, out, fresh, going>>
count == <<actual, moved>>
vars == <<setup, state, buffer, frames, need_forward_or_rewind, s, n, count, pc>>

Playback == dir = "playback"
Wrap(x) == IF x >= Size THEN x - Size ELSE x
Least(x, y) == IF x <= y THEN x ELSE y
Positions == 0 .. Size - 1

\* what snd_pcm_avail_update and snd_pcm_mmap_begin tell: frames, and up to the end
Offset == IF Playback THEN wr ELSE rd
Avail == IF Playback THEN Size - known ELSE known
Contiguous == Size - Offset

Init ==
    /\ dir \in {"playback", "capture"} /\ timer \in BOOLEAN
    /\ use_waiter \in BOOLEAN /\ finish_at_xrun \in BOOLEAN
    /\ state = "prepared" /\ ring = [i \in Positions |-> 0]
    /\ rd = 0 /\ wr = 0 /\ fill = 0 /\ known = 0
    /\ src = 0 /\ out = 0 /\ fresh = 0 /\ going = FALSE
    /\ need_forward_or_rewind = FALSE
    /\ s = "prepared" /\ n = 0 /\ actual = 0 /\ moved = 0 /\ pc = "status"

-----------------------------------------------------------------------------
Wait == IF use_waiter THEN "wait" ELSE "avail"

\* snd_pcm_status asks the device
Status ==
    /\ pc = "status" /\ s' = state /\ known' = fill
    /\ pc' = IF ~timer /\ Playback THEN Wait
             ELSE IF state = "xrun" THEN "epipe"
             ELSE IF state = "prepared" THEN "start"
             ELSE IF ~timer THEN Wait
             ELSE IF need_forward_or_rewind THEN "adjust" ELSE "plan"
    /\ UNCHANGED <<setup, state, ring, rd, wr, fill, frames, need_forward_or_rewind, n, count>>

\* fill_buffer_with_zero_samples before a playback by timer, snd_pcm_start
Start ==
    /\ pc = "start" /\ state' = "running"
    /\ IF timer /\ Playback
       THEN LET k == Least(Avail, Contiguous) IN
            /\ ring' = [i \in Positions |-> IF i \in wr .. wr + k - 1 THEN 0 ELSE ring[i]]
            /\ wr' = Wrap(wr + k) /\ fill' = fill + k /\ known' = known + k
       ELSE UNCHANGED <<ring, wr, fill, known>>
    /\ need_forward_or_rewind' = timer
    /\ n' = 0 /\ pc' = IF timer THEN "count" ELSE Wait
    /\ UNCHANGED <<setup, rd, frames, s, count>>

\* forward_appl_ptr: what was captured before the first look is passed over
Forward ==
    /\ pc = "adjust" /\ ~Playback
    /\ rd' = Wrap(rd + known) /\ fill' = fill - known /\ known' = 0
    /\ need_forward_or_rewind' = FALSE /\ pc' = "plan"
    /\ UNCHANGED <<setup, state, ring, wr, frames, s, n, count>>

\* rewind_appl_ptr: the silence is taken back but for a margin; the device may have gone
\* past it in the meantime
Rewind ==
    /\ pc = "adjust" /\ Playback
    /\ LET k == IF known < Margin THEN 0 ELSE known - Margin IN
       /\ wr' = IF k <= wr THEN wr - k ELSE wr + Size - k
       /\ known' = known - k
       /\ IF k <= fill THEN fill' = fill - k /\ UNCHANGED state
                       ELSE fill' = 0 /\ state' = "xrun"
    /\ need_forward_or_rewind' = FALSE /\ pc' = "plan"
    /\ UNCHANGED <<setup, ring, rd, frames, s, n, count>>

\* xfer_libasound_wait_event of the interrupt backend: ready, or nothing (-EAGAIN)
WaitEvent ==
    /\ pc = "wait" /\ pc' \in {"avail", "status"}
    /\ UNCHANGED <<setup, state, buffer, frames, need_forward_or_rewind, s, n, count>>

\* irq_mmap_process_frames up to the mapper
AvailUpdate ==
    /\ pc = "avail" /\ s # "xrun"
    /\ n' = Least(Least(Expected - actual, Avail), Contiguous) /\ pc' = "move"
    /\ UNCHANGED <<setup, state, buffer, frames, need_forward_or_rewind, s, count>>

\* timer_mmap_process_frames up to the mapper: as many frames as chance has it
Plan ==
    /\ pc = "plan"
    /\ \E planned_count \in 0 .. Size :
          n' = Least(Least(planned_count, Contiguous), Expected - actual)
    /\ pc' = IF Least(Avail, Contiguous) < n' THEN "delay" ELSE "move"
    /\ UNCHANGED <<setup, state, buffer, frames, need_forward_or_rewind, s, count>>

\* It sleeps until they should be there.  After a timeout revents was never set and may
\* say anything: an error (Fails), nothing, or ready.  snd_pcm_avail asks the device.
Delay ==
    /\ pc = "delay"
    /\ \/ pc' = "status" /\ UNCHANGED <<known, n>>
       \/ /\ state # "xrun" /\ known' = fill /\ pc' = "move"
          /\ n' = Least(n, IF Playback THEN Size - fill ELSE fill)
    /\ UNCHANGED <<setup, state, ring, rd, wr, fill, frames, need_forward_or_rewind, s, count>>

\* mapper_context_process_frames, on the mapped frames
Move ==
    /\ pc = "move"
    /\ ring' = IF Playback
               THEN [i \in Positions |-> IF i \in wr .. wr + n - 1
                                         THEN src + 1 + (i - wr) ELSE ring[i]]
               ELSE ring
    /\ moved' = moved + n /\ pc' = "commit"
    /\ UNCHANGED <<setup, state, rd, wr, fill, known, frames, need_forward_or_rewind, s, n, actual>>

\* The stream has stopped, and the next question to libasound says so.
Stopped ==
    /\ pc \in {"wait", "avail", "adjust", "plan", "delay"} /\ state = "xrun" /\ pc' = "epipe"
    /\ UNCHANGED <<setup, state, buffer, frames, need_forward_or_rewind, s, n, count>>

\* Any other error, of libasound or of the mapper, ends the transfer.
Fails ==
    /\ pc \notin {"count", "done", "failed"} /\ pc' = "failed"
    /\ UNCHANGED <<setup, state, buffer, frames, need_forward_or_rewind, s, n, count>>

\* snd_pcm_mmap_commit
Commit ==
    /\ pc = "commit"
    /\ IF Playback
       THEN /\ wr' = Wrap(wr + n) /\ fill' = fill + n /\ known' = known + n
            /\ src' = src + n /\ fresh' = fresh + n
            /\ UNCHANGED <<rd, out, going>>
       ELSE /\ rd' = Wrap(rd + n) /\ fill' = fill - n /\ known' = known - n
            /\ out' = (IF n > 0 THEN ring[rd + n - 1] ELSE out)
            /\ going' = (going \/ n > 0)
            /\ UNCHANGED <<wr, src, fresh>>
    /\ pc' = IF ~timer /\ Playback /\ s # "running" THEN "first" ELSE "count"
    /\ UNCHANGED <<setup, state, ring, need_forward_or_rewind, s, n, count>>

\* irq_mmap_w_process_frames: the first frames start the stream
First ==
    /\ pc = "first" /\ s = "prepared" /\ state' = "running" /\ pc' = "count"
    /\ UNCHANGED <<setup, buffer, frames, need_forward_or_rewind, s, n, count>>

\* -EPIPE: the stream is prepared again and what it held is lost, or the transfer ends
Recover ==
    /\ pc = "epipe" /\ ~finish_at_xrun
    /\ state' = "prepared" /\ pc' = "count" /\ n' = 0
    /\ rd' = 0 /\ wr' = 0 /\ fill' = 0 /\ known' = 0 /\ fresh' = 0 /\ going' = FALSE
    /\ out' = (IF Playback THEN src ELSE out)
    /\ UNCHANGED <<setup, ring, src, need_forward_or_rewind, s, count>>

\* the end of a turn of context_process_frames
Count ==
    /\ pc = "count" /\ actual' = actual + n
    /\ pc' = IF actual' >= Expected THEN "done" ELSE "status"
    /\ UNCHANGED <<setup, state, buffer, frames, need_forward_or_rewind, s, n, moved>>

-----------------------------------------------------------------------------
Play ==
    /\ state = "running" /\ Playback /\ fill > 0
    /\ out' = (IF ring[rd] = 0 THEN out ELSE ring[rd]) /\ going' = (going \/ ring[rd] # 0)
    /\ rd' = Wrap(rd + 1) /\ fill' = fill - 1
    /\ UNCHANGED <<setup, state, ring, wr, known, src, fresh, need_forward_or_rewind, s, n, count, pc>>

Record ==
    /\ state = "running" /\ ~Playback /\ fill < Size
    /\ ring' = [ring EXCEPT ![wr] = src + 1] /\ src' = src + 1 /\ fresh' = fresh + 1
    /\ wr' = Wrap(wr + 1) /\ fill' = fill + 1
    /\ UNCHANGED <<setup, state, rd, known, out, going, need_forward_or_rewind, s, n, count, pc>>

\* an interrupt tells of the position
Irq ==
    /\ ~timer /\ state = "running" /\ known' = fill
    /\ UNCHANGED <<setup, state, ring, rd, wr, fill, frames, need_forward_or_rewind, s, n, count, pc>>

\* the buffer runs dry or over, or the driver stops
Xrun ==
    /\ state = "running" /\ state' = "xrun"
    /\ UNCHANGED <<setup, buffer, frames, need_forward_or_rewind, s, n, count, pc>>

Device == Play \/ Record \/ Irq \/ Xrun
Turn == Status \/ Start \/ Forward \/ Rewind \/ WaitEvent \/ AvailUpdate \/ Plan \/ Delay
        \/ Move \/ Stopped \/ Fails \/ Commit \/ First \/ Recover \/ Count
Next == Turn \/ Device
Spec == Init /\ [][Next]_vars

-----------------------------------------------------------------------------
\* The mapper is given mapped frames only, and none that are the device's: planned_count
\* and avail_count, once old, stay within the buffer (timer_mmap_process_frames,
\* irq_mmap_process_frames).
MappedOnly ==
    pc \in {"move", "commit"} =>
        /\ Offset + n <= Size
        /\ state # "xrun" => n <= (IF Playback THEN Size - fill ELSE fill)

\* Playback is the file in order, after silence at most: the rewind takes back silence
\* only, and no frame in the buffer is written over (rewind_appl_ptr,
\* fill_buffer_with_zero_samples).
PlaysFileInOrder ==
    state = "running" /\ Playback /\ fill > 0 =>
        ring[rd] = out + 1 \/ (ring[rd] = 0 /\ ~going)

\* A capture is what the device recorded, in order and without a gap once the first
\* frame of a start is stored (forward_appl_ptr).
StoresInOrder ==
    pc \in {"move", "commit"} /\ ~Playback /\ state # "xrun" /\ n > 0 =>
        /\ \A j \in 0 .. n - 1 : ring[rd + j] = ring[rd] + j
        /\ going => ring[rd] = out + 1

\* What is counted is what was moved to or from the file, and no more than was asked for.
CountsWhatItMoved ==
    /\ pc = "status" => actual = moved
    /\ moved <= Expected
    /\ pc = "done" => moved = Expected
=============================================================================
