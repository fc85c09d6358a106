-------------------------------- MODULE LoopJob --------------------------------
(***************************************************************************)
(* alsaloop/pcmjob.c: one loopback job, from a capture device to a         *)
(* playback device through one ring buffer that both handles share (same   *)
(* access, format, rate and channels, no resampler).                       *)
(*                                                                         *)
(* A frame is the number it was captured under, 0 is silence.  The clocks  *)
(* of the two devices drift by at most MaxDrift frames.  The steps of a    *)
(* call of pcmjob_pollfds_handle are actions of their own, because the     *)
(* devices move between them.  Pitch is 1, no call on a device fails but   *)
(* by an xrun, no suspend.                                                 *)
(***************************************************************************)
EXTENDS Integers, Sequences, FiniteSetsExt

CONSTANTS Latency,       \* frames the whole loop shall hold
          PlayBuffer,    \* buffer_size of the two devices
          CaptBuffer,
          MaxDrift,      \* bound on the difference of the two clocks
          MaxRounds,     \* loopcount limit of one call (10 in the code)
          MaxFrame,      \* bound on the frames that are captured
          MaxEvents      \* bound on the changes at the slave controls

ASSUME SizeAssumption ==
    /\ {Latency, PlayBuffer, CaptBuffer, MaxRounds, MaxFrame} \subseteq Nat \ {0}
    /\ {MaxDrift, MaxEvents} \subseteq Nat

Silence == 0

VARIABLES loop,      \* struct loopback with its two handles
          hw,        \* the two devices
          now,       \* frames captured so far
          drift,     \* what the capture clock is ahead of the playback clock
          active, event, events,     \* the slave controls of the capture side
          pc, rounds, moved, playOnly

\* History: frames not played and not given up; what the last step wrote;
\* a silence was put over frames, or beyond the end of the ring.
VARIABLES due, wrote, patched

slave == <<active, event, events>>
round == <<rounds, moved, playOnly>>
vars  == <<loop, hw, now, drift, slave, pc, round, due, wrote, patched>>

Size  == 2 * Max({Latency, PlayBuffer, CaptBuffer})
Slots == 0 .. Size - 1

(***************************************************************************)
(* The ring.                                                               *)
(***************************************************************************)

\* n frames of the ring from position pos on
FramesAt(ring, pos, n) == [i \in 1 .. n |-> ring[(pos + i - 1) % Size]]

\* the frames the capture device holds
Waiting == (now - hw.cavail + 1) .. now

Shift(n, count) == IF n < count THEN count - n ELSE 0

\* buf_remove of a shared buffer
BufRemove(l, n) ==
    IF n <= 0 THEN l ELSE [l EXCEPT !.ccount = Shift(n, @)]

\* remove_samples of a shared buffer: how many it takes, and the result
Removable(l, n) == Min({n, l.pcount, l.ccount})
RemoveCounts(l, n) ==                           \* mutant: buf_pos stays behind
    LET m == Removable(l, n)
    IN  [l EXCEPT !.ccount = @ - m, !.pcount = @ - m]
RemoveSamples(l, n) ==
    LET m == Removable(l, n)
    IN  [l EXCEPT !.ccount = @ - m, !.ppos = (@ + m) % Size, !.pcount = @ - m]
Removed(l, n) ==
    LET f == FramesAt(l.ring, l.ppos, Removable(l, n))
    IN  {f[i] : i \in DOMAIN f}

\* readit and buf_add: the room of the ring counts only captured frames that
\* were not played
ReadCount == Min({hw.cavail, Size - loop.ccount})
ReadIt(l, n) ==
    [l EXCEPT !.ring = [i \in Slots |->
                          LET k == (i - l.cpos + Size) % Size
                          IN  IF k < n THEN now - hw.cavail + 1 + k ELSE @[i]],
              !.cpos = (@ + n) % Size, !.ccount = @ + n, !.pcount = @ + n]

\* writeit on a device with pfill frames: it stops at the chunk that completes
\* the play-out of a stream that became inactive
PlaysOut(l, n) == l.stop_pending /\ l.stop_count + n > 3 * Latency
WriteCount(l, pfill) ==
    LET n     == Min({l.pcount, PlayBuffer - pfill})
        first == Min({n, Size - l.ppos})
    IN  IF PlaysOut(l, first) THEN first ELSE n
WriteIt(l, n) ==
    [l EXCEPT !.ppos = (@ + n) % Size, !.pcount = @ - n,
              !.stop_count = IF l.stop_pending /\ ~PlaysOut(l, n) THEN @ + n ELSE @,
              !.stop_pending = @ /\ ~PlaysOut(l, n),
              !.reinit = @ \/ PlaysOut(l, n)]
Writes(l, n) ==
    /\ wrote' = FramesAt(l.ring, l.ppos, n)
    /\ due' = due \ {wrote'[i] : i \in DOMAIN wrote'}

(***************************************************************************)
(* pcmjob_start and pcmjob_stop.                                           *)
(***************************************************************************)

\* the loop and the devices after pcmjob_stop
Stopped(l) == [l EXCEPT !.running = FALSE]
Closed == [cstate |-> "open", cavail |-> 0, pstate |-> "open", pfill |-> 0]

\* a slave that is not active is not started, and keeps the reinit flag
Primed == Min({Latency, PlayBuffer})
Started(l) ==
    [ring |-> [i \in Slots |-> Silence], running |-> TRUE, reinit |-> FALSE,
     stop_pending |-> FALSE, stop_count |-> l.stop_count,
     cpos |-> Latency % Size, ccount |-> 0, cxrun |-> l.cxrun,
     ppos |-> Primed % Size, pcount |-> Latency - Primed, pxrun |-> l.pxrun]

Restart(l) ==
    /\ loop' = IF active THEN Started(l) ELSE Stopped(l)
    /\ hw' = IF active
             THEN [cstate |-> "running", cavail |-> 0,
                   pstate |-> "running", pfill |-> Primed]
             ELSE Closed
    /\ due' = {} /\ patched' = FALSE
    /\ wrote' = <<>>

Init ==
    /\ active \in BOOLEAN /\ event = "none" /\ events = 0
    /\ loop = [ring |-> [i \in Slots |-> Silence], running |-> FALSE,
               reinit |-> TRUE, stop_pending |-> FALSE, stop_count |-> 0,
               cpos |-> 0, ccount |-> 0, cxrun |-> FALSE,
               ppos |-> 0, pcount |-> 0, pxrun |-> FALSE]
    /\ hw = Closed /\ now = 0 /\ drift = 0
    /\ pc = "reinit" /\ rounds = 0 /\ moved = FALSE /\ playOnly = FALSE
    /\ due = {} /\ wrote = <<>> /\ patched = FALSE

(***************************************************************************)
(* The world: the clock of the devices, and the other end of the capture   *)
(* device.                                                                 *)
(***************************************************************************)
\* One frame time of the capture clock, the playback clock, or both.  A capture
\* device without room for the frame stops with an overrun, a playback device
\* that played its last frame with an underrun.
Tick(c, p) ==
    LET captures == c /\ hw.cstate = "running" /\ hw.cavail < CaptBuffer
        plays    == p /\ hw.pstate = "running"
    IN  /\ (c /\ hw.cstate = "running") \/ plays
        /\ now < MaxFrame
        /\ drift' = drift + (IF c THEN 1 ELSE 0) - (IF p THEN 1 ELSE 0)
        /\ drift' \in -MaxDrift .. MaxDrift
        /\ now' = IF captures THEN now + 1 ELSE now
        /\ due' = IF captures THEN due \cup {now + 1} ELSE due
        /\ hw' = [cavail |-> IF captures THEN hw.cavail + 1 ELSE hw.cavail,
                  cstate |-> IF c /\ hw.cstate = "running" /\ ~captures
                             THEN "xrun" ELSE hw.cstate,
                  pfill  |-> IF plays THEN hw.pfill - 1 ELSE hw.pfill,
                  pstate |-> IF plays /\ hw.pfill = 1 THEN "xrun" ELSE hw.pstate]
        /\ wrote' = <<>>
        /\ UNCHANGED <<loop, slave, pc, round, patched>>

Drain ==
    /\ hw.cstate = "running" /\ events < MaxEvents
    /\ events' = events + 1
    /\ hw' = [hw EXCEPT !.cstate = "draining"]
    /\ wrote' = <<>>
    /\ UNCHANGED <<loop, now, drift, active, event, pc, round, due, patched>>

SlaveChanges ==
    /\ events < MaxEvents /\ events' = events + 1
    /\ \/ active' = ~active /\ event' = IF event = "format" THEN event ELSE "active"
       \/ event' = "format" /\ UNCHANGED active
    /\ wrote' = <<>>
    /\ UNCHANGED <<loop, hw, now, drift, pc, round, due, patched>>

(***************************************************************************)
(* pcmjob_pollfds_handle.                                                  *)
(***************************************************************************)
\* handle_ctl_events on the capture side; the call then returns
CtlEvents ==
    /\ pc = "poll" /\ event # "none"
    /\ event' = "none"
    /\ LET l == IF active THEN [loop EXCEPT !.stop_pending = FALSE]
                ELSE IF loop.running
                     THEN [loop EXCEPT !.stop_pending = TRUE, !.stop_count = 0]
                     ELSE loop
       IN  IF event = "format" \/ (active /\ ~loop.running)
           THEN Restart(l)
           ELSE loop' = l /\ wrote' = <<>> /\ UNCHANGED <<hw, due, patched>>
    /\ UNCHANGED <<now, drift, active, events, pc, round>>

\* handle_ctl_events on the playback side, where mixer controls are watched: a
\* playback handle has no active control, get_active answers 0, and the event is
\* taken for the end of the stream
MixerEvent ==
    /\ pc = "poll" /\ events < MaxEvents
    /\ events' = events + 1
    /\ loop' = IF loop.running
               THEN [loop EXCEPT !.stop_pending = TRUE, !.stop_count = 0]
               ELSE loop
    /\ wrote' = <<>>
    /\ UNCHANGED <<hw, now, drift, active, event, pc, round, due, patched>>

\* poll returns for the streams; the avail_min of a device decides when
Wake ==
    /\ pc = "poll" /\ event = "none" /\ loop.running
    /\ \E p \in {hw.pstate = "xrun" \/ hw.pfill < PlayBuffer, FALSE},
          c \in {hw.cstate = "xrun" \/ hw.cavail > 0 \/ hw.cstate = "draining",
                 FALSE} :
          (p \/ c) /\ playOnly' = (p /\ ~c)
    /\ pc' = "read" /\ rounds' = 0 /\ moved' = FALSE
    /\ wrote' = <<>>
    /\ UNCHANGED <<loop, hw, now, drift, slave, due, patched>>

\* readit when the capture device had an overrun: xrun prepares it, and what it
\* held is lost
CaptureOverrun ==
    /\ loop' = [loop EXCEPT !.cxrun = TRUE]
    /\ hw' = [hw EXCEPT !.cstate = "prepared", !.cavail = 0]
    /\ due' = due \ Waiting

Capture ==
    LET n    == ReadCount
        ends == hw.cavail = 0 /\ hw.cstate = "draining"
    IN  /\ loop' = [ReadIt(loop, n) EXCEPT !.reinit = @ \/ ends]
        /\ hw' = [hw EXCEPT !.cavail = @ - n]
        /\ UNCHANGED due

\* a call that only the playback device woke ends when nothing was captured
Read ==
    /\ pc = "read"
    /\ IF hw.cstate = "xrun" THEN CaptureOverrun ELSE Capture
    /\ LET stalls == playOnly /\ rounds = 0 /\ (hw.cstate = "xrun" \/ ReadCount = 0)
       IN  pc' = IF stalls \/ loop'.cxrun \/ loop'.reinit THEN "after" ELSE "write"
    /\ moved' = (hw.cstate # "xrun" /\ ReadCount > 0)
    /\ wrote' = <<>>
    /\ UNCHANGED <<now, drift, slave, rounds, playOnly, patched>>

Write ==
    /\ pc = "write" /\ hw.pstate # "xrun"
    /\ LET n == WriteCount(loop, hw.pfill)
       IN  /\ Writes(loop, n)
           /\ loop' = BufRemove(WriteIt(loop, n), n)
           /\ hw' = [hw EXCEPT !.pfill = @ + n]
           /\ rounds' = rounds + 1
           /\ pc' = IF ~loop'.reinit /\ (moved \/ n > 0) /\ rounds' < MaxRounds
                    THEN "read" ELSE "after"
    /\ UNCHANGED <<now, drift, slave, moved, playOnly, patched>>

WriteUnderrun ==
    /\ pc = "write" /\ hw.pstate = "xrun"
    /\ loop' = [loop EXCEPT !.pxrun = TRUE]
    /\ hw' = [hw EXCEPT !.pstate = "prepared"]
    /\ pc' = "after" /\ wrote' = <<>>
    /\ UNCHANGED <<now, drift, slave, round, due, patched>>

After ==
    /\ pc = "after"
    /\ pc' = IF loop.cxrun \/ loop.pxrun THEN "sync" ELSE "reinit"
    /\ wrote' = <<>>
    /\ UNCHANGED <<loop, hw, now, drift, slave, round, due, patched>>

Reinit ==
    /\ pc = "reinit" /\ pc' = "poll"
    /\ IF loop.reinit
       THEN Restart(loop)
       ELSE wrote' = <<>> /\ UNCHANGED <<loop, hw, due, patched>>
    /\ UNCHANGED <<now, drift, slave, round>>

(***************************************************************************)
(* xrun_sync.                                                              *)
(***************************************************************************)
\* the capture device is started again, or read once more
SyncCapture ==
    /\ pc = "sync" /\ pc' = "delays"
    /\ IF loop.cxrun \/ hw.cstate = "xrun"
       THEN /\ loop' = [loop EXCEPT !.cxrun = FALSE]
            /\ hw' = [hw EXCEPT !.cstate = "running", !.cavail = 0]
            /\ due' = due \ Waiting
       ELSE Capture
    /\ wrote' = <<>>
    /\ UNCHANGED <<now, drift, slave, round, patched>>

\* frames in the loop: the playback device, the ring, the capture device
Delay(l, h) == h.cavail + h.pfill + l.pcount

CaptureOverrunAgain ==
    /\ pc = "delays" /\ hw.cstate = "xrun"
    /\ loop' = [loop EXCEPT !.cxrun = TRUE]
    /\ pc' = "sync" /\ wrote' = <<>>
    /\ UNCHANGED <<hw, now, drift, slave, round, due, patched>>

\* too much is queued and the capture device holds a part of it: it starts anew
DropCapture ==
    /\ pc = "delays" /\ hw.cstate # "xrun"
    /\ hw.cavail > 0 /\ Delay(loop, hw) > Latency
    /\ loop' = [RemoveSamples(loop, Delay(loop, hw) - Latency)
                  EXCEPT !.pxrun = @ \/ hw.pstate = "xrun"]
    /\ hw' = [hw EXCEPT !.cstate = "running", !.cavail = 0]
    /\ due' = due \ (Waiting \cup Removed(loop, Delay(loop, hw) - Latency))
    /\ pc' = "sync" /\ wrote' = <<>>
    /\ UNCHANGED <<now, drift, slave, round, patched>>

\* 2^64 % Size: what an unsigned position below zero comes back as
Square(n) == (n * n) % Size
WordRest == Square(Square(65536 % Size))

\* the silence before the playback position: the position is taken modulo the
\* ring after it went below zero, the silence is written in one piece
SilenceBefore(l, n) ==
    LET pos == IF l.ppos >= n THEN l.ppos - n
               ELSE (l.ppos - n + WordRest + Size) % Size
    IN  [l EXCEPT !.ppos = pos, !.pcount = @ + n,
                  !.ring = [i \in Slots |->
                              IF i \in pos .. pos + n - 1 THEN Silence ELSE @[i]]]

\* the silence at the playback position, which moves behind it
SilenceAt(l, n) ==
    [l EXCEPT !.ppos = (@ + n) % Size, !.pcount = @ + n,
              !.ring = [i \in Slots |-> IF (i - l.ppos + Size) % Size < n
                                        THEN Silence ELSE @[i]]]

TrimNot(l, d) == <<l, d>>                  \* mutant: the queue is not shortened

\* the rest of xrun_sync: shorten the queue, fill it up, feed the device
Trim(l, d) ==
    LET l1 == IF d > Latency THEN RemoveSamples(l, d - Latency) ELSE l
        d1 == d - (l.pcount - l1.pcount)
        n2 == Min({d1 - Latency, l1.ccount})
        l2 == IF d1 > Latency THEN RemoveSamples(l1, n2) ELSE l1
        d2 == IF d1 > Latency THEN d1 - (n2 - Removable(l1, n2)) ELSE d1
    IN  <<l2, d2>>

\* what Trim takes is given up, what writeit takes is played
Played(t, l, n) ==
    LET cut == FramesAt(loop.ring, loop.ppos, loop.pcount - t.pcount)
    IN  /\ wrote' = FramesAt(l.ring, l.ppos, n)
        /\ due' = due \ ({cut[i] : i \in DOMAIN cut} \cup {wrote'[i] : i \in DOMAIN wrote'})

\* an empty device cannot be started: the job fails and the program ends
FillPrepared(t, d) ==
    LET adds == d < Latency /\ t.pcount < Latency - d
        diff == IF adds THEN Latency - d - t.pcount ELSE Latency - d
        l    == IF adds THEN SilenceBefore(t, diff) ELSE t
        n    == WriteCount(l, 0)
        w    == WriteIt(l, n)
    IN  /\ Played(t, l, n)
        /\ patched' = (patched \/ (adds /\ t.ppos < diff))
        /\ loop' = [BufRemove(w, n - diff) EXCEPT !.pxrun = FALSE]
        /\ hw' = [hw EXCEPT !.pstate = IF n > 0 THEN "running" ELSE "prepared",
                            !.pfill = n]
        /\ pc' = IF n > 0 THEN "reinit" ELSE "exit"

FillRunning(t, d) ==
    LET l == IF d < Latency THEN SilenceAt(t, Latency - d) ELSE t
        n == IF d < Latency THEN WriteCount(l, hw.pfill) ELSE 0
    IN  /\ Played(t, l, n)
        /\ patched' = (patched \/ d < Latency)
        /\ loop' = IF d < Latency THEN WriteIt(l, n) ELSE t
        /\ hw' = [hw EXCEPT !.pfill = @ + n]
        /\ pc' = "reinit"

Resync ==
    /\ pc = "delays" /\ hw.cstate # "xrun"
    /\ ~(hw.cavail > 0 /\ Delay(loop, hw) > Latency)
    /\ LET t == Trim(loop, Delay(loop, hw))
       IN  /\ IF loop.pxrun \/ hw.pstate = "xrun"
              THEN FillPrepared(t[1], t[2])
              ELSE FillRunning(t[1], t[2])
    /\ UNCHANGED <<now, drift, slave, round>>

Next ==
    \/ \E c, p \in BOOLEAN : Tick(c, p)
    \/ Drain \/ SlaveChanges
    \/ CtlEvents \/ MixerEvent \/ Wake \/ Read \/ Write \/ WriteUnderrun \/ After \/ Reinit
    \/ SyncCapture \/ CaptureOverrunAgain \/ DropCapture \/ Resync

Spec == Init /\ [][Next]_vars

(***************************************************************************)
(* Properties.                                                             *)
(***************************************************************************)
\* Playback gets every captured frame once and in turn, silence aside: none is
\* skipped, repeated, or read from the ring before it was captured there.  The
\* frames given up are those of an overrun and those that xrun_sync takes out.
\* The two positions and the two fill counts of the shared ring move in
\* readit, writeit, buf_remove and xrun_sync, and only their agreement keeps
\* this.  It is claimed until a silence is put over frames or over the edge of
\* the ring (patched), which is what the code does after an overrun.
EveryFrameInTurn ==
    [][LET sound == {i \in DOMAIN wrote' : wrote'[i] # Silence}
       IN  patched' \/ /\ \A i \in sound : wrote'[i] \in due /\ \A x \in due' : x > wrote'[i]
                       /\ \A i, j \in sound : i < j => wrote'[i] < wrote'[j]]_vars

\* When xrun_sync has set the streams in motion again, the devices and the ring
\* together hold no more than the latency that was asked for, or nothing but what
\* the playback device had taken already, which cannot be taken back.
LatencyKept ==
    [][pc = "delays" /\ pc' = "reinit" =>
         Delay(loop', hw') <= Latency \/ Delay(loop', hw') = hw.pfill]_vars
================================================================================
