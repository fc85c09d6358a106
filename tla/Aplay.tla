--------------------------------- MODULE Aplay ---------------------------------
(***************************************************************************)
(* aplay/aplay.c: the loops that move chunks between a file and the device *)
(* (playback_go, pcm_write; capture, pcm_read), with underruns, overruns,  *)
(* suspend, signals, and the change to a next output file.                 *)
(*                                                                         *)
(* A frame is one byte and carries its number in the file or in the stream *)
(* of the device; 0 is silence.  A device call moves some frames or finds  *)
(* the stream stopped; -EAGAIN, pause and vu meter change nothing here.    *)
(* With -I (split) each channel has its own file: the files hold the same  *)
(* frames, so one of them stands for all.  On stdout the files follow one  *)
(* another, and their numbers say only where each begins.                  *)
(***************************************************************************)
EXTENDS Integers, Sequences, FiniteSets, Functions

CONSTANTS Chunk,        \* chunk_size
          Limits,       \* frames asked for by -d or -s; 0: no limit
          FileLimits,   \* max_file_size; 0: none
          Formats,      \* "raw": no header, "wave": with header
          Lengths,      \* frames in the file that is played
          MaxFrames,    \* bound on the frames of the device's stream
          MaxFiles,     \* bound on the files written
          MaxStops      \* bound on overruns and underruns

ASSUME ChunkAssumption == Chunk \in Nat \ {0}
ASSUME LimitAssumption == /\ Limits \cup FileLimits \cup Lengths \subseteq Nat
                          /\ {MaxFrames, MaxFiles, MaxStops} \subseteq Nat

VARIABLES mode, split, tostdout, format, limit, file_limit, fatal, \* the command line
          in_aborting, recycle,                   \* flags set by signals
          pc, count, rest, fdcount,               \* capture, playback_go
          buf, left,                              \* audiobuf, and a device call's count
          filecount, cur, disk,                   \* the output files
          source, wanted, loaded, pos,            \* the file played
          now, stops                              \* the device

\* History: frames the device lost; the ends of chunks that were not saved;
\* whether the disk took no more; what was played.
VARIABLES lost, cut, refused, played

command == <<mode, split, tostdout, format, limit, file_limit, fatal>>
output  == <<filecount, cur, disk>>
input   == <<source, wanted, loaded, pos>>
device  == <<now, stops, lost>>
vars    == <<command, in_aborting, recycle, pc, count, rest, fdcount, buf, left,
             output, input, device, cut, refused, played>>

Capture == mode = "capture"

\* LLONG_MAX: more than the device ever gives
Unlimited == MaxFrames + Chunk
Least(a, b) == IF a < b THEN a ELSE b

\* The names of a recording: 0 is the name given, k > 0 the same with "-k".  `told` is
\* a history: end_wave has rewritten the header.
Names  == 0 .. MaxFiles
NoFile == [frames |-> <<>>, header |-> 0, told |-> FALSE]

(***************************************************************************)
(* Starting.                                                               *)
(***************************************************************************)

\* calc_count, and what capture makes of it
CaptureCount(l) == IF l = 0 THEN Unlimited ELSE IF split THEN l ELSE l + (l % 2)
PlayCount(l, n) == IF l = 0 THEN n ELSE Least(l, n)

\* A file's header may have promised less or more than the file holds; the
\* reader of the header may have taken more than a chunk of what follows it.
Init ==
    /\ mode \in {"capture", "playback"} /\ split \in BOOLEAN /\ format \in Formats
    /\ limit \in Limits /\ fatal \in BOOLEAN
    /\ disk = [k \in Names |-> NoFile]
    /\ split => format = "raw"
    /\ tostdout \in (IF Capture /\ ~split THEN BOOLEAN ELSE {FALSE})
    /\ in_aborting = FALSE /\ recycle = FALSE
    /\ fdcount = 0 /\ rest = 0 /\ left = 0 /\ filecount = 0 /\ cur = 0
    /\ now = 0 /\ stops = 0 /\ lost = {} /\ cut = {}
    /\ refused = FALSE /\ played = <<>>
    /\ IF Capture
       THEN /\ file_limit \in (IF split THEN {0} ELSE FileLimits)
            /\ pc = "open" /\ count = CaptureCount(limit)
            /\ source = 0 /\ wanted = 0 /\ loaded = 0 /\ pos = 0 /\ buf = <<>>
       ELSE /\ file_limit = 0 /\ source \in Lengths
            /\ pc = "preload"
            /\ loaded \in (IF split THEN {0} ELSE 0 .. source) /\ pos = loaded
            /\ \E promised \in {Least(source, 1), source, Unlimited} :
                  wanted = PlayCount(limit, promised)
            /\ count = wanted
            /\ buf = [k \in 1 .. loaded |-> k]

-----------------------------------------------------------------------------
(***************************************************************************)
(* The device.                                                             *)
(***************************************************************************)

\* prg_exit in the middle: an output file stays as it is
Fail == pc' = "failed"
Ended == pc \in {"done", "failed"}

\* xrun, or suspend with a restart: the stream is prepared again; with
\* --fatal-errors an xrun ends the program.  A capture loses frames.
Stop ==
    /\ pc \in {"read", "write"} /\ left > 0 /\ ~in_aborting /\ stops < MaxStops
    /\ stops' = stops + 1
    /\ IF Capture /\ now < MaxFrames
       THEN now' = now + 1 /\ lost' = lost \cup {now + 1}
       ELSE UNCHANGED <<now, lost>>
    /\ \/ UNCHANGED pc
       \/ fatal /\ Fail
    /\ UNCHANGED <<command, in_aborting, recycle, count, rest, fdcount, buf, left,
                   output, input, cut, refused, played>>

\* readi_func gives some of the frames asked for
Read ==
    /\ pc = "read" /\ left > 0 /\ ~in_aborting
    /\ \E r \in 1 .. left :
          /\ now + r =< MaxFrames
          /\ buf' = buf \o [k \in 1 .. r |-> now + k]
          /\ now' = now + r /\ left' = left - r
    /\ UNCHANGED <<command, in_aborting, recycle, pc, count, rest, fdcount, output,
                   input, stops, lost, cut, refused, played>>

\* writei_func takes some of the frames
Write ==
    /\ pc = "write" /\ left > 0 /\ ~in_aborting
    /\ \E r \in 1 .. left :
          /\ played' = played \o SubSeq(buf, Chunk - left + 1, Chunk - left + r)
          /\ left' = left - r
    /\ UNCHANGED <<command, in_aborting, recycle, pc, count, rest, fdcount, buf,
                   output, input, device, cut, refused>>

-----------------------------------------------------------------------------
(***************************************************************************)
(* capture: one file after the other.                                      *)
(***************************************************************************)

\* new_capture_file: the second file starts the numbering, and the first is renamed,
\* if rename can.
Number  == IF filecount = 1 /\ ~tostdout THEN 2 ELSE filecount
Renamed == IF filecount = 1 /\ ~tostdout
           THEN {disk, [disk EXCEPT ![1] = disk[0], ![0] = NoFile]} ELSE {disk}
Begun(header) == [frames |-> <<>>, header |-> header, told |-> FALSE]

OpenTwice ==                 \* mutant: the second file takes the number 1 too
    /\ pc = "open" /\ Capture /\ filecount =< MaxFiles
    /\ LET most == IF file_limit > 0 THEN Least(count, file_limit) ELSE count
       IN  /\ cur' = filecount /\ filecount' = filecount + 1 /\ rest' = most
           /\ \E files \in Renamed : disk' = [files EXCEPT ![filecount] = Begun(most)]
    /\ fdcount' = 0 /\ pc' = "loop"
    /\ UNCHANGED <<command, in_aborting, recycle, count, buf, left, input, device,
                   cut, refused, played>>

\* The old file of the name is removed, a new one opened and its header written with
\* what is asked for; the program ends when one of them fails.
Open ==
    /\ pc = "open" /\ Capture /\ Number =< MaxFiles
    /\ cur' = Number /\ filecount' = Number + 1
    /\ LET most == IF file_limit > 0 THEN Least(count, file_limit) ELSE count
       IN  \E files \in Renamed :
             \/ /\ disk' = [files EXCEPT ![Number] = Begun(most)]
                /\ rest' = most /\ fdcount' = 0 /\ pc' = "loop"
             \/ /\ ~tostdout \/ format = "wave"
                /\ disk' = [files EXCEPT ![Number] = NoFile] /\ Fail
                /\ UNCHANGED <<rest, fdcount>>
    /\ UNCHANGED <<command, in_aborting, recycle, count, buf, left, input, device,
                   cut, refused, played>>

\* the loop over the chunks of one file; pcm_read always reads a whole chunk
Loop ==
    /\ pc = "loop"
    /\ IF rest > 0 /\ (split \/ ~recycle) /\ ~in_aborting
       THEN pc' = "read" /\ buf' = <<>> /\ left' = Chunk
       ELSE pc' = "close" /\ UNCHANGED <<buf, left>>
    /\ UNCHANGED <<command, in_aborting, recycle, count, rest, fdcount, output, input,
                   device, cut, refused, played>>

\* What pcm_read gave of the c frames that belong to the file.  pcm_readv says
\* that it gave all of them: after a signal the rest is what the buffer held, 0.
Given(c) ==
    LET read == SubSeq(buf, 1, Least(Len(buf), c))
    IN  IF split THEN read \o [k \in 1 .. c - Len(read) |-> 0] ELSE read

\* The chunk was read, or a signal came.  All that was given is written, or the
\* disk takes only a part: a recording of one file is closed then, split ones not.
Save ==
    /\ pc = "read" /\ (left = 0 \/ in_aborting)
    /\ LET c     == Least(rest, Chunk)
           given == Given(c)
       IN  \/ /\ disk' = [disk EXCEPT ![cur].frames = @ \o given]
              /\ in_aborting' = (in_aborting \/ Len(given) # c)
              /\ count' = count - c /\ rest' = rest - c
              /\ fdcount' = fdcount + Len(given) /\ pc' = "loop"
              /\ cut' = cut \cup {buf[k] : k \in c + 1 .. Len(buf)}
              /\ UNCHANGED refused
           \/ \E k \in 0 .. Len(given) - 1 :
              /\ disk' = [disk EXCEPT ![cur].frames = @ \o SubSeq(given, 1, k)]
              /\ cut' = cut \cup {buf[j] : j \in k + 1 .. Len(buf)}
              /\ refused' = TRUE
              /\ IF split THEN Fail /\ UNCHANGED in_aborting
                          ELSE in_aborting' = TRUE /\ pc' = "close"
              /\ UNCHANGED <<count, rest, fdcount>>
    /\ left' = 0 /\ buf' = <<>>
    /\ UNCHANGED <<command, recycle, filecount, cur, input, device, played>>

HeaderOfRequest ==              \* mutant: what was to be recorded is counted
    /\ pc = "close"
    /\ recycle' = (recycle /\ split)
    /\ \/ UNCHANGED disk
       \/ /\ format = "wave" /\ ~tostdout
          /\ disk' = [disk EXCEPT ![cur].header = @ - rest, ![cur].told = TRUE]
    /\ IF ~split /\ ~in_aborting /\ ((format = "raw" /\ limit = 0) \/ count > 0)
       THEN pc' = "open" ELSE pc' = "done"
    /\ UNCHANGED <<command, in_aborting, count, rest, fdcount, buf, left, filecount,
                   cur, input, device, cut, refused, played>>

\* end_wave puts the byte count into the header, if lseek and write can: it does not
\* say when they fail, and stdout is not rewritten.
Close ==
    /\ pc = "close"
    /\ recycle' = (recycle /\ split)
    /\ \/ UNCHANGED disk
       \/ /\ format = "wave" /\ ~tostdout
          /\ disk' = [disk EXCEPT ![cur].header = fdcount, ![cur].told = TRUE]
    /\ IF ~split /\ ~in_aborting /\ ((format = "raw" /\ limit = 0) \/ count > 0)
       THEN pc' = "open" ELSE pc' = "done"
    /\ UNCHANGED <<command, in_aborting, count, rest, fdcount, buf, left, filecount,
                   cur, input, device, cut, refused, played>>

-----------------------------------------------------------------------------
(***************************************************************************)
(* playback_go.  count is what is still to be written.                     *)
(***************************************************************************)

\* pcm_write of n frames of buf: a short chunk is filled with silence
PcmWrite(frames) ==
    /\ buf'  = frames \o [k \in 1 .. Chunk - Len(frames) |-> 0]
    /\ left' = Chunk

\* whole chunks that were read with the header
Preload ==
    /\ pc = "preload"
    /\ IF loaded > Chunk /\ count > 0 /\ ~in_aborting
       THEN /\ left' = Chunk /\ pc' = "write" /\ UNCHANGED <<buf, loaded>>
       ELSE pc' = "fill" /\ UNCHANGED <<buf, loaded, left>>
    /\ UNCHANGED <<command, in_aborting, recycle, count, rest, fdcount, output, source,
                   wanted, pos, device, cut, refused, played>>

\* the rest of the loaded bytes, and what can be read of the file, up to count
Fill ==
    /\ pc = "fill" /\ count > 0 /\ ~in_aborting
    /\ LET c     == Least(count, Chunk)
           have  == SubSeq(buf, 1, Least(loaded, c))
           more  == Least(c - Len(have), source - pos)
       IN  /\ PcmWrite(have \o [k \in 1 .. more |-> pos + k])
           /\ pos' = pos + more /\ fdcount' = fdcount + more
           /\ rest' = Len(have) + more
    /\ loaded' = 0 /\ pc' = "write"
    /\ UNCHANGED <<command, in_aborting, recycle, count, output, source, wanted, device, cut,
                   refused, played>>

WrittenInPlace ==                   \* mutant: the buffer is not moved up
    /\ pc = "write" /\ (left = 0 \/ in_aborting)
    /\ IF loaded > Chunk
       THEN /\ loaded' = loaded - Chunk /\ count' = count - Chunk /\ pc' = "preload"
       ELSE /\ IF Chunk - left = rest THEN count' = count - rest /\ pc' = "fill"
               ELSE pc' = "drain" /\ UNCHANGED count
            /\ UNCHANGED loaded
    /\ left' = 0
    /\ UNCHANGED <<command, in_aborting, recycle, rest, fdcount, buf, output, source,
                   wanted, pos, device, cut, refused, played>>

\* pcm_write is back; a chunk that was not full ends the loop
Written ==
    /\ pc = "write" /\ (left = 0 \/ in_aborting)
    /\ IF loaded > Chunk
       THEN IF left = Chunk
            THEN pc' = "done" /\ UNCHANGED <<buf, loaded, count>>
            ELSE /\ buf' = SubSeq(buf, Chunk + 1, Len(buf)) /\ loaded' = loaded - Chunk
                 /\ count' = count - Chunk /\ pc' = "preload"
       ELSE /\ IF Chunk - left = rest THEN count' = count - rest /\ pc' = "fill"
               ELSE pc' = "drain" /\ UNCHANGED count
            /\ UNCHANGED <<buf, loaded>>
    /\ left' = 0
    /\ UNCHANGED <<command, in_aborting, recycle, rest, fdcount, output, source, wanted, pos,
                   device, cut, refused, played>>

DrainShort ==                 \* mutant: a last chunk that is short is left out
    /\ \/ pc = "drain"
       \/ pc = "fill" /\ (count < Chunk \/ in_aborting)
    /\ pc' = "done"
    /\ UNCHANGED <<command, in_aborting, recycle, count, rest, fdcount, buf, left,
                   output, input, device, cut, refused, played>>

\* all of it is written: the device plays to its end
Drain ==
    /\ \/ pc = "drain"
       \/ pc = "fill" /\ (count =< 0 \/ in_aborting)
    /\ pc' = "done"
    /\ UNCHANGED <<command, in_aborting, recycle, count, rest, fdcount, buf, left,
                   output, input, device, cut, refused, played>>

-----------------------------------------------------------------------------
\* SIGINT, SIGTERM: signal_handler; SIGUSR1: signal_handler_recycle
Abort ==
    /\ ~Ended /\ ~in_aborting
    /\ in_aborting' = TRUE
    /\ UNCHANGED <<command, recycle, pc, count, rest, fdcount, buf, left, output,
                   input, device, cut, refused, played>>

Recycle ==
    /\ ~Ended /\ Capture /\ ~recycle
    /\ recycle' = TRUE
    /\ UNCHANGED <<command, in_aborting, pc, count, rest, fdcount, buf, left, output,
                   input, device, cut, refused, played>>

\* snd_pcm_abort may break off the device call: an error like any other
Interrupted ==
    /\ pc \in {"read", "write"} /\ left > 0 /\ in_aborting
    /\ Fail
    /\ UNCHANGED <<command, in_aborting, recycle, count, rest, fdcount, buf, left,
                   output, input, device, cut, refused, played>>

Next == \/ Stop \/ Read \/ Write \/ Open \/ Loop \/ Save \/ Close
        \/ Preload \/ Fill \/ Written \/ Drain \/ Abort \/ Recycle \/ Interrupted

\* The device takes frames, and the program goes on.
Spec == /\ Init /\ [][Next]_vars
        /\ WF_vars(Write) /\ WF_vars(Preload) /\ WF_vars(Fill)
        /\ WF_vars(Written) /\ WF_vars(Drain)

-----------------------------------------------------------------------------
\* The frames that are in the files: 0 is not one of the device's.
Saved == (UNION {Range(disk[k].frames) : k \in Names}) \ {0}
Held  == IF Capture THEN Range(buf) ELSE {}

\* the limits are whole chunks
WholeChunks == /\ limit = 0 \/ CaptureCount(limit) % Chunk = 0
               /\ file_limit % Chunk = 0

\* pcm_read, capture, new_capture_file: whatever overruns, signals and changes of
\* the file come between, the files in the order of their numbers hold the frames
\* in the order of the device, each one once; one that is in no file was lost in
\* an overrun, or its chunk was not saved.  When the limits are whole chunks that
\* only happens when the disk refuses it.  Only split files get stale frames, and
\* only at their end.  A recording that no signal ended has the length that was
\* asked for, however it was spread over files (calc_count).
FramesAreKept ==
    Capture =>
      /\ \A k, l \in Names : \A i \in DOMAIN disk[k].frames, j \in DOMAIN disk[l].frames :
            k < l \/ (k = l /\ i < j) =>
               \/ disk[l].frames[j] = 0
               \/ 0 < disk[k].frames[i] /\ disk[k].frames[i] < disk[l].frames[j]
      /\ \A k \in Names : 0 \in Range(disk[k].frames) => split /\ in_aborting
      /\ Saved \cup lost \cup cut \cup Held = 1 .. now
      /\ Saved \cap (lost \cup cut \cup Held) = {}
      /\ lost \cap (cut \cup Held) = {} /\ cut \cap Held = {}
      /\ cut = {} \/ refused \/ ~WholeChunks
      /\ pc = "done" /\ ~in_aborting => Cardinality(Saved) = CaptureCount(limit)

\* capture, end_wave: the header of a file that was closed says how many frames
\* it holds, also when a signal ended it in the middle of a chunk; after a failing
\* write it does not say too many.  A header that could not be rewritten, as that of
\* stdout, says what was asked for, and never less than there is.
WaveHeaderIsTrue ==
    Capture /\ format = "wave" =>
      \A k \in Names :
        k # cur \/ pc \in {"open", "done"} =>
          \/ disk[k].header = Len(disk[k].frames)
          \/ k = cur /\ refused /\ disk[k].told /\ disk[k].header =< Len(disk[k].frames)
          \/ ~disk[k].told /\ disk[k].header >= Len(disk[k].frames)

\* playback_go, pcm_write: the frames of the file are played in order from the
\* first, before and after underruns, then silence of at most a chunk.
PlaysInOrder ==
    ~Capture =>
      \E heard \in 0 .. Len(played) :
         /\ \A i \in 1 .. Len(played) : played[i] = IF i =< heard THEN i ELSE 0
         /\ heard =< source /\ Len(played) - heard =< Chunk

\* playback_go: the playback ends, and without a signal or a fatal underrun all
\* that was wanted of the file is played by then.
PlaysItAll ==
    ~Capture ~> \/ pc = "failed"
                \/ pc = "done" /\ (in_aborting
                                   \/ 1 .. Least(wanted, source) \subseteq Range(played))
=============================================================================
