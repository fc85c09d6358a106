-------------------------------- MODULE MidiFile --------------------------------
(***************************************************************************)
(* seq/aplaymidi: arecordmidi.c records the events of the sequencer into   *)
(* the tracks of a MIDI file, aplaymidi.c reads that file and plays it.    *)
(*                                                                         *)
(* A track is a series of messages, each with the time since the last one  *)
(* and its status byte, or none where running status allows; what follows  *)
(* the status is one value here.  The port number and the time signature   *)
(* at the head of a track make no event: the port is a function of the     *)
(* track.  Left out are the metronome, which only plays, the pieces a long *)
(* sysex is recorded in, tracks of 2^28 bytes, and more than 2^31 ticks.   *)
(***************************************************************************)
EXTENDS Integers, Sequences, FiniteSets

CONSTANTS port_count,   \* ports recorded from
          play_ports,   \* ports played to
          channel_split, smpte_timing,
          num_events,   \* 0: until a signal
          Channels,     \* channels of a port (16)
          Types,        \* kinds of channel messages, one of them Control
          Control,
          Data,
          MaxVar        \* the first number that takes five bytes (2^28)

Parameters ==
    /\ {port_count, play_ports, Channels, MaxVar} \subseteq Nat \ {0} /\ num_events \in Nat
    /\ {channel_split, smpte_timing} \subseteq BOOLEAN
    /\ Types \cap {"sysex", "more", "tempo", "none"} = {} /\ Control \in Types

VARIABLES tracks,       \* struct smf_track of arecordmidi, then the file
          now,          \* tick of the queue
          part,         \* messages to come of the event that is recorded
          received, stop,
          pc,
          at, tick, last_cmd,           \* read_track
          events, end_tick,             \* struct track of aplaymidi
          current, clock                \* play_midi: events played of a track, the
                                        \* time of the last one

\* History: what each message of a track stands for; how far the time stamps of
\* a track have gone back.
VARIABLES log, back

record == <<tracks, now, part, received, stop, log, back>>
read   == <<at, tick, last_cmd, events, end_tick>>
play   == <<current, clock>>
vars   == <<record, read, play, pc>>

TRACKS_PER_PORT == Channels + 1
num_tracks == IF channel_split THEN port_count * TRACKS_PER_PORT ELSE port_count
Tracks == 0 .. num_tracks - 1

\* Status bytes: running status is for those below 0xf0.
Channel == [type : Types, channel : 0 .. Channels - 1]
System  == [type : {"sysex", "more", "tempo"}, channel : {0}]
NoCmd   == [type |-> "none", channel |-> 0]
Sysex   == [type : {"sysex", "more"}, channel : {0}]

TrackOf(port, cmd) ==
    IF ~channel_split THEN port
    ELSE port * TRACKS_PER_PORT + (IF cmd \in Channel THEN 1 + cmd.channel ELSE 0)

\* the number record_port_numbers puts into a track, as read_track takes it
PortOf(t) ==
    IF port_count = 1 THEN 0
    ELSE (IF channel_split THEN t \div TRACKS_PER_PORT ELSE t) % play_ports

(***************************************************************************)
(* arecordmidi.                                                            *)
(***************************************************************************)
\* The tempo is the first message of the first track.
Init ==
    \E d \in Data :
       LET tempo == [type |-> "tempo", channel |-> 0]
           first(t) == t = 0 /\ ~smpte_timing
       IN  /\ tracks = [t \in Tracks |->
                          [body |-> IF first(t) THEN <<[delta |-> 0, status |-> tempo, data |-> d]>>
                                    ELSE <<>>,
                           last_tick |-> 0, last_command |-> NoCmd, used |-> t = 0, end |-> 0]]
           /\ log = [t \in Tracks |->
                       IF first(t) THEN <<[cmd |-> tempo, data |-> d, tick |-> 0, late |-> 0,
                                           port |-> 0]>>
                       ELSE <<>>]
           /\ now = 0 /\ received = 0 /\ stop = FALSE
           /\ part = [port |-> 0, cmd |-> tempo, tick |-> 0, left |-> 0]
           /\ back = [t \in Tracks |-> 0]
           /\ at = 0 /\ tick = 0 /\ last_cmd = NoCmd
           /\ events = [t \in Tracks |-> <<>>] /\ end_tick = [t \in Tracks |-> 0]
           /\ current = [t \in Tracks |-> 0] /\ clock = 0
           /\ pc = "poll"

\* delta_time, command (for the first message of an event) and the data
Add(port, stamp, cmd, status, data) ==
    LET t    == TrackOf(port, cmd)
        last == tracks[t].last_tick
        diff == IF stamp < last THEN 0 ELSE stamp - last
        late == IF stamp < last THEN back[t] + last - stamp ELSE back[t]
    IN  /\ tracks' = [tracks EXCEPT ![t] =
                        [body |-> Append(tracks[t].body,
                                         [delta |-> diff, status |-> status, data |-> data]),
                         last_tick |-> stamp,
                         last_command |-> IF cmd \in Channel THEN cmd ELSE NoCmd,
                         used |-> TRUE, end |-> 0]]
        /\ back' = [back EXCEPT ![t] = late]
        /\ log' = [log EXCEPT ![t] = Append(log[t], [cmd |-> cmd, data |-> data, tick |-> stamp,
                                                     late |-> late, port |-> port])]

\* how many messages an event is recorded as: CONTROL14 as two, or one where there
\* is no second controller, (NON)REGPARAM as four
Messages(cmd) == IF cmd.type = Control THEN {1, 2, 4} ELSE {1}

\* record_event, for what goes to a track; the time stamp may be older than that
\* of an event that was delivered before
RecordEvent(port, cmd, stamp) ==
    /\ pc = "input" /\ part.left = 0
    /\ \E d \in Data :
          Add(port, stamp, cmd,
              IF cmd = tracks[TrackOf(port, cmd)].last_command THEN NoCmd ELSE cmd, d)
    /\ \E n \in Messages(cmd) :
          part' = [port |-> port, cmd |-> cmd, tick |-> stamp, left |-> n - 1]
    /\ received' = received + 1
    /\ UNCHANGED <<now, stop, read, play, pc>>

RunningStatus ==
    /\ pc = "input" /\ part.left > 0
    /\ \E d \in Data : Add(part.port, part.tick, part.cmd, NoCmd, d)
    /\ part' = [part EXCEPT !.left = @ - 1]
    /\ UNCHANGED <<now, received, stop, read, play, pc>>

\* an empty sysex marks its track, other events nothing; both count
Nothing(port, marks) ==
    /\ pc = "input" /\ part.left = 0
    /\ tracks' = [tracks EXCEPT ![TrackOf(port, NoCmd)].used = @ \/ marks]
    /\ received' = received + 1
    /\ UNCHANGED <<now, part, stop, log, back, read, play, pc>>

\* the loop of main(): events that wait are recorded, and then it looks whether
\* it was told to stop, or has as many as it should record, not more
Wake ==
    /\ pc = "poll" /\ pc' = "input"
    /\ UNCHANGED <<record, read, play>>

Check ==
    /\ pc = "input" /\ part.left = 0
    /\ pc' = IF stop \/ (num_events # 0 /\ received = num_events) THEN "finish" ELSE "poll"
    /\ UNCHANGED <<record, read, play>>

Interrupted ==
    /\ pc = "poll" /\ stop /\ pc' = "finish"
    /\ UNCHANGED <<record, read, play>>

Signal ==
    /\ pc \in {"poll", "input", "finish"} /\ stop' = TRUE
    /\ UNCHANGED <<tracks, now, part, received, log, back, read, play, pc>>

Tick ==
    /\ pc \in {"poll", "input", "finish"}
    /\ now' \in {n \in Nat : n > now}
    /\ UNCHANGED <<tracks, part, received, stop, log, back, read, play, pc>>

\* finish_tracks, write_file: the first track lasts as long as the recording
Finish ==
    /\ pc = "finish"
    /\ tracks' = [tracks EXCEPT ![0].end = now - tracks[0].last_tick]
    /\ pc' = "open"
    /\ UNCHANGED <<now, part, received, stop, log, back, read, play>>

(***************************************************************************)
(* aplaymidi.                                                              *)
(***************************************************************************)
Used == {t \in Tracks : tracks[t].used}

\* read_var gives up at a fifth byte
TooLong(v) == v >= MaxVar

\* read_smf
Open ==
    /\ pc = "open"
    /\ IF Cardinality(Used) > 1000 THEN pc' = "failed" ELSE pc' = "read"
    /\ UNCHANGED <<record, read, play>>

\* read_track, a message
ReadMessage ==
    /\ pc = "read" /\ Len(events[at]) < Len(tracks[at].body)
    /\ LET m   == tracks[at].body[Len(events[at]) + 1]
           cmd == IF m.status = NoCmd THEN last_cmd ELSE m.status
       IN  IF TooLong(m.delta) \/ cmd = NoCmd
           THEN pc' = "failed" /\ UNCHANGED read
           ELSE /\ tick' = tick + m.delta
                /\ last_cmd' = IF cmd \in Channel THEN cmd ELSE last_cmd
                /\ events' = [events EXCEPT ![at] =
                                 Append(@, [cmd |-> cmd, data |-> m.data, tick |-> tick',
                                            port |-> PortOf(at)])]
                /\ UNCHANGED <<at, end_tick, pc>>
    /\ UNCHANGED <<record, play>>

\* and its end, and the next track in the file
EndOfTrack ==
    /\ pc = "read" /\ Len(events[at]) = Len(tracks[at].body)
    /\ IF TooLong(tracks[at].end)
       THEN pc' = "failed" /\ UNCHANGED read
       ELSE /\ end_tick' = [end_tick EXCEPT ![at] = tick + tracks[at].end]
            /\ tick' = 0 /\ last_cmd' = NoCmd
            /\ IF \A t \in Used : t =< at
               THEN pc' = "play" /\ UNCHANGED at
               ELSE /\ at' \in {t \in Used : t > at /\ \A u \in Used : u > at => t =< u}
                    /\ UNCHANGED pc
            /\ UNCHANGED events
    /\ UNCHANGED <<record, play>>

\* play_midi: of the next events of all tracks the earliest, the first track's of
\* equal ones, unless the song has ended
Left == {t \in Used : current[t] < Len(events[t])}
NextTick(t) == events[t][current[t] + 1].tick
InSong(t) == \E u \in Used : NextTick(t) =< end_tick[u]

Earliest(t) ==
    \A u \in Left : NextTick(t) < NextTick(u) \/ (NextTick(t) = NextTick(u) /\ t =< u)

PlayEvent ==
    /\ pc = "play"
    /\ \E t \in Left :
          /\ InSong(t) /\ Earliest(t)
          /\ current' = [current EXCEPT ![t] = @ + 1]
          /\ clock' = NextTick(t)
    /\ UNCHANGED <<record, read, pc>>

EndOfSong ==
    /\ pc = "play"
    /\ ~\E t \in Left : InSong(t)
    /\ pc' = "done"
    /\ UNCHANGED <<record, read, play>>

Next ==
    \/ \E port \in 0 .. port_count - 1, cmd \in Channel \cup Sysex, stamp \in 0 .. now :
          RecordEvent(port, cmd, stamp)
    \/ \E port \in 0 .. port_count - 1, marks \in BOOLEAN : Nothing(port, marks)
    \/ RunningStatus \/ Wake \/ Check \/ Interrupted \/ Signal \/ Tick \/ Finish
    \/ Open \/ ReadMessage \/ EndOfTrack \/ PlayEvent \/ EndOfSong

Spec == Init /\ [][Next]_vars

--------------------------------------------------------------------------------
\* What is read is what was recorded: each message has its command, running
\* status or not, its port, and its time, which is the time stamp and what the
\* stamps of its track had gone back by then (delta_time, command, read_track).
ReadsWhatWasRecorded ==
    \A t \in Tracks : \A k \in DOMAIN events[t] :
        /\ k \in DOMAIN log[t]
        /\ events[t][k] = [cmd |-> log[t][k].cmd, data |-> log[t][k].data,
                           tick |-> log[t][k].tick + log[t][k].late,
                           port |-> log[t][k].port % play_ports]

\* A recording that is shorter than the longest number the reader takes, and has
\* not too many tracks, is read (var_value, read_var, read_smf).
IsReadable == pc = "failed" => TooLong(now) \/ Cardinality(Used) > 1000

\* Events are played in the order of their times, tracks merged (play_midi).
PlaysInOrder == [][clock =< clock']_vars

\* When the song ends all that was recorded has been played: no track ends before
\* its last event, nor the song before a track (finish_tracks, play_midi).
PlaysItAll == pc = "done" => \A t \in Tracks : current[t] = Len(log[t])
================================================================================
