# alsa-utils: specifications, model checks and proofs

This directory holds TLA+ models of the parts of alsa-utils whose correctness
depends on more than one process, on time, or on the order of events, the TLC
configurations that check them, and TLAPS proofs of the results that matter
most.  Every definition is translated from the source; `PROJECT.json` maps each
definition to its file and lines.

How to run, from this directory:

    tlc -workers 2 -config StateLock.cfg MCStateLock.tla
    tlapm StateLock_proofs.tla

## 1. The system

alsa-utils is a set of command line programs around alsa-lib.  Most are short
sequential programs.  The logic that is hard to get right is in `alsactl`,
which stores and restores the state of all sound cards from several processes
at once (udev rules, systemd units, a daemon, the user), in `alsaloop` (threads
that move frames between two sound devices whose clocks differ), and in the
transfer loops of `axfer` and `aplay`.

### 1.1 alsactl

| part | state it keeps | operations | talks to |
|---|---|---|---|
| lock files, `lock.c` | one file per lock: size, POSIX record lock; per process: file position, interval timer, `alarm_flag`, counter `timeout` | `state_lock`, `group_state_lock`, `card_lock` and their unlocks, all by `state_lock_()` | every command that reads or writes a file of alsactl |
| store, `state.c` `save_state` | the state file, `<file>.new`, a configuration tree in memory | load, `get_controls` per card, save, rename | lock files; the kernel's mixer |
| restore, `state.c` `load_state` | list of linked cards, controls of each card | wait, card lock, `init_ucm`, `set_controls`, linked cards | boot groups, lock files, mixer |
| daemon, `daemon.c` | slots of watched cards, write lists per card, `quit`, `rescan`, `save_now`, `changed`, `last_write`, pid file | main loop, signal handlers, `card_events`, `add_card` | store; the kernel's control events; other alsactl processes by signals |
| boot groups, `boot_params.c`, `init_ucm.c`, `wait.c` | group file (cards, real and monotonic time), `.Boot` element of each card (time, restored, primary) | `init_ucm`, `update_boot_params`, `boot_params_remove_card`, `wait_for_card` | group lock, card lock, both clocks, other cards' elements |
| init language, `init_parse.c` | variables, current card and element with what is cached of it, the files that are open | one pass over the rules of each card | mixer |
| monitor, `monitor.c` | list of open cards, epoll set, inotify watch | print events, watch cards that appear, let go of those that leave | kernel |
| clean, info, export | nothing | one pass | mixer |

What is hard, and what makes each part correct:

* **Lock files.**  The wait for a POSIX lock is bounded by SIGALRM and the
  flag its handler sets, so the order of the grant, the alarm, the test of the
  flag and the close matters.  Correct: one process inside, no path that
  returns an error keeps the lock, a call that timed out never succeeds, a call
  returns.
* **Store.**  Two stores of different cards rewrite the same file.  Correct: no
  store undoes what another stored, the file is complete whatever fails or
  dies, a store has in it what it was asked for.
* **Restore.**  The file was written when the card looked different: other
  numids, ranges, levels or items, elements that came or went.  Several processes
  restore at once, and linked cards without their locks.  Correct: an exit code of
  zero means that all is as stored, `-F` restores all that still fits, and a card
  that is as it was is not initialized.
* **Daemon.**  Signals and card removals come at any point of a loop that
  polls, handles cards in turn and saves.  Correct: no change is forgotten, a
  save follows a change also if changes never stop, signals are honoured.
* **Write lists.**  The daemon remembers which elements are writable; elements
  change their access and come and go.  Correct: no change of a writable
  element is taken for one that does not count.
* **Boot groups.**  One process per card, in any order, over a file that
  outlives the boot and elements that do not, with two clocks.  Correct: one
  primary, no member lost, a member that was told to wait is restored.
* **Monitor.**  Cards leave and appear while a batch of events is worked through.
  Correct: no entry is used after it was freed, no read waits, no card is missed.
* **Init language.**  EXIT, RETURN, GOTO and errors leave a nest of included
  files; what is known of a control is cached while the selection changes.
  Correct: nothing runs after an EXIT, no error is lost, the cache is that of the
  control that is selected.

### 1.2 The other programs

| program | what is in it | hard behaviour |
|---|---|---|
| alsaloop | threads of loopbacks; ring buffer shared by capture and playback; xrun synchronisation; mixer coupling | frames lost or played twice after an xrun, unsigned positions, several loopbacks in one thread, two copies of a mixer value |
| axfer | container (file), mapper, frame cache, three libasound backends and FFADO | partial reads and writes, EOF, xrun and suspend recovery, counts of frames in different widths, mapped frames a device uses at the same time |
| aplay, arecord | the same in one file, with pause and file rotation by signals | xrun and suspend recovery, signals |
| aplaymidi, arecordmidi, aplaymidi2, arecordmidi2, aseqnet, aseqdump, aseqsend, aconnect | track merge and tempo, delta times and running status, byte framing over TCP | ordering, encoding boundaries, peers that come and go |
| alsamixer, amixer | simple mixer interface, curses widgets | sequential |
| amidi, speaker-test, iecset, alsaucm, nhlt-dmic-info | one loop or one pass | sequential |
| alsabat | playback and capture threads around an FFT | numeric |
| alsatplg | compiler of topology files and NHLT blobs | sequential |
| alsaconf, alsa-info | shell scripts | none |

## 2. The modules

| module | models | run or proof |
|---|---|---|
| `LockService` | what a client of a lock is promised | abstract |
| `StateLock`, `StateLock_proofs` | `lock.c`, one lock file; its proofs hold those of `LoopJob` | both |
| `StateFile` | `save_state`, on the lock that `LockService` promises | both (`Restore_proofs`) |
| `Restore`, `Restore_proofs` | `load_state`, `set_controls`, `set_control`; its proofs hold those of `StateFile` and `LoopThread` | both |
| `StateDaemon` | main loop and signal handlers of the daemon | both (`DaemonInstances_proofs`) |
| `CardEvents` | `card_events`, `check_lists` of one watched card | proof (`InitRules_proofs`) |
| `DaemonInstances`, `DaemonInstances_proofs` | pid file, starts and kill commands of several processes; its proofs hold those of `StateDaemon` | both |
| `Monitor` | `monitor.c` | proof (`Aplay_proofs`) |
| `BootGroup`, `BootGroup_proofs` | `init_ucm`, group file, `.Boot` elements, wait, the card loop of `load_state` | both |
| `InitRules`, `InitRules_proofs` | the interpreter of `alsactl init`; its proofs hold those of `CardEvents` | both |
| `LoopJob` | one loopback of alsaloop, its two devices and the ring between them | both (`StateLock_proofs`) |
| `LoopThread` | one thread of alsaloop, its jobs and the mixer controls they redirect | both (`Restore_proofs`) |
| `Transfer`, `Transfer_proofs` | `axfer transfer`; its proofs hold those of `MmapTransfer` | both |
| `MmapTransfer` | the backends of `axfer` over mapped buffers | proof (`Transfer_proofs`) |
| `Aplay`, `Aplay_proofs` | the capture and playback loops of aplay; its proofs hold those of `Monitor` | both |
| `SeqNet`, `SeqNet_proofs` | `aseqnet`, server and client; its proofs hold those of `MidiFile` | both |
| `MidiFile` | arecordmidi, the file, aplaymidi | proof (`SeqNet_proofs`) |
| `MC...` | the sets and model values of the runs | |

The composition is by abstraction: `StateLock` is checked and proved to
implement `LockService`, and the models above it (`StateFile`, `BootGroup`,
`Restore`) use a lock that is free or owned, which is what `LockService` says of
it.  `StateDaemon` uses a store as one long step (what it does to the file is
`StateFile`) and a handle that has or has not a change queued (what counts as
one is `CardEvents`).  `Restore` uses `init_ucm` as a choice of what it answers
(that is `BootGroup`) and `init()` as a change of any setting (that is
`InitRules`).  `LoopThread` uses a stream of `LoopJob` as something that is ready
or not.

Definitions whose comment says "mutant" are variants with one plausible mistake
each; they show that the properties notice it, and no specification uses them.

### StateLock (lock.c)

One action is one system call of `state_lock_()` with the tests that lead to
it: `Open`, `Create`, `Reopen` (lines 68-93), `Fstat` and `Prewrite` (95-108),
`Arm` (109-123), `Check`, `Block`, `Grant`, `Interrupted` (124-129), `Disarm`
(130-136), `WritePid` (137-143); `Unlock...` are the same lines as the unlock
call passes through them.  `Alarm` is the signal handler at any point between
`Arm` and `Disarm`, `Crash` the death of the process at any point.  `timeout` is
the one counter the code uses for the tries of `open` and for the seconds of the
timer; `offset` and `size` are the file position and the size in bytes, because
`Prewrite` writes before the lock is held.  Every call that can fail does so in
the model.

### StateFile (save_state)

`Call`, `Lock`, `Load`, `GetControls` (one card a step, in the order of
`snd_card_iterator`), `EndOfCards`, `Open`, `Save`, `Rename`, `Unlock`.  The
mixer of card c is a version number that `Change` raises; the file holds for each
card the version it was stored at, and whether it is complete.  Cards are
plugged and unplugged, stores fail and die at each step.  `Load` may get any part of
the file, for its errors are ignored, and `Save` may leave any part of the new one when
its last flush fails.  The history variables say what was to be stored at each call,
which cards a load did not get, and whether the file was cut off.

### Restore (state.c)

A process has a list of cards (`Args`) and goes through `load_state` card by card:
`Start` (1740-1753), `CardLock` (1787-1794), `InitUcm` (1795-1810), the check pass,
`InitCard` when the check failed (1811-1817), the writing pass, the linked cards,
`Unlock` (1831-1833), `Exit` (1834-1841).  A pass is `Open` (1545-1579), and for
each entry `Find` (1322-1366: by numid, by name, or a user element to be added),
`AddUser` (925-1023), `Match` (1367-1514) and `Write` (1517-1530); then `LastEntry`
compares the number of elements (1590-1644) and `EndOfPass` chooses what comes next.
`EntryDone` says what an error of one entry does to the rest, which differs with
`-F` and in the check.  `Entry` and `Stored` are `get_control` and `get_controls`,
so the file is what the program itself writes.  `Converted` rewrites a stored value
in the tree in place, from the steps of the old range to those of the new one over
the level, as `check_comment_range` does: `tree` is the copy of the file that each
process has loaded.  `Understood` and `Number` are `restore_config_value` and
`config_enumerated`, `Channels` the loop over the channels.  The elements of a card,
then and now, are constants: the run gives eight ways in which a driver may have
changed, the proofs take any.  `Fails` stands for any call that fails: the open of the
card and its name (1551-1560), the lists for the comparison (1593-1610), the look for an
element, its levels, its addition.  `through`, `failed`, `added`, `untold` (levels that
could not be asked for) and `hindered` (a check that met a failing call) are history.

### StateDaemon and CardEvents (daemon.c)

`StateDaemon` has one action per stretch of the loop between two points where a
signal, a card or the mixer makes a difference: `Loop` (380-382), `AddCard` and
`ScanEnd` (383-391), `Prepare` (392-416), `PollReturns`, `PollTimeout`,
`PollFails` (417-424, and a failing look at the descriptors of a card, 430-433),
`HandleCard` (425-445), `Decide` (446), `Save`,
`SaveReturns` (447-451), `Out` (452-461), and one per signal.  A signal only
interrupts `poll`.  Time is counted in poll timeouts, half a store period, and
passes in `poll` and in `save_state`.  `asked`, `owed`, `saving` and `owesSave`
are history: what the daemon owes, never read by an action of it.

`CardEvents` has one action per turn of `card_events()`: `HandleRemove`,
`HandleInfo`, `HandleChange` with `CheckLists`, around `Read` and `Return`.  The
kernel adds, removes and changes elements, also between the read of an event and
the question about its element, and merges the masks of events of the same element.

### Monitor (monitor.c)

`Scan` is one card of `prepare_source_entry` (61-163), `Register` is `prepare_dispatcher`
(242-300), `EpollWait` the wait with the batch of events it brings (319-333), at most as
many as there were entries; `TakeSignal`, `TakeNode`, `TakeEvent` and `TakeHangup` are
the events of a batch in any order (335-351), `Clear` and `Retry` the restart after a
new node (359-370, 433-439), `End` the way out.  A card is plugged in again as a
new plug of the same number, and the entry of a plug is dead once the card has gone.
A handle has one descriptor.  `hidden` is history: plugs passed over because an entry of
the same name was still in the list.

### DaemonInstances (daemon.c)

A starter is a `daemon` or `rdaemon` command, a killer a `kill` or `nrestore`
command.  `Start`, `Call` and `Look` are `check_another_instance` (344-359),
`Install` the handlers (372-377), `Create` and `Write` `write_pid_file` (294-314)
with their failures, `SaveNow`, `SaveReturns`, `Quit` and `PollFails` what the
main loop does with the flags, `Out` the end (452-461), `KillRead` and `KillSend`
`state_daemon_kill`.  The pid file is a path and who created the file behind it; it
has a pid only once its creator wrote it.  A signal to a process without handlers
kills it.  `Crash` leaves the file.  A rescan signal has no effect here (it is in
`StateDaemon`), and process ids are not reused.  `overlap` and `ready` are history.

### BootGroup (boot_params.c, init_ucm.c, wait.c, state.c)

A job is one `alsactl` process for one card: "udev" (`alsactl restore` from the
udev rule), "wait" (`alsactl wrestore` for a card that was told to wait) and
"service" (the boot service).  Actions follow its path: `Start`, `WaitBegin`,
`WaitTurn` (wait.c), `CardLock`, `Check` (first look, without a lock),
`Conf`, `GroupLock`, `Recheck` (second look), `Load`, `Save`, `WriteElement`,
`TellOther`, `UpdateDone` (`update_boot_params`), `Scan`, `SaveDropped`
(`boot_params_remove_card`), `Run`, `Finish` (back in `load_state`).  `Fail`,
`Crash`, `Unplug`, `Reboot` and `SetClock` are the faults.  The
list of a group is its set of cards and its first card, the primary: the code asks
who is first and who is in it, and adds at the end, so that the order of the others only
decides in which order they are told (`TellOther` takes any).  Time is counted in
half seconds so that the whole seconds of the two clocks may differ in phase;
`LastStart` says after which time the processes are fast compared with the
clock, as they are in the code, and only waits take time.

### InitRules (init_parse.c)

`init()` goes over the cards (`StartCard`, `SkipCard`, `CardEnds`, `Finish`,
1747-1787) and runs the rules of each.  The open files are a stack; `Open`
(1668-1682), `ReadLine` (1683-1731) and `EndFile` (1731-1744) are `parse`, `Return`
is the way back into the line that included a file (1522-1562).  The keys of a line
are actions: `Label`, `Goto`, `Skip` (1306-1321, 1475-1486), `Include` of a file or of
the files of a directory (1487-1530), `Exit` and `ExitReturn` (1613-1625), `Select`
and `Search` (`elemid_set` and `ctl_match`, 508-525, 748-836), `Compare` (527-683),
`SetValue`, `AssignValue`, `WriteValue` (340-485, 1329-1352), `Invalid`, and `Plain`
for keys that only test or set strings.  Which key comes next is a choice, as the
interpreter never reads a line twice.

### LoopJob (alsaloop/pcmjob.c)

One job in the mode in which both handles share one ring.  `Read`, `Write`, `After`
and `Reinit` are a call of `pcmjob_pollfds_handle` (645-799, 1882-1980), with
`ReadIt` and `WriteIt` for `readit` and `writeit` in the two parts in which they meet
the end of the ring, `BufRemove` and `RemoveSamples` (493-504, 801-829).  `SyncCapture`,
`CaptureOverrunAgain`, `DropCapture` and `Resync` with `Trim`, `FillPrepared`,
`FillRunning` are `xrun_sync` (831-1041), `Restart` is `pcmjob_stop` and `pcmjob_start`
(1501-1724), `CtlEvents` and `MixerEvent` `handle_ctl_events` (1798-1856).  A frame is
the number it was captured under.  `Tick` is one frame time of either clock, or both;
between any two steps of the job the devices may run on, overrun or underrun.
`SilenceBefore` computes the position as the code does, in words of 64 bits before
the modulo.

### LoopThread (alsaloop.c, control.c)

`Loop` (762-774), `Poll` (774-786) and `NextJob` (787-798) are `thread_job1`, with
`Place` and `Served` for the test at line 789 that decides whether a job is handled;
`CtlEvents` (pcmjob.c 1906-1937), `CopyValue` (control.c 366-426) and `Streams`
what is done for one job, `CopyFails` a copy that cannot read or write its element,
`Signal` the handler (813-829).  Which jobs redirect a control is any choice; `InReach`
says which jobs the test lets through.  The kernel notifies every
subscriber of an element whose value a write changed, the writer too.

### Transfer (axfer)

`Leave`, `Tally`, `CallInterrupted` and `Finish` are the loop of
`subcmd-transfer.c` (395-466); `Enter`, `Move`, `Exit`, `WriteFails`, `Abort` one
request to a container with its reads or writes of a descriptor (`container.c` 42-95,
359-407); `Mapped` the mapper (`mapper-multiple.c` 148-224); `AskPlayback`, `AskCapture`,
`DeviceWrite`, `WriteStopped`, `FindStopped`, `StopsInCall` the backend
`xfer-libasound-irq-rw.c` with the frame cache, `Recover` the recovery (`xfer-libasound.c`
758-790).  `Signal` and `Xrun` come at any point.  Frames and bytes are counted;
`Word` is the width of the counters of the device loop.  `LeavesBuffer` says when a
request reaches past the frame buffer, because the room left in a container wrapped;
what then happens is not modelled.

### MmapTransfer (axfer)

The backend by interrupts is `Status` (`xfer-libasound-irq-mmap.c` 209-236), `WaitEvent` (`xfer-libasound.c`
343-376), `AvailUpdate` (127-143) and `First` (261-275); the one by timer `Status`, `Start`
with the silence (`xfer-libasound-timer-mmap.c` 336-372, 404-425), `Forward` and `Rewind` (219-242,
302-334), `Plan` and `Delay` (131-197).  `Move` and `Commit` end both; `Stopped` and
`Recover` are a stop and its recovery, `Count` the loop of `subcmd-transfer.c`.  The
device plays, records or stops between any two of these; `known` is what the program
has last heard of its position, so it is old in general.  A frame has its number,
silence is 0; the buffer holds the content and not only the positions, so that what
a rewind or a commit touches can be seen.

### Aplay (aplay/aplay.c)

`Read` (`pcm_read`, 2258-2345), `Open`, `Loop`, `Save`, `Close` (`capture`, 3300-3376)
record into one file, a series of files, stdout, or the files of the channels, which
hold the same frames and are one in the model; `Preload`, `Fill`,
`Written`, `Drain` (`playback_go`, 2895-2950) with `Write` (`pcm_write`, 2166-2252) play.
`Stop` is an overrun or underrun found by the device call (1693-1784), `Abort`,
`Recycle` and `Interrupted` the signals (386-421).  A frame carries its number, 0 is
silence; what a buffer still holds of an earlier chunk is part of the model.

### SeqNet (seq/aseqnet)

`Poll` (488-513), `StartConnection` (403-427), `CopyLocalToRemote` with `LocalDone`
(560-625), `Remote`, `NextSlot`, `CopyRemoteToLocal` (523-534, 627-664) and
`FlushWritebuf` (542-555) are the loop, `InitClient` a client.  The slots of the connections and the
compacted array that `poll` filled are different things, as in the code.  Peers
connect, send, read or do not read, leave; a write to a peer that left kills the
process by SIGPIPE, and a write to one whose socket is full (`Room`) waits: `CallFlush` and
`FlushWritebuf` write to one peer a step, `Blocked` is the wait.

### MidiFile (seq/aplaymidi)

`RecordEvent` (arecordmidi.c 456-593) with `Add` (`delta_time`, `command`, 407-437) and
`RunningStatus` for the further messages of one event, `Nothing` for an event that
leaves no message, `Wake`, `Check`, `Interrupted`, `Signal` the loop of `main`
(887-910), `Finish` the end of the tracks and the file (595-660).  Then `Open`
(aplaymidi.c 459-557), `ReadMessage` and `EndOfTrack` (`read_track`, 301-451),
`PlayEvent` and `EndOfSong` (`play_midi`, 761-838).  Each track has a log of what its
messages stand for; `back` is how far the time stamps of a track have gone back.
No run extends this module, nor `CardEvents`, `Monitor` and `MmapTransfer`: what they
claim is proved.

## 3. The runs

| run | distinct states | shows |
|---|---|---|
| `state_lock` | 14 thousand | 2 locking processes and one with `--no-lock`: no path leaks the lock, no grant after the alarm, `LockService` is implemented, and if holders let go every call returns |
| `state_file` | 3.6 million | 2 stores of one card or all, 2 cards, 2 versions of each, loads that get any part and flushes that leave any: the file is complete, no update is lost, a store has in it what was asked for |
| `restore` | 2.1 million | 2 processes, one card linked to the other, with `-F`, `-P` and `-I`, eight driver versions, one call that fails: zero means restored, `-F` restores what fits, `init()` only when needed |
| `state_daemon` | 407 thousand | 2 cards, 3 plugs in all, every signal at every point: changes are saved, no save-and-quit without a save, signals are served |
| `boot_group` | 165 thousand | 2 members and an outsider, three kinds of commands, clocks in phase and out of it, one fault of any kind: one primary, members are kept, restored means restored, members are restored, commands end |
| `daemon_instances` | 292 thousand | 3 starts and a kill command, one fault: one daemon while starts do not overlap, no start beside a registered daemon, no command kills a daemon unprepared, the daemon they end ends |
| `loop_job` | 3.0 million | 2 drifting devices: each captured frame is played once and in turn, every resynchronisation leaves no more than the latency in the loop, or only what the playback device had taken |
| `loop_thread` | 187 thousand | three jobs, each with or without a mixer control: those in reach are served and no others, the twin controls agree in the end |
| `transfer` | 1.5 million | 2 containers, both directions: frames are conserved, headers are true, whole transfers are whole, every transfer ends |
| `aplay` | 2.5 million | recording and playing: files hold the frames of the device in order, headers are true, playback is in order and complete |
| `seqnet` | 1.4 million | 2 slots and 3 peers, or a client, peers that read or do not: every client gets every event, no read waits, peers are served |
| `init_rules` | 226 thousand | 2 cards, 8 keys each: EXIT is the last key, no error is lost, the cache is of the selected control |

**Why the bounds are enough.**  Two locking processes show every conflict on one
lock; the third shows that `--no-lock` disturbs neither.  A timeout of 2 lets the
counter reach 1 and 0 before the timer is armed, which are the values at which
`lock.c` behaves differently.  Two cards are the least for a store of one card to
drop another and for the daemon's slots to be shared; the third plug reuses a
slot.  Two versions a card tell a lost update from an old one.  `Restore` has an
element of each type, one that cannot be read and one of a user; each driver version
differs in one respect, or in two that meet in one decision.  Three starts are a
daemon, the one that replaces it and one that races with both; one fault already
leaves a pid file that nobody owns.  In `BootGroup` two members have one primary and
one that waits, the third card is outside the group or in the list of an earlier
boot; the window is one second, and time runs to three seconds after boot, so that a wait
of the window and the second of safety ends in it.  The second of the real-time clock
begins with that of the monotonic one or half a second beside it (`Phases`).  In `LoopJob` the latency is smaller than the
playback buffer and larger than nothing, the ring of six frames is passed once by the
latency and the six that are captured, and a drift of two frames brings an underrun, an
overrun, both within a call, and a playback device that holds more than the latency.
Three jobs of `LoopThread` with and without a control are every order of longer and
shorter poll lists; three changes by users are one before, one while and one after a
copy.  In `Transfer` a descriptor gives any part of a request, four frames of two bytes
are two buffers of two, the limit of eight bytes less the header is passed by the last
request or reached exactly, and the containers disagree about their length.  In
`Aplay` chunks of two frames meet limits and files that are shorter, equal, longer
and no multiple.  In `SeqNet` the third peer takes the slot that another has left, and
of two events the second finds the buffer of two full; a socket takes one packet that
nobody reads.  In `InitRules` eight keys hold an included
directory of two files with an EXIT, an error or a GOTO in the second, and a match of
a cached value after it.

**Fairness.**  `StateLock`: processes run, timers expire (`WF`), and a free lock
is granted in the end to one who sleeps for it (`SF` on `Grant`: the kernel
wakes waiters in order); other signals interrupt a process finitely often,
for a stream of them would keep any such loop busy.  `CallReturns` states its own
further assumption, that holders come to their unlock.  `StateDaemon`: the loop runs
(`WF`), time passes while it sleeps (`SF` on `Tick`), and rescan signals come finitely
often, each of them ends the sleep.  `DaemonInstances`: a process that has begun goes
on (`WF` per process), nobody has to give a command.  `BootGroup`: each process runs
(`WF` per job) and time passes; weak fairness suffices for the locks since each is
taken a bounded number of times.  `LoopThread`: the thread runs, and each device gets
data again (`WF` per job: streams that run never fall silent).  `Transfer`: the program
runs (`WF`), and a device that is started gives or takes frames although it may stop
again and again (`SF`, the stops of the run are bounded by nothing else).  `Aplay` and
`SeqNet`: the program's own steps (`WF`).  The properties of `StateFile`, `Restore`,
`LoopJob` and `InitRules` need none.

**Deadlock** is checked in the runs of alsactl's locks, store and daemon.  The others
stop where the program ends (`Aplay`, `InitRules`, `Restore`, `Transfer`) or where the
bound of the environment is reached (`BootGroup` at `MaxNow`, `LoopJob` at `MaxFrame`,
`LoopThread` and `SeqNet` when nobody sends any more).

## 4. The proofs

`StateLock_proofs` (any set of processes, any timeout): `TypeCorrect`, `Exclusion`,
`CleanExit`, `NoLateGrant`, `Refinement`.  `MutualExclusion` follows from ownership:
whoever locks and is inside owns the record lock.  That is not inductive alone.  The
invariant `IInv` says from when to when a process owns the lock (`InsideOwns`), that
nobody owns it elsewhere (`NoLeakedLock`), that after the test of the flag neither a
timer nor a flag is left (`Quiet`: without it a late alarm could follow the test), that
processes without locking never take part (`Bystanders`), what is left of the counter
(`TriesLeft`) and where the file positions are (`Offsets`), from which the size of the
file is bounded.  `Refinement` maps the program counter to "out", "trying" or "in", and
shows that each step of the protocol is a step of `LockService` or a stutter, from the
same invariant.

`Restore_proofs` (any processes, lists of cards and links, any elements then and now,
any number of failing calls): `TypeCorrect`, `ZeroIsRestored`, `ForceRestoresTheRest`,
`InitIsNeeded`.  `TypeInv` says what a process has in hand at each point, that elements
keep all but their value, that the copy of an entry in memory is its value or the one
wanted for the element (`TreeInv`: the conversion in place does no harm when it is done
again), and that what is about to be written is that.  Before it come lemmas about the
conversion: the scale of levels is monotone, so that `FromDB` finds a value of the range
with no other between it and the level (`Nearest`).  The first two properties then follow
from `SettledInv`: as long as nobody is in trouble (with `-P` a final error, with `-F` no
file), each entry a process has gone past, and each of a card that a writing pass went
through, is as stored, or some process still owes it (`Owes`: a check, an `init()` or a
writing pass of that card has the entry before it).  So several processes may
initialize and restore one card, and the last to run `init()` sets it again.
`ProgressInv` adds that no card of a list is passed over: it has been gone through, was
postponed, or is still to come.  `InitIsNeeded` rests on `CheckInv`: what the check found
wrong with a card stays wrong until `init()` runs, unless another process has added an
element (`Excused`), and the entries it went past have an element each, which is what the
comparison of the counts needs.

`DaemonInstances_proofs` (any number of daemons, commands and faults):
`TypeCorrect`, `NoSignalKills`, `StepsAside`, `OnlyOneDaemon`, `NoneMissed`.  The first
invariant, `HInv`, says that a pid anybody has read was written by a daemon with
handlers, and that handlers stay; a signal then sets a flag and moves nobody.
`StepsAside` follows at once.  The other two hold while `Undisturbed`; their
invariant `UInv` says that one process starts at a time, that the file names the one
daemon from its creation to its removal (`FileNamesDaemon`, `DaemonHasFile`), that a
start past its check has seen no file (`PastCheck`) and that the daemon a command
found in its loop is the one it signals (`FoundIsSignalled`).

`Transfer_proofs` (any number of containers, size of frames, of the buffer, of the limit
and of the request): `TypeCorrect`, `NoFrameLost`, `WholeAtTheEnd`, `HeadersAreTrue`.
The invariant says at which container the mapper is and what is left of its request
(`Place`, `Going`), how the bytes a container has moved relate to those it says it has
handled (`Counted`), and that no count passes what was asked for (`Bounded`); `HInv`
adds when a header exists (`Headless`), that a request fits into the frame buffer
(`Fits`), how many bytes a request that a signal broke may have lost (`Lost`), and that
the bytes a header will claim are there, or all up to the limit (`Covered`).

`InitRules_proofs` (any cards, elements, labels and codes, any number of keys and depth
of files): `SelectionIsCached`, `EveryCardEndsAsTold`, `NothingAfterExit`.  The first is
inductive once its two halves are told apart (`CacheInv`). The others rest on
`RulesInv`: after an EXIT only the way out through the open files is left, with the
error that its code is on the way (`AfterExit`), the cards that have ended have told
their code or a file that could not be read (`Told`), and `lasterr` is one of the errors
there were, or 0 when there were none (`Reported`).

`SeqNet_proofs` (any number of peers, connections and events, any
buffer): `EventsReachEveryone`, `NoReadWaits`, `QuitsWithNobody`.  A peer that is open has
one slot, a slot in use has a peer that came (`SlotsHold`); what a peer has got and
what waits in the buffer, if the flush has not yet come to it, make up the events since it
came (`PassInv`).  `NoReadWaits` needs
that without a hole in the slots the entry that poll filled is that of the slot, which
is a fact about the cardinality of the slots in use below it, and that in a round nobody
else reads what poll has announced (`WaitInv`).

`Aplay_proofs` (any chunk, limits, lengths and bounds): `WaveHeadersAreTrue`,
`NoFrameIsMislaid`, `PlayedAsRead`.  For the headers: which files have been opened
(`FilesInv`), that no write follows one the disk refused (`RefusedInv`), that the
count of the open file is its length, and that the header it was begun with promises what
is there and what is still to come (`HeaderInv`).  For the frames: those in files,
those in the buffer, those lost and those cut off are all there are and no two of these
sets meet (`PlaceInv`), files and buffer are in order (`OrderInv`, `BufInv`), silence is
stored only by a split recording that is being ended (`ZeroInv`), what is still to be
recorded and what is saved make up the limit (`LengthInv`), and as long as limits are
whole chunks so is what is left (`WholeInv`).  For playback: which frames of the file
the buffer holds at each step (`FillInv`, `WriteInv`).

`BootGroup_proofs` (any cards, members, commands, window, times and bounds, and any
number of processes): `MarkedIsCovered`, `MembersAgree`, `MembersAreKept`.  The first needs
that a process which has not come to the update has no result yet and one that writes
the mark has not been told to wait (`Fit`): then whoever marks a card is among those that
set controls in the end, and keeps it among its linked cards.  The other two are about
the group file, and hold as long as no command is cut short (`Unbroken`) and only
members are plugged in (`Calm`); cards may go and come back, the machine may reboot and
its clock be set.  `CalmInv` follows the update from one step to the next: it is done
under the lock by one process at a time (`LockHeld`), what that process knew of its card
is still so when it loads (`Known`), the group it is going to save has all that have
joined, with the old primary and time, or is a new group of its card when nobody has joined
(`Planned`), and what it saved is in the file until its element is written (`Saved`).
Elements that have joined are not younger than the clock (`Timely`), so that the removal
of dead cards from the group keeps them; `Agreed` is `OnePrimary` itself.  The test of
the two clocks in `check_boot_params_validity` plays no part in it: the proof shows that
it lets every group pass (`ValidIsKnown`).

Eight more modules have their proofs at the end of a proofs module of another
component, as a named instance (`D == INSTANCE StateDaemon`, so that `D!Spec` is the
specification and `D!SavesBeforeQuit` its property).  The parts share no state and
no lemma; where two have a variable of one name the instance renames its own (`pc` is
`stage`, `step` or `saving` there).

`StateDaemon`, as `D` in `DaemonInstances_proofs` (any number of cards and plugs):
`SaveBeforeQuit`, `ChangesAreKept`, `RescansAreKept`.  The last two are the safety core
of two liveness properties: a change that is owed is in the queue of a live handle, in
`changed` or in the save under way, and a rescan that was asked for has its flag and its
name until the scan has come to the card.  What the liveness adds is that the loop comes
round.  They need that a handle called dead stays dead when a card is plugged in again
(`DeadStaysDead`), that only a saving daemon has a save under way and that outside its
loop it owes nothing (`OwedInv`).

`LoopJob`, as `J` in `StateLock_proofs` (any sizes, drift, rounds and changes, where the
playback device can hold the latency): `LoopCountsAgree`, `EveryFrameInTurnHolds`,
`LatencyKeptHolds`.  That a frame is written in its turn is a property of one step, but it
needs all of `LoopInv`: the two fill counts of the ring are ordered and within its size
(`LoopCounts`), the capture position is the playback position and the count
(`LoopOrder`), the frames from the playback position on rise and, with what waits in the
capture device, are exactly those that are due (`InOrder`).  The counts hold as long as
the loop runs and is not about to be started anew (`Alive`), the positions and the order
until a silence is put over frames, and the flags of an overrun or underrun are handled
before the call returns (`LoopFlags`).  The lemmas on the queue say what taking from its
head (`TakeFirst`), appending (`AppendInOrder`), putting silence before it
(`PrependInOrder`) and losing what waits (`LoseWaiting`) do to that order for a ring of any
size, with the position modulo the ring.  For the latency: `Trim` takes what is too much
out of the ring, or all that is in it (`TrimIs`), and what is filled up is not more than
was missing.  `LatencyFits` is needed: section 5 says what happens without it.

`StateFile`, as `F` in `Restore_proofs` (any set of processes, cards and versions):
`StoreTypes`, `AlwaysComplete`, `NoLostUpdate`, `WhatWasAskedIsStored`.  The invariant
says that one process is between `Lock` and `Unlock` (`SaverHolds`), that what it holds
in memory is not newer than the mixer (`NotNewer`) and not older than the file but for
the cards its load did not get (`NotOlder`), and that what it is about to rename is
complete or cut off (`ReadyToRename`).  The last
three are what makes the step `Rename` keep `NeverOlder`.  For what was asked: a card
that stayed has the state of the call in memory or is one that the iterator still
visits (`Merged`).

`LoopThread`, as `L` in `Restore_proofs` (any number of jobs, any set of them with a
control): `DifferingTwinsAreSeenTo`, the safety core of `MixersAgree`.  Two elements
that differ have an event that is not yet read, or the thread is about to write the
copy, or the last copy failed; it needs that what is about to be copied is still the value of the element, or
that an event says it is not (`CopyIsCurrent`), which holds because the event is read
before the value.

`CardEvents`, as `C` in `InitRules_proofs` (any number of elements, numids and queued
events): `CacheStaysExplained`, `NothingIsMissed`.  What is remembered of an element may
be out of date as long as an event about it is on its way, and a change may be unnoticed
as long as it is still to be read; both need to know that numids are given out once and
that an event names the element that has its numid (`Numbered`), that events of earlier
elements of the same identity come first (`Ordered`), and that when the event of a
change has its turn the blacklist does not hold the element any more (`Noticed`,
`WillTell`).

`Monitor`, as `M` in `Aplay_proofs` (any number of cards, plugs and events):
`EntriesAreValid`, `NeverStuck`, `OneEntry`, `EveryCardIsFound`.  The invariant says at
which stage of the loop the epoll set and the batch are empty (`Stages`), that an entry
is of a plug that has been (`Past`), and that what a batch says is still true when its
turn comes (`BatchIsTrue`: a dead handle stays dead, and nobody else reads the events of
a card).

`MmapTransfer`, as `M` in `Transfer_proofs` (any size of buffer, margin and request):
`NothingOfTheDevice`, `FileIsPlayed`, `CaptureIsStored`, `CountIsTrue`.  The invariant
says that what the program knows of the position errs to the safe side (`KnownIsSafe`),
which frame is at each place of the ring (`Content`), that the mapper's frames follow
them (`Pending`), and how they relate to the last frame that was delivered (`Follow`): as
long as the start is to be adjusted, the buffer of a playback holds silence only.

`MidiFile`, as `M` in `SeqNet_proofs` (any number of ports and channels, any recording,
any longest number): `RoundTrip`, `CanBeRead`, `MergedInOrder`, `NothingIsLeft`.  The
invariant has three parts.  Of the recorder: its last tick and last status are those of
the last message it wrote (`LastIs`), each message has the delta, the status or running
status and the port of its event (`Written`), and the times of a track never decrease
(`Sorted`, which needs the clamp of negative deltas).  Of the reader: the tick and the
status it remembers are those of the last message it read (`ReaderIs`), tracks behind it
are read and those ahead are not.  Of the player: what is left of a track is not earlier
than the clock.

The assumptions are those named in the modules: `Locking` is a set of processes,
`Timeout` is a positive number, the value for "nobody" is not a process, sizes are
positive, a first request holds the bytes that are read ahead, counters are wide enough
for the frames that are asked for.  For the modules that no run extends, and for the
instances, a definition holds the assumptions and each theorem names it (`Parameters` of
the module, or `DaemonParameters`, `StoreParameters`, `LoopParameters`, `LoopSizes`):
numbers are natural, the value for "nobody" or "no element" is none of the others, a
chunk and a number of connections are not zero, jobs are numbered from 1.  `LatencyFits`
is the one assumption that a user can break: the job asks for device buffers of four
times the latency (`pcmjob.c:1545`, 191), and only `-B` or a device with a small buffer
gives less.

Only model-checked:

* All liveness properties: they need fairness, which is out of the prover's reach.
* `OnePrimary` of `BootGroup` after a command was cut short.  It does not hold for all
  values of the constants: with more faults than the run has, a card whose command dies
  between the save of the group file and the write of its element, and that is then
  plugged in again within the same second, is taken for new twice.  The run shows that one
  fault of any kind does no harm, also with a card outside the group; the theorem
  says nothing about either.
* `LoopJob` with a latency that is larger than the playback buffer: the theorems assume it
  is not, and the run has no such buffer.

## 5. What was found while modelling

Translating the code line by line showed places where it does something else than
a comment or a manual page says, or where a sequence of legal events ends badly.  The
properties claim what the code does keep; where a property is limited to what holds,
the limit is one of the following.

### alsactl

* **A rescan can be lost** (`daemon.c:390`).  `rescan = 0` comes after the cards are
  scanned, so a rescan signal that arrives during the scan is forgotten, although the
  manual says that `nrestore` "notifies also the daemon to do new rescan for available
  soundcards" (`alsactl.1:41-42`).  A card of which a dead handle is still in the array
  is passed over by `add_card` (`daemon.c:105`) and stays unwatched until the next
  rescan.  `SignalsAreServed` claims the other cases.
* **A wait can end too early** (`wait.c:159`).  The comment at `wait.c:141` adds one
  second to the wait for safety, but the test at line 159 ends it by the real-time clock
  as soon as the window has passed in whole seconds.  When the seconds of the two clocks
  turn over at different moments the wait ends inside the window that the skip test of
  `init_ucm` still sees, and the card is not restored by its own command, nor, when it is
  the primary, the rest of its group.  The run has clocks in phase and out of it;
  `MembersAreRestored` exempts the groups whose primary is told to wait after its wait
  (`EndsEarly`), and only when the clocks are out of phase.
* **An endless scan** (`boot_params.c:818`).  The scan is restarted after every group,
  also after one that does not list the card.  For a card outside any group it never
  ends, with the card lock held.
* **A removal without the lock** (`init_ucm.c:231`).  `boot_params_remove_card` loads
  and saves the group file without the group lock and can write over an update made in
  between: a valid member is dropped.
* **The clock tolerance accepts everything** (`boot_params.c:644`).  The comment above
  it speaks of 30 seconds; `diff < 30 || diff > -30` is true of every number.
* **A sync time that is optional and required.**  `init_ucm.c:80` calls it optional,
  `update_boot_params` refuses a group without one (`boot_params.c:925`).
* **A dead daemon's pid file** (`daemon.c:378`).  Nobody removes it, `O_EXCL` keeps the
  next daemon from writing its own, and the result is ignored: that daemon runs without
  a file, `kill` and `nrestore` do not reach it though the manual says they notify the
  daemon (`alsactl.1:59-60`), and each later start adds one more daemon.
* **Two starts at once** (`daemon.c:348`).  Each reads no pid file, the second
  `write_pid_file` fails and nobody looks at that: both run, and one of them has no file.
  `OneDaemon` is claimed while starts do not overlap.
* **The timer of a lock has two windows** (`lock.c:124`, `lock.c:118`).  An alarm
  between the test of the flag and the sleep wakes nobody, and a counter that has
  reached zero arms no timer; the call then waits for the holder without a limit.
  `CallReturns` says that such a call returns when the holder lets go.
* **Card locks and errors of `load_state`.**  When the configuration directory cannot be
  cleaned the loop continues with the card locked (`state.c:1805`).  Linked cards are
  restored without their locks (`state.c:1826`): that pass can add a user element
  between another process's lookup and its add, whose check then fails, and `init()`
  runs on a card that had not changed.
* **`snd_output_close` is not looked at** (`state.c:1712`).  When the disk fills at that
  flush a truncated `<file>.new` is renamed over the state file.  `FileComplete`,
  `NeverOlder` and `StoresWhatWasAsked` exempt the file that came of it (`cut`).
* **A load that fails is not looked at** (`state.c:1678-1687`; the test is between `#if 0`
  and `#endif`).  When the state file cannot be opened or is cut off, a store goes on with
  nothing or with a part of it, and a store of one card drops the state of all the
  others.  `NeverOlder` exempts the cards a load did not get (`unread`).
* **A check that cannot look** (`state.c:1551-1560`, 1593-1610, 925-1023).  When in the
  check pass the card cannot be opened, its name or its elements cannot be listed, or an
  element cannot be looked at or added, the check fails, and `init()` changes a card that
  was as stored.  `InitOnlyWhenNeeded` exempts the card and the process that met the
  failure (`hindered`).
* **Levels that cannot be asked for** (`state.c:1054-1084`).  The old number is then
  written although the range has changed, and the exit code is zero.  `ZeroMeansRestored`
  exempts such elements (`untold`).
* **`set_controls`.**  With `-F` only the result of the last entry is returned, missing
  items and channels are written as 0, and a one-sided change of a range is not seen
  (`omin != nmin && omax != nmax`).  With `-P` a card fails whole when numids have
  shifted, also in the check pass, and so does a user element that is added again under
  another numid, which nevertheless stays.  User elements on the card hide new elements
  of the driver from the comparison of the counts (1613-1621).  A state whose controls
  are no compound returns with the handle open.  The message near line 1758 is given the
  wrong error.  The conversion in place is idempotent only because the comment has a
  "dbvalue" afterwards.
* **`init_parse.c`.**  A `CTL{write}==` that fails leaves the error set and ends the
  whole parse.  A value that could not be written is nevertheless marked as known. A
  search with an empty value selects another control and does not note it
  (`init_parse.c:763-780`).  The loop of `get_ctl_value` over bytes counts up and not
  down (325) and runs out of its buffer.  Assigning `CTL{numid}` has no effect, a
  `CONFIG` match is reported as an unknown key, `CONFIG=` ends the line, a value list
  "50%" sets the second channel to 0.  A failing `init_space` skips the card silently.
  A file that includes itself is not bounded.  A directory whose next file cannot be
  opened turns an `EXIT="0"` into an error.
* **`monitor.c`**: with no card at all `epoll_wait` is given 0 entries and the monitor
  ends; a card plugged in again while its stale entry is still in the list is passed
  over by name and watched only from the next node on (`EveryCardIsFound` exempts it); a
  handle with several descriptors that is freed in one batch of events may be named by a
  later one of the batch; a retry that cannot open a card ends the monitor.

### alsaloop

* **Two equal loopbacks in one thread** (`alsaloop.c:789`).  The test compares the
  position in the poll array, which has grown by the loopbacks before, with the
  number of descriptors of the loopback itself: the second of two equal ones is never
  served, although "All jobs with same thread numbers are run within one thread."
  (`alsaloop.1:149-150`).  `ServedOnlyInReach` states it for every arrangement of three
  jobs: the first is served, and a second that redirects a control after one that does
  not; each other job waits for ever.  A copy of a mixer value that fails is not tried
  again (`pcmjob.c:1834`): `MixersAgree` exempts the job until its next copy.
* **Silence over waiting frames** (`pcmjob.c:1013`, `pcmjob.c:974`).  After a capture
  overrun silence is put at the playback position and the position moves over it, over
  frames that have not been played; and `buf_pos` is unsigned and goes below zero before
  the modulo, which is right only for sizes that divide 2^64.  `EveryFrameInTurn` is claimed
  until then.  After an underrun `buf_remove` of the difference of the delays leaves less
  room for the capture than there is.
* A negative result of `readit` would be added as an unsigned number
  (`pcmjob.c:1956`); starting a device with an empty buffer fails and ends the
  program; any event of the playback card's mixer stops and restarts the job.  When the
  playback device holds more than the latency, no resynchronisation takes that back:
  `LatencyKept` says so.
* **A latency larger than the playback buffer** (`pcmjob.c:488-490`).  The job starts with
  silence of the latency, and what the device cannot hold stays in the ring.  The room
  that `readit` leaves itself counts captured frames only, not that silence: after an
  underrun the ring is read into over what is still to be played, the playback count is
  larger than the ring, and the resynchronisation that cuts the queue to the latency
  leaves a position where a frame lies that was given up.  With a latency of two
  frames, a playback buffer of one and a capture buffer of two, `EveryFrameInTurn` is
  violated.

### axfer

* **The count after a stop** (`xfer-libasound.c:773-776`).  The comment says that the
  stream is recovered and processing continues, but `irq_rw_process_frames` (417-420)
  leaves `frame_count` at the request: the caller counts frames that were not moved.
* **Widths.**  The 64-bit rest is cut to 32 bits before it is asked for
  (`subcmd-transfer.c:400`), so at a multiple of 2^32 nothing is asked for.  The limit of a
  container is tested with the request, and a request that passes it is cut in the
  middle while the count grows by the target (`container.c:390`): the header claims more
  than the limit, whose bytes are there (`HeaderIsTrue`).  A capture without a duration
  comes to that point (`container.c:331-332`), and the next request makes the room left
  wrap below zero: it is not cut, and reaches past the frame buffer.
* **Headers are rewritten unseen** (`container.c:426-432`, `subcmd-transfer.c:452`).  The
  result of the rewrite is dropped, and stdout cannot be rewritten: the header then keeps
  its first value.  The model has a rewrite that works.
* **A value that was never set** (`xfer-libasound-timer-mmap.c:172-182`).  The comment
  says that a "timeout is expected", and after one `xfer_libasound_wait_event` has not
  set `revents`, which is tested next: by chance the transfer ends with -EIO, starts the
  turn over or goes on.  The model has the three.
* With an explicit waiter a stop reaches the backend by interrupts as POLLERR and ends
  the transfer (`xfer-libasound-irq-mmap.c:108-111`), while `snd_pcm_wait` reports
  -EPIPE and it recovers.
* An interrupted `recursive_write` returns 0 and the whole request is counted; EINTR
  after the end of the file meets `assert(!cntr->eof)`; a first request of less than the
  four bytes read ahead underflows for raw data; at an EOF in the middle of a request
  what the buffer held before is played, and frames in the cache are dropped.

### aplay

* **Headers** (`aplay.c:2852-2855`).  Nobody looks at the `lseek` and the `write` that put
  the length into a header, and stdout is not rewritten (3362): the header then says what
  was asked for, never less than there is (`WaveHeaderIsTrue`).  The first file of a
  series keeps its name when the `rename` fails, unseen as well (3195).
* `pcm_readv` returns the count that was asked for whatever happened, so a signal in
  split mode stores old frames; a chunk is read whole though only its rest is saved; a
  signal that breaks the call to the device leaves the header at its estimate; a split
  recording opens its files without truncating them; `--use-strftime` names may
  coincide; SIGUSR1 is ignored in split mode; an end of file on the edge of a chunk
  plays one chunk of silence.

### The sequencer programs

* **aseqnet's poll array** (`aseqnet.c:526`).  It is compacted when it is filled and
  read by slot: with a slot free below one in use the server looks at the wrong entry,
  and either reads from a peer that has sent nothing, and waits, or never serves one
  that has.  The end of a peer is such a read, so the server may not notice that its
  last client has gone, though "The server will automatically quit." (`aseqnet.1:60`).
  `ReadNeverWaits` and `PeersAreServed` are claimed for rounds without such a slot.
* **A peer that does not read stops aseqnet** (`aseqnet.c:548`).  The buffer is flushed by
  a `write` that waits until the socket takes it: no event, no other peer and no end of a
  peer is seen until then.  `PeersAreServed` exempts that wait (`Blocked`).
* aseqnet also keeps the descriptor of a peer that left, dies of SIGPIPE when it writes
  to one, takes a packet that arrives in two parts for two packets, and writes past its
  buffer after an ENOSPC.
* **arecordmidi, aplaymidi.**  A time stamp that goes back shifts all later events of
  its track (`delta_time` sets `last_tick` to the older stamp; `Sorted` holds because
  the delta is clamped).  A delta of 2^28 ticks or more takes five bytes, and `read_var`
  refuses the file.  `-n` compares for equality only after a burst of events, and a
  burst that passes the number is never noticed (`arecordmidi.c:908`). Echoes of the
  metronome count as events.  aplaymidi refuses more than 1000 tracks.

## 6. Not modelled

* Everywhere: the text of files, values, messages and logs.
* Boot groups: several groups in one file, the second `init_ucm` that `init()` makes
  (`FLAG_UCM_BOOT`), sync times that differ between the members, a card unplugged under
  a running command, a card that joins after the primary has restored (nobody
  restores it but its own next command).
* Daemon: process ids used again; a start that finds a daemon about to quit and
  leaves none behind (`daemon.c:352`) is in the model, and no property excludes it.
* Init language: formats and substitutions, conversion of values, sysfs, programs.
* alsaloop: two separate buffers with a conversion between them, resampling and
  pitch, suspend, the configuration.
* Restore: a file that is changed while it is read; `init()` by another program.
* axfer: FFADO, the list of devices, the text of the headers, a rewrite of a header that
  fails, what a request past the frame buffer overwrites.
* aplay: VOC and AU files, pause, the level meter, the choice of hardware parameters,
  channel files that differ from each other.
* aseqnet: a `write` that a signal cuts short; that peer misses the rest of the buffer.
* Sequencer programs: the metronome, the bytes of events, pieces of long system
  exclusive messages, RIFF files, UMP files (aplaymidi2, arecordmidi2), and the tools
  that print, connect or send one event.
* Whole programs.  `clean`, `info` and `export` are one pass.  amixer, speaker-test, iecset,
  alsaucm and nhlt-dmic-info are sequential around one library call or one loop.
  alsamixer is a curses interface, with volumes in floating point.  alsabat is a
  numeric analysis.  alsatplg, the largest of all, is a compiler: it keeps no state
  over a run, nothing is concurrent, and a model of it would repeat its tables.  amidi is
  small.  The scripts write a configuration once.

These programs hold most of the lines of the repository, and few of its
hazards; the models follow the hazards.

## 7. What could follow

1. alsaloop with two buffers and the resampler between them.
2. amidi's receive loop with its timeout and its filter.
3. Proofs: how many faults `OnePrimary` of the boot groups stands, the safety core of
   `PeersAreServed`, alsaloop with a latency larger than the playback buffer.
