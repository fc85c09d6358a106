---------------------------- MODULE DaemonInstances ----------------------------
(***************************************************************************)
(* alsactl/daemon.c: the pid file through which starting daemons find each *)
(* other and the kill and nrestore commands find the daemon.               *)
(*                                                                         *)
(* One action is one system call on the pid file, one signal, or one turn  *)
(* of the main loop, of which only what the signals ask for is kept        *)
(* (StateDaemon.tla has the rest).  The file is named by the daemon that   *)
(* created it: a daemon creates it at most once, so the name tells whether *)
(* the file was replaced meanwhile.  A process id is not used again.       *)
(***************************************************************************)
EXTENDS Naturals

CONSTANTS Starters,      \* the "daemon" and "rdaemon" commands
          Killers,       \* the "kill" and "nrestore" commands
          None,          \* no pid file, no pid in it
          MaxFaults      \* bound on daemons that die and pid file errors

ASSUME NoneAssumption == None \notin Starters
ASSUME KindsAssumption == Starters \cap Killers = {}
ASSUME MaxFaultsAssumption == MaxFaults \in Nat

VARIABLES path,          \* who created the file at the pid file's path
          text,          \* the daemons that wrote their pid to their file
          pc, seen,      \* each process: the next step; the pid it read
          flags,         \* quit, save_now, and what SIGUSR2 does now
          cmd,           \* what each kill command asks for
          crashes, errors

\* History, never read by a step.
VARIABLES overlap,       \* two starts were under way at the same time
          ready          \* the daemons in their loop when a command read the file

system == <<path, text, pc, seen, flags, cmd, crashes, errors>>
vars == <<system, overlap, ready>>

Procs == Starters \cup Killers
Commands == {"quit", "rescan", "save"}
Initial == [quit |-> FALSE, save_now |-> FALSE, usr2 |-> "default"]

Starting == {"call", "look", "install", "create", "write"}
Looping == {"run", "saving"}
Ended == {"answered", "done", "dead", "killed", "sent", "unsent"}
Registering == {"create", "write"}

TypeOK ==
    /\ path \in Starters \cup {None}
    /\ text \subseteq Starters
    /\ pc \in [Procs -> {"new", "send", "out"} \cup Starting \cup Looping \cup Ended]
    /\ seen \in [Procs -> Starters \cup {None}]
    /\ flags \in [Starters -> [quit : BOOLEAN, save_now : BOOLEAN,
                               usr2 : {"default", "save", "quit"}]]
    /\ cmd \in [Killers -> Commands]
    /\ crashes \in 0 .. MaxFaults /\ errors \in 0 .. MaxFaults
    /\ overlap \in BOOLEAN
    /\ ready \in [Killers -> SUBSET Starters]

Init ==
    /\ path = None /\ text = {}
    /\ pc = [p \in Procs |-> "new"] /\ seen = [p \in Procs |-> None]
    /\ flags = [p \in Starters |-> Initial]
    /\ cmd \in [Killers -> Commands]
    /\ crashes = 0 /\ errors = 0
    /\ overlap = FALSE /\ ready = [k \in Killers |-> {}]

Go(p, step) == pc' = [pc EXCEPT ![p] = step]
Faults == crashes + errors
Alive(p) == pc[p] \notin {"new"} \cup Ended

\* read_pid_file: no file and a file without a whole pid are both errors.
ReadPid == IF path \in text THEN path ELSE None

\* The flags of a daemon after a signal; a second SIGUSR2 is one to quit only.  What
\* becomes of a rescan is in StateDaemon.tla: it changes nothing here.
After(f, c) ==
    CASE c = "quit"   -> [f EXCEPT !.quit = TRUE]
      [] c = "rescan" -> f
      [] c = "save"   -> [f EXCEPT !.quit = TRUE, !.usr2 = "quit",
                                   !.save_now = @ \/ f.usr2 = "save"]

\* kill(target, c) by p, which goes on at step: without a handler the target dies.
Signal(p, step, target, c) ==
    IF flags[target].usr2 = "default"
    THEN pc' = [pc EXCEPT ![p] = step, ![target] = "killed"] /\ UNCHANGED flags
    ELSE Go(p, step) /\ flags' = [flags EXCEPT ![target] = After(@, c)]

--------------------------------------------------------------------------------
\* check_another_instance, line 348: is there a pid?
Start(p) ==
    /\ pc[p] = "new"
    /\ seen' = [seen EXCEPT ![p] = ReadPid]
    /\ Go(p, IF ReadPid = None THEN "install" ELSE "call")
    /\ overlap' = (overlap \/ \E q \in Starters : pc[q] \in Starting)
    /\ UNCHANGED <<path, text, flags, cmd, crashes, errors, ready>>

\* Line 351: does the process take a rescan signal?
Call(p) ==
    /\ pc[p] = "call"
    /\ IF Alive(seen[p]) THEN Signal(p, "look", seen[p], "rescan")
       ELSE Go(p, "install") /\ UNCHANGED flags
    /\ UNCHANGED <<path, text, seen, cmd, crashes, errors, overlap, ready>>

\* Lines 352-356: after a while, is there still a pid?
LookInverted(p) ==                        \* mutant: if (pid < 0) return 1
    /\ pc[p] = "look"
    /\ Go(p, IF ReadPid = None THEN "answered" ELSE "install")
    /\ UNCHANGED <<path, text, seen, flags, cmd, crashes, errors, overlap, ready>>
Look(p) ==
    /\ pc[p] = "look"
    /\ Go(p, IF ReadPid # None THEN "answered" ELSE "install")
    /\ UNCHANGED <<path, text, seen, flags, cmd, crashes, errors, overlap, ready>>

\* rescan = 1 and the five calls of signal().
InstallNothing(p) ==                      \* mutant: no handlers
    /\ pc[p] = "install"
    /\ Go(p, "create")
    /\ UNCHANGED <<path, text, seen, flags, cmd, crashes, errors, overlap, ready>>
Install(p) ==
    /\ pc[p] = "install"
    /\ flags' = [flags EXCEPT ![p].usr2 = "save"]
    /\ Go(p, "create")
    /\ UNCHANGED <<path, text, seen, cmd, crashes, errors, overlap, ready>>

\* write_pid_file: open with O_EXCL; state_daemon does not look at the result.
Create(p) ==
    /\ pc[p] = "create"
    /\ IF path = None THEN path' = p /\ Go(p, "write")
       ELSE Go(p, "run") /\ UNCHANGED path
    /\ UNCHANGED <<text, seen, flags, cmd, crashes, errors, overlap, ready>>

CreateFails(p) ==
    /\ pc[p] = "create" /\ Faults < MaxFaults
    /\ errors' = errors + 1
    /\ Go(p, "run")
    /\ UNCHANGED <<path, text, seen, flags, cmd, crashes, overlap, ready>>

\* The pid is written through the descriptor: the path may be gone by then.
Write(p) ==
    /\ pc[p] = "write"
    /\ text' = text \cup {p}
    /\ Go(p, "run")
    /\ UNCHANGED <<path, seen, flags, cmd, crashes, errors, overlap, ready>>

\* A short write: unlink(pidfile).
WriteFails(p) ==
    /\ pc[p] = "write" /\ Faults < MaxFaults
    /\ errors' = errors + 1
    /\ path' = None
    /\ Go(p, "run")
    /\ UNCHANGED <<text, seen, flags, cmd, crashes, overlap, ready>>

--------------------------------------------------------------------------------
\* while (!quit || save_now): a save that was asked for comes first.
SaveNowForgetsQuit(p) ==                  \* mutant: changed = save_now = quit = 0
    /\ pc[p] = "run" /\ flags[p].save_now
    /\ flags' = [flags EXCEPT ![p].save_now = FALSE, ![p].quit = FALSE]
    /\ Go(p, "saving")
    /\ UNCHANGED <<path, text, seen, cmd, crashes, errors, overlap, ready>>
SaveNowUnlinks(p) ==                      \* mutant: the pid file goes before the save
    /\ pc[p] = "run" /\ flags[p].save_now
    /\ flags' = [flags EXCEPT ![p].save_now = FALSE]
    /\ path' = None
    /\ Go(p, "saving")
    /\ UNCHANGED <<text, seen, cmd, crashes, errors, overlap, ready>>
SaveNow(p) ==
    /\ pc[p] = "run" /\ flags[p].save_now
    /\ flags' = [flags EXCEPT ![p].save_now = FALSE]
    /\ Go(p, "saving")
    /\ UNCHANGED <<path, text, seen, cmd, crashes, errors, overlap, ready>>

SaveReturns(p) ==
    /\ pc[p] = "saving"
    /\ Go(p, "run")
    /\ UNCHANGED <<path, text, seen, flags, cmd, crashes, errors, overlap, ready>>

Quit(p) ==
    /\ pc[p] = "run" /\ flags[p].quit /\ ~flags[p].save_now
    /\ Go(p, "out")
    /\ UNCHANGED <<path, text, seen, flags, cmd, crashes, errors, overlap, ready>>

\* poll fails, or there is no memory for it.
PollFails(p) ==
    /\ pc[p] = "run" /\ ~flags[p].quit /\ ~flags[p].save_now
    /\ Go(p, "out")
    /\ UNCHANGED <<path, text, seen, flags, cmd, crashes, errors, overlap, ready>>

\* remove(pidfile), whoever created the file that is there.
Out(p) ==
    /\ pc[p] = "out"
    /\ path' = None
    /\ Go(p, "done")
    /\ UNCHANGED <<text, seen, flags, cmd, crashes, errors, overlap, ready>>

Crash(p) ==
    /\ Alive(p) /\ Faults < MaxFaults
    /\ crashes' = crashes + 1
    /\ Go(p, "dead")
    /\ UNCHANGED <<path, text, seen, flags, cmd, errors, overlap, ready>>

--------------------------------------------------------------------------------
\* state_daemon_kill: read the pid, signal the process.
KillRead(k) ==
    /\ pc[k] = "new"
    /\ seen' = [seen EXCEPT ![k] = ReadPid]
    /\ Go(k, IF ReadPid = None THEN "unsent" ELSE "send")
    /\ ready' = [ready EXCEPT ![k] = {p \in Starters : pc[p] \in Looping}]
    /\ UNCHANGED <<path, text, flags, cmd, crashes, errors, overlap>>

KillSend(k) ==
    /\ pc[k] = "send"
    /\ IF Alive(seen[k]) THEN Signal(k, "sent", seen[k], cmd[k])
       ELSE Go(k, "unsent") /\ UNCHANGED flags
    /\ UNCHANGED <<path, text, seen, cmd, crashes, errors, overlap, ready>>

--------------------------------------------------------------------------------
StarterStep(p) ==
    \/ Start(p) \/ Call(p) \/ Look(p) \/ Install(p) \/ Create(p) \/ Write(p)
    \/ SaveNow(p) \/ SaveReturns(p) \/ Quit(p) \/ Out(p)

KillerStep(k) == KillRead(k) \/ KillSend(k)

Next ==
    \/ \E p \in Starters : \/ StarterStep(p) \/ CreateFails(p) \/ WriteFails(p)
                           \/ PollFails(p) \/ Crash(p)
    \/ \E k \in Killers : KillerStep(k)
    \/ (\A p \in Procs : pc[p] \in Ended) /\ UNCHANGED vars

Spec == Init /\ [][Next]_vars

\* A process that has begun goes on; nobody has to give a command.
FairSpec ==
    /\ Spec
    /\ \A p \in Starters : WF_vars(pc[p] # "new" /\ StarterStep(p))
    /\ \A k \in Killers : WF_vars(KillSend(k))

--------------------------------------------------------------------------------
Undisturbed == ~overlap /\ crashes = 0 /\ errors = 0
Daemons == {p \in Starters : pc[p] \in Registering \cup Looping \cup {"out"}}

\* There is one daemon, from before it creates the pid file until it has removed
\* it, as long as starts do not overlap and nothing fails: a start during the last
\* save of another ends (check_another_instance and the order of daemon.c:447-454).
OneDaemon == Undisturbed => \A p, q \in Daemons : p = q

\* A start that read the pid of a daemon, which was then alive and had its file in
\* place up to the decision, does not become a second daemon, whatever else starts,
\* ends, fails or dies (daemon.c:348-356).
NoSecondDaemon ==
    [][\A p \in Starters :
          pc[p] \in {"call", "look"} /\ pc'[p] = "install"
          => ~ (Alive(seen[p]) /\ path = seen[p])]_vars

\* No command and no start kills a daemon by a signal that it does not handle yet:
\* the handlers are there before the pid file is (daemon.c:373-378).
SignalsAreHandled == \A p \in Starters : pc[p] # "killed"

\* The daemon a command or a start signals to quit ends, after the save it may owe
\* and without waiting for the cards (daemon.c:380-382, 447-454).
SentIsDone ==
    \A k \in Killers : \A p \in Starters :
        pc[k] = "sent" /\ cmd[k] # "rescan" /\ seen[k] = p ~> pc[p] \in Ended

\* A command that signals nobody left no daemon behind that was in its loop when the
\* command read the pid file and still is when it ends.
Missed(k) == pc[k] = "unsent" /\ \E p \in ready[k] : pc[p] \in Looping
CommandReaches(k) == pc[k] = "new" \/ pc[k] = "send" \/ ~Missed(k)

\* Commands reach the daemon as long as starts do not overlap and nothing fails
\* (state_daemon_kill, daemon.c:335-340; the pid file is written before the loop).
CommandsReach == Undisturbed => \A k \in Killers : CommandReaches(k)
================================================================================
