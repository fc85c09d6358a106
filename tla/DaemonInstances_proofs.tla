------------------------- MODULE DaemonInstances_proofs ------------------------
(***************************************************************************)
(* Theorems about the pid file (alsactl/daemon.c), for every number of     *)
(* daemons and commands and every number of faults.                        *)
(***************************************************************************)
EXTENDS DaemonInstances, Integers, SequenceTheorems, TLAPS

USE NoneAssumption, KindsAssumption, MaxFaultsAssumption

(***************************************************************************)
(* Types.                                                                  *)
(***************************************************************************)
Flags == [quit : BOOLEAN, save_now : BOOLEAN, usr2 : {"default", "save", "quit"}]

\* A signal leaves the flags of a daemon flags, and its handlers installed.
LEMMA AfterFacts ==
  ASSUME NEW f \in Flags, NEW c \in Commands
  PROVE  /\ After(f, c) \in Flags
         /\ f.usr2 # "default" => After(f, c).usr2 # "default"
<1>1. CASE c = "quit"
  BY <1>1 DEF After, Flags
<1>2. CASE c = "rescan"
  BY <1>2 DEF After, Flags
<1>3. CASE c = "save"
  <2>1. After(f, c) = [f EXCEPT !.quit = TRUE, !.usr2 = "quit",
                                !.save_now = @ \/ f.usr2 = "save"]
    BY <1>3 DEF After
  <2>2. (f.save_now \/ f.usr2 = "save") \in BOOLEAN
    BY DEF Flags
  <2>3. QED
    BY <2>1, <2>2 DEF Flags
<1>4. QED
  BY <1>1, <1>2, <1>3 DEF Commands

LEMMA SignalType ==
  ASSUME TypeOK, NEW p \in Procs, NEW t \in Starters, NEW c \in Commands,
         NEW step \in {"look", "sent"}, Signal(p, step, t, c)
  PROVE  /\ pc' \in [Procs -> {"new", "send", "out"} \cup Starting \cup Looping \cup Ended]
         /\ flags' \in [Starters -> Flags]
<1>1. flags \in [Starters -> Flags] /\ After(flags[t], c) \in Flags
  BY AfterFacts DEF TypeOK, Flags
<1>2. QED
  BY <1>1 DEF Signal, Go, TypeOK, Starting, Ended, Procs

\* Who goes on to signal somebody has read a pid.
Asked == \A p \in Procs : pc[p] \in {"call", "look", "send"} => seen[p] # None

LEMMA TypeStep == TypeOK /\ Asked /\ [Next]_vars => TypeOK'
<1> SUFFICES ASSUME TypeOK, Asked, [Next]_vars PROVE TypeOK'
  OBVIOUS
<1> DEFINE Steps == {"new", "send", "out"} \cup Starting \cup Looping \cup Ended
<1>0. ReadPid \in Starters \cup {None}
  BY DEF TypeOK, ReadPid
<1>1. CASE UNCHANGED vars
  BY <1>1 DEF TypeOK, vars, system
<1>2. ASSUME NEW p \in Starters, Call(p) PROVE TypeOK'
  <2>0. seen[p] \in Starters
    BY <1>2 DEF Call, Asked, TypeOK, Procs
  <2>1. CASE Alive(seen[p])
    <3>1. Signal(p, "look", seen[p], "rescan")
      BY <1>2, <2>1 DEF Call
    <3>2. pc' \in [Procs -> Steps] /\ flags' \in [Starters -> Flags]
      BY <2>0, <3>1, SignalType DEF Procs, Commands
    <3>3. QED
      BY <1>2, <3>2 DEF Call, TypeOK, Flags
  <2>2. CASE ~Alive(seen[p])
    BY <1>2, <2>2 DEF Call, Go, TypeOK, Starting
  <2>3. QED
    BY <2>1, <2>2
<1>3. ASSUME NEW k \in Killers, KillSend(k) PROVE TypeOK'
  <2>0. seen[k] \in Starters /\ cmd[k] \in Commands
    BY <1>3 DEF KillSend, Asked, TypeOK, Procs
  <2>1. CASE Alive(seen[k])
    <3>1. Signal(k, "sent", seen[k], cmd[k])
      BY <1>3, <2>1 DEF KillSend
    <3>2. pc' \in [Procs -> Steps] /\ flags' \in [Starters -> Flags]
      BY <2>0, <3>1, SignalType DEF Procs
    <3>3. QED
      BY <1>3, <3>2 DEF KillSend, TypeOK, Flags
  <2>2. CASE ~Alive(seen[k])
    BY <1>3, <2>2 DEF KillSend, Go, TypeOK, Ended
  <2>3. QED
    BY <2>1, <2>2
<1>4. ASSUME NEW k \in Killers, KillRead(k) PROVE TypeOK'
  BY <1>4, <1>0 DEF KillRead, Go, TypeOK, Ended
<1>5. ASSUME NEW p \in Starters, Start(p) \/ Look(p) \/ Create(p) \/ Write(p) PROVE TypeOK'
  BY <1>5, <1>0 DEF Start, Look, Create, Write, Go, TypeOK, Starting, Looping, Ended
<1>6. ASSUME NEW p \in Starters, Install(p) \/ SaveNow(p) PROVE TypeOK'
  <2>1. pc' \in [Procs -> Steps]
    BY <1>6 DEF Install, SaveNow, Go, TypeOK, Starting, Looping
  <2>2. flags' \in [Starters -> Flags]
    <3>1. flags \in [Starters -> Flags]
      BY DEF TypeOK, Flags
    <3>2. CASE Install(p)
      <4>1. [flags[p] EXCEPT !.usr2 = "save"] \in Flags
        BY <3>1 DEF Flags
      <4>2. QED
        BY <3>1, <3>2, <4>1 DEF Install
    <3>3. CASE SaveNow(p)
      <4>1. [flags[p] EXCEPT !.save_now = FALSE] \in Flags
        BY <3>1 DEF Flags
      <4>2. QED
        BY <3>1, <3>3, <4>1 DEF SaveNow
    <3>4. QED
      BY <1>6, <3>2, <3>3
  <2>3. QED
    BY <1>6, <2>1, <2>2 DEF Install, SaveNow, TypeOK, Flags
<1>7. ASSUME NEW p \in Starters, SaveReturns(p) \/ Quit(p) \/ PollFails(p) \/ Out(p)
      PROVE TypeOK'
  BY <1>7 DEF SaveReturns, Quit, PollFails, Out, Go, TypeOK, Looping, Ended
<1>8. ASSUME NEW p \in Starters, CreateFails(p) \/ WriteFails(p) \/ Crash(p) PROVE TypeOK'
  <2>1. crashes' \in 0 .. MaxFaults /\ errors' \in 0 .. MaxFaults
    BY <1>8 DEF CreateFails, WriteFails, Crash, Faults, TypeOK
  <2>2. QED
    BY <1>8, <2>1 DEF CreateFails, WriteFails, Crash, Go, TypeOK, Looping, Ended
<1>9. QED
  BY <1>1, <1>2, <1>3, <1>4, <1>5, <1>6, <1>7, <1>8 DEF Next, StarterStep, KillerStep

(***************************************************************************)
(* Whoever can be found in the pid file has its handlers, so that a signal *)
(* sets a flag of its target and does nothing else.                        *)
(***************************************************************************)
Installed(p) == flags[p].usr2 # "default"

\* The pid is written by daemons with handlers, and they keep them.
WrittenInstalled ==
    /\ \A p \in Starters : pc[p] \in Registering \/ p \in text => Installed(p)
    /\ \A p \in Procs : seen[p] # None => seen[p] \in text

HInv == TypeOK /\ Asked /\ WrittenInstalled /\ SignalsAreHandled

LEMMA HInit == Init => HInv
<1> SUFFICES ASSUME Init PROVE HInv
  OBVIOUS
<1>1. flags \in [Starters -> Flags]
  BY DEF Init, Initial, Flags
<1>2. TypeOK
  <2>1. 0 \in 0 .. MaxFaults
    OBVIOUS
  <2>2. pc \in [Procs -> {"new", "send", "out"} \cup Starting \cup Looping \cup Ended]
    BY DEF Init
  <2>3. ready \in [Killers -> SUBSET Starters]
    BY DEF Init
  <2>4. QED
    BY <1>1, <2>1, <2>2, <2>3 DEF Init, TypeOK, Flags
<1>3. Asked /\ SignalsAreHandled
  BY DEF Init, Asked, SignalsAreHandled, Procs
<1>4. WrittenInstalled
  BY DEF Init, WrittenInstalled, Registering, Procs
<1>5. QED
  BY <1>2, <1>3, <1>4 DEF HInv

LEMMA SignalSent ==
  ASSUME HInv, NEW p \in Procs, NEW step \in {"look", "sent"}, NEW c \in Commands,
         seen[p] # None, Signal(p, step, seen[p], c)
  PROVE  /\ Go(p, step)
         /\ \A q \in Starters : Installed(q) => Installed(q)'
<1>1. seen[p] \in Starters /\ Installed(seen[p])
  BY DEF HInv, TypeOK, WrittenInstalled
<1>2. Go(p, step) /\ flags' = [flags EXCEPT ![seen[p]] = After(@, c)]
  BY <1>1 DEF Signal, Installed
<1>3. After(flags[seen[p]], c).usr2 # "default"
  BY <1>1, AfterFacts DEF HInv, TypeOK, Flags, Installed
<1>4. QED
  BY <1>1, <1>2, <1>3 DEF Installed, HInv, TypeOK

\* What a step does to one process: where it goes on, and that handlers stay.
LEMMA HandlersStay ==
  ASSUME HInv, [Next]_vars
  PROVE  \A q \in Starters : Installed(q) => Installed(q)'
<1>1. ASSUME NEW p \in Starters, Call(p) PROVE \A q \in Starters : Installed(q) => Installed(q)'
  <2>1. seen[p] # None
    BY <1>1 DEF Call, HInv, Asked, Procs
  <2>2. QED
    BY <1>1, <2>1, SignalSent DEF Call, Procs, Commands, Installed
<1>2. ASSUME NEW k \in Killers, KillSend(k) PROVE \A q \in Starters : Installed(q) => Installed(q)'
  <2>1. seen[k] # None /\ cmd[k] \in Commands
    BY <1>2 DEF KillSend, HInv, Asked, Procs, TypeOK
  <2>2. QED
    BY <1>2, <2>1, SignalSent DEF KillSend, Procs, Installed
<1>3. ASSUME NEW p \in Starters, Install(p) \/ SaveNow(p)
      PROVE \A q \in Starters : Installed(q) => Installed(q)'
  BY <1>3 DEF Install, SaveNow, Installed, HInv, TypeOK
<1>4. ASSUME UNCHANGED flags PROVE \A q \in Starters : Installed(q) => Installed(q)'
  BY <1>4 DEF Installed
<1>5. QED
  BY <1>1, <1>2, <1>3, <1>4
     DEF Next, StarterStep, KillerStep, vars, system, Start, Look, Create, Write, SaveReturns,
         Quit, Out, CreateFails, WriteFails, PollFails, Crash, KillRead

LEMMA HStep == HInv /\ [Next]_vars => HInv'
<1> SUFFICES ASSUME HInv, [Next]_vars PROVE HInv'
  OBVIOUS
<1>1. TypeOK'
  BY TypeStep DEF HInv
<1>2. \A q \in Starters : Installed(q) => Installed(q)'
  BY HandlersStay
<1>3. ReadPid # None => ReadPid \in text
  BY DEF ReadPid
<1> DEFINE Rest == Asked' /\ SignalsAreHandled' /\ WrittenInstalled'
<1>4. ASSUME NEW p \in Procs, NEW step \in {"look", "sent"}, Go(p, step),
             seen[p] # None, UNCHANGED <<text, seen>>
      PROVE  Rest
  BY <1>2, <1>4 DEF Go, HInv, TypeOK, Asked, SignalsAreHandled, WrittenInstalled, Registering, Procs
<1>5. ASSUME UNCHANGED vars PROVE Rest
  BY <1>5 DEF vars, system, HInv, Asked, SignalsAreHandled, WrittenInstalled, Installed
<1>6. ASSUME NEW p \in Starters, Call(p) PROVE Rest
  <2>1. seen[p] # None
    BY <1>6 DEF Call, HInv, Asked, Procs
  <2>2. CASE Alive(seen[p])
    <3>1. Go(p, "look")
      BY <1>6, <2>1, <2>2, SignalSent DEF Call, Procs, Commands
    <3>2. QED
      BY <1>4, <1>6, <2>1, <3>1 DEF Call, Procs
  <2>3. CASE ~Alive(seen[p])
    BY <1>2, <1>6, <2>3 DEF Call, Go, HInv, TypeOK, Asked, SignalsAreHandled, WrittenInstalled,
       Registering, Procs
  <2>4. QED
    BY <2>2, <2>3
<1>7. ASSUME NEW k \in Killers, KillSend(k) PROVE Rest
  <2>1. seen[k] # None /\ cmd[k] \in Commands
    BY <1>7 DEF KillSend, HInv, Asked, Procs, TypeOK
  <2>2. CASE Alive(seen[k])
    <3>1. Go(k, "sent")
      BY <1>7, <2>1, <2>2, SignalSent DEF KillSend, Procs
    <3>2. QED
      BY <1>4, <1>7, <2>1, <3>1 DEF KillSend, Procs
  <2>3. CASE ~Alive(seen[k])
    BY <1>2, <1>7, <2>3 DEF KillSend, Go, HInv, TypeOK, Asked, SignalsAreHandled,
       WrittenInstalled, Registering, Procs
  <2>4. QED
    BY <2>2, <2>3
<1>8. ASSUME NEW p \in Starters, Start(p) PROVE Rest
  BY <1>2, <1>3, <1>8 DEF Start, Go, HInv, TypeOK, Asked, SignalsAreHandled, WrittenInstalled,
     Registering, Procs
<1>9. ASSUME NEW k \in Killers, KillRead(k) PROVE Rest
  BY <1>2, <1>3, <1>9 DEF KillRead, Go, HInv, TypeOK, Asked, SignalsAreHandled, WrittenInstalled,
     Registering, Procs
<1>10. ASSUME NEW p \in Starters, Install(p) PROVE Rest
  <2>1. Installed(p)'
    BY <1>10 DEF Install, Installed, HInv, TypeOK
  <2>2. QED
    BY <1>2, <1>10, <2>1 DEF Install, Go, HInv, TypeOK, Asked, SignalsAreHandled,
       WrittenInstalled, Registering, Procs
<1>11. ASSUME NEW p \in Starters, Write(p) PROVE Rest
  BY <1>2, <1>11 DEF Write, Go, HInv, TypeOK, Asked, SignalsAreHandled, WrittenInstalled,
     Registering, Procs
<1>12. ASSUME NEW p \in Starters,
              \/ Look(p) \/ Create(p) \/ SaveNow(p) \/ SaveReturns(p) \/ Quit(p) \/ Out(p)
              \/ CreateFails(p) \/ WriteFails(p) \/ PollFails(p) \/ Crash(p)
       PROVE Rest
  BY <1>2, <1>12 DEF Look, Create, SaveNow, SaveReturns, Quit, Out, CreateFails, WriteFails,
     PollFails, Crash, Go, HInv, TypeOK, Asked, SignalsAreHandled, WrittenInstalled, Registering,
     Procs
<1>13. Rest
  BY <1>5, <1>6, <1>7, <1>8, <1>9, <1>10, <1>11, <1>12 DEF Next, StarterStep, KillerStep
<1>14. QED
  BY <1>1, <1>13 DEF HInv

LEMMA Handlers == Spec => []HInv
  BY HInit, HStep, PTL DEF Spec

\* The state of the pid file, the daemons and the commands is of its type for any
\* number of daemons, commands and faults.
THEOREM TypeCorrect == Spec => []TypeOK
<1>1. HInv => TypeOK
  BY DEF HInv
<1>2. QED
  BY <1>1, Handlers, PTL

\* No command and no start ever kills a daemon by a signal it does not handle yet
\* (daemon.c:373-378).
THEOREM NoSignalKills == Spec => []SignalsAreHandled
<1>1. HInv => SignalsAreHandled
  BY DEF HInv
<1>2. QED
  BY <1>1, Handlers, PTL

\* A start beside a registered daemon that lives on does not become a second one
\* (daemon.c:348-356).
THEOREM StepsAside == Spec => NoSecondDaemon
<1> DEFINE P == \A p \in Starters : pc[p] \in {"call", "look"} /\ pc'[p] = "install"
                                   => ~ (Alive(seen[p]) /\ path = seen[p])
<1>1. HInv /\ [Next]_vars => [P]_vars
  <2> SUFFICES ASSUME HInv, Next, NEW p \in Starters, pc[p] \in {"call", "look"},
                      pc'[p] = "install", Alive(seen[p]), path = seen[p]
               PROVE  FALSE
    OBVIOUS
  <2>1. seen[p] # None /\ seen[p] \in text
    BY DEF HInv, Asked, WrittenInstalled, Procs
  <2>2. ReadPid # None
    BY <2>1 DEF ReadPid
  <2>3. ASSUME NEW q \in Procs, NEW step, Go(q, step), q = p => step # "install" PROVE FALSE
    BY <2>3 DEF Go, HInv, TypeOK, Procs
  <2>4. ASSUME NEW q \in Starters, Call(q) PROVE FALSE
    <3>1. CASE Alive(seen[q])
      <4>1. seen[q] # None
        BY <2>4 DEF Call, HInv, Asked, Procs
      <4>2. Go(q, "look")
        BY <2>4, <3>1, <4>1, SignalSent DEF Call, Procs, Commands
      <4>3. QED
        BY <2>3, <4>2 DEF Procs
    <3>2. CASE ~Alive(seen[q])
      <4>1. Go(q, "install") /\ q # p
        BY <2>4, <3>2 DEF Call
      <4>2. QED
        BY <2>3, <4>1 DEF Procs
    <3>3. QED
      BY <3>1, <3>2
  <2>5. ASSUME NEW k \in Killers, KillSend(k) PROVE FALSE
    <3>1. seen[k] # None /\ cmd[k] \in Commands
      BY <2>5 DEF KillSend, HInv, Asked, Procs, TypeOK
    <3>2. Go(k, "sent") \/ Go(k, "unsent")
      BY <2>5, <3>1, SignalSent DEF KillSend, Procs
    <3>3. QED
      BY <2>3, <3>2 DEF Procs
  <2>6. ASSUME NEW k \in Killers, KillRead(k) PROVE FALSE
    BY <2>3, <2>6 DEF KillRead, Procs
  <2>7. ASSUME NEW q \in Starters, Look(q) PROVE FALSE
    BY <2>2, <2>3, <2>7 DEF Look, Procs
  <2>8. ASSUME NEW q \in Starters, Start(q) PROVE FALSE
    BY <2>3, <2>8 DEF Start, Procs
  <2>9. ASSUME NEW q \in Starters, Install(q) \/ Create(q) \/ Write(q) \/ SaveNow(q) PROVE FALSE
    BY <2>3, <2>9 DEF Install, Create, Write, SaveNow, Procs
  <2>10. ASSUME NEW q \in Starters,
                \/ SaveReturns(q) \/ Quit(q) \/ Out(q) \/ CreateFails(q) \/ WriteFails(q)
                \/ PollFails(q) \/ Crash(q)
         PROVE FALSE
    BY <2>3, <2>10 DEF SaveReturns, Quit, Out, CreateFails, WriteFails, PollFails, Crash, Procs
  <2>11. ~UNCHANGED vars
    BY DEF vars, system
  <2>12. QED
    BY <2>4, <2>5, <2>6, <2>7, <2>8, <2>9, <2>10, <2>11 DEF Next, StarterStep, KillerStep
<1>2. QED
  BY <1>1, Handlers, PTL DEF Spec, NoSecondDaemon

(***************************************************************************)
(* One daemon while nothing disturbs: the file names the one daemon there  *)
(* is, from its creation to its removal, and a start that is past its      *)
(* check has seen no file.  OneDaemon alone is not inductive, since it     *)
(* says nothing of the starts that are about to become daemons.            *)
(***************************************************************************)
OneStarts == \A p, q \in Starters : pc[p] \in Starting /\ pc[q] \in Starting => p = q

FileNamesDaemon == path # None => path \in Daemons /\ (pc[path] = "write" \/ path \in text)

DaemonHasFile ==
    \A p \in Daemons : pc[p] # "create" => path = p /\ (pc[p] = "write" \/ p \in text)

PastCheck ==
    \A p \in Starters : /\ pc[p] \in {"install", "create"} => path = None
                        /\ pc[p] \in {"call", "look"} /\ path # None => path = seen[p]

\* A daemon in its loop that a command found there is the one it signals.
FoundIsSignalled ==
    \A k \in Killers : \A p \in ready[k] :
        /\ pc[p] \notin {"new"} \cup Starting
        /\ pc[k] = "send" /\ pc[p] \in Looping => p = seen[k]
        /\ pc[k] = "unsent" => pc[p] \notin Looping

UInv == Undisturbed => /\ OneStarts /\ FileNamesDaemon /\ DaemonHasFile
                       /\ PastCheck /\ FoundIsSignalled

LEMMA UInit == Init => UInv
  BY DEF Init, UInv, OneStarts, FileNamesDaemon, DaemonHasFile, PastCheck, FoundIsSignalled,
         Daemons, Registering, Looping, Starting, Procs

\* A signal does nothing to where its target is.
LEMMA CallMoves ==
  ASSUME HInv, NEW p \in Starters, Call(p)
  PROVE  (Alive(seen[p]) /\ Go(p, "look")) \/ (~Alive(seen[p]) /\ Go(p, "install"))
<1>1. seen[p] # None
  BY DEF Call, HInv, Asked, Procs
<1>2. QED
  BY <1>1, SignalSent DEF Call, Procs, Commands

LEMMA KillSendMoves ==
  ASSUME HInv, NEW k \in Killers, KillSend(k)
  PROVE  Go(k, "sent") \/ (~Alive(seen[k]) /\ Go(k, "unsent"))
<1>1. seen[k] # None /\ cmd[k] \in Commands
  BY DEF KillSend, HInv, Asked, Procs, TypeOK
<1>2. QED
  BY <1>1, SignalSent DEF KillSend, Procs

LEMMA UStep == HInv /\ UInv /\ [Next]_vars => UInv'
<1> DEFINE U == OneStarts /\ FileNamesDaemon /\ DaemonHasFile /\ PastCheck /\ FoundIsSignalled
<1> SUFFICES ASSUME HInv, U, Undisturbed, Undisturbed', [Next]_vars PROVE U'
  <2>1. ASSUME HInv, UInv, [Next]_vars, Undisturbed' PROVE Undisturbed
    BY <2>1 DEF Undisturbed, HInv, TypeOK, Next, vars, system, StarterStep, KillerStep, Start,
       Call, Look, Install, Create, Write, SaveNow, SaveReturns, Quit, Out, CreateFails,
       WriteFails, PollFails, Crash, KillRead, KillSend
  <2>2. QED
    BY <2>1 DEF UInv
<1> USE DEF OneStarts, FileNamesDaemon, DaemonHasFile, PastCheck, FoundIsSignalled, Daemons,
            Registering, Looping, Starting, Ended, Procs
<1>0. /\ pc \in [Procs -> {"new", "send", "out"} \cup Starting \cup Looping \cup Ended]
      /\ path \in Starters \cup {None}
      /\ seen \in [Procs -> Starters \cup {None}]
      /\ ready \in [Killers -> SUBSET Starters]
      /\ text \subseteq Starters
  BY DEF HInv, TypeOK
<1> HIDE DEF Ended
<1>1. ASSUME UNCHANGED vars PROVE U'
  BY <1>1 DEF vars, system
<1>2. ASSUME NEW p \in Starters, Start(p) PROVE U'
  <2>1. \A q \in Starters : pc[q] \notin Starting
    BY <1>2 DEF Start, Undisturbed
  <2>2. ReadPid = path
    BY <1>0, <2>1 DEF ReadPid
  <2>3. QED
    BY <1>0, <1>2, <2>1, <2>2 DEF Start, Go
<1>3. ASSUME NEW p \in Starters, Call(p) PROVE U'
  <2>1. CASE Go(p, "look")
    BY <1>0, <1>3, <2>1 DEF Call, Go
  <2>2. CASE ~Alive(seen[p]) /\ Go(p, "install")
    <3>1. path = None
      BY <1>0, <1>3, <2>2 DEF Call, Alive, Ended
    <3>2. QED
      BY <1>0, <1>3, <2>2, <3>1 DEF Call, Go
  <2>3. QED
    BY <1>3, <2>1, <2>2, CallMoves
<1>4. ASSUME NEW p \in Starters, Look(p) PROVE U'
  <2>1. CASE ReadPid # None
    BY <1>0, <1>4, <2>1 DEF Look, Go
  <2>2. CASE ReadPid = None
    <3>1. path = None
      BY <1>0, <1>4, <2>2 DEF Look, ReadPid
    <3>2. QED
      BY <1>0, <1>4, <2>2, <3>1 DEF Look, Go
  <2>3. QED
    BY <2>1, <2>2
<1>5. ASSUME NEW p \in Starters, Install(p) PROVE U'
  BY <1>0, <1>5 DEF Install, Go
<1>6. ASSUME NEW p \in Starters, Create(p) PROVE U'
  <2>1. path = None /\ path' = p /\ Go(p, "write")
    BY <1>6 DEF Create
  <2>2. \A q \in Daemons : q = p
    BY <1>0, <1>6, <2>1 DEF Create
  <2>3. QED
    BY <1>0, <1>6, <2>1, <2>2 DEF Create, Go
<1>7. ASSUME NEW p \in Starters, Write(p) PROVE U'
  BY <1>0, <1>7 DEF Write, Go
<1>8. ASSUME NEW p \in Starters, SaveNow(p) \/ SaveReturns(p) \/ Quit(p) \/ PollFails(p) PROVE U'
  BY <1>0, <1>8 DEF SaveNow, SaveReturns, Quit, PollFails, Go
<1>9. ASSUME NEW p \in Starters, Out(p) PROVE U'
  BY <1>0, <1>9 DEF Out, Go
<1>10. ASSUME NEW p \in Starters, CreateFails(p) \/ WriteFails(p) \/ Crash(p) PROVE U'
  BY <1>10 DEF CreateFails, WriteFails, Crash, Undisturbed
<1>11. ASSUME NEW k \in Killers, KillRead(k) PROVE U'
  <2>1. \A p \in Starters : pc[p] \in Looping => ReadPid = p
    BY <1>0 DEF ReadPid
  <2>2. QED
    BY <1>0, <1>11, <2>1 DEF KillRead, Go
<1>12. ASSUME NEW k \in Killers, KillSend(k) PROVE U'
  <2>1. CASE Go(k, "sent")
    BY <1>0, <1>12, <2>1 DEF KillSend, Go
  <2>2. CASE ~Alive(seen[k]) /\ Go(k, "unsent")
    <3>1. \A p \in ready[k] : pc[p] \notin Looping
      BY <1>0, <1>12, <2>2 DEF KillSend, Alive, Ended
    <3>2. QED
      BY <1>0, <1>12, <2>2, <3>1 DEF KillSend, Go
  <2>3. QED
    BY <1>12, <2>1, <2>2, KillSendMoves
<1>13. QED
  BY <1>1, <1>2, <1>3, <1>4, <1>5, <1>6, <1>7, <1>8, <1>9, <1>10, <1>11, <1>12
     DEF Next, StarterStep, KillerStep

LEMMA Registered == Spec => []UInv
  BY UInit, HInit, UStep, HStep, PTL DEF Spec

\* As long as starts do not overlap and nothing fails there is one daemon, from
\* before it creates the pid file until it has removed it (daemon.c:344-461).
THEOREM OnlyOneDaemon == Spec => []OneDaemon
<1>1. UInv => OneDaemon
  <2> SUFFICES ASSUME UInv, Undisturbed, NEW p \in Daemons, NEW q \in Daemons PROVE p = q
    BY DEF OneDaemon
  <2>1. OneStarts /\ DaemonHasFile /\ PastCheck
    BY DEF UInv
  <2>2. CASE pc[p] = "create" /\ pc[q] = "create"
    BY <2>1, <2>2 DEF OneStarts, Daemons, Starting
  <2>3. CASE pc[p] = "create" /\ pc[q] # "create"
    BY <2>1, <2>3 DEF DaemonHasFile, PastCheck, Daemons
  <2>4. CASE pc[p] # "create" /\ pc[q] = "create"
    BY <2>1, <2>4 DEF DaemonHasFile, PastCheck, Daemons
  <2>5. CASE pc[p] # "create" /\ pc[q] # "create"
    BY <2>1, <2>5 DEF DaemonHasFile
  <2>6. QED
    BY <2>2, <2>3, <2>4, <2>5
<1>2. QED
  BY <1>1, Registered, PTL

\* As long as starts do not overlap and nothing fails no command misses a daemon
\* that was in its loop and stays there (daemon.c:335-340).
THEOREM NoneMissed == Spec => []CommandsReach
<1>1. UInv => CommandsReach
  BY DEF UInv, CommandsReach, CommandReaches, Missed, FoundIsSignalled
<1>2. QED
  BY <1>1, Registered, PTL

-----------------------------------------------------------------------------
(***************************************************************************)
(* The loop of the daemon (StateDaemon, daemon.c:298-503), an instance of  *)
(* its own in which step is its pc: for any number of cards and of plugs.  *)
(***************************************************************************)

CONSTANTS MaxCard, MaxGen
VARIABLES present, gen, cardname, cards, quit, rescan, save_now, usr2, changed, age,
          step, at, owed, saving, owesSave, asked

D == INSTANCE StateDaemon WITH pc <- step

Handle == [index : D!Cards \cup {-1}, gen : Nat, pending : BOOLEAN,
           revents : {"none", "in", "err"}]
Over == step \in {"out", "done"}

LoopTypeOK ==
    /\ present \subseteq D!Cards /\ gen \in [D!Cards -> Nat] /\ cards \in Seq(Handle)
    /\ at \in Int

\* A handle belongs to a plug that has been, and one that poll has called dead
\* stays dead: a card that is plugged again has another.
DeadStaysDead ==
    \A k \in DOMAIN cards :
        /\ cards[k].index # -1 => cards[k].gen <= gen[cards[k].index]
        /\ cards[k].revents = "err" => ~D!Current(cards[k])

\* the event of a change of c is in the handle of the card
Queued(c) == \E k \in DOMAIN cards :
                 cards[k].index = c /\ D!Current(cards[k]) /\ cards[k].pending

\* the daemon has a handle of c's last plug
Open(c) == \E k \in DOMAIN cards : cards[k].index = c /\ D!Current(cards[k])

\* What is owed is on its way: the event is in the handle, or it was read, or the
\* save that runs will have it.
ChangeIsKept == \A c \in owed : changed \/ c \in saving \/ Queued(c)

OwedInv ==
    /\ ChangeIsKept
    /\ owed \subseteq D!Cards
    /\ \A c \in owed : Open(c)
    /\ saving # {} => step = "saving"
    /\ Over => owed = {}

RescanIsKept ==
    \A c \in asked :
        /\ c \in present /\ rescan /\ ~Over /\ cardname \in {D!All, c}
        /\ \A k \in DOMAIN cards : cards[k].index # c
        /\ step = "scan" => c > at /\ (cardname = c => at = -1)

SaveIsKept == owesSave => save_now

-----------------------------------------------------------------------------
\* The flag of a save-and-quit signal stands until a save has begun.
LEMMA SaveKept == SaveIsKept /\ [D!Next]_(D!vars) => SaveIsKept'
  <1> SUFFICES ASSUME SaveIsKept, [D!Next]_(D!vars) PROVE SaveIsKept'
    OBVIOUS
  <1> USE DEF SaveIsKept
  <1>1. CASE D!SignalSaveAndQuit
    BY <1>1, Zenon DEF D!SignalSaveAndQuit
  <1>2. CASE D!Save
    BY <1>2, Zenon DEF D!Save
  <1>3. CASE D!PollFails
    BY <1>3, Zenon DEF D!PollFails
  <1>4. CASE UNCHANGED <<owesSave, save_now>>
    BY <1>4
  <1>5. QED
    BY <1>1, <1>2, <1>3, <1>4
       DEF D!Next, D!DaemonStep, D!vars, D!signals, D!history, D!Loop, D!AddCard, D!ScanEnd,
           D!Prepare, D!PollReturns, D!PollTimeout, D!HandleCard, D!Decide, D!SaveReturns, D!Out,
           D!Tick, D!SignalQuit, D!SignalRescan, D!Change, D!Plug, D!Unplug

\* The daemon does not leave its loop with a save-and-quit signal unanswered.
THEOREM SaveBeforeQuit == D!Spec => D!SavesBeforeQuit
<1>1. D!Init => SaveIsKept
  BY DEF D!Init, SaveIsKept
<1>2. SaveIsKept /\ [D!Next]_(D!vars) => (step = "loop" /\ step' = "out" => ~owesSave)
  <2> SUFFICES ASSUME SaveIsKept, [D!Next]_(D!vars), step = "loop", step' = "out"
               PROVE  ~owesSave
    OBVIOUS
  <2>1. D!Loop
    BY DEF D!Next, D!DaemonStep, D!vars, D!signals, D!history, D!Save, D!AddCard, D!ScanEnd,
           D!Prepare, D!PollReturns, D!PollTimeout, D!HandleCard, D!Decide, D!SaveReturns, D!Out,
           D!Tick, D!SignalQuit, D!SignalSaveAndQuit, D!SignalRescan, D!Change, D!Plug, D!Unplug,
           D!PollFails, D!Interrupt
  <2>2. ~save_now
    BY <2>1 DEF D!Loop
  <2>3. QED
    BY <2>2 DEF SaveIsKept
<1>3. QED
  BY <1>1, <1>2, SaveKept, PTL DEF D!Spec, D!SavesBeforeQuit

-----------------------------------------------------------------------------
DaemonParameters == MaxCard \in Nat

\* a sequence whose elements are changed in place
LEMMA MapOfSeq ==
  ASSUME NEW S, NEW s \in Seq(S), NEW t, t = [k \in DOMAIN s |-> t[k]],
         \A k \in DOMAIN s : t[k] \in S
  PROVE  t \in Seq(S) /\ Len(t) = Len(s) /\ DOMAIN t = DOMAIN s
<1>1. DOMAIN s = 1 .. Len(s) /\ Len(s) \in Nat
  OBVIOUS
<1>2. t \in [1 .. Len(s) -> S]
  BY <1>1
<1>3. t \in Seq(S)
  BY <1>1, <1>2, SeqDef
<1>4. QED
  BY <1>1, <1>2, <1>3

\* The handles of a step of the loop over the cards, of poll and of the kernel:
\* each stays in its slot, with its card, or is closed.
LEMMA HandlesStay ==
  ASSUME LoopTypeOK, \/ \E c \in D!Cards : D!Change(c)
                     \/ D!PollReturns \/ D!HandleCard
  PROVE  /\ cards' \in Seq(Handle) /\ DOMAIN cards' = DOMAIN cards
         /\ UNCHANGED <<present, gen, asked, rescan, cardname>>
         /\ \A k \in DOMAIN cards :
               \/ cards'[k].index = cards[k].index /\ cards'[k].gen = cards[k].gen
               \/ cards'[k] = D!NoCard
<1> USE DEF LoopTypeOK
<1>1. \A k \in DOMAIN cards : cards[k] \in Handle
  OBVIOUS
<1>2. D!NoCard \in Handle
  BY DEF D!NoCard, Handle
<1>3. ASSUME NEW c \in D!Cards, D!Change(c)
      PROVE  /\ cards' = [k \in DOMAIN cards |-> cards'[k]]
             /\ \A k \in DOMAIN cards : /\ cards'[k] \in Handle
                                        /\ cards'[k].index = cards[k].index
                                        /\ cards'[k].gen = cards[k].gen
  <2>1. cards' = [k \in DOMAIN cards |->
                     IF cards[k].index = c /\ D!Current(cards[k])
                     THEN [cards[k] EXCEPT !.pending = TRUE] ELSE cards[k]]
    BY <1>3 DEF D!Change, D!Slots
  <2>2. \A k \in DOMAIN cards :
           cards'[k] = [cards[k] EXCEPT !.pending = TRUE] \/ cards'[k] = cards[k]
    BY <2>1
  <2>3. QED
    BY <1>1, <2>1, <2>2 DEF Handle
<1>4. ASSUME D!PollReturns
      PROVE  /\ cards' = [k \in DOMAIN cards |-> cards'[k]]
             /\ \A k \in DOMAIN cards : /\ cards'[k] \in Handle
                                        /\ cards'[k].index = cards[k].index
                                        /\ cards'[k].gen = cards[k].gen
  <2>1. cards' = [k \in DOMAIN cards |-> [cards[k] EXCEPT !.revents = D!Revents(cards[k])]]
    BY <1>4 DEF D!PollReturns, D!Slots
  <2>2. \A k \in DOMAIN cards : D!Revents(cards[k]) \in {"none", "in", "err"}
    BY DEF D!Revents
  <2>3. QED
    BY <1>1, <2>1, <2>2 DEF Handle
<1>5. ASSUME D!HandleCard
      PROVE  /\ cards' = [k \in DOMAIN cards |-> cards'[k]]
             /\ \A k \in DOMAIN cards :
                   /\ cards'[k] \in Handle
                   /\ \/ cards'[k].index = cards[k].index /\ cards'[k].gen = cards[k].gen
                      \/ cards'[k] = D!NoCard
  <2> DEFINE h == cards[at]
             new == IF h.revents = "err" THEN D!NoCard
                    ELSE [h EXCEPT !.revents = "none", !.pending = @ /\ h.revents # "in"]
  <2>1. at \in DOMAIN cards /\ cards' = [cards EXCEPT ![at] = new]
    BY <1>5 DEF D!HandleCard, D!Slots
  <2>2. h \in Handle
    BY <1>1, <2>1
  <2>3. /\ new \in Handle
        /\ new = D!NoCard \/ (new.index = h.index /\ new.gen = h.gen)
    <3> DEFINE b == h.pending /\ h.revents # "in"
    <3>1. b \in BOOLEAN
      OBVIOUS
    <3>2. new = D!NoCard \/ new = [h EXCEPT !.revents = "none", !.pending = b]
      OBVIOUS
    <3> HIDE DEF b, new, h
    <3>3. QED
      BY <1>2, <2>2, <3>1, <3>2 DEF Handle
  <2> HIDE DEF new, h
  <2>4. QED
    BY <1>1, <2>1, <2>3 DEF h
<1>6. /\ cards' = [k \in DOMAIN cards |-> cards'[k]]
      /\ \A k \in DOMAIN cards :
            /\ cards'[k] \in Handle
            /\ \/ cards'[k].index = cards[k].index /\ cards'[k].gen = cards[k].gen
               \/ cards'[k] = D!NoCard
  BY <1>3, <1>4, <1>5
<1>7. cards' \in Seq(Handle) /\ DOMAIN cards' = DOMAIN cards
  <2> HIDE DEF Handle
  <2>1. \A k \in DOMAIN cards : cards'[k] \in Handle
    BY <1>6
  <2>2. QED
    BY <1>6, <2>1, MapOfSeq
<1>8. UNCHANGED <<present, gen, asked, rescan, cardname>>
  BY DEF D!Change, D!PollReturns, D!HandleCard, D!kernel, D!signals, D!history
<1>9. QED
  BY <1>6, <1>7, <1>8

\* add_card puts the new handle into a slot that is free
LEMMA NewHandle ==
  ASSUME LoopTypeOK, D!AddCard
  PROVE  /\ cards' \in Seq(Handle) /\ at' \in D!Cards /\ at' \in D!ToScan
         /\ \A d \in D!ToScan : at' <= d
         /\ DOMAIN cards \subseteq DOMAIN cards'
         /\ \A k \in DOMAIN cards :
                  \/ cards'[k] = cards[k]
                  \/ (cards[k] = D!NoCard /\ cards'[k].index = at')
         /\ \A k \in DOMAIN cards' :
                  \/ cards'[k].index = at'
                  \/ (k \in DOMAIN cards /\ cards'[k] = cards[k])
         /\ \A k \in DOMAIN cards' :
               \/ k \in DOMAIN cards /\ cards'[k] = cards[k]
               \/ cards'[k] =
                     [index |-> at', gen |-> gen[at'], pending |-> FALSE, revents |-> "none"]
         /\ \/ asked' = asked \ {at'}
            \/ asked' = asked /\ \E k \in DOMAIN cards : cards[k].index = at'
         /\ UNCHANGED <<present, gen, rescan, cardname, step, owed, saving, changed>>
<1>1. PICK c \in D!ToScan :
         /\ \A d \in D!ToScan : c <= d
         /\ at' = c
         /\ \/ UNCHANGED <<cards, asked>> /\ \E k \in DOMAIN cards : cards[k].index = c
            \/ /\ asked' = asked \ {c}
               /\ \/ UNCHANGED cards
                  \/ \E k \in 1 .. Len(cards) + 1 :
                        /\ D!SlotFor(k)
                        /\ cards' = D!Place(k, [index |-> c, gen |-> gen[c],
                                                pending |-> FALSE, revents |-> "none"])
  BY DEF D!AddCard, D!Slots
<1>2. c \in D!Cards
  BY DEF D!ToScan, LoopTypeOK
<1>3. UNCHANGED <<present, gen, rescan, cardname, step, owed, saving, changed>>
  BY DEF D!AddCard, D!kernel, D!signals
<1>4. CASE UNCHANGED cards
  BY <1>1, <1>2, <1>3, <1>4 DEF LoopTypeOK
<1>5. CASE \E k \in 1 .. Len(cards) + 1 :
              /\ D!SlotFor(k)
              /\ cards' = D!Place(k, [index |-> c, gen |-> gen[c],
                                      pending |-> FALSE, revents |-> "none"])
  <2> DEFINE h == [index |-> c, gen |-> gen[c], pending |-> FALSE, revents |-> "none"]
  <2>1. PICK k \in 1 .. Len(cards) + 1 : D!SlotFor(k) /\ cards' = D!Place(k, h)
    BY <1>5
  <2>2. h \in Handle /\ h.index = c
    BY <1>2 DEF Handle, LoopTypeOK
  <2> HIDE DEF h
  <2>3. cards \in Seq(Handle) /\ DOMAIN cards = 1 .. Len(cards) /\ Len(cards) \in Nat
    BY DEF LoopTypeOK
  <2>4. CASE k \in DOMAIN cards
    <3>1. cards[k] = D!NoCard /\ cards' = [cards EXCEPT ![k] = h]
      BY <2>1, <2>3, <2>4 DEF D!SlotFor, D!Place, D!Slots
    <3>2. cards' \in Seq(Handle) /\ DOMAIN cards' = DOMAIN cards
      BY <2>2, <2>3, <2>4, <3>1
    <3>3. \A j \in DOMAIN cards : cards'[j] = IF j = k THEN h ELSE cards[j]
      BY <3>1
    <3>4. QED
      BY <1>1, <1>2, <1>3, <2>2, <3>1, <3>2, <3>3 DEF h
  <2>5. CASE k \notin DOMAIN cards
    <3>1. cards' = Append(cards, h)
      BY <2>1, <2>5 DEF D!Place, D!Slots
    <3>2. /\ cards' \in Seq(Handle) /\ DOMAIN cards' = 1 .. Len(cards) + 1
          /\ \A j \in DOMAIN cards : cards'[j] = cards[j]
          /\ cards'[Len(cards) + 1] = h
      BY <2>2, <2>3, <3>1
    <3>3. \A j \in DOMAIN cards' : j \in DOMAIN cards \/ j = Len(cards) + 1
      BY <2>3, <3>2
    <3>4. QED
      BY <1>1, <1>2, <1>3, <2>2, <2>3, <3>2, <3>3 DEF h
  <2>6. QED
    BY <2>4, <2>5
<1>6. QED
  BY <1>1, <1>4, <1>5

\* the signals, time, and the steps of the daemon that leave the cards alone
OwnStep ==
    \/ D!Loop \/ D!ScanEnd \/ D!Prepare \/ D!PollTimeout \/ D!PollFails \/ D!Decide
    \/ D!Save \/ D!SaveReturns \/ D!Tick \/ UNCHANGED D!vars
    \/ D!SignalQuit \/ D!SignalSaveAndQuit \/ D!SignalRescan

\* Of the other steps only plugs and unplugs touch the cards, and only the end of
\* the daemon its handles.
LEMMA OtherSteps ==
  ASSUME [D!Next]_(D!vars)
  PROVE  \/ \E c \in D!Cards : D!Change(c) \/ D!Plug(c) \/ D!Unplug(c)
         \/ D!PollReturns \/ D!HandleCard
         \/ D!AddCard
         \/ D!Out
         \/ /\ UNCHANGED <<present, gen, cards>>
            /\ at' = at \/ at' = -1 \/ at' = 1
            /\ OwnStep
BY DEF OwnStep, D!Next, D!DaemonStep, D!vars, D!signals, D!history, D!kernel,
       D!Loop, D!Save, D!ScanEnd,
       D!Prepare, D!PollTimeout, D!Decide, D!SaveReturns,
       D!Tick, D!SignalQuit, D!SignalSaveAndQuit, D!SignalRescan, D!PollFails

LoopInv == LoopTypeOK /\ DeadStaysDead

\* the types of the loop, and handles that are not of a later plug
LEMMA LoopInvariant ==
  ASSUME DaemonParameters
  PROVE  D!Spec => []LoopInv
<1>1. D!Init => LoopInv
  <2> SUFFICES ASSUME D!Init PROVE LoopInv
    OBVIOUS
  <2>1. cards = <<>> /\ cards \in Seq(Handle) /\ DOMAIN cards = {}
    BY DEF D!Init
  <2>2. gen \in [D!Cards -> Nat] /\ present \subseteq D!Cards /\ at \in Int
    BY DEF D!Init
  <2>3. QED
    BY <2>1, <2>2 DEF LoopInv, LoopTypeOK, DeadStaysDead
<1>2. LoopInv /\ [D!Next]_(D!vars) => LoopInv'
  <2> SUFFICES ASSUME LoopInv, [D!Next]_(D!vars) PROVE LoopInv'
    OBVIOUS
  <2> USE DEF LoopInv
  <2>0. /\ \A k \in DOMAIN cards : cards[k] \in Handle
        /\ D!Cards \subseteq Int /\ -1 \notin D!Cards
        /\ gen \in [D!Cards -> Nat]
    BY DEF LoopTypeOK, D!Cards, DaemonParameters
  <2>1. CASE D!PollReturns \/ D!HandleCard \/ \E c \in D!Cards : D!Change(c)
    <3>1. /\ cards' \in Seq(Handle) /\ DOMAIN cards' = DOMAIN cards
          /\ UNCHANGED <<present, gen>>
          /\ \A k \in DOMAIN cards :
                \/ cards'[k].index = cards[k].index /\ cards'[k].gen = cards[k].gen
                \/ cards'[k] = D!NoCard
      BY <2>1, HandlesStay
    <3>2. at' \in Int
      BY <2>1 DEF LoopTypeOK, D!PollReturns, D!HandleCard, D!Change
    <3>3. \A k \in DOMAIN cards : cards'[k].revents = "err" => ~D!Current(cards'[k])
      <4> SUFFICES ASSUME NEW k \in DOMAIN cards, cards'[k].revents = "err"
                   PROVE  ~D!Current(cards'[k])
        OBVIOUS
      <4>1. CASE D!PollReturns
        <5>1. /\ cards'[k].revents = D!Revents(cards[k])
              /\ cards'[k].index = cards[k].index /\ cards'[k].gen = cards[k].gen
          <6>1. cards'[k] = [cards[k] EXCEPT !.revents = D!Revents(cards[k])]
            BY <4>1 DEF D!PollReturns, D!Slots
          <6>2. QED
            BY <2>0, <6>1 DEF Handle
        <5>2. ~D!Current(cards[k])
          BY <5>1 DEF D!Revents
        <5>3. QED
          BY <5>1, <5>2 DEF D!Current
      <4>2. CASE D!HandleCard
        <5>1. CASE k = at
          <6>1. cards'[k].revents = "none"
            BY <2>0, <4>2, <5>1 DEF D!HandleCard, D!Slots, D!NoCard, Handle
          <6>2. QED
            BY <6>1
        <5>2. CASE k # at
          <6>1. cards'[k] = cards[k]
            BY <4>2, <5>2 DEF D!HandleCard, D!Slots
          <6>2. QED
            BY <6>1 DEF DeadStaysDead
        <5>3. QED
          BY <5>1, <5>2
      <4>3. ASSUME NEW c \in D!Cards, D!Change(c) PROVE ~D!Current(cards'[k])
        <5>1. cards'[k] = [cards[k] EXCEPT !.pending = TRUE] \/ cards'[k] = cards[k]
          BY <4>3 DEF D!Change, D!Slots
        <5>2. /\ cards'[k].revents = cards[k].revents
              /\ cards'[k].index = cards[k].index /\ cards'[k].gen = cards[k].gen
          BY <2>0, <5>1 DEF Handle
        <5>3. QED
          BY <5>2 DEF DeadStaysDead, D!Current
      <4>4. QED
        BY <2>1, <4>1, <4>2, <4>3
    <3>5. DeadStaysDead'
      <4> SUFFICES ASSUME NEW k \in DOMAIN cards
                   PROVE  /\ cards'[k].index # -1 => cards'[k].gen <= gen'[cards'[k].index]
                          /\ cards'[k].revents = "err" => ~D!Current(cards[k])'
        BY <3>1 DEF DeadStaysDead
      <4>1. cards'[k].index # -1 => cards'[k].gen <= gen'[cards'[k].index]
        BY <3>1 DEF DeadStaysDead, D!NoCard
      <4>2. QED
        BY <3>1, <3>3, <4>1 DEF D!Current
    <3>6. QED
      BY <3>1, <3>2, <3>5 DEF LoopTypeOK
  <2>2. CASE D!AddCard
    <3>1. /\ cards' \in Seq(Handle) /\ at' \in D!Cards
          /\ \A k \in DOMAIN cards' :
                \/ k \in DOMAIN cards /\ cards'[k] = cards[k]
                \/ cards'[k] =
                     [index |-> at', gen |-> gen[at'], pending |-> FALSE, revents |-> "none"]
          /\ UNCHANGED <<present, gen>>
      BY <2>2, NewHandle
    <3>2. LoopTypeOK'
      BY <2>0, <3>1 DEF LoopTypeOK
    <3>3. DeadStaysDead'
      BY <2>0, <3>1 DEF DeadStaysDead, D!Current
    <3>4. QED
      BY <3>2, <3>3
  <2>3. ASSUME NEW c \in D!Cards, D!Plug(c) PROVE LoopInv'
    <3>1. /\ c \notin present /\ present' = present \cup {c}
          /\ gen' = [gen EXCEPT ![c] = @ + 1] /\ UNCHANGED <<cards, at>>
      BY <2>3 DEF D!Plug
    <3>2. \A k \in DOMAIN cards : cards[k].index # -1 =>
                  cards[k].index \in D!Cards /\ cards[k].gen \in Nat
      BY <2>0 DEF Handle
    <3>3. DeadStaysDead'
      BY <2>0, <3>1, <3>2 DEF DeadStaysDead, D!Current
    <3>4. QED
      BY <3>1, <3>3 DEF LoopTypeOK
  <2>4. ASSUME NEW c \in D!Cards, D!Unplug(c) PROVE LoopInv'
    BY <2>4 DEF D!Unplug, LoopTypeOK, DeadStaysDead, D!Current
  <2>5. CASE D!Out
    BY <2>5 DEF D!Out, D!kernel, LoopTypeOK, DeadStaysDead
  <2>6. CASE UNCHANGED <<present, gen, cards>> /\ (at' = at \/ at' = -1 \/ at' = 1)
    BY <2>6 DEF LoopTypeOK, DeadStaysDead, D!Current
  <2>7. QED
    BY <2>1, <2>2, <2>3, <2>4, <2>5, <2>6, OtherSteps
<1>3. QED
  BY <1>1, <1>2, PTL DEF D!Spec

-----------------------------------------------------------------------------
\* A handle that is open stays so, and its event too, as long as it is not read.
HandlesKept(S) == \A c \in S : /\ Open(c) => Open(c)'
                               /\ Queued(c) => Queued(c)' \/ changed'

\* The loop closes no handle of a card that is there, and loses no event of it.
LEMMA HandlesKeptByLoop ==
  ASSUME DaemonParameters, LoopInv,
         D!PollReturns \/ D!HandleCard \/ D!AddCard \/ \E d \in D!Cards : D!Change(d)
  PROVE  HandlesKept(D!Cards)
<1> USE DEF LoopInv
<1>1. \A k \in DOMAIN cards : cards[k] \in Handle
  BY DEF LoopTypeOK
<1>2. \A k \in DOMAIN cards : D!Current(cards[k]) => cards[k] # D!NoCard
  BY DEF D!Current, D!NoCard, LoopTypeOK, D!Cards, DaemonParameters
<1>3. UNCHANGED <<present, gen>>
  BY HandlesStay, NewHandle
<1>4. SUFFICES ASSUME NEW c \in D!Cards, NEW k \in DOMAIN cards,
                      cards[k].index = c, D!Current(cards[k])
               PROVE  /\ k \in DOMAIN cards'
                      /\ cards'[k].index = c /\ cards'[k].gen = cards[k].gen
                      /\ cards[k].pending => cards'[k].pending \/ changed'
  BY <1>3 DEF HandlesKept, Open, Queued, D!Current
<1>5. CASE D!AddCard
  BY <1>2, <1>4, <1>5, NewHandle
<1>6. CASE D!PollReturns
  <2>1. k \in DOMAIN cards' /\ cards'[k] = [cards[k] EXCEPT !.revents = D!Revents(cards[k])]
    BY <1>6 DEF D!PollReturns, D!Slots
  <2>2. QED
    BY <1>1, <1>4, <2>1 DEF Handle
<1>7. CASE \E d \in D!Cards : D!Change(d)
  <2>1. /\ k \in DOMAIN cards'
        /\ cards'[k] = [cards[k] EXCEPT !.pending = TRUE] \/ cards'[k] = cards[k]
    BY <1>7 DEF D!Change, D!Slots
  <2>2. QED
    BY <1>1, <1>4, <2>1 DEF Handle
<1>8. CASE D!HandleCard
  <2>1. cards[k].revents # "err"
    BY <1>4 DEF DeadStaysDead
  <2>2. CASE k # at
    BY <1>4, <1>8, <2>2 DEF D!HandleCard, D!Slots
  <2>3. CASE k = at
    <3> DEFINE b == cards[k].pending /\ cards[k].revents # "in"
    <3>1. k \in DOMAIN cards' /\ cards'[k] = [cards[k] EXCEPT !.revents = "none", !.pending = b]
      BY <1>8, <2>1, <2>3 DEF D!HandleCard, D!Slots
    <3>2. cards[k].revents = "in" => changed'
      BY <1>4, <1>8, <2>3, Zenon DEF D!HandleCard
    <3>3. cards'[k].index = cards[k].index /\ cards'[k].gen = cards[k].gen /\ cards'[k].pending = b
      BY <1>1, <3>1 DEF Handle
    <3>4. cards[k].pending => cards'[k].pending \/ changed'
      BY <3>2, <3>3
    <3>5. QED
      BY <1>4, <3>1, <3>3, <3>4
  <2>4. QED
    BY <2>2, <2>3
<1>9. QED
  BY <1>5, <1>6, <1>7, <1>8

\* a card that comes or goes leaves the handles of the others alone
LEMMA HandlesKeptByKernel ==
  ASSUME LoopInv, NEW d \in D!Cards, D!Plug(d) \/ D!Unplug(d)
  PROVE  HandlesKept(D!Cards \ {d})
BY DEF LoopInv, LoopTypeOK, HandlesKept, Open, Queued, D!Current, D!Plug, D!Unplug

\* A change of a watched card stays on its way to a save as long as the daemon and
\* the card do: no step of the loop, no signal and no card that comes or goes drops it.
THEOREM ChangesAreKept ==
  ASSUME DaemonParameters
  PROVE  D!Spec => []ChangeIsKept
<1>1. D!Init => OwedInv
  BY DEF D!Init, OwedInv, ChangeIsKept, Over
<1>2. LoopInv /\ OwedInv /\ [D!Next]_(D!vars) => OwedInv'
  <2> SUFFICES ASSUME LoopInv, OwedInv, [D!Next]_(D!vars) PROVE OwedInv'
    OBVIOUS
  <2> USE DEF OwedInv, ChangeIsKept
  <2>1. CASE D!PollReturns \/ D!HandleCard \/ D!AddCard
    <3>1. HandlesKept(D!Cards)
      BY <2>1, HandlesKeptByLoop
    <3>2. /\ UNCHANGED <<owed, saving>> /\ (changed => changed')
          /\ step \notin {"out", "done", "saving"} /\ step' \notin {"out", "done"}
      BY <2>1 DEF D!PollReturns, D!HandleCard, D!AddCard, D!history
    <3>3. QED
      BY <3>1, <3>2 DEF HandlesKept, Over
  <2>2. ASSUME NEW d \in D!Cards, D!Change(d)
        PROVE  OwedInv'
    <3>1. HandlesKept(D!Cards)
      BY <2>2, HandlesKeptByLoop
    <3>2. Open(d) => Queued(d)'
      <4> SUFFICES ASSUME NEW k \in DOMAIN cards, cards[k].index = d, D!Current(cards[k])
                   PROVE  Queued(d)'
        BY DEF Open
      <4>1. /\ k \in DOMAIN cards' /\ cards'[k] = [cards[k] EXCEPT !.pending = TRUE]
            /\ UNCHANGED <<present, gen>>
        BY <2>2 DEF D!Change, D!Slots, D!kernel
      <4>2. cards[k] \in Handle
        BY DEF LoopInv, LoopTypeOK
      <4>3. cards'[k].index = d /\ cards'[k].gen = cards[k].gen /\ cards'[k].pending
        BY <4>1, <4>2 DEF Handle
      <4>4. QED
        BY <4>1, <4>3 DEF Queued, D!Current
    <3>3. /\ saving' = saving \ {d} /\ UNCHANGED <<changed, step>>
          /\ owed' = owed \/ (owed' = owed \cup {d} /\ Open(d) /\ ~Over)
      BY <2>2 DEF D!Change, D!Watched, D!Slots, Open, Over, D!Running
    <3>4. QED
      BY <3>1, <3>2, <3>3 DEF HandlesKept, Over
  <2>3. ASSUME NEW d \in D!Cards, D!Plug(d)
        PROVE  OwedInv'
    <3>1. HandlesKept(D!Cards \ {d})
      BY <2>3, HandlesKeptByKernel
    <3>2. UNCHANGED <<owed, saving, changed, step>> /\ d \notin present
      BY <2>3 DEF D!Plug, D!history
    <3>3. d \notin owed
      BY <3>2 DEF Open, D!Current
    <3>4. QED
      BY <3>1, <3>2, <3>3 DEF HandlesKept, Over
  <2>4. ASSUME NEW d \in D!Cards, D!Unplug(d)
        PROVE  OwedInv'
    <3>1. HandlesKept(D!Cards \ {d})
      BY <2>4, HandlesKeptByKernel
    <3>2. owed' = owed \ {d} /\ saving' = saving \ {d} /\ UNCHANGED <<changed, step>>
      BY <2>4 DEF D!Unplug
    <3>3. QED
      BY <3>1, <3>2 DEF HandlesKept, Over
  <2>5. CASE D!Out
    BY <2>5 DEF D!Out, D!history, Over
  <2>6. CASE UNCHANGED <<present, gen, cards>> /\ OwnStep
    <3>1. \A c : (Open(c) <=> Open(c)') /\ (Queued(c) <=> Queued(c)')
      BY <2>6 DEF Open, Queued, D!Current
    <3>2. \/ owed' = {} /\ UNCHANGED saving /\ (saving # {} => step' = step)
          \/ /\ UNCHANGED <<owed, saving, changed>>
             /\ saving # {} => step' = step
             /\ Over \/ ~Over'
          \/ D!Save
          \/ D!SaveReturns
      <4>1. CASE D!SignalQuit \/ D!SignalSaveAndQuit
        BY <4>1 DEF D!SignalQuit, D!SignalSaveAndQuit, D!Interrupt
      <4>2. CASE D!Loop
        BY <4>2 DEF D!Loop, Over
      <4>3. CASE D!PollFails
        BY <4>3 DEF D!PollFails
      <4>4. CASE D!SignalRescan
        BY <4>4 DEF D!SignalRescan, D!Interrupt, Over
      <4>5. CASE UNCHANGED <<owed, saving, changed, step>>
        BY <4>5 DEF Over
      <4>6. CASE D!ScanEnd \/ D!Prepare \/ D!PollTimeout \/ D!Decide
        BY <4>6 DEF D!ScanEnd, D!Prepare, D!PollTimeout, D!Decide, D!history, Over
      <4>7. QED
        BY <2>6, <4>1, <4>2, <4>3, <4>4, <4>5, <4>6
           DEF OwnStep, D!vars, D!history, D!Tick
    <3>3. CASE D!Save
      BY <3>1, <3>3 DEF D!Save, Over
    <3>4. CASE D!SaveReturns
      BY <3>1, <3>4 DEF D!SaveReturns, Over
    <3>5. QED
      BY <3>1, <3>2, <3>3, <3>4 DEF Over
  <2>7. QED
    BY <2>1, <2>2, <2>3, <2>4, <2>5, <2>6, OtherSteps
<1>3. OwedInv => ChangeIsKept
  BY DEF OwedInv
<1>4. D!Spec => []LoopInv
  BY LoopInvariant
<1>5. QED
  BY <1>1, <1>2, <1>3, <1>4, PTL DEF D!Spec

\* What a signal asked to be looked at is looked at: the flag and the name that the
\* scan goes by stand until the scan has come to the card.
THEOREM RescansAreKept ==
  ASSUME DaemonParameters
  PROVE  D!Spec => []RescanIsKept
<1>1. D!Init => RescanIsKept
  BY DEF D!Init, RescanIsKept
<1>2. LoopInv /\ RescanIsKept /\ [D!Next]_(D!vars) => RescanIsKept'
  <2> SUFFICES ASSUME LoopInv, RescanIsKept, [D!Next]_(D!vars), NEW c \in asked'
               PROVE  /\ c \in present' /\ rescan' /\ ~Over' /\ cardname' \in {D!All, c}
                      /\ \A k \in DOMAIN cards' : cards'[k].index # c
                      /\ step' = "scan" => c > at' /\ (cardname' = c => at' = -1)
    BY DEF RescanIsKept
  <2> USE DEF RescanIsKept
  <2>0. c \in present => c \in D!Cards /\ c \in Int /\ c > -1
    BY DEF LoopInv, LoopTypeOK, D!Cards, DaemonParameters
  <2>1. CASE D!PollReturns \/ D!HandleCard \/ \E d \in D!Cards : D!Change(d)
    <3>1. /\ DOMAIN cards' = DOMAIN cards
          /\ UNCHANGED <<present, gen, asked, rescan, cardname>>
          /\ \A k \in DOMAIN cards : cards'[k].index = cards[k].index \/ cards'[k].index = -1
      BY <2>1, HandlesStay DEF LoopInv, D!NoCard
    <3>2. /\ step' \in {"handle", step} /\ (step = "scan" => at' = at)
      BY <2>1 DEF D!PollReturns, D!HandleCard, D!Change
    <3>3. QED
      BY <2>0, <3>1, <3>2 DEF Over
  <2>2. CASE D!AddCard
    <3>1. /\ at' \in D!ToScan /\ (\A d \in D!ToScan : at' <= d)
          /\ \A k \in DOMAIN cards' :
                  \/ cards'[k].index = at'
                  \/ (k \in DOMAIN cards /\ cards'[k] = cards[k])
          /\ \/ asked' = asked \ {at'}
             \/ asked' = asked /\ \E k \in DOMAIN cards : cards[k].index = at'
          /\ UNCHANGED <<present, gen, rescan, cardname, step>>
      BY <2>2, NewHandle DEF LoopInv
    <3>2. c \in asked /\ c # at' /\ step = "scan"
      BY <2>2, <3>1 DEF D!AddCard
    <3>3. c \in D!ToScan
      BY <2>0, <3>2 DEF D!ToScan, D!All
    <3>4. c > at' /\ at' \in Int
      BY <2>0, <3>1, <3>2, <3>3 DEF D!ToScan, LoopInv, LoopTypeOK, D!Cards, DaemonParameters
    <3>5. cardname # c
      BY <3>1, <3>2, <3>3, <2>0 DEF D!ToScan, D!All
    <3>6. QED
      BY <3>1, <3>2, <3>4, <3>5 DEF Over
  <2>3. ASSUME NEW d \in D!Cards, D!Plug(d) \/ D!Unplug(d)
        PROVE  /\ c \in present' /\ rescan' /\ ~Over' /\ cardname' \in {D!All, c}
               /\ \A k \in DOMAIN cards' : cards'[k].index # c
               /\ step' = "scan" => c > at' /\ (cardname' = c => at' = -1)
    BY <2>3 DEF D!Plug, D!Unplug, D!signals, D!history, Over
  <2>4. CASE D!Out
    BY <2>4 DEF D!Out, D!history, Over
  <2>5. CASE UNCHANGED <<present, gen, cards>> /\ OwnStep
    <3>1. CASE D!SignalRescan
      <4>1. /\ UNCHANGED <<cardname, at>> /\ rescan' = TRUE /\ ~Over /\ ~Over'
            /\ step' = step \/ step' = "loop"
        BY <3>1 DEF D!SignalRescan, D!Interrupt, D!Running, Over
      <4>2. CASE c \in asked
        BY <2>5, <4>1, <4>2
      <4>3. CASE c \notin asked
        <5>1. /\ step # "scan" /\ c \in present /\ cardname \in {D!All, c}
              /\ \A k \in DOMAIN cards : cards[k].index # c
          BY <3>1, <4>3 DEF D!SignalRescan, D!Slots
        <5>2. QED
          BY <2>5, <4>1, <5>1
      <4>4. QED
        BY <4>2, <4>3
    <3>2. CASE D!Loop
      BY <2>0, <2>5, <3>2 DEF D!Loop, D!signals, Over
    <3>3. CASE D!ScanEnd
      <4>1. c \in D!ToScan
        BY <2>0, <3>3 DEF D!ScanEnd, D!ToScan, D!All, D!history
      <4>2. QED
        BY <3>3, <4>1 DEF D!ScanEnd
    <3>4. CASE D!PollFails
      BY <3>4 DEF D!PollFails
    <3>5. CASE D!SignalQuit \/ D!SignalSaveAndQuit
      BY <2>5, <3>5 DEF D!SignalQuit, D!SignalSaveAndQuit, D!Interrupt, Over
    <3>6. CASE D!Prepare \/ D!PollTimeout \/ D!Decide \/ D!Save \/ D!SaveReturns
      BY <2>5, <3>6 DEF D!Prepare, D!PollTimeout, D!Decide, D!Save, D!SaveReturns, D!signals,
                        D!history, Over
    <3>7. CASE D!Tick \/ UNCHANGED D!vars
      BY <2>5, <3>7 DEF D!Tick, D!vars, D!signals, D!history, Over
    <3>8. QED
      BY <2>5, <3>1, <3>2, <3>3, <3>4, <3>5, <3>6, <3>7 DEF OwnStep
  <2>6. QED
    BY <2>1, <2>2, <2>3, <2>4, <2>5, OtherSteps
<1>3. D!Spec => []LoopInv
  BY LoopInvariant
<1>4. QED
  BY <1>1, <1>2, <1>3, PTL DEF D!Spec
================================================================================
