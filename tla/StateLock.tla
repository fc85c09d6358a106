------------------------------- MODULE StateLock -------------------------------
(***************************************************************************)
(* alsactl/lock.c: the lock file that serialises alsactl processes.        *)
(*                                                                         *)
(* state_lock, group_state_lock and card_lock all run state_lock_() on a   *)
(* file of their own; this module is one such file and the processes that  *)
(* use it.  One action is one system call of state_lock_ with the tests    *)
(* that lead to it.  The kernel's part (POSIX record lock, interval timer, *)
(* signal delivery) is modelled from the calls the code makes.             *)
(***************************************************************************)
EXTENDS Integers, FiniteSets

CONSTANTS Procs,     \* the alsactl processes
          Locking,   \* those that run with do_lock > 0
          Timeout,   \* the timeout their callers pass (10 in the code)
          NoProc     \* "nobody holds the record lock"

ASSUME LockingAssumption == Locking \subseteq Procs
ASSUME TimeoutAssumption == Timeout \in Nat \ {0}
ASSUME NoProcAssumption  == NoProc \notin Procs

Record == 11         \* one line of the lock file: a pid or blanks
NoFile == -1

VARIABLES pc,          \* pc[p]: the next system call of p
          timeout,     \* timeout[p]: tries left to open, then seconds to wait
          size,        \* size of the lock file
          offset,      \* offset[p]: the file position of p's descriptor
          owner,       \* holder of the POSIX record lock
          timer,       \* timer[p]: p's interval timer runs
          alarm_flag   \* alarm_flag[p]: set by signal_handler_alarm

vars == <<pc, timeout, size, offset, owner, timer, alarm_flag>>

Opening  == {"open", "create", "reopen"}
Waiting  == {"check", "enter", "blocked"}
LockCall == Opening \cup Waiting \cup {"fstat", "prewrite", "arm", "disarm", "write"}
InUnlock == {"uarm", "uloop", "uclose"}

TypeOK ==
    /\ pc \in [Procs -> {"idle", "held"} \cup LockCall \cup InUnlock]
    /\ timeout \in [Procs -> -1 .. Timeout]
    /\ size \in {NoFile} \cup Nat
    /\ offset \in [Procs -> Nat]
    /\ owner \in Procs \cup {NoProc}
    /\ timer \in [Procs -> BOOLEAN]
    /\ alarm_flag \in [Procs -> BOOLEAN]

Init ==
    /\ pc = [p \in Procs |-> "idle"]
    /\ timeout = [p \in Procs |-> 0]
    /\ size = NoFile
    /\ offset = [p \in Procs |-> 0]
    /\ owner = NoProc
    /\ timer = [p \in Procs |-> FALSE]
    /\ alarm_flag = [p \in Procs |-> FALSE]

--------------------------------------------------------------------------------
Goto(p, label) == pc' = [pc EXCEPT ![p] = label]

\* The file's size after p writes one record at its file position.
Written(p) == IF size < offset[p] + Record THEN offset[p] + Record ELSE size

\* close(fd) on the way out: the kernel drops the process's record lock.
ForgetClose(p) ==                                                     \* mutant
    /\ Goto(p, "idle")
    /\ UNCHANGED owner
Close(p) ==
    /\ Goto(p, "idle")
    /\ owner' = IF owner = p THEN NoProc ELSE owner

--------------------------------------------------------------------------------
\* state_lock(): a process with do_lock <= 0 gets 0 back at once.
Call(p) ==
    /\ pc[p] = "idle"
    /\ IF p \in Locking
       THEN Goto(p, "open") /\ timeout' = [timeout EXCEPT ![p] = Timeout]
       ELSE Goto(p, "held") /\ UNCHANGED timeout
    /\ offset' = [offset EXCEPT ![p] = 0]
    /\ UNCHANGED <<size, owner, timer, alarm_flag>>

\* while (fd < 0 && timeout-- > 0) fd = open(lock_file, O_RDWR)
RetryForever(p) ==                                                    \* mutant
    /\ pc[p] = "open"
    /\ Goto(p, IF size # NoFile THEN "fstat" ELSE "create")
    /\ UNCHANGED <<timeout, size, offset, owner, timer, alarm_flag>>
Open(p) ==
    /\ pc[p] = "open"
    /\ timeout' = [timeout EXCEPT ![p] = @ - 1]
    /\ \/ timeout[p] <= 0 /\ Goto(p, "idle")                  \* -EBUSY
       \/ timeout[p] > 0 /\ size # NoFile /\ Goto(p, "fstat")
       \/ timeout[p] > 0 /\ Goto(p, "create")                 \* open failed
    /\ UNCHANGED <<size, offset, owner, timer, alarm_flag>>

\* fd = open(lock_file, O_RDWR|O_CREAT|O_EXCL, 0644)
Create(p) ==
    /\ pc[p] = "create"
    /\ \/ size = NoFile /\ size' = 0 /\ Goto(p, "fstat")
       \/ size # NoFile /\ Goto(p, "reopen") /\ UNCHANGED size   \* EEXIST
       \/ Goto(p, "open") /\ UNCHANGED size                      \* EBUSY, EAGAIN
       \/ Goto(p, "idle") /\ UNCHANGED size                      \* other errors
    /\ UNCHANGED <<timeout, offset, owner, timer, alarm_flag>>

Reopen(p) ==
    /\ pc[p] = "reopen"
    /\ Goto(p, "fstat") \/ Goto(p, "idle")
    /\ UNCHANGED <<timeout, size, offset, owner, timer, alarm_flag>>

\* A file that is not exactly one record long gets p's pid before p has the lock.
Fstat(p) ==
    /\ pc[p] = "fstat"
    /\ \/ Goto(p, IF size = Record THEN "arm" ELSE "prewrite") /\ UNCHANGED owner
       \/ Close(p)
    /\ UNCHANGED <<timeout, size, offset, timer, alarm_flag>>

\* write(fd, lcktxt, 11), then lseek(fd, 0, SEEK_SET)
Prewrite(p) ==
    /\ pc[p] = "prewrite"
    /\ \/ size' = Written(p) /\ Goto(p, "arm") /\ UNCHANGED owner
       \/ Close(p) /\ UNCHANGED size
    /\ UNCHANGED <<timeout, offset, timer, alarm_flag>>

\* alarm_flag = 0; sigaction; setitimer(timeout seconds): 0 starts no timer.
Arm(p) ==
    /\ pc[p] = "arm"
    /\ \/ /\ Goto(p, "check") /\ UNCHANGED owner
          /\ timer' = [timer EXCEPT ![p] = timeout[p] > 0]
       \/ Close(p) /\ UNCHANGED timer
    /\ alarm_flag' = [alarm_flag EXCEPT ![p] = FALSE]
    /\ UNCHANGED <<timeout, size, offset>>

\* while (alarm_flag == 0): the test, then the call, are two steps.
Check(p) ==
    /\ pc[p] = "check"
    /\ Goto(p, IF alarm_flag[p] THEN "disarm" ELSE "enter")
    /\ UNCHANGED <<timeout, size, offset, owner, timer, alarm_flag>>

\* fcntl(F_SETLKW) finds another process's lock and sleeps.
Block(p) ==
    /\ pc[p] = "enter" /\ owner \notin {NoProc, p}
    /\ Goto(p, "blocked")
    /\ UNCHANGED <<timeout, size, offset, owner, timer, alarm_flag>>

\* fcntl(F_SETLKW) returns 0, at once or after a sleep.
GrantShared(p) ==                                                     \* mutant
    /\ pc[p] \in {"enter", "blocked"}
    /\ owner' = p
    /\ Goto(p, "disarm")
    /\ UNCHANGED <<timeout, size, offset, timer, alarm_flag>>
Grant(p) ==
    /\ pc[p] \in {"enter", "blocked"} /\ owner \in {NoProc, p}
    /\ owner' = p
    /\ Goto(p, "disarm")
    /\ UNCHANGED <<timeout, size, offset, timer, alarm_flag>>

\* fcntl fails (EINTR of another signal, EAGAIN, ENOLCK): back to the test.
Interrupted(p) ==
    /\ pc[p] \in {"enter", "blocked"}
    /\ Goto(p, "check")
    /\ UNCHANGED <<timeout, size, offset, owner, timer, alarm_flag>>

\* SIGALRM: the handler sets the flag; only a sleeping fcntl is cut short.
Alarm(p) ==
    /\ timer[p]
    /\ timer' = [timer EXCEPT ![p] = FALSE]
    /\ alarm_flag' = [alarm_flag EXCEPT ![p] = TRUE]
    /\ IF pc[p] = "blocked" THEN Goto(p, "check") ELSE UNCHANGED pc
    /\ UNCHANGED <<timeout, size, offset, owner>>

\* Timer off, old handler back; a fired alarm is -EBUSY even if fcntl succeeded.
IgnoreFlag(p) ==                                                      \* mutant
    /\ pc[p] = "disarm"
    /\ timer' = [timer EXCEPT ![p] = FALSE]
    /\ Goto(p, "write")
    /\ UNCHANGED <<timeout, size, offset, owner, alarm_flag>>
Disarm(p) ==
    /\ pc[p] = "disarm"
    /\ timer' = [timer EXCEPT ![p] = FALSE]
    /\ IF alarm_flag[p] THEN Close(p) ELSE Goto(p, "write") /\ UNCHANGED owner
    /\ UNCHANGED <<timeout, size, offset, alarm_flag>>

\* The pid is written under the lock; return fd.
WritePid(p) ==
    /\ pc[p] = "write"
    /\ \/ /\ size' = Written(p) /\ Goto(p, "held") /\ UNCHANGED owner
          /\ offset' = [offset EXCEPT ![p] = @ + Record]
       \/ Close(p) /\ UNCHANGED <<size, offset>>
    /\ UNCHANGED <<timeout, timer, alarm_flag>>

--------------------------------------------------------------------------------
\* state_unlock(): a blank record at the file position of the descriptor.
Unlock(p) ==
    /\ pc[p] = "held"
    /\ \/ p \notin Locking /\ Goto(p, "idle") /\ UNCHANGED <<size, offset, owner>>
       \/ /\ p \in Locking
          /\ size' = Written(p) /\ Goto(p, "uarm") /\ UNCHANGED owner
          /\ offset' = [offset EXCEPT ![p] = @ + Record]
       \/ p \in Locking /\ Close(p) /\ UNCHANGED <<size, offset>>
    /\ UNCHANGED <<timeout, timer, alarm_flag>>

\* The unlock call arms ten seconds too, and skips fcntl if they pass first.
UnlockArm(p) ==
    /\ pc[p] = "uarm"
    /\ \/ /\ Goto(p, "uloop") /\ UNCHANGED owner
          /\ timer' = [timer EXCEPT ![p] = TRUE]
       \/ Close(p) /\ UNCHANGED timer
    /\ alarm_flag' = [alarm_flag EXCEPT ![p] = FALSE]
    /\ UNCHANGED <<timeout, size, offset>>

\* fcntl(F_UNLCK)
UnlockRelease(p) ==
    /\ pc[p] = "uloop"
    /\ owner' = IF ~alarm_flag[p] /\ owner = p THEN NoProc ELSE owner
    /\ Goto(p, "uclose")
    /\ UNCHANGED <<timeout, size, offset, timer, alarm_flag>>

UnlockClose(p) ==
    /\ pc[p] = "uclose"
    /\ timer' = [timer EXCEPT ![p] = FALSE]
    /\ Close(p)
    /\ UNCHANGED <<timeout, size, offset, alarm_flag>>

\* The process dies anywhere: the kernel closes its descriptors.
Crash(p) ==
    /\ pc[p] # "idle"
    /\ Close(p)
    /\ timer' = [timer EXCEPT ![p] = FALSE]
    /\ alarm_flag' = [alarm_flag EXCEPT ![p] = FALSE]
    /\ UNCHANGED <<timeout, size, offset>>

--------------------------------------------------------------------------------
\* The steps of a lock call once begun, and of an unlock call once begun.
LockStep(p) ==
    \/ Open(p) \/ Create(p) \/ Reopen(p) \/ Fstat(p) \/ Prewrite(p) \/ Arm(p)
    \/ Check(p) \/ Block(p) \/ Disarm(p) \/ WritePid(p)

UnlockStep(p) == UnlockArm(p) \/ UnlockRelease(p) \/ UnlockClose(p)

Next == \E p \in Procs :
    \/ Call(p) \/ LockStep(p) \/ Grant(p) \/ Interrupted(p)
    \/ Unlock(p) \/ UnlockStep(p) \/ Alarm(p) \/ Crash(p)

Spec == Init /\ [][Next]_vars

\* Processes run, timers expire, a free lock is given to a sleeper in the end,
\* and other signals do not interrupt a process for ever.
RunFairness ==
    \A p \in Procs : /\ WF_vars(LockStep(p)) /\ WF_vars(UnlockStep(p))
                     /\ WF_vars(Alarm(p)) /\ SF_vars(Grant(p))
                     /\ <>[][~Interrupted(p)]_vars

\* As RunFairness; a holder may keep the lock for ever.
TimerSpec == Spec /\ RunFairness

--------------------------------------------------------------------------------
\* Between the return of state_lock and the kernel's release p relies on the lock.
Inside(p) == pc[p] \in {"held", "uarm", "uloop"}

\* No two processes that use locking are inside at the same time, whatever
\* order the opens, alarms, failures and deaths come in (lock.c:45-150).
MutualExclusion ==
    \A p, q \in Locking : Inside(p) /\ Inside(q) => p = q

\* No path out of state_lock_ leaves the caller with the record lock: a process
\* outside a call does not own it unless the call returned it success, also when
\* the alarm comes after the grant or a write fails under it (lock.c:133-149).
NoLeakedLock ==
    \A p \in Procs : owner = p => pc[p] \in {"disarm", "write", "uclose"} \/ Inside(p)

\* Writes at a stale position never make the lock file grow past two records,
\* the pid and the blank of one release (lock.c:99-108, 137-142).
FileBounded == size <= 2 * Record

\* A lock call whose timer has expired is never answered with success, even when
\* the lock was granted before the alarm was seen (lock.c:133).
NoGrantAfterAlarm ==
    [][\A p \in Locking : alarm_flag[p] /\ pc[p] # "held" => pc'[p] # "held"]_vars

\* If every holder comes to its unlock call, every lock call returns, the two
\* windows notwithstanding.
CallReturns ==
    (\A p \in Procs : WF_vars(Unlock(p)))
    => \A p \in Procs : pc[p] \in LockCall ~> pc[p] \in {"idle", "held"}

--------------------------------------------------------------------------------
\* What a client of the lock sees (LockService.tla).
StatusAt(label) ==
    CASE label \in LockCall           -> "trying"
      [] label \in {"idle", "uclose"} -> "out"
      [] OTHER                        -> "in"

Status == [p \in Locking |-> StatusAt(pc[p])]

Abstract == INSTANCE LockService WITH Clients <- Locking, status <- Status

\* The protocol of lock.c implements the abstract lock.
ImplementsLockService == Abstract!Spec
================================================================================
