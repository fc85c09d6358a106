---------------------------- MODULE StateLock_proofs ---------------------------
(***************************************************************************)
(* Theorems about the lock-file protocol of alsactl/lock.c, for every set  *)
(* of processes and every timeout; at the end, about the loopback job of   *)
(* alsaloop.                                                               *)
(***************************************************************************)
EXTENDS StateLock, TLAPS

(***************************************************************************)
(* The inductive invariant.  MutualExclusion alone is not inductive: that  *)
(* two processes are not inside follows from each of them owning the one   *)
(* record lock, which has to be known from the grant on.                   *)
(***************************************************************************)
\* A process with tries left to make has not run out of them.
TriesLeft == \A p \in Procs : pc[p] \in Opening => timeout[p] >= 0

\* Up to its pid a call writes at the start of the file; a holder is one past it.
Offsets == \A p \in Procs : /\ pc[p] \in LockCall => offset[p] = 0
                            /\ pc[p] = "held" => offset[p] <= Record

\* From the grant to the release p owns the record lock.
InsideOwns ==
    \A p \in Locking :
        \/ pc[p] = "write" \/ Inside(p)
        \/ pc[p] = "disarm" /\ ~alarm_flag[p]
        => owner = p

\* A process without locking never enters the protocol and owns nothing.
Bystanders == \A p \in Procs \ Locking : pc[p] \in {"idle", "held"} /\ owner # p

\* Once the flag has been tested no alarm can follow.
Quiet == \A p \in Procs : pc[p] = "write" => ~timer[p] /\ ~alarm_flag[p]

IInv == /\ TypeOK /\ Quiet /\ TriesLeft /\ Offsets /\ FileBounded
        /\ NoLeakedLock /\ InsideOwns /\ Bystanders

LEMMA InitIInv == Init => IInv
  BY LockingAssumption, TimeoutAssumption, NoProcAssumption
     DEF Init, IInv, TypeOK, TriesLeft, Offsets, FileBounded, NoLeakedLock, InsideOwns,
         Bystanders, Quiet, Opening, LockCall, Waiting, InUnlock, Inside, NoFile, Record

LEMMA NextIInv == IInv /\ [Next]_vars => IInv'
<1> USE LockingAssumption, TimeoutAssumption, NoProcAssumption
<1> SUFFICES ASSUME IInv, [Next]_vars PROVE IInv'
  OBVIOUS
<1> USE DEF IInv, TypeOK, TriesLeft, Offsets, FileBounded, NoLeakedLock, InsideOwns,
            Bystanders, Quiet, Opening, LockCall, Waiting, InUnlock, Inside, NoFile, Record,
            Goto, Close, Written
<1>1. CASE UNCHANGED vars
  BY <1>1 DEF vars
<1>2. CASE Next
  <2> SUFFICES ASSUME NEW p \in Procs,
                      \/ Call(p) \/ LockStep(p) \/ Grant(p) \/ Interrupted(p)
                      \/ Unlock(p) \/ UnlockStep(p) \/ Alarm(p) \/ Crash(p)
               PROVE  IInv'
    BY <1>2 DEF Next
  <2>1. CASE Call(p)           BY <2>1 DEF Call
  <2>2. CASE Open(p)           BY <2>2 DEF Open
  <2>3. CASE Create(p)         BY <2>3 DEF Create
  <2>4. CASE Reopen(p)         BY <2>4 DEF Reopen
  <2>5. CASE Fstat(p)          BY <2>5 DEF Fstat
  <2>6. CASE Prewrite(p)       BY <2>6 DEF Prewrite
  <2>7. CASE Arm(p)
    <3>1. timer' \in [Procs -> BOOLEAN] /\ alarm_flag' \in [Procs -> BOOLEAN]
      <4> DEFINE armed == timeout[p] > 0
      <4>1. armed \in BOOLEAN
        OBVIOUS
      <4>2. timer' = timer \/ timer' = [timer EXCEPT ![p] = armed]
        BY <2>7 DEF Arm
      <4> HIDE DEF armed
      <4>3. timer' \in [Procs -> BOOLEAN]
        BY <4>1, <4>2, Zenon
      <4>4. alarm_flag' \in [Procs -> BOOLEAN]
        BY <2>7, Zenon DEF Arm
      <4>5. QED
        BY <4>3, <4>4
    <3>2. pc' \in [Procs -> {"idle", "held"} \cup LockCall \cup InUnlock]
      BY <2>7 DEF Arm
    <3>3. TypeOK'
      BY <2>7, <3>1, <3>2 DEF Arm
    <3>4. TriesLeft' /\ Offsets' /\ FileBounded' /\ Bystanders'
      BY <2>7 DEF Arm
    <3>5. NoLeakedLock'
      BY <2>7 DEF Arm
    <3>6. InsideOwns'
      BY <2>7 DEF Arm
    <3>7. Quiet'
      BY <2>7 DEF Arm
    <3>8. QED
      BY <3>3, <3>4, <3>5, <3>6, <3>7
  <2>8. CASE Check(p)          BY <2>8 DEF Check
  <2>9. CASE Block(p)          BY <2>9 DEF Block
  <2>10. CASE Grant(p)         BY <2>10 DEF Grant
  <2>11. CASE Interrupted(p)   BY <2>11 DEF Interrupted
  <2>12. CASE Alarm(p)         BY <2>12 DEF Alarm
  <2>13. CASE Disarm(p)        BY <2>13 DEF Disarm
  <2>14. CASE WritePid(p)      BY <2>14 DEF WritePid
  <2>15. CASE Unlock(p)
    <3>1. TypeOK' /\ TriesLeft' /\ Bystanders'
      BY <2>15 DEF Unlock
    <3>2. Offsets' /\ FileBounded'
      BY <2>15 DEF Unlock
    <3>3. NoLeakedLock'
      <4> SUFFICES ASSUME NEW q \in Procs, owner' = q
                   PROVE  pc'[q] \in {"disarm", "write", "uclose", "held", "uarm", "uloop"}
        OBVIOUS
      <4>1. CASE pc' = [pc EXCEPT ![p] = "uarm"]
        BY <2>15, <4>1 DEF Unlock
      <4>2. CASE pc' = [pc EXCEPT ![p] = "idle"]
        <5>1. q # p
          BY <2>15, <4>2 DEF Unlock
        <5>2. QED
          BY <2>15, <4>2, <5>1 DEF Unlock
      <4>3. QED
        BY <2>15, <4>1, <4>2 DEF Unlock
    <3>4. InsideOwns'
      BY <2>15 DEF Unlock
    <3>5. Quiet'
      BY <2>15 DEF Unlock
    <3>6. QED
      BY <3>1, <3>2, <3>3, <3>4, <3>5
  <2>16. CASE UnlockArm(p)
    <3>1. alarm_flag' \in [Procs -> BOOLEAN]
      BY <2>16, Zenon DEF UnlockArm
    <3>2. timer' \in [Procs -> BOOLEAN]
      BY <2>16, Zenon DEF UnlockArm
    <3>3. TypeOK'
      BY <2>16, <3>1, <3>2 DEF UnlockArm
    <3>4. TriesLeft' /\ Offsets' /\ FileBounded' /\ Bystanders'
      BY <2>16 DEF UnlockArm
    <3>5. NoLeakedLock'
      BY <2>16 DEF UnlockArm
    <3>6. InsideOwns'
      <4> SUFFICES ASSUME NEW q \in Locking,
                          \/ pc'[q] \in {"write", "held", "uarm", "uloop"}
                          \/ pc'[q] = "disarm" /\ ~alarm_flag'[q]
                   PROVE  owner' = q
        OBVIOUS
      <4>1. CASE q = p
        BY <2>16, <4>1 DEF UnlockArm
      <4>2. CASE q # p
        <5>1. pc'[q] = pc[q] /\ alarm_flag'[q] = alarm_flag[q]
          BY <2>16, <4>2, Zenon DEF UnlockArm
        <5>2. owner = q
          BY <5>1
        <5>3. QED
          BY <2>16, <5>2, <4>2 DEF UnlockArm
      <4>3. QED
        BY <4>1, <4>2
    <3>7. Quiet'
      <4>1. \A q \in Procs \ {p} : /\ pc'[q] = pc[q] /\ timer'[q] = timer[q]
                                   /\ alarm_flag'[q] = alarm_flag[q]
        BY <2>16, Zenon DEF UnlockArm
      <4>2. pc'[p] # "write"
        BY <2>16 DEF UnlockArm
      <4>3. QED
        BY <4>1, <4>2
    <3>8. QED
      BY <3>3, <3>4, <3>5, <3>6, <3>7
  <2>17. CASE UnlockRelease(p) BY <2>17 DEF UnlockRelease
  <2>18. CASE UnlockClose(p)   BY <2>18 DEF UnlockClose
  <2>19. CASE Crash(p)         BY <2>19 DEF Crash
  <2>20. QED
    BY <2>1, <2>2, <2>3, <2>4, <2>5, <2>6, <2>7, <2>8, <2>9, <2>10, <2>11, <2>12,
       <2>13, <2>14, <2>15, <2>16, <2>17, <2>18, <2>19 DEF LockStep, UnlockStep
<1>3. QED
  BY <1>1, <1>2

LEMMA Invariance == Spec => []IInv
  BY InitIInv, NextIInv, PTL DEF Spec

(***************************************************************************)
(* The type invariant of the model of lock.c.                              *)
(***************************************************************************)
THEOREM TypeCorrect == Spec => []TypeOK
  BY Invariance, PTL DEF IInv

(***************************************************************************)
(* One process that uses locking is inside at a time (lock.c:45-150).      *)
(***************************************************************************)
THEOREM Exclusion == Spec => []MutualExclusion
<1>1. IInv => MutualExclusion
  BY DEF IInv, TypeOK, InsideOwns, MutualExclusion
<1>2. QED
  BY Invariance, <1>1, PTL

(***************************************************************************)
(* No way out of state_lock_ leaves the record lock behind, and the lock   *)
(* file keeps to two records (lock.c:99-149).                              *)
(***************************************************************************)
THEOREM CleanExit == Spec => [](NoLeakedLock /\ FileBounded)
  BY Invariance, PTL DEF IInv

(***************************************************************************)
(* A call whose timer has expired is not answered with success             *)
(* (lock.c:133).                                                           *)
(***************************************************************************)
THEOREM NoLateGrant == Spec => NoGrantAfterAlarm
<1> USE LockingAssumption, TimeoutAssumption, NoProcAssumption
<1> DEFINE Late == \A p \in Locking : alarm_flag[p] /\ pc[p] # "held" => pc'[p] # "held"
<1>1. IInv /\ [Next]_vars => [Late]_vars
  <2> SUFFICES ASSUME IInv, Next, NEW q \in Locking, alarm_flag[q], pc[q] # "held"
               PROVE  pc'[q] # "held"
    BY Zenon
  <2> PICK p \in Procs : \/ Call(p) \/ LockStep(p) \/ Grant(p) \/ Interrupted(p)
                         \/ Unlock(p) \/ UnlockStep(p) \/ Alarm(p) \/ Crash(p)
    BY DEF Next
  <2>1. CASE WritePid(p)
    BY <2>1 DEF WritePid, Close, Goto, IInv, TypeOK, Quiet
  <2>2. CASE ~WritePid(p)
    BY <2>2 DEF IInv, TypeOK, LockStep, UnlockStep, Call, Open, Create, Reopen, Fstat,
         Prewrite, Arm, Check, Block, Grant, Interrupted, Alarm, Disarm, Unlock,
         UnlockArm, UnlockRelease, UnlockClose, Crash, Close, Goto
  <2>3. QED
    BY <2>1, <2>2
<1>2. QED
  BY Invariance, <1>1, PTL DEF Spec, NoGrantAfterAlarm

(***************************************************************************)
(* The protocol implements the abstract lock of LockService: whoever gets  *)
(* success entered when nobody was inside.                                 *)
(***************************************************************************)
THEOREM Refinement == Spec => ImplementsLockService
<1> USE LockingAssumption, TimeoutAssumption, NoProcAssumption
<1>1. Init => Abstract!Init
  BY DEF Init, Abstract!Init, Status, StatusAt, LockCall, Opening, Waiting
<1>2. IInv /\ [Next]_vars => [Abstract!Next]_Status
  <2> SUFFICES ASSUME IInv, [Next]_vars PROVE [Abstract!Next]_Status
    OBVIOUS
  <2>1. CASE UNCHANGED vars
    BY <2>1 DEF vars, Status
  <2>2. CASE Next
    <3> PICK p \in Procs : \/ Call(p) \/ LockStep(p) \/ Grant(p) \/ Interrupted(p)
                           \/ Unlock(p) \/ UnlockStep(p) \/ Alarm(p) \/ Crash(p)
      BY <2>2 DEF Next
    <3>1. \A q \in Procs : q # p => pc'[q] = pc[q]
      BY DEF IInv, TypeOK, LockStep, UnlockStep, Call, Open, Create, Reopen, Fstat,
         Prewrite, Arm, Check, Block, Grant, Interrupted, Alarm, Disarm, WritePid, Unlock,
         UnlockArm, UnlockRelease, UnlockClose, Crash, Close, Goto
    <3>2. pc' \in [Procs -> {"idle", "held"} \cup LockCall \cup InUnlock]
      BY NextIInv DEF IInv, TypeOK
    <3>3. CASE p \notin Locking
      <4>1. \A q \in Locking : pc'[q] = pc[q]
        BY <3>1, <3>3
      <4>2. Status' = Status
        BY <4>1 DEF Status
      <4>3. QED
        BY <4>2
    <3>4. CASE p \in Locking
      <4>1. Status' = [Status EXCEPT ![p] = Status'[p]]
        BY <3>1 DEF Status
      <4>2. /\ Status[p] = "trying" <=> pc[p] \in LockCall
            /\ Status[p] = "out" <=> pc[p] \in {"idle", "uclose"}
            /\ Status[p] = "in" <=> Inside(p)
        BY <3>4 DEF IInv, TypeOK, Status, StatusAt, Inside, LockCall, Opening, Waiting,
               InUnlock
      <4>3. /\ Status'[p] = "trying" <=> pc'[p] \in LockCall
            /\ Status'[p] = "out" <=> pc'[p] \in {"idle", "uclose"}
            /\ Status'[p] = "in" <=> pc'[p] \in {"held", "uarm", "uloop"}
        BY <3>2, <3>4 DEF Status, StatusAt, LockCall, Opening, Waiting, InUnlock
      <4>4. CASE WritePid(p) /\ pc'[p] = "held"
        <5>1. owner = p /\ pc[p] = "write"
          BY <3>4, <4>4 DEF WritePid, IInv, InsideOwns
        <5>2. \A q \in Locking : ~Inside(q)
          BY <5>1 DEF IInv, InsideOwns, Inside
        <5>3. \A q \in Locking : Status[q] # "in"
          BY <5>2 DEF IInv, TypeOK, Status, StatusAt, Inside, LockCall, Opening, Waiting,
                 InUnlock
        <5>4. Abstract!Enter(p)
          BY <4>1, <4>2, <4>3, <4>4, <5>1, <5>3 DEF Abstract!Enter, LockCall
        <5>5. QED
          BY <3>4, <5>4 DEF Abstract!Next
      <4>5. CASE ~(WritePid(p) /\ pc'[p] = "held")
        <5>1. /\ pc[p] \in {"idle", "uclose"} => pc'[p] \in {"idle", "uclose"} \cup LockCall
              /\ pc[p] \in LockCall => pc'[p] \in {"idle"} \cup LockCall
          BY <3>4, <4>5 DEF IInv, TypeOK, LockCall, Opening, Waiting, LockStep,
                 UnlockStep, Call, Open, Create, Reopen, Fstat,
         Prewrite, Arm, Check, Block, Grant, Interrupted, Alarm, Disarm, WritePid, Unlock,
         UnlockArm, UnlockRelease, UnlockClose, Crash, Close, Goto
        <5>2. Inside(p) => pc'[p] \in {"idle", "held", "uarm", "uloop", "uclose"}
          BY <3>4, <4>5 DEF IInv, TypeOK, Inside, LockStep, UnlockStep, Call, Open,
                 Create, Reopen, Fstat,
         Prewrite, Arm, Check, Block, Grant, Interrupted, Alarm, Disarm, WritePid, Unlock,
         UnlockArm, UnlockRelease, UnlockClose, Crash, Close, Goto
        <5>3. \/ Status'[p] = Status[p]
              \/ Status[p] = "out" /\ Status'[p] = "trying"
              \/ Status[p] # "out" /\ Status'[p] = "out"
          BY <3>2, <4>2, <4>3, <5>1, <5>2 DEF LockCall, Opening, Waiting, Inside,
                 InUnlock, IInv, TypeOK
        <5>4. Status = [Status EXCEPT ![p] = Status[p]]
          BY DEF Status
        <5>5. CASE Status'[p] = Status[p]
          BY <4>1, <5>4, <5>5
        <5>6. CASE Status[p] = "out" /\ Status'[p] = "trying"
          BY <3>4, <4>1, <5>6 DEF Abstract!Request, Abstract!Next
        <5>7. CASE Status[p] # "out" /\ Status'[p] = "out"
          BY <3>4, <4>1, <5>7 DEF Abstract!Leave, Abstract!Next
        <5>8. QED
          BY <5>3, <5>5, <5>6, <5>7
      <4>6. QED
        BY <4>4, <4>5
    <3>5. QED
      BY <3>3, <3>4
  <2>3. QED
    BY <2>1, <2>2
<1>3. QED
  BY Invariance, <1>1, <1>2, PTL DEF Spec, ImplementsLockService, Abstract!Spec

-----------------------------------------------------------------------------
(***************************************************************************)
(* The loopback job (LoopJob), an instance of its own: any latency and     *)
(* buffers, any drift of the two clocks, any number of rounds.             *)
(***************************************************************************)

CONSTANTS Latency, PlayBuffer, CaptBuffer, MaxDrift, MaxRounds, MaxFrame, MaxEvents
VARIABLES loop, hw, now, drift, active, event, events, stage, rounds, moved, playOnly,
          due, wrote, patched

J == INSTANCE LoopJob WITH pc <- stage

\* What LoopJob assumes of its constants.
LoopSizes ==
    /\ {Latency, PlayBuffer, CaptBuffer, MaxRounds, MaxFrame} \subseteq Nat \ {0}
    /\ {MaxDrift, MaxEvents} \subseteq Nat

(***************************************************************************)
(* Arithmetic: the remainders and minima that the ring is built from.      *)
(***************************************************************************)
LEMMA StepMod ==
    ASSUME NEW n \in Nat \ {0}, NEW p \in 0 .. n - 1, NEW a \in 0 .. n
    PROVE  (p + a) % n = IF p + a < n THEN p + a ELSE p + a - n
<1>1. CASE p + a < n
  BY <1>1
<1>2. CASE p + a >= n
  BY <1>2
<1>3. QED
  BY <1>1, <1>2

LEMMA BehindMod ==
    ASSUME NEW n \in Nat \ {0}, NEW i \in 0 .. n - 1, NEW p \in 0 .. n - 1
    PROVE  (i - p + n) % n = IF i >= p THEN i - p ELSE i - p + n
<1>1. CASE i >= p
  BY <1>1
<1>2. CASE i < p
  BY <1>2
<1>3. QED
  BY <1>1, <1>2

LEMMA ModIn == ASSUME NEW n \in Nat \ {0}, NEW a \in Int PROVE a % n \in 0 .. n - 1
  OBVIOUS

LEMMA SizeIs ==
    ASSUME LoopSizes
    PROVE  J!Size \in Nat \ {0} /\ 2 * Latency <= J!Size /\ 2 * PlayBuffer <= J!Size
<1> DEFINE S == {Latency, PlayBuffer, CaptBuffer}
<1>1. \E x \in S : \A y \in S : x >= y
  BY DEF LoopSizes
<1>2. J!Max(S) \in S /\ \A y \in S : J!Max(S) >= y
  BY <1>1 DEF J!Max
<1>3. QED
  BY <1>2 DEF J!Size, LoopSizes

LEMMA Min2 ==
    ASSUME NEW a \in Int, NEW b \in Int
    PROVE  J!Min({a, b}) = IF a <= b THEN a ELSE b
<1> DEFINE S == {a, b}
<1>1. \E x \in S : \A y \in S : x =< y
  OBVIOUS
<1>2. J!Min(S) \in S /\ \A y \in S : J!Min(S) =< y
  BY <1>1 DEF J!Min
<1>3. QED
  BY <1>2

LEMMA Min3 ==
    ASSUME NEW a \in Int, NEW b \in Int, NEW c \in Int
    PROVE  /\ J!Min({a, b, c}) \in {a, b, c}
           /\ J!Min({a, b, c}) <= a /\ J!Min({a, b, c}) <= b /\ J!Min({a, b, c}) <= c
<1> DEFINE S == {a, b, c}
<1>1. \E x \in S : \A y \in S : x =< y
  OBVIOUS
<1>2. J!Min(S) \in S /\ \A y \in S : J!Min(S) =< y
  BY <1>1 DEF J!Min
<1>3. QED
  BY <1>2

(***************************************************************************)
(* The ring: its slots, and the queue of frames in it.                     *)
(***************************************************************************)
LEMMA StepIn ==
    ASSUME LoopSizes, NEW p \in J!Slots, NEW a \in 0 .. J!Size
    PROVE  /\ (p + a) % J!Size \in J!Slots
           /\ (p + a) % J!Size = IF p + a < J!Size THEN p + a ELSE p + a - J!Size
<1>1. J!Size \in Nat \ {0} /\ p \in 0 .. J!Size - 1
  BY SizeIs DEF J!Slots
<1>2. (p + a) % J!Size = IF p + a < J!Size THEN p + a ELSE p + a - J!Size
  BY <1>1, StepMod
<1>3. QED
  BY <1>1, <1>2 DEF J!Slots

LEMMA StepStep ==
    ASSUME LoopSizes, NEW p \in J!Slots, NEW a \in Nat, NEW b \in Nat, a + b <= J!Size
    PROVE  (((p + a) % J!Size) + b) % J!Size = (p + (a + b)) % J!Size
<1>1. a \in 0 .. J!Size /\ b \in 0 .. J!Size /\ a + b \in 0 .. J!Size
  BY SizeIs
<1> DEFINE m == (p + a) % J!Size
<1>2. m \in J!Slots /\ m = IF p + a < J!Size THEN p + a ELSE p + a - J!Size
  BY <1>1, StepIn
<1>3. (m + b) % J!Size = IF m + b < J!Size THEN m + b ELSE m + b - J!Size
  BY <1>1, <1>2, StepIn
<1>4. (p + (a + b)) % J!Size 
           = IF p + (a + b) < J!Size THEN p + (a + b) ELSE p + (a + b) - J!Size
  BY <1>1, StepIn
<1> HIDE DEF m
<1>5. (m + b) % J!Size = (p + (a + b)) % J!Size
  BY <1>2, <1>3, <1>4, SizeIs DEF J!Slots
<1>6. QED
  BY <1>5 DEF m

\* How far slot i lies behind position p.
Behind(i, p) == (i - p + J!Size) % J!Size

LEMMA BehindIs ==
    ASSUME LoopSizes, NEW i \in J!Slots, NEW p \in J!Slots
    PROVE  /\ Behind(i, p) \in J!Slots
           /\ Behind(i, p) = IF i >= p THEN i - p ELSE i - p + J!Size
<1>1. J!Size \in Nat \ {0} /\ p \in 0 .. J!Size - 1 /\ i \in 0 .. J!Size - 1
  BY SizeIs DEF J!Slots
<1>2. Behind(i, p) = IF i >= p THEN i - p ELSE i - p + J!Size
  BY <1>1, BehindMod DEF Behind
<1>3. QED
  BY <1>1, <1>2 DEF J!Slots

\* Element a of a queue that starts at p, seen from its end, c elements on: the
\* elements of the queue lie before the free slots.
LEMMA FromTheEnd ==
    ASSUME LoopSizes, NEW p \in J!Slots, NEW c \in 0 .. J!Size, NEW a \in 0 .. J!Size - 1
    PROVE  Behind((p + a) % J!Size, (p + c) % J!Size)
             = IF a >= c THEN a - c ELSE a - c + J!Size
<1>1. a \in 0 .. J!Size
  BY SizeIs
<1> DEFINE i == (p + a) % J!Size
           e == (p + c) % J!Size
<1>2. i \in J!Slots /\ i = IF p + a < J!Size THEN p + a ELSE p + a - J!Size
  BY <1>1, StepIn
<1>3. e \in J!Slots /\ e = IF p + c < J!Size THEN p + c ELSE p + c - J!Size
  BY StepIn
<1>4. Behind(i, e) = IF i >= e THEN i - e ELSE i - e + J!Size
  BY <1>2, <1>3, BehindIs
<1> HIDE DEF i, e
<1>5. Behind(i, e) = IF a >= c THEN a - c ELSE a - c + J!Size
  BY <1>2, <1>3, <1>4, SizeIs DEF J!Slots
<1>6. QED
  BY <1>5 DEF i, e

\* The first n elements of q, silence aside, rise and are at most top.
Rising(q, n, top) ==
    /\ \A i \in 1 .. n : q[i] \in 0 .. top
    /\ \A i, j \in 1 .. n : i < j /\ q[i] # J!Silence /\ q[j] # J!Silence => q[i] < q[j]
Heard(q, n) == {q[i] : i \in 1 .. n} \ {J!Silence}

\* The queue of c frames at p is in order, and with the frames top + 1 .. last,
\* which wait in the capture device, it is all that is due.
InOrder(ring, p, c, top, last, D) ==
    /\ Rising(J!FramesAt(ring, p, c), c, top)
    /\ D = Heard(J!FramesAt(ring, p, c), c) \cup ((top + 1) .. last)

\* The frames of f.
Values(f) == {f[i] : i \in DOMAIN f}

\* f may be written: it is due, it comes before all that is left, and it rises.
Turns(f, D, left) ==
    LET sound == {i \in DOMAIN f : f[i] # J!Silence}
    IN  /\ \A i \in sound : f[i] \in D /\ \A x \in left : x > f[i]
        /\ \A i, j \in sound : i < j => f[i] < f[j]

LEMMA RisingDrop ==
    ASSUME NEW q, NEW r, NEW c \in Nat, NEW m \in 0 .. c, NEW top \in Int,
           Rising(q, c, top), \A i \in 1 .. c - m : r[i] = q[i + m]
    PROVE  /\ Rising(r, c - m, top)
           /\ Heard(r, c - m) = Heard(q, c) \ {q[i] : i \in 1 .. m}
           /\ \A i \in 1 .. m : q[i] # J!Silence =>
                /\ q[i] \in Heard(q, c)
                /\ \A x \in Heard(r, c - m) : x > q[i]
<1>1. \A i \in 1 .. c - m : i + m \in 1 .. c
  OBVIOUS
<1>2. \A i \in 1 .. m : i \in 1 .. c
  OBVIOUS
<1>3. Rising(r, c - m, top)
  BY <1>1 DEF Rising
<1>4. \A i \in 1 .. m, j \in 1 .. c - m :
        q[i] # J!Silence /\ r[j] # J!Silence => q[i] < r[j]
  BY <1>1, <1>2 DEF Rising
<1>5. ASSUME NEW x \in Heard(q, c), x \notin {q[i] : i \in 1 .. m}
      PROVE  x \in Heard(r, c - m)
  <2>1. PICK k \in 1 .. c : x = q[k] /\ x # J!Silence
    BY DEF Heard
  <2>2. k \notin 1 .. m
    BY <1>5, <2>1
  <2>3. k - m \in 1 .. c - m /\ r[k - m] = q[k]
    BY <2>1, <2>2
  <2>4. QED
    BY <2>1, <2>3 DEF Heard
<1>6. ASSUME NEW x \in Heard(r, c - m)
      PROVE  x \in Heard(q, c) /\ x \notin {q[i] : i \in 1 .. m}
  <2>1. PICK k \in 1 .. c - m : x = r[k] /\ x # J!Silence
    BY DEF Heard
  <2>2. x \in Heard(q, c)
    BY <1>1, <2>1 DEF Heard
  <2>3. \A i \in 1 .. m : q[i] # x
    BY <1>1, <1>2, <1>4, <2>1 DEF Rising
  <2>4. QED
    BY <2>2, <2>3
<1>7. \A i \in 1 .. m : q[i] # J!Silence =>
        /\ q[i] \in Heard(q, c)
        /\ \A x \in Heard(r, c - m) : x > q[i]
  BY <1>1, <1>2, <1>4 DEF Heard, Rising, J!Silence
<1>8. QED
  BY <1>3, <1>5, <1>6, <1>7

LEMMA QueueDrop ==
    ASSUME LoopSizes, NEW ring, NEW p \in J!Slots, NEW c \in 0 .. J!Size, NEW m \in 0 .. c
    PROVE  /\ \A i \in 1 .. c - m :
                J!FramesAt(ring, (p + m) % J!Size, c - m)[i] = J!FramesAt(ring, p, c)[i + m]
           /\ \A i \in 1 .. m : J!FramesAt(ring, p, m)[i] = J!FramesAt(ring, p, c)[i]
<1>1. ASSUME NEW i \in 1 .. c - m
      PROVE  J!FramesAt(ring, (p + m) % J!Size, c - m)[i] = J!FramesAt(ring, p, c)[i + m]
  <2>1. m \in Nat /\ i - 1 \in Nat /\ m + (i - 1) <= J!Size /\ i + m \in 1 .. c
    BY SizeIs
  <2>2. (((p + m) % J!Size) + (i - 1)) % J!Size = (p + (m + (i - 1))) % J!Size
    BY <2>1, StepStep
  <2>3. (p + m) % J!Size \in Int /\ p \in Int
    BY StepIn, <2>1, SizeIs DEF J!Slots
  <2>4. /\ ((p + m) % J!Size) + i - 1 = ((p + m) % J!Size) + (i - 1)
        /\ p + (i + m) - 1 = p + (m + (i - 1))
    BY <2>3, <2>1
  <2>5. J!FramesAt(ring, (p + m) % J!Size, c - m)[i]
          = ring[(((p + m) % J!Size) + i - 1) % J!Size]
    BY DEF J!FramesAt
  <2>6. J!FramesAt(ring, p, c)[i + m] = ring[(p + (i + m) - 1) % J!Size]
    BY <2>1 DEF J!FramesAt
  <2>7. QED
    BY <2>2, <2>4, <2>5, <2>6
<1>2. ASSUME NEW i \in 1 .. m
      PROVE  J!FramesAt(ring, p, m)[i] = J!FramesAt(ring, p, c)[i]
  <2>1. i \in 1 .. c
    BY SizeIs
  <2>2. QED
    BY <2>1 DEF J!FramesAt
<1>3. QED
  BY <1>1, <1>2

\* Frames that are taken from the head of a queue in order.
LEMMA TakeFirst ==
    ASSUME LoopSizes, NEW ring, NEW p \in J!Slots, NEW c \in 0 .. J!Size, NEW m \in 0 .. c,
           NEW top \in Nat, NEW last \in Nat, NEW D, InOrder(ring, p, c, top, last, D),
           NEW f, f = J!FramesAt(ring, p, m),
           NEW left, left = D \ Values(f)
    PROVE  /\ InOrder(ring, (p + m) % J!Size, c - m, top, last, left)
           /\ Turns(f, D, left)
<1> DEFINE q == J!FramesAt(ring, p, c)
           r == J!FramesAt(ring, (p + m) % J!Size, c - m)
           W == (top + 1) .. last
<1>1. DOMAIN f = 1 .. m
  BY DEF J!FramesAt
<1>2. /\ \A i \in 1 .. c - m : r[i] = q[i + m]
      /\ \A i \in 1 .. m : f[i] = q[i]
  BY QueueDrop
<1>3. Rising(q, c, top) /\ D = Heard(q, c) \cup W
  BY DEF InOrder
<1>4. c \in Nat /\ c - m \in Nat /\ m \in Nat
  BY SizeIs
<1> HIDE DEF q, r
<1>5. /\ Rising(r, c - m, top)
      /\ Heard(r, c - m) = Heard(q, c) \ {q[i] : i \in 1 .. m}
      /\ \A i \in 1 .. m : q[i] # J!Silence =>
           q[i] \in Heard(q, c) /\ \A x \in Heard(r, c - m) : x > q[i]
  BY <1>2, <1>3, <1>4, RisingDrop
<1>6. Values(f) = {q[i] : i \in 1 .. m}
  BY <1>1, <1>2 DEF Values
<1>7. \A i \in 1 .. m : i \in 1 .. c /\ q[i] \in 0 .. top
  BY <1>3, <1>4 DEF Rising
<1>8. \A x \in W : \A i \in 1 .. m : x > q[i]
  BY <1>7
<1>9. left = Heard(r, c - m) \cup W
  BY <1>3, <1>5, <1>6, <1>7
<1>10. Turns(f, D, left)
  <2>1. \A i, j \in 1 .. m : i < j /\ q[i] # J!Silence /\ q[j] # J!Silence => q[i] < q[j]
    BY <1>3, <1>7 DEF Rising
  <2>2. \A i \in 1 .. m : q[i] # J!Silence => q[i] \in D /\ \A x \in left : x > q[i]
    BY <1>3, <1>5, <1>8, <1>9
  <2>3. QED
    BY <2>1, <2>2, <1>1, <1>2 DEF Turns
<1>11. InOrder(ring, (p + m) % J!Size, c - m, top, last, left)
  BY <1>5, <1>9 DEF InOrder, r
<1>12. QED
  BY <1>10, <1>11

\* What waits in the capture device is given up.
LEMMA LoseWaiting ==
    ASSUME NEW ring, NEW p, NEW c \in Nat, NEW top \in Nat, NEW last \in Nat,
           top <= last, NEW D, InOrder(ring, p, c, top, last, D)
    PROVE  InOrder(ring, p, c, last, last, D \ ((top + 1) .. last))
<1> DEFINE q == J!FramesAt(ring, p, c)
<1>1. Rising(q, c, top) /\ D = Heard(q, c) \cup ((top + 1) .. last)
  BY DEF InOrder
<1> HIDE DEF q
<1>2. Rising(q, c, last)
  BY <1>1 DEF Rising
<1>3. \A x \in Heard(q, c) : x \notin (top + 1) .. last
  BY <1>1 DEF Rising, Heard
<1>4. (last + 1) .. last = {}
  OBVIOUS
<1>5. QED
  BY <1>1, <1>2, <1>3, <1>4 DEF InOrder, q

\* Frames top + 1 .. top + n of the capture device go behind the queue.
Appended(ring, cpos, top, n) ==
    [i \in J!Slots |-> IF Behind(i, cpos) < n THEN top + 1 + Behind(i, cpos) ELSE ring[i]]

LEMMA AppendInOrder ==
    ASSUME LoopSizes, NEW ring, NEW p \in J!Slots, NEW c \in Nat, NEW n \in Nat,
           c + n <= J!Size,
           NEW top \in Nat, NEW last \in Nat, top + n <= last,
           NEW D, InOrder(ring, p, c, top, last, D)
    PROVE  InOrder(Appended(ring, (p + c) % J!Size, top, n), p, c + n, top + n, last, D)
<1> DEFINE e == (p + c) % J!Size
           ring2 == Appended(ring, e, top, n)
           q == J!FramesAt(ring, p, c)
           r == J!FramesAt(ring2, p, c + n)
<1>1. Rising(q, c, top) /\ D = Heard(q, c) \cup ((top + 1) .. last)
  BY DEF InOrder
<1>2. ASSUME NEW j \in 1 .. c + n
      PROVE  r[j] = IF j > c THEN top + (j - c) ELSE q[j]
  <2>1. j - 1 \in 0 .. J!Size - 1 /\ c \in 0 .. J!Size /\ j - 1 \in 0 .. J!Size
    BY SizeIs
  <2> DEFINE s == (p + (j - 1)) % J!Size
  <2>2. s \in J!Slots
    BY <2>1, StepIn
  <2>3. Behind(s, e) = IF j - 1 >= c THEN j - 1 - c ELSE j - 1 - c + J!Size
    BY <2>1, FromTheEnd
  <2>4. p + j - 1 = p + (j - 1)
    BY SizeIs DEF J!Slots
  <2>5. r[j] = ring2[s]
    BY <2>4 DEF J!FramesAt
  <2>6. j <= c => q[j] = ring[s]
    BY <2>4 DEF J!FramesAt
  <2> HIDE DEF s, e, q, r
  <2>7. ring2[s] = IF Behind(s, e) < n THEN top + 1 + Behind(s, e) ELSE ring[s]
    BY <2>2 DEF Appended
  <2> HIDE DEF ring2
  <2>8. CASE j > c
    BY <2>3, <2>5, <2>7, <2>8, SizeIs
  <2>9. CASE j <= c
    BY <2>3, <2>5, <2>6, <2>7, <2>9, SizeIs
  <2>10. QED
    BY <2>8, <2>9
<1> HIDE DEF q, r, ring2
<1>3. Rising(r, c + n, top + n)
  <2>1. \A i \in 1 .. c : q[i] \in 0 .. top
    BY <1>1 DEF Rising
  <2>2. \A i \in 1 .. c + n : r[i] \in 0 .. top + n
    BY <1>2, <2>1
  <2>3. ASSUME NEW i \in 1 .. c + n, NEW j \in 1 .. c + n, i < j,
               r[i] # J!Silence, r[j] # J!Silence
        PROVE  r[i] < r[j]
    <3>1. CASE j <= c
      BY <1>1, <1>2, <2>3, <3>1 DEF Rising
    <3>2. CASE i <= c /\ j > c
      <4>1. r[i] \in 0 .. top /\ r[j] = top + (j - c)
        BY <1>2, <2>1, <3>2
      <4>2. QED
        BY <4>1, <3>2
    <3>3. CASE i > c
      BY <1>2, <2>3, <3>3
    <3>4. QED
      BY <3>1, <3>2, <3>3
  <2>4. QED
    BY <2>2, <2>3 DEF Rising
<1>4. Heard(r, c + n) = Heard(q, c) \cup ((top + 1) .. (top + n))
  <2>1. ASSUME NEW x \in Heard(r, c + n)
        PROVE  x \in Heard(q, c) \cup ((top + 1) .. (top + n))
    <3>1. PICK k \in 1 .. c + n : x = r[k] /\ x # J!Silence
      BY DEF Heard
    <3>2. CASE k <= c
      <4>1. k \in 1 .. c /\ x = q[k]
        BY <1>2, <3>1, <3>2
      <4>2. QED
        BY <4>1, <3>1 DEF Heard
    <3>3. CASE k > c
      <4>1. x = top + (k - c)
        BY <1>2, <3>1, <3>3
      <4>2. QED
        BY <4>1, <3>3
    <3>4. QED
      BY <3>2, <3>3
  <2>2. ASSUME NEW x \in Heard(q, c)
        PROVE  x \in Heard(r, c + n)
    <3>1. PICK k \in 1 .. c : x = q[k] /\ x # J!Silence
      BY DEF Heard
    <3>2. k \in 1 .. c + n /\ r[k] = q[k]
      BY <1>2
    <3>3. QED
      BY <3>1, <3>2 DEF Heard
  <2>3. ASSUME NEW x \in (top + 1) .. (top + n)
        PROVE  x \in Heard(r, c + n)
    <3>1. c + (x - top) \in 1 .. c + n /\ c + (x - top) > c
      OBVIOUS
    <3>2. r[c + (x - top)] = top + ((c + (x - top)) - c)
      BY <1>2, <3>1
    <3>3. r[c + (x - top)] = x /\ x # 0
      BY <3>2
    <3>4. QED
      BY <3>1, <3>3 DEF Heard, J!Silence
  <2>4. QED
    BY <2>1, <2>2, <2>3
<1>5. (top + 1) .. last = ((top + 1) .. (top + n)) \cup ((top + n + 1) .. last)
  OBVIOUS
<1>6. D = Heard(r, c + n) \cup ((top + n + 1) .. last)
  BY <1>1, <1>4, <1>5
<1>7. QED
  BY <1>3, <1>6 DEF InOrder, r, ring2

\* Silence in the n slots before the queue becomes its head.
Silenced(ring, pos, n) ==
    [i \in J!Slots |-> IF i \in pos .. pos + n - 1 THEN J!Silence ELSE ring[i]]

LEMMA PrependInOrder ==
    ASSUME LoopSizes, NEW ring, NEW p \in J!Slots, NEW c \in Nat, NEW n \in Nat,
           c + n <= J!Size, n <= p,
           NEW top \in Nat, NEW last \in Nat, NEW D, InOrder(ring, p, c, top, last, D)
    PROVE  InOrder(Silenced(ring, p - n, n), p - n, c + n, top, last, D)
<1> DEFINE pos == p - n
           ring2 == Silenced(ring, pos, n)
           q == J!FramesAt(ring, p, c)
           r == J!FramesAt(ring2, pos, c + n)
<1>1. Rising(q, c, top) /\ D = Heard(q, c) \cup ((top + 1) .. last)
  BY DEF InOrder
<1>2. pos \in J!Slots /\ pos + n = p /\ p \in Nat /\ p < J!Size
  BY SizeIs DEF J!Slots
<1> HIDE DEF pos
<1>3. ASSUME NEW j \in 1 .. c + n
      PROVE  r[j] = IF j <= n THEN J!Silence ELSE q[j - n]
  <2>1. j - 1 \in 0 .. J!Size
    BY SizeIs
  <2> DEFINE s == (pos + (j - 1)) % J!Size
  <2>2. s \in J!Slots /\ s
          = IF pos + (j - 1) < J!Size THEN pos + (j - 1) ELSE pos + (j - 1) - J!Size
    BY <2>1, <1>2, StepIn
  <2>3. pos + j - 1 = pos + (j - 1) /\ pos \in Int
    BY SizeIs, <1>2 DEF J!Slots
  <2>4. r[j] = ring2[s]
    BY <2>3 DEF J!FramesAt
  <2>5. j > n => j - n \in 1 .. c /\ p + (j - n) - 1 = pos + (j - 1)
    BY <1>2, <2>3
  <2>6. j > n => q[j - n] = ring[s]
    BY <2>5 DEF J!FramesAt
  <2> HIDE DEF s, q, r
  <2>7. ring2[s] = IF s \in pos .. pos + n - 1 THEN J!Silence ELSE ring[s]
    BY <2>2 DEF Silenced
  <2> HIDE DEF ring2
  <2>8. CASE j <= n
    <3>1. s \in pos .. pos + n - 1
      BY <1>2, <2>2, <2>3, <2>8, SizeIs
    <3>2. QED
      BY <2>4, <2>7, <2>8, <3>1
  <2>9. CASE j > n
    <3>1. s \notin pos .. pos + n - 1
      BY <1>2, <2>2, <2>3, <2>9, SizeIs
    <3>2. QED
      BY <2>4, <2>6, <2>7, <2>9, <3>1
  <2>10. QED
    BY <2>8, <2>9
<1> HIDE DEF q, r, ring2
<1>4. Rising(r, c + n, top)
  <2>1. \A j \in 1 .. c + n : r[j] \in 0 .. top
    BY <1>1, <1>3 DEF Rising, J!Silence
  <2>2. \A i, j \in 1 .. c + n :
          i < j /\ r[i] # J!Silence /\ r[j] # J!Silence => r[i] < r[j]
    <3>1. \A i \in 1 .. c + n : r[i] # J!Silence => i - n \in 1 .. c /\ r[i] = q[i - n]
      BY <1>3
    <3>2. \A i, j \in 1 .. c + n : i < j => i - n < j - n
      OBVIOUS
    <3>3. QED
      BY <1>1, <3>1, <3>2 DEF Rising
  <2>3. QED
    BY <2>1, <2>2 DEF Rising
<1>5. Heard(r, c + n) = Heard(q, c)
  <2>1. ASSUME NEW x \in Heard(r, c + n)
        PROVE  x \in Heard(q, c)
    <3>1. PICK k \in 1 .. c + n : x = r[k] /\ x # J!Silence
      BY DEF Heard
    <3>2. k - n \in 1 .. c /\ x = q[k - n]
      BY <1>3, <3>1
    <3>3. QED
      BY <3>1, <3>2 DEF Heard
  <2>2. ASSUME NEW x \in Heard(q, c)
        PROVE  x \in Heard(r, c + n)
    <3>1. PICK k \in 1 .. c : x = q[k] /\ x # J!Silence
      BY DEF Heard
    <3>2. k + n \in 1 .. c + n /\ k + n > n /\ (k + n) - n = k
      OBVIOUS
    <3>3. r[k + n] = q[k]
      BY <1>3, <3>2
    <3>4. QED
      BY <3>1, <3>2, <3>3 DEF Heard
  <2>3. QED
    BY <2>1, <2>2
<1>6. QED
  BY <1>1, <1>4, <1>5 DEF InOrder, r, ring2, pos

(***************************************************************************)
(* The inductive invariant.  That playback gets each frame once and in     *)
(* turn needs all of it: the two counts, that the positions differ by the  *)
(* count, and that the queue is in order and is, with what waits in the    *)
(* capture device, all that is due.                                        *)
(***************************************************************************)
\* Types, which hold even where the counts do not agree any more.
Loops == [ring : [J!Slots -> Int], running : BOOLEAN, reinit : BOOLEAN,
          stop_pending : BOOLEAN, stop_count : Int, cpos : J!Slots, ccount : Int,
          cxrun : BOOLEAN, ppos : J!Slots, pcount : Int, pxrun : BOOLEAN]
DeviceStates == {"open", "running", "draining", "xrun", "prepared"}
Devices == [cstate : DeviceStates, cavail : Int, pstate : DeviceStates, pfill : Int]
LoopTypes ==
    /\ loop \in Loops /\ hw \in Devices /\ now \in Nat
    /\ active \in BOOLEAN /\ patched \in BOOLEAN /\ moved \in BOOLEAN

\* The flags of an overrun or underrun are handled before the call returns.
LoopFlags ==
    /\ stage \in {"poll", "read", "write", "after", "reinit", "sync", "delays", "exit"}
    /\ stage \in {"poll", "read", "write", "reinit"} => ~loop.pxrun
    /\ stage \in {"poll", "read", "write", "reinit", "delays"} => ~loop.cxrun
    /\ stage \in {"read", "write", "after", "sync", "delays"} => loop.running

\* The loop runs, and is neither to be started anew nor given up.
Alive == loop.running /\ stage # "exit" /\ (stage = "reinit" => ~loop.reinit)

LoopCounts ==
    /\ hw.cavail \in 0 .. CaptBuffer /\ hw.cavail <= now
    /\ hw.pstate \in {"running", "xrun", "prepared"}
    /\ hw.pfill \in 0 .. PlayBuffer
    /\ hw.pfill > 0 <=> hw.pstate = "running"
    /\ hw.pstate = "prepared" => loop.pxrun
    /\ loop.pxrun => hw.pstate # "running"
    /\ 0 <= loop.pcount /\ loop.pcount <= loop.ccount /\ loop.ccount <= J!Size

\* Until silence is patched in, the positions agree with the count, and the
\* queue is in order.
LoopOrder ==
    /\ loop.cpos = (loop.ppos + loop.pcount) % J!Size
    /\ InOrder(loop.ring, loop.ppos, loop.pcount, now - hw.cavail, now, due)

LoopInv ==
    /\ LoopTypes /\ LoopFlags
    /\ Alive => LoopCounts
    /\ Alive /\ ~patched => LoopOrder

(***************************************************************************)
(* What the functions on the loop return.                                  *)
(***************************************************************************)
LEMMA SlotIn ==
    ASSUME LoopSizes
    PROVE  \A a \in Int : a % J!Size \in J!Slots
  BY SizeIs, ModIn DEF J!Slots

LEMMA RemoveSamplesIs ==
    ASSUME LoopSizes, NEW l \in Loops, NEW n \in Int
    PROVE  LET m == J!Removable(l, n)
               r == J!RemoveSamples(l, n)
           IN  /\ m \in {n, l.pcount, l.ccount}
               /\ m <= n /\ m <= l.pcount /\ m <= l.ccount /\ m \in Int
               /\ r \in Loops
               /\ r.ring = l.ring /\ r.running = l.running /\ r.reinit = l.reinit
               /\ r.stop_pending = l.stop_pending /\ r.stop_count = l.stop_count
               /\ r.cpos = l.cpos /\ r.ccount = l.ccount - m /\ r.cxrun = l.cxrun
               /\ r.ppos = (l.ppos + m) % J!Size /\ r.pcount = l.pcount - m
               /\ r.pxrun = l.pxrun
<1> DEFINE m == J!Removable(l, n)
<1>1. l.pcount \in Int /\ l.ccount \in Int /\ l.ppos \in Int
  BY SizeIs DEF Loops, J!Slots
<1>2. /\ m \in {n, l.pcount, l.ccount}
      /\ m <= n /\ m <= l.pcount /\ m <= l.ccount /\ m \in Int
  BY <1>1, Min3 DEF J!Removable
<1> HIDE DEF m
<1>3. (l.ppos + m) % J!Size \in J!Slots
  BY <1>1, <1>2, SlotIn
<1> DEFINE pos == (l.ppos + m) % J!Size
           cc == l.ccount - m
           pp == l.pcount - m
<1>4. J!RemoveSamples(l, n) = [l EXCEPT !.ccount = cc, !.ppos = pos, !.pcount = pp]
  BY DEF J!RemoveSamples, m, Loops
<1>5. pos \in J!Slots /\ cc \in Int /\ pp \in Int
  BY <1>1, <1>2, <1>3
<1> HIDE DEF pos, cc, pp
<1>6. LET r == J!RemoveSamples(l, n)
      IN  /\ r \in Loops
          /\ r.ring = l.ring /\ r.running = l.running /\ r.reinit = l.reinit
          /\ r.stop_pending = l.stop_pending /\ r.stop_count = l.stop_count
          /\ r.cpos = l.cpos /\ r.ccount = cc /\ r.cxrun = l.cxrun
          /\ r.ppos = pos /\ r.pcount = pp /\ r.pxrun = l.pxrun
  BY <1>4, <1>5 DEF Loops
<1>7. QED
  BY <1>2, <1>6 DEF m, pos, cc, pp

LEMMA BufRemoveIs ==
    ASSUME NEW l \in Loops, NEW n \in Int
    PROVE  LET r == J!BufRemove(l, n)
           IN  /\ r \in Loops
               /\ r.ring = l.ring /\ r.running = l.running /\ r.reinit = l.reinit
               /\ r.stop_pending = l.stop_pending /\ r.stop_count = l.stop_count
               /\ r.cpos = l.cpos /\ r.cxrun = l.cxrun
               /\ r.ppos = l.ppos /\ r.pcount = l.pcount /\ r.pxrun = l.pxrun
               /\ r.ccount = IF n <= 0 THEN l.ccount
                             ELSE IF n < l.ccount THEN l.ccount - n ELSE 0
  BY DEF J!BufRemove, J!Shift, Loops

LEMMA WriteItIs ==
    ASSUME LoopSizes, NEW l \in Loops, NEW n \in Int
    PROVE  LET r == J!WriteIt(l, n)
           IN  /\ r \in Loops
               /\ r.ring = l.ring /\ r.running = l.running
               /\ r.cpos = l.cpos /\ r.ccount = l.ccount /\ r.cxrun = l.cxrun
               /\ r.ppos = (l.ppos + n) % J!Size /\ r.pcount = l.pcount - n
               /\ r.pxrun = l.pxrun
               /\ r.reinit = (l.reinit \/ J!PlaysOut(l, n))
<1>1. l.ppos \in Int /\ l.stop_count \in Int
  BY SizeIs DEF Loops, J!Slots
<1>2. J!PlaysOut(l, n) \in BOOLEAN
  BY DEF J!PlaysOut, Loops
<1> DEFINE pos == (l.ppos + n) % J!Size
           pp == l.pcount - n
           sc == IF l.stop_pending /\ ~J!PlaysOut(l, n) THEN l.stop_count + n
                 ELSE l.stop_count
           sp == l.stop_pending /\ ~J!PlaysOut(l, n)
           re == l.reinit \/ J!PlaysOut(l, n)
<1>3. /\ pos \in J!Slots /\ pp \in Int /\ sc \in Int
      /\ sp \in BOOLEAN /\ re \in BOOLEAN
  BY <1>1, <1>2, SlotIn DEF Loops
<1>4. J!WriteIt(l, n) = [l EXCEPT !.ppos = pos, !.pcount = pp, !.stop_count = sc,
                                !.stop_pending = sp, !.reinit = re]
  BY DEF J!WriteIt, Loops
<1> HIDE DEF pos, pp, sc, sp, re
<1>5. LET r == J!WriteIt(l, n)
      IN  /\ r \in Loops
          /\ r.ring = l.ring /\ r.running = l.running
          /\ r.cpos = l.cpos /\ r.ccount = l.ccount /\ r.cxrun = l.cxrun
          /\ r.ppos = pos /\ r.pcount = pp /\ r.pxrun = l.pxrun /\ r.reinit = re
  BY <1>3, <1>4 DEF Loops
<1>6. QED
  BY <1>5 DEF pos, pp, re

LEMMA WriteCountIs ==
    ASSUME LoopSizes, NEW l \in Loops, NEW fill \in Int
    PROVE  LET n == J!WriteCount(l, fill)
           IN  /\ n \in Int /\ n <= l.pcount /\ n <= PlayBuffer - fill
               /\ l.pcount >= 0 /\ fill <= PlayBuffer => n >= 0
               /\ \/ J!PlaysOut(l, n)
                  \/ n = l.pcount \/ n = PlayBuffer - fill
<1>1. /\ l.pcount \in Int /\ PlayBuffer \in Int /\ J!Size \in Int
      /\ l.ppos \in Int /\ l.ppos < J!Size
  BY SizeIs DEF Loops, J!Slots, LoopSizes
<1> DEFINE n == J!Min({l.pcount, PlayBuffer - fill})
           first == J!Min({n, J!Size - l.ppos})
<1>2. n = IF l.pcount <= PlayBuffer - fill THEN l.pcount ELSE PlayBuffer - fill
  BY <1>1, Min2
<1>3. n \in Int
  BY <1>1, <1>2
<1> HIDE DEF n
<1>4. first = IF n <= J!Size - l.ppos THEN n ELSE J!Size - l.ppos
  BY <1>1, <1>3, Min2
<1>5. J!WriteCount(l, fill) = IF J!PlaysOut(l, first) THEN first ELSE n
  BY DEF J!WriteCount, n
<1> HIDE DEF first
<1>6. CASE J!PlaysOut(l, first)
  BY <1>1, <1>2, <1>3, <1>4, <1>5, <1>6
<1>7. CASE ~J!PlaysOut(l, first)
  BY <1>1, <1>2, <1>3, <1>5, <1>7
<1>8. QED
  BY <1>6, <1>7

LEMMA ReadItIs ==
    ASSUME LoopSizes, NEW n \in Int, LoopTypes
    PROVE  LET r == J!ReadIt(loop, n)
           IN  /\ r \in Loops
               /\ r.ring = Appended(loop.ring, loop.cpos, now - hw.cavail, n)
               /\ r.running = loop.running /\ r.reinit = loop.reinit
               /\ r.cpos = (loop.cpos + n) % J!Size /\ r.ccount = loop.ccount + n
               /\ r.cxrun = loop.cxrun /\ r.ppos = loop.ppos
               /\ r.pcount = loop.pcount + n /\ r.pxrun = loop.pxrun
<1>1. /\ loop.cpos \in Int /\ loop.ccount \in Int /\ loop.pcount \in Int
      /\ loop.cpos \in J!Slots /\ hw.cavail \in Int /\ now \in Int
      /\ loop.ring \in [J!Slots -> Int]
  BY SizeIs DEF LoopTypes, Loops, Devices, J!Slots
<1> DEFINE R == [i \in J!Slots |->
                   LET k == (i - loop.cpos + J!Size) % J!Size
                   IN  IF k < n THEN now - hw.cavail + 1 + k ELSE loop.ring[i]]
<1>2. R = Appended(loop.ring, loop.cpos, now - hw.cavail, n)
  BY DEF Appended, Behind
<1>3. ASSUME NEW i \in J!Slots
      PROVE  Behind(i, loop.cpos) \in Int
  <2>1. Behind(i, loop.cpos) \in J!Slots
    BY <1>1, BehindIs
  <2>2. QED
    BY <2>1, SizeIs DEF J!Slots
<1>4. R \in [J!Slots -> Int]
  BY <1>1, <1>2, <1>3 DEF Appended
<1>5. (loop.cpos + n) % J!Size \in J!Slots
  BY <1>1, SlotIn
<1> DEFINE pos == (loop.cpos + n) % J!Size
           cc == loop.ccount + n
           pp == loop.pcount + n
<1>6. J!ReadIt(loop, n)
         = [loop EXCEPT !.ring = R, !.cpos = pos, !.ccount = cc, !.pcount = pp]
  BY <1>1 DEF J!ReadIt, LoopTypes, Loops
<1>7. pos \in J!Slots /\ cc \in Int /\ pp \in Int /\ loop \in Loops
  BY <1>1, <1>5 DEF LoopTypes
<1> HIDE DEF R, pos, cc, pp
<1>8. LET r == J!ReadIt(loop, n)
      IN  /\ r \in Loops /\ r.ring = R
          /\ r.running = loop.running /\ r.reinit = loop.reinit
          /\ r.cpos = pos /\ r.ccount = cc /\ r.cxrun = loop.cxrun
          /\ r.ppos = loop.ppos /\ r.pcount = pp /\ r.pxrun = loop.pxrun
  BY <1>4, <1>6, <1>7 DEF Loops
<1>9. QED
  BY <1>2, <1>8 DEF pos, cc, pp

LEMMA SilenceBeforeIs ==
    ASSUME LoopSizes, NEW l \in Loops, NEW n \in Nat
    PROVE  LET r == J!SilenceBefore(l, n)
           IN  /\ r \in Loops
               /\ r.running = l.running /\ r.reinit = l.reinit
               /\ r.cpos = l.cpos /\ r.ccount = l.ccount /\ r.cxrun = l.cxrun
               /\ r.pcount = l.pcount + n /\ r.pxrun = l.pxrun
               /\ l.ppos >= n =>
                    r.ppos = l.ppos - n /\ r.ring = Silenced(l.ring, l.ppos - n, n)
<1>1. l.ppos \in 0 .. J!Size - 1 /\ J!Size \in Nat /\ l.pcount \in Int
      /\ l.ring \in [J!Slots -> Int]
  BY SizeIs DEF Loops, J!Slots
<1>2. J!WordRest \in Int
  <2>1. 65536 % J!Size \in Int
    BY SlotIn, SizeIs DEF J!Slots
  <2>2. \A a \in Int : J!Square(a) \in Int
    BY SlotIn, SizeIs DEF J!Square, J!Slots
  <2>3. QED
    BY <2>1, <2>2 DEF J!WordRest
<1> DEFINE pos == IF l.ppos >= n THEN l.ppos - n
                  ELSE (l.ppos - n + J!WordRest + J!Size) % J!Size
           slots == pos .. pos + n - 1
           R == [i \in J!Slots |-> IF i \in slots THEN J!Silence ELSE l.ring[i]]
<1>3. pos \in J!Slots
  <2>1. l.ppos - n + J!WordRest + J!Size \in Int
    BY <1>1, <1>2
  <2>2. (l.ppos - n + J!WordRest + J!Size) % J!Size \in J!Slots
    BY <2>1, SlotIn
  <2>3. QED
    BY <1>1, <2>2 DEF J!Slots
<1>4. R = Silenced(l.ring, pos, n)
  BY DEF Silenced
<1>5. R \in [J!Slots -> Int]
  BY <1>1 DEF J!Silence
<1> DEFINE pp == l.pcount + n
<1>6. J!SilenceBefore(l, n) = [l EXCEPT !.ppos = pos, !.pcount = pp, !.ring = R]
  BY DEF J!SilenceBefore, Loops
<1>7. (l.ppos >= n => pos = l.ppos - n) /\ pp \in Int
  BY <1>1
<1> HIDE DEF R, pos, pp
<1>8. LET r == J!SilenceBefore(l, n)
      IN  /\ r \in Loops
          /\ r.running = l.running /\ r.reinit = l.reinit
          /\ r.cpos = l.cpos /\ r.ccount = l.ccount /\ r.cxrun = l.cxrun
          /\ r.pcount = pp /\ r.pxrun = l.pxrun /\ r.ppos = pos /\ r.ring = R
  BY <1>3, <1>5, <1>6, <1>7 DEF Loops
<1>9. QED
  BY <1>4, <1>7, <1>8 DEF pp

LEMMA SilenceAtIs ==
    ASSUME LoopSizes, NEW l \in Loops, NEW n \in Int
    PROVE  LET r == J!SilenceAt(l, n)
           IN  /\ r \in Loops
               /\ r.running = l.running /\ r.reinit = l.reinit /\ r.ccount = l.ccount
               /\ r.cxrun = l.cxrun /\ r.pcount = l.pcount + n /\ r.pxrun = l.pxrun
<1>1. l.ppos \in Int /\ l.pcount \in Int /\ l.ring \in [J!Slots -> Int]
  BY SizeIs DEF Loops, J!Slots
<1>2. (l.ppos + n) % J!Size \in J!Slots
  BY <1>1, SlotIn
<1> DEFINE R == [i \in J!Slots |-> IF (i - l.ppos + J!Size) % J!Size < n
                                 THEN J!Silence ELSE l.ring[i]]
<1>3. R \in [J!Slots -> Int]
  BY <1>1 DEF J!Silence
<1> DEFINE pos == (l.ppos + n) % J!Size
           pp == l.pcount + n
<1>4. J!SilenceAt(l, n) = [l EXCEPT !.ppos = pos, !.pcount = pp, !.ring = R]
  BY DEF J!SilenceAt, Loops
<1>5. pos \in J!Slots /\ pp \in Int
  BY <1>1, <1>2
<1> HIDE DEF R, pos, pp
<1>6. LET r == J!SilenceAt(l, n)
      IN  /\ r \in Loops
          /\ r.running = l.running /\ r.reinit = l.reinit /\ r.ccount = l.ccount
          /\ r.cxrun = l.cxrun /\ r.pcount = pp /\ r.pxrun = l.pxrun
  BY <1>3, <1>4, <1>5 DEF Loops
<1>7. QED
  BY <1>6 DEF pp

LEMMA StartedIs ==
    ASSUME LoopSizes, NEW l \in Loops
    PROVE  LET r == J!Started(l)
           IN  /\ r \in Loops /\ r.ring = [i \in J!Slots |-> J!Silence]
               /\ r.running /\ ~r.reinit
               /\ r.cxrun = l.cxrun /\ r.pxrun = l.pxrun
               /\ r.ccount = 0 /\ r.cpos = Latency % J!Size
               /\ r.ppos = J!Primed % J!Size /\ r.pcount = Latency - J!Primed
<1>1. Latency \in Int /\ PlayBuffer \in Int
  BY DEF LoopSizes
<1>2. J!Primed \in Int
  BY <1>1, Min2 DEF J!Primed
<1>3. Latency % J!Size \in J!Slots /\ J!Primed % J!Size \in J!Slots
  BY <1>1, <1>2, SlotIn
<1>4. QED
  BY <1>1, <1>2, <1>3 DEF J!Started, Loops, J!Silence

(***************************************************************************)
(* The steps.                                                              *)
(***************************************************************************)
\* By default the job asks for device buffers of several times the latency
\* (setparams and pcmjob_start); a smaller one leaves silence in the ring that
\* the room of readit does not count.
LatencyFits == Latency <= PlayBuffer

LEMMA SilentStep ==
    ASSUME NEW D, NEW left
    PROVE  Turns(<<>>, D, left)
  BY DEF Turns

LEMMA EmptyInOrder ==
    ASSUME NEW ring, NEW p, NEW n \in Nat
    PROVE  InOrder(ring, p, 0, n, n, {})
<1>1. 1 .. 0 = {} /\ (n + 1) .. n = {}
  OBVIOUS
<1>2. QED
  BY <1>1 DEF InOrder, Rising, Heard

LEMMA RestartStep ==
    ASSUME LoopSizes, NEW l \in Loops, LatencyFits, LoopTypes, ~l.cxrun, ~l.pxrun,
           J!Restart(l), UNCHANGED <<now, active>>
    PROVE  /\ loop' \in Loops /\ hw' \in Devices /\ patched' = FALSE /\ wrote' = <<>>
           /\ ~loop'.cxrun /\ ~loop'.pxrun
           /\ loop'.running => LoopCounts' /\ LoopOrder'
<1>1. active \in BOOLEAN /\ now \in Nat
  BY DEF LoopTypes
<1>2. CASE ~active
  <2>1. loop' = J!Stopped(l) /\ hw' = J!Closed /\ patched' = FALSE /\ wrote' = <<>>
    BY <1>2 DEF J!Restart
  <2>2. loop' \in Loops /\ ~loop'.running /\ ~loop'.cxrun /\ ~loop'.pxrun
    BY <2>1 DEF J!Stopped, Loops
  <2>3. hw' \in Devices
    BY <2>1 DEF J!Closed, Devices, DeviceStates
  <2>4. QED
    BY <2>1, <2>2, <2>3
<1>3. CASE active
  <2>1. loop' = J!Started(l)
    BY <1>3 DEF J!Restart
  <2>2. J!Primed = Latency
    BY Min2 DEF J!Primed, LatencyFits, LoopSizes
  <2>3. hw' = [cstate |-> "running", cavail |-> 0, pstate |-> "running", pfill |-> Latency]
    BY <1>3, <2>2 DEF J!Restart
  <2>4. /\ Latency \in Nat /\ Latency > 0 /\ PlayBuffer \in Nat /\ CaptBuffer \in Nat
        /\ J!Size \in Nat
    BY SizeIs DEF LoopSizes
  <2>5. /\ loop' \in Loops /\ loop'.ccount = 0 /\ loop'.pcount = 0
        /\ loop'.cpos = Latency % J!Size /\ loop'.ppos = Latency % J!Size
        /\ ~loop'.cxrun /\ ~loop'.pxrun
    BY <2>1, <2>2, <2>4, StartedIs
  <2>6. (loop'.ppos + 0) % J!Size = loop'.ppos
    <3>1. loop'.ppos \in J!Slots /\ 0 \in 0 .. J!Size
      BY <2>4, <2>5 DEF Loops
    <3>2. (loop'.ppos + 0) % J!Size
            = IF loop'.ppos + 0 < J!Size THEN loop'.ppos + 0 ELSE loop'.ppos + 0 - J!Size
      BY <3>1, StepIn
    <3>3. QED
      BY <3>1, <3>2, <2>4 DEF J!Slots
  <2>7. LoopCounts'
    BY <1>1, <2>3, <2>4, <2>5 DEF LoopCounts, LatencyFits
  <2>8. due' = {} /\ hw'.cavail = 0 /\ now' = now /\ now' - 0 = now
    BY <1>1, <2>3 DEF J!Restart
  <2>9. LoopOrder'
    BY <1>1, <2>5, <2>6, <2>8, EmptyInOrder DEF LoopOrder
  <2>10. hw' \in Devices
    BY <2>3, <2>4 DEF Devices, DeviceStates
  <2>11. QED
    BY <2>5, <2>7, <2>9, <2>10 DEF J!Restart
<1>4. QED
  BY <1>1, <1>2, <1>3

LEMMA LoopInvInit ==
    ASSUME LoopSizes
    PROVE  J!Init => LoopInv
<1> SUFFICES ASSUME J!Init PROVE LoopInv
  OBVIOUS
<1>1. 0 \in J!Slots
  BY SizeIs DEF J!Slots
<1>2. LoopTypes
  BY <1>1 DEF J!Init, LoopTypes, Loops, Devices, DeviceStates, J!Closed, J!Silence
<1>3. LoopFlags /\ ~Alive
  BY DEF J!Init, LoopFlags, Alive
<1>4. QED
  BY <1>2, <1>3 DEF LoopInv

LEMMA TickStep ==
    ASSUME LoopSizes, LoopInv, NEW c \in BOOLEAN, NEW p \in BOOLEAN, J!Tick(c, p)
    PROVE  LoopInv' /\ wrote' = <<>> /\ stage' = stage
<1> DEFINE captures == c /\ hw.cstate = "running" /\ hw.cavail < CaptBuffer
           plays == p /\ hw.pstate = "running"
<1>0. /\ hw' = [cavail |-> IF captures THEN hw.cavail + 1 ELSE hw.cavail,
                cstate |-> IF c /\ hw.cstate = "running" /\ ~captures
                           THEN "xrun" ELSE hw.cstate,
                pfill  |-> IF plays THEN hw.pfill - 1 ELSE hw.pfill,
                pstate |-> IF plays /\ hw.pfill = 1 THEN "xrun" ELSE hw.pstate]
      /\ now' = IF captures THEN now + 1 ELSE now
      /\ due' = IF captures THEN due \cup {now + 1} ELSE due
      /\ loop' = loop /\ active' = active /\ stage' = stage /\ patched' = patched
      /\ moved' = moved /\ wrote' = <<>>
  BY DEF J!Tick, J!slave, J!round
<1>1. hw \in Devices /\ now \in Nat /\ loop \in Loops
  BY DEF LoopInv, LoopTypes
<1>2. hw' \in Devices /\ now' \in Nat
  BY <1>0, <1>1 DEF Devices, DeviceStates
<1>3. LoopTypes'
  BY <1>0, <1>2 DEF LoopInv, LoopTypes
<1>4. LoopFlags'
  BY <1>0 DEF LoopInv, LoopFlags
<1>5. ASSUME Alive' PROVE LoopCounts' /\ (~patched' => LoopOrder')
  <2>1. LoopCounts /\ (~patched => LoopOrder)
    BY <1>0, <1>5 DEF LoopInv, Alive
  <2>2. CaptBuffer \in Nat /\ PlayBuffer \in Nat /\ hw.cavail \in Int /\ hw.pfill \in Int
    BY <1>1 DEF Devices, LoopSizes
  <2>3. /\ hw'.cavail = IF captures THEN hw.cavail + 1 ELSE hw.cavail
        /\ hw'.pfill = IF plays THEN hw.pfill - 1 ELSE hw.pfill
        /\ hw'.pstate = IF plays /\ hw.pfill = 1 THEN "xrun" ELSE hw.pstate
    BY <1>0
  <2>4. LoopCounts'
    BY <1>0, <1>1, <2>1, <2>2, <2>3 DEF LoopCounts
  <2> DEFINE top == now - hw.cavail
  <2>5. now' - hw'.cavail = top /\ top <= now
    BY <1>0, <1>1, <2>1, <2>2, <2>3 DEF LoopCounts
  <2>6. captures => (top + 1) .. now' = ((top + 1) .. now) \cup {now + 1}
    BY <1>0, <1>1, <2>2, <2>5
  <2> HIDE DEF top, captures
  <2>7. LoopOrder => InOrder(loop.ring, loop.ppos, loop.pcount, top, now', due')
    BY <1>0, <2>1, <2>6 DEF LoopOrder, InOrder, top
  <2>8. QED
    BY <1>0, <2>1, <2>4, <2>5, <2>7 DEF LoopOrder
<1>6. QED
  BY <1>0, <1>3, <1>4, <1>5 DEF LoopInv

\* Steps that leave the loop and the devices alone.
LEMMA ElsewhereStep ==
    ASSUME LoopSizes, LoopInv, UNCHANGED <<loop, now, due, patched>>, hw' \in Devices,
           hw' = [hw EXCEPT !.cstate = hw'.cstate],
           active' \in BOOLEAN, moved' \in BOOLEAN, LoopFlags',
           Alive' => Alive
    PROVE  LoopInv'
<1>1. hw \in Devices
  BY DEF LoopInv, LoopTypes
<1>2. hw'.cavail = hw.cavail /\ hw'.pfill = hw.pfill /\ hw'.pstate = hw.pstate
  BY <1>1 DEF Devices
<1>3. LoopTypes'
  BY DEF LoopInv, LoopTypes
<1>4. LoopCounts => LoopCounts'
  BY <1>2 DEF LoopCounts
<1>5. LoopOrder => LoopOrder'
  BY <1>2 DEF LoopOrder
<1>6. QED
  BY <1>3, <1>4, <1>5 DEF LoopInv

LEMMA PlainSteps ==
    ASSUME LoopSizes, LoopInv, J!Drain \/ J!SlaveChanges \/ J!Wake \/ J!After
    PROVE  LoopInv' /\ wrote' = <<>> /\ ~(stage = "delays" /\ stage' = "reinit")
<1>1. loop \in Loops /\ hw \in Devices /\ active \in BOOLEAN /\ moved \in BOOLEAN
  BY DEF LoopInv, LoopTypes
<1>2. CASE J!Drain
  <2>1. hw' = [hw EXCEPT !.cstate = "draining"]
    BY <1>2 DEF J!Drain
  <2>2. hw' \in Devices /\ hw'.cstate = "draining"
    BY <1>1, <2>1 DEF Devices, DeviceStates
  <2>3. UNCHANGED <<loop, now, active, stage, moved, due, patched>> /\ wrote' = <<>>
    BY <1>2 DEF J!Drain, J!round
  <2>4. LoopFlags' /\ (Alive' => Alive)
    BY <2>3 DEF LoopInv, LoopFlags, Alive
  <2>5. LoopInv'
    BY <1>1, <2>1, <2>2, <2>3, <2>4, ElsewhereStep
  <2>6. QED
    BY <2>3, <2>5
<1>3. hw = [hw EXCEPT !.cstate = hw.cstate]
  BY <1>1 DEF Devices
<1>4. CASE J!SlaveChanges
  <2>1. UNCHANGED <<loop, hw, now, stage, moved, due, patched>> /\ wrote' = <<>>
    BY <1>4 DEF J!SlaveChanges, J!round
  <2>2. active' \in BOOLEAN
    BY <1>1, <1>4 DEF J!SlaveChanges
  <2>3. LoopFlags' /\ (Alive' => Alive)
    BY <2>1 DEF LoopInv, LoopFlags, Alive
  <2>4. LoopInv'
    BY <1>1, <1>3, <2>1, <2>2, <2>3, ElsewhereStep
  <2>5. QED
    BY <2>1, <2>4
<1>5. CASE J!Wake
  <2>1. /\ UNCHANGED <<loop, hw, now, active, due, patched>> /\ wrote' = <<>>
        /\ stage = "poll" /\ stage' = "read" /\ loop.running /\ moved' = FALSE
    BY <1>5 DEF J!Wake, J!slave
  <2>2. LoopFlags' /\ (Alive' => Alive)
    BY <2>1 DEF LoopInv, LoopFlags, Alive
  <2>3. LoopInv'
    BY <1>1, <1>3, <2>1, <2>2, ElsewhereStep
  <2>4. QED
    BY <2>1, <2>3
<1>6. CASE J!After
  <2>1. /\ UNCHANGED <<loop, hw, now, active, moved, due, patched>> /\ wrote' = <<>>
        /\ stage = "after"
        /\ stage' = IF loop.cxrun \/ loop.pxrun THEN "sync" ELSE "reinit"
    BY <1>6 DEF J!After, J!slave, J!round
  <2>2. LoopFlags' /\ (Alive' => Alive)
    BY <2>1 DEF LoopInv, LoopFlags, Alive
  <2>3. LoopInv'
    BY <1>1, <1>3, <2>1, <2>2, ElsewhereStep
  <2>4. QED
    BY <2>1, <2>3
<1>7. QED
  BY <1>2, <1>4, <1>5, <1>6

\* A flag that no count depends on.
LEMMA FlagStep ==
    ASSUME LoopSizes, LoopInv, UNCHANGED <<hw, now, active, moved, due, patched>>,
           loop' \in Loops,
           loop'.ring = loop.ring, loop'.cpos = loop.cpos, loop'.ccount = loop.ccount,
           loop'.ppos = loop.ppos, loop'.pcount = loop.pcount,
           LoopFlags', Alive' => Alive,
           loop'.pxrun => hw.pstate # "running", loop.pxrun => loop'.pxrun
    PROVE  LoopInv'
<1>1. LoopTypes'
  BY DEF LoopInv, LoopTypes
<1>2. LoopCounts => LoopCounts'
  BY DEF LoopCounts
<1>3. LoopOrder => LoopOrder'
  BY DEF LoopOrder
<1>4. QED
  BY <1>1, <1>2, <1>3 DEF LoopInv

LEMMA RestartInv ==
    ASSUME LoopSizes, LoopInv, LatencyFits, NEW l \in Loops, ~l.cxrun, ~l.pxrun,
           J!Restart(l), UNCHANGED <<now, active, moved>>, stage' = "poll"
    PROVE  LoopInv' /\ wrote' = <<>>
<1>1. LoopTypes
  BY DEF LoopInv
<1>2. /\ loop' \in Loops /\ hw' \in Devices /\ patched' = FALSE /\ wrote' = <<>>
      /\ ~loop'.cxrun /\ ~loop'.pxrun
      /\ loop'.running => LoopCounts' /\ LoopOrder'
  BY <1>1, RestartStep
<1>3. LoopTypes'
  BY <1>1, <1>2 DEF LoopTypes
<1>4. LoopFlags'
  BY <1>2 DEF LoopFlags
<1>5. QED
  BY <1>2, <1>3, <1>4 DEF LoopInv, Alive

LEMMA StopIs ==
    ASSUME NEW l \in Loops, NEW b \in BOOLEAN, NEW n \in Int
    PROVE  LET r == [l EXCEPT !.stop_pending = b, !.stop_count = n]
           IN  /\ r \in Loops /\ r.pxrun = l.pxrun /\ r.cxrun = l.cxrun
               /\ r.ring = l.ring /\ r.cpos = l.cpos /\ r.ccount = l.ccount
               /\ r.ppos = l.ppos /\ r.pcount = l.pcount
               /\ r.running = l.running /\ r.reinit = l.reinit
  BY DEF Loops

LEMMA CtlStep ==
    ASSUME LoopSizes, LoopInv, LatencyFits, J!CtlEvents \/ J!MixerEvent
    PROVE  LoopInv' /\ wrote' = <<>> /\ stage = "poll"
<1>1. /\ loop \in Loops /\ LoopFlags /\ stage = "poll" /\ stage' = "poll"
      /\ UNCHANGED <<now, active, moved>>
  BY DEF LoopInv, LoopTypes, J!CtlEvents, J!MixerEvent, J!round, J!slave
<1>2. ~loop.pxrun /\ ~loop.cxrun
  BY <1>1 DEF LoopFlags
<1> DEFINE stops == [loop EXCEPT !.stop_pending = TRUE, !.stop_count = 0]
           goes == [loop EXCEPT !.stop_pending = FALSE]
<1>3. ASSUME NEW l \in {stops, goes, loop}
      PROVE  /\ l \in Loops /\ ~l.pxrun /\ ~l.cxrun /\ l.ring = loop.ring
             /\ l.cpos = loop.cpos /\ l.ccount = loop.ccount /\ l.ppos = loop.ppos
             /\ l.pcount = loop.pcount /\ l.running = loop.running
             /\ l.reinit = loop.reinit
  <2>1. CASE l = stops
    <3>1. TRUE \in BOOLEAN /\ 0 \in Int
      OBVIOUS
    <3>2. QED
      BY <1>1, <1>2, <2>1, <3>1, StopIs
  <2>2. CASE l = goes
    BY <1>1, <1>2, <2>2 DEF Loops
  <2>3. QED
    BY <1>1, <1>2, <2>1, <2>2
<1> HIDE DEF stops, goes
<1>4. ASSUME loop' \in {stops, goes, loop}, UNCHANGED <<hw, due, patched>>, wrote' = <<>>
      PROVE  LoopInv' /\ wrote' = <<>>
  <2>1. /\ loop' \in Loops /\ ~loop'.pxrun /\ ~loop'.cxrun /\ loop'.ring = loop.ring
        /\ loop'.cpos = loop.cpos /\ loop'.ccount = loop.ccount /\ loop'.ppos = loop.ppos
        /\ loop'.pcount = loop.pcount /\ loop'.running = loop.running
        /\ loop'.reinit = loop.reinit
    BY <1>3, <1>4
  <2>2. LoopFlags' /\ (Alive' => Alive)
    BY <1>1, <1>4, <2>1 DEF LoopFlags, Alive
  <2>3. QED
    BY <1>1, <1>2, <1>4, <2>1, <2>2, FlagStep
<1>5. CASE J!CtlEvents
  <2>1. PICK l \in {stops, goes, loop} :
           \/ J!Restart(l)
           \/ loop' = l /\ wrote' = <<>> /\ UNCHANGED <<hw, due, patched>>
    BY <1>5 DEF J!CtlEvents, stops, goes
  <2>2. CASE J!Restart(l)
    BY <1>1, <1>3, <2>2, RestartInv
  <2>3. CASE loop' = l /\ wrote' = <<>> /\ UNCHANGED <<hw, due, patched>>
    <3>1. loop' \in {stops, goes, loop}
      BY <2>3
    <3>2. UNCHANGED <<hw, due, patched>> /\ wrote' = <<>>
      BY <2>3
    <3>3. QED
      BY <1>1, <1>4, <3>1, <3>2
  <2>4. QED
    BY <1>1, <2>1, <2>2, <2>3
<1>6. CASE J!MixerEvent
  <2>1. loop' \in {stops, goes, loop} /\ wrote' = <<>> /\ UNCHANGED <<hw, due, patched>>
    BY <1>6 DEF J!MixerEvent, stops
  <2>2. QED
    BY <1>1, <1>4, <2>1
<1>7. QED
  BY <1>5, <1>6

LEMMA ReinitStep ==
    ASSUME LoopSizes, LoopInv, LatencyFits, J!Reinit
    PROVE  LoopInv' /\ wrote' = <<>> /\ stage = "reinit"
<1>1. /\ loop \in Loops /\ LoopFlags /\ stage = "reinit" /\ stage' = "poll"
      /\ UNCHANGED <<now, active, moved>>
  BY DEF LoopInv, LoopTypes, J!Reinit, J!round, J!slave
<1>2. ~loop.pxrun /\ ~loop.cxrun
  BY <1>1 DEF LoopFlags
<1>3. CASE loop.reinit
  BY <1>1, <1>2, <1>3, RestartInv DEF J!Reinit
<1>4. CASE ~loop.reinit
  <2>1. UNCHANGED <<loop, hw, due, patched>> /\ wrote' = <<>>
    BY <1>4 DEF J!Reinit
  <2>2. LoopFlags' /\ (Alive' => Alive)
    BY <1>1, <1>2, <1>4, <2>1 DEF LoopFlags, Alive
  <2>3. QED
    BY <1>1, <1>2, <2>1, <2>2, FlagStep
<1>5. QED
  BY <1>3, <1>4

LEMMA NoStep ==
    ASSUME LoopSizes, NEW p \in J!Slots
    PROVE  (p + 0) % J!Size = p
<1>1. 0 \in 0 .. J!Size /\ p < J!Size /\ p \in Int
  BY SizeIs DEF J!Slots
<1>2. (p + 0) % J!Size = IF p + 0 < J!Size THEN p + 0 ELSE p + 0 - J!Size
  BY <1>1, StepIn
<1>3. QED
  BY <1>1, <1>2

\* What the capture device holds is given up, and no count of the ring changes.
LEMMA LoseStep ==
    ASSUME LoopSizes, LoopTypes, now' = now, due' = due \ J!Waiting, hw' \in Devices,
           hw'.cavail = 0, hw'.pfill = hw.pfill, hw'.pstate = hw.pstate,
           loop'.ring = loop.ring, loop'.cpos = loop.cpos, loop'.ccount = loop.ccount,
           loop'.ppos = loop.ppos, loop'.pcount = loop.pcount, loop'.pxrun = loop.pxrun,
           LoopCounts
    PROVE  LoopCounts' /\ (LoopOrder => LoopOrder')
<1>1. now \in Nat /\ hw.cavail \in Int /\ CaptBuffer \in Nat /\ loop.pcount \in Int
  BY DEF LoopTypes, Devices, Loops, LoopSizes
<1>2. LoopCounts'
  BY <1>1 DEF LoopCounts
<1> DEFINE top == now - hw.cavail
<1>3. top \in Nat /\ top <= now /\ loop.pcount \in Nat
  BY <1>1 DEF LoopCounts
<1>4. J!Waiting = (top + 1) .. now /\ now' - hw'.cavail = now
  BY <1>1 DEF J!Waiting
<1>5. LoopOrder => InOrder(loop.ring, loop.ppos, loop.pcount, top, now, due)
  BY DEF LoopOrder
<1> HIDE DEF top
<1>6. LoopOrder => InOrder(loop.ring, loop.ppos, loop.pcount, now, now, due')
  BY <1>1, <1>3, <1>4, <1>5, LoseWaiting
<1>7. QED
  BY <1>2, <1>4, <1>6 DEF LoopOrder

LEMMA CaptureStep ==
    ASSUME LoopSizes, LoopTypes, now' = now, J!Capture
    PROVE  /\ loop' \in Loops /\ hw' \in Devices
           /\ loop'.running = loop.running /\ loop'.cxrun = loop.cxrun
           /\ loop'.pxrun = loop.pxrun
           /\ LoopCounts => LoopCounts' /\ (LoopOrder => LoopOrder')
<1> DEFINE n == J!ReadCount
           r == J!ReadIt(loop, n)
           ends == hw.cavail = 0 /\ hw.cstate = "draining"
           re == r.reinit \/ ends
<1>1. /\ now \in Nat /\ hw.cavail \in Int /\ CaptBuffer \in Nat /\ J!Size \in Nat
      /\ loop.ccount \in Int /\ loop.pcount \in Int /\ loop.ppos \in J!Slots
      /\ hw \in Devices /\ loop \in Loops
  BY SizeIs DEF LoopTypes, Devices, Loops, LoopSizes
<1>2. n = IF hw.cavail <= J!Size - loop.ccount THEN hw.cavail ELSE J!Size - loop.ccount
  BY <1>1, Min2 DEF J!ReadCount
<1>3. n \in Int
  BY <1>1, <1>2
<1>4. /\ loop' = [r EXCEPT !.reinit = @ \/ ends]
      /\ hw' = [hw EXCEPT !.cavail = @ - n]
      /\ due' = due
  BY DEF J!Capture
<1> HIDE DEF n
<1>5. /\ r \in Loops
      /\ r.ring = Appended(loop.ring, loop.cpos, now - hw.cavail, n)
      /\ r.running = loop.running /\ r.reinit = loop.reinit
      /\ r.cpos = (loop.cpos + n) % J!Size /\ r.ccount = loop.ccount + n
      /\ r.cxrun = loop.cxrun /\ r.ppos = loop.ppos
      /\ r.pcount = loop.pcount + n /\ r.pxrun = loop.pxrun
  BY <1>3, ReadItIs
<1> HIDE DEF r
<1>6. hw' \in Devices /\ hw'.cavail = hw.cavail - n
      /\ hw'.pfill = hw.pfill /\ hw'.pstate = hw.pstate
  BY <1>1, <1>3, <1>4 DEF Devices
<1>7. re \in BOOLEAN /\ loop' = [r EXCEPT !.reinit = re]
  BY <1>4, <1>5 DEF Loops
<1> HIDE DEF re, ends
<1>8. /\ loop' \in Loops /\ loop'.ring = r.ring /\ loop'.running = r.running
      /\ loop'.cpos = r.cpos /\ loop'.ccount = r.ccount /\ loop'.cxrun = r.cxrun
      /\ loop'.ppos = r.ppos /\ loop'.pcount = r.pcount /\ loop'.pxrun = r.pxrun
  BY <1>5, <1>7 DEF Loops
<1>9. ASSUME LoopCounts PROVE LoopCounts' /\ (LoopOrder => LoopOrder')
  <2> DEFINE top == now - hw.cavail
             c == loop.pcount
  <2>1. /\ c \in Nat /\ n \in Nat /\ c + n <= J!Size /\ n <= hw.cavail
        /\ top \in Nat /\ top + n <= now /\ loop.ccount + n <= J!Size
    BY <1>1, <1>2, <1>9 DEF LoopCounts
  <2>4. LoopCounts'
    BY <1>1, <1>5, <1>6, <1>8, <1>9, <2>1 DEF LoopCounts
  <2> SUFFICES ASSUME LoopOrder PROVE LoopOrder'
    BY <2>4
  <2>2. loop.cpos = (loop.ppos + c) % J!Size
    BY DEF LoopOrder
  <2>3. (loop.cpos + n) % J!Size = (loop.ppos + (c + n)) % J!Size
    BY <1>1, <2>1, <2>2, StepStep
  <2>5. InOrder(loop.ring, loop.ppos, c, top, now, due)
    BY DEF LoopOrder
  <2>6. now' - hw'.cavail = top + n
    BY <1>1, <1>3, <1>6
  <2> HIDE DEF top, c
  <2>7. InOrder(Appended(loop.ring, loop.cpos, top, n), loop.ppos, c + n, top + n, now, due)
    BY <1>1, <2>1, <2>2, <2>5, AppendInOrder
  <2>8. loop'.ring = Appended(loop.ring, loop.cpos, top, n) /\ loop'.pcount = c + n
        /\ loop'.ppos = loop.ppos /\ loop'.cpos = (loop.cpos + n) % J!Size
    BY <1>5, <1>8 DEF top, c
  <2>9. QED
    BY <1>4, <2>3, <2>6, <2>7, <2>8 DEF LoopOrder
<1>10. QED
  BY <1>5, <1>6, <1>8, <1>9

LEMMA CxrunIs ==
    ASSUME NEW l \in Loops, NEW b \in BOOLEAN
    PROVE  LET r == [l EXCEPT !.cxrun = b]
           IN  /\ r \in Loops /\ r.pxrun = l.pxrun /\ r.cxrun = b
               /\ r.ring = l.ring /\ r.cpos = l.cpos /\ r.ccount = l.ccount
               /\ r.ppos = l.ppos /\ r.pcount = l.pcount
               /\ r.running = l.running /\ r.reinit = l.reinit
  BY DEF Loops

LEMMA PxrunIs ==
    ASSUME NEW l \in Loops, NEW b \in BOOLEAN
    PROVE  LET r == [l EXCEPT !.pxrun = b]
           IN  /\ r \in Loops /\ r.pxrun = b /\ r.cxrun = l.cxrun
               /\ r.ring = l.ring /\ r.cpos = l.cpos /\ r.ccount = l.ccount
               /\ r.ppos = l.ppos /\ r.pcount = l.pcount
               /\ r.running = l.running /\ r.reinit = l.reinit
  BY DEF Loops

LEMMA ReadStep ==
    ASSUME LoopSizes, LoopInv, J!Read
    PROVE  LoopInv' /\ wrote' = <<>> /\ stage = "read"
<1>1. /\ loop \in Loops /\ hw \in Devices /\ LoopTypes /\ LoopFlags
      /\ stage = "read" /\ stage' \in {"after", "write"} /\ moved' \in BOOLEAN
      /\ stage' = "write" => ~loop'.cxrun
      /\ UNCHANGED <<now, active, patched>> /\ wrote' = <<>>
  BY DEF LoopInv, LoopTypes, J!Read, J!slave
<1>2. ~loop.pxrun /\ ~loop.cxrun /\ loop.running
  BY <1>1 DEF LoopFlags
<1>3. /\ loop' \in Loops /\ hw' \in Devices
      /\ loop'.running = loop.running /\ loop'.pxrun = loop.pxrun
      /\ LoopCounts => LoopCounts' /\ (LoopOrder => LoopOrder')
  <2>1. CASE hw.cstate = "xrun"
    <3>1. /\ loop' = [loop EXCEPT !.cxrun = TRUE]
          /\ hw' = [hw EXCEPT !.cstate = "prepared", !.cavail = 0]
          /\ due' = due \ J!Waiting
      BY <2>1 DEF J!Read, J!CaptureOverrun
    <3>2. /\ hw' \in Devices /\ hw'.cavail = 0 /\ hw'.pfill = hw.pfill
          /\ hw'.pstate = hw.pstate
      <4> DEFINE s == "prepared"
                 a == 0
      <4>1. s \in DeviceStates /\ a \in Int
        BY DEF DeviceStates
      <4>2. hw' = [hw EXCEPT !.cstate = s, !.cavail = a] /\ hw \in Devices
        BY <1>1, <3>1
      <4> HIDE DEF s, a
      <4>3. /\ hw' \in Devices /\ hw'.cavail = a /\ hw'.pfill = hw.pfill
            /\ hw'.pstate = hw.pstate
        BY <4>1, <4>2 DEF Devices
      <4>4. QED
        BY <4>3 DEF a
    <3>3. TRUE \in BOOLEAN
      OBVIOUS
    <3>4. /\ loop' \in Loops /\ loop'.pxrun = loop.pxrun
          /\ loop'.ring = loop.ring /\ loop'.cpos = loop.cpos /\ loop'.ccount = loop.ccount
          /\ loop'.ppos = loop.ppos /\ loop'.pcount = loop.pcount
          /\ loop'.running = loop.running
      BY <1>1, <3>1, <3>3, CxrunIs
    <3>5. now' = now
      BY <1>1
    <3>6. LoopCounts => LoopCounts' /\ (LoopOrder => LoopOrder')
      BY <1>1, <3>1, <3>2, <3>4, <3>5, LoseStep
    <3>7. QED
      BY <3>2, <3>4, <3>6
  <2>2. CASE hw.cstate # "xrun"
    <3>1. J!Capture
      BY <2>2 DEF J!Read
    <3>2. now' = now
      BY <1>1
    <3>3. QED
      BY <1>1, <3>1, <3>2, CaptureStep
  <2>3. QED
    BY <2>1, <2>2
<1>4. LoopTypes'
  BY <1>1, <1>3 DEF LoopTypes
<1>5. LoopFlags'
  BY <1>1, <1>2, <1>3 DEF LoopFlags
<1>6. Alive' => Alive
  BY <1>1, <1>2 DEF Alive
<1>7. QED
  BY <1>1, <1>3, <1>4, <1>5, <1>6 DEF LoopInv

LEMMA WriteStep ==
    ASSUME LoopSizes, LoopInv, J!Write
    PROVE  LoopInv' /\ (patched' \/ Turns(wrote', due, due')) /\ stage = "write"
<1> DEFINE n == J!WriteCount(loop, hw.pfill)
           w == J!WriteIt(loop, n)
<1>1. /\ loop \in Loops /\ hw \in Devices /\ LoopTypes /\ LoopFlags
      /\ stage = "write" /\ hw.pstate # "xrun" /\ stage' \in {"read", "after"}
      /\ UNCHANGED <<now, active, moved, patched>>
      /\ loop' = J!BufRemove(w, n) /\ hw' = [hw EXCEPT !.pfill = @ + n]
      /\ wrote' = J!FramesAt(loop.ring, loop.ppos, n)
      /\ due' = due \ Values(wrote')
  BY DEF LoopInv, LoopTypes, J!Write, J!slave, J!Writes, Values
<1>2. ~loop.pxrun /\ ~loop.cxrun /\ loop.running
  BY <1>1 DEF LoopFlags
<1>3. /\ hw.pfill \in Int /\ loop.pcount \in Int /\ loop.ccount \in Int
      /\ loop.ppos \in J!Slots /\ PlayBuffer \in Nat /\ J!Size \in Nat
      /\ now \in Nat /\ hw.cavail \in Int
  BY <1>1, SizeIs DEF Loops, Devices, LoopTypes, LoopSizes
<1>4. /\ n \in Int /\ n <= loop.pcount /\ n <= PlayBuffer - hw.pfill
      /\ loop.pcount >= 0 /\ hw.pfill <= PlayBuffer => n >= 0
  BY <1>1, <1>3, WriteCountIs
<1> HIDE DEF n
<1>5. /\ w \in Loops /\ w.ring = loop.ring /\ w.running = loop.running
      /\ w.cpos = loop.cpos /\ w.ccount = loop.ccount /\ w.cxrun = loop.cxrun
      /\ w.ppos = (loop.ppos + n) % J!Size /\ w.pcount = loop.pcount - n
      /\ w.pxrun = loop.pxrun
  BY <1>1, <1>4, WriteItIs
<1> HIDE DEF w
<1>6. /\ loop' \in Loops /\ loop'.ring = w.ring /\ loop'.running = w.running
      /\ loop'.cpos = w.cpos /\ loop'.cxrun = w.cxrun
      /\ loop'.ppos = w.ppos /\ loop'.pcount = w.pcount /\ loop'.pxrun = w.pxrun
      /\ loop'.ccount = IF n <= 0 THEN w.ccount
                        ELSE IF n < w.ccount THEN w.ccount - n ELSE 0
  BY <1>1, <1>4, <1>5, BufRemoveIs
<1>7. hw' \in Devices /\ hw'.pfill = hw.pfill + n /\ hw'.pstate = hw.pstate
      /\ hw'.cavail = hw.cavail
  BY <1>1, <1>3, <1>4 DEF Devices
<1>8. LoopTypes'
  BY <1>1, <1>6, <1>7 DEF LoopTypes
<1>9. LoopFlags'
  BY <1>1, <1>2, <1>5, <1>6 DEF LoopFlags
<1>11. /\ LoopCounts'
       /\ ~patched' => LoopOrder' /\ Turns(wrote', due, due')
  <2>0. ~patched' => LoopOrder
    BY <1>1, <1>2 DEF LoopInv, Alive
  <2>1. LoopCounts
    BY <1>1, <1>2 DEF LoopInv, Alive
  <2> DEFINE c == loop.pcount
             top == now - hw.cavail
  <2>2. /\ c \in 0 .. J!Size /\ n \in 0 .. c /\ n \in Nat /\ c - n \in Nat
        /\ n + (c - n) <= J!Size
        /\ top \in Nat /\ n + (c - n) = c
    BY <1>3, <1>4, <2>1 DEF LoopCounts
  <2>3. (((loop.ppos + n) % J!Size) + (c - n)) % J!Size
          = (loop.ppos + (n + (c - n))) % J!Size
    BY <1>3, <2>2, StepStep
  <2>5. LoopCounts'
    <3>1. loop'.pcount = loop.pcount - n /\ loop'.pxrun = loop.pxrun
      BY <1>5, <1>6
    <3>2. loop'.ccount = loop.ccount - n
      BY <1>3, <1>4, <1>5, <1>6, <2>1, <2>2 DEF LoopCounts
    <3>3. now' = now /\ hw.pstate # "xrun"
      BY <1>1
    <3>4. QED
      BY <1>2, <1>3, <1>4, <1>7, <2>1, <2>2, <3>1, <3>2, <3>3 DEF LoopCounts
  <2>4. LoopOrder => loop'.cpos = (loop'.ppos + loop'.pcount) % J!Size
    BY <1>5, <1>6, <2>2, <2>3 DEF LoopOrder
  <2>6. LoopOrder => InOrder(loop.ring, loop.ppos, c, top, now, due)
    BY DEF LoopOrder
  <2> HIDE DEF c, top
  <2>7. ASSUME LoopOrder
        PROVE  /\ InOrder(loop.ring, (loop.ppos + n) % J!Size, c - n, top, now, due')
               /\ Turns(wrote', due, due')
    <3>1. /\ loop.ppos \in J!Slots /\ c \in 0 .. J!Size /\ n \in 0 .. c
          /\ top \in Nat /\ now \in Nat
      BY <1>3, <2>2
    <3>2. /\ wrote' = J!FramesAt(loop.ring, loop.ppos, n)
          /\ due' = due \ Values(wrote')
      BY <1>1
    <3>3. InOrder(loop.ring, loop.ppos, c, top, now, due)
      BY <2>6, <2>7
    <3>4. QED
      BY <3>1, <3>2, <3>3, TakeFirst
  <2>8. LoopOrder => LoopOrder'
    BY <1>1, <1>5, <1>6, <1>7, <2>4, <2>7 DEF LoopOrder, c, top
  <2>9. QED
    BY <2>0, <2>5, <2>7, <2>8
<1>12. QED
  BY <1>1, <1>8, <1>9, <1>11 DEF LoopInv

LEMMA UnderrunStep ==
    ASSUME LoopSizes, LoopInv, J!WriteUnderrun
    PROVE  LoopInv' /\ wrote' = <<>> /\ stage = "write"
<1>1. /\ loop \in Loops /\ hw \in Devices /\ LoopTypes /\ LoopFlags
      /\ stage = "write" /\ hw.pstate = "xrun" /\ stage' = "after"
      /\ UNCHANGED <<now, active, moved, patched, due>>
      /\ loop' = [loop EXCEPT !.pxrun = TRUE] /\ hw' = [hw EXCEPT !.pstate = "prepared"]
      /\ wrote' = <<>>
  BY DEF LoopInv, LoopTypes, J!WriteUnderrun, J!slave, J!round
<1>2. ~loop.pxrun /\ ~loop.cxrun /\ loop.running
  BY <1>1 DEF LoopFlags
<1>3. TRUE \in BOOLEAN
  OBVIOUS
<1>4. /\ loop' \in Loops /\ loop'.pxrun /\ loop'.cxrun = loop.cxrun
      /\ loop'.ring = loop.ring /\ loop'.cpos = loop.cpos /\ loop'.ccount = loop.ccount
      /\ loop'.ppos = loop.ppos /\ loop'.pcount = loop.pcount
      /\ loop'.running = loop.running
  BY <1>1, <1>3, PxrunIs
<1>5. hw' \in Devices /\ hw'.pstate = "prepared" /\ hw'.pfill = hw.pfill
      /\ hw'.cavail = hw.cavail
  BY <1>1 DEF Devices, DeviceStates
<1>6. LoopTypes'
  BY <1>1, <1>4, <1>5 DEF LoopTypes
<1>7. LoopFlags'
  BY <1>1, <1>2, <1>4 DEF LoopFlags
<1>8. Alive' => Alive
  BY <1>1, <1>2 DEF Alive
<1>9. LoopCounts => LoopCounts'
  BY <1>1, <1>4, <1>5 DEF LoopCounts
<1>10. LoopOrder => LoopOrder'
  BY <1>1, <1>4, <1>5 DEF LoopOrder
<1>11. QED
  BY <1>1, <1>6, <1>7, <1>8, <1>9, <1>10 DEF LoopInv

LEMMA SyncStep ==
    ASSUME LoopSizes, LoopInv, J!SyncCapture
    PROVE  LoopInv' /\ wrote' = <<>> /\ stage = "sync"
<1>1. /\ loop \in Loops /\ hw \in Devices /\ LoopTypes /\ LoopFlags
      /\ stage = "sync" /\ stage' = "delays" /\ now' = now
      /\ UNCHANGED <<active, moved, patched>> /\ wrote' = <<>>
  BY DEF LoopInv, LoopTypes, J!SyncCapture, J!slave, J!round
<1>2. loop.running
  BY <1>1 DEF LoopFlags
<1>3. /\ loop' \in Loops /\ hw' \in Devices
      /\ loop'.running = loop.running /\ ~loop'.cxrun
      /\ LoopCounts => LoopCounts' /\ (LoopOrder => LoopOrder')
  <2>1. CASE loop.cxrun \/ hw.cstate = "xrun"
    <3>1. /\ loop' = [loop EXCEPT !.cxrun = FALSE]
          /\ hw' = [hw EXCEPT !.cstate = "running", !.cavail = 0]
          /\ due' = due \ J!Waiting
      BY <2>1 DEF J!SyncCapture
    <3>2. /\ hw' \in Devices /\ hw'.cavail = 0 /\ hw'.pfill = hw.pfill
          /\ hw'.pstate = hw.pstate
      <4> DEFINE s == "running"
                 a == 0
      <4>1. s \in DeviceStates /\ a \in Int
        BY DEF DeviceStates
      <4>2. hw' = [hw EXCEPT !.cstate = s, !.cavail = a] /\ hw \in Devices
        BY <1>1, <3>1
      <4> HIDE DEF s, a
      <4>3. /\ hw' \in Devices /\ hw'.cavail = a /\ hw'.pfill = hw.pfill
            /\ hw'.pstate = hw.pstate
        BY <4>1, <4>2 DEF Devices
      <4>4. QED
        BY <4>3 DEF a
    <3>3. FALSE \in BOOLEAN
      OBVIOUS
    <3>4. /\ loop' \in Loops /\ loop'.pxrun = loop.pxrun /\ loop'.cxrun = FALSE
          /\ loop'.ring = loop.ring /\ loop'.cpos = loop.cpos /\ loop'.ccount = loop.ccount
          /\ loop'.ppos = loop.ppos /\ loop'.pcount = loop.pcount
          /\ loop'.running = loop.running
      BY <1>1, <3>1, <3>3, CxrunIs
    <3>5. LoopCounts => LoopCounts' /\ (LoopOrder => LoopOrder')
      BY <1>1, <3>1, <3>2, <3>4, LoseStep
    <3>6. QED
      BY <3>2, <3>4, <3>5
  <2>2. CASE ~(loop.cxrun \/ hw.cstate = "xrun")
    <3>1. J!Capture
      BY <2>2 DEF J!SyncCapture
    <3>2. QED
      BY <1>1, <2>2, <3>1, CaptureStep
  <2>3. QED
    BY <2>1, <2>2
<1>4. LoopTypes'
  BY <1>1, <1>3 DEF LoopTypes
<1>5. LoopFlags'
  BY <1>1, <1>2, <1>3 DEF LoopFlags
<1>6. Alive' => Alive
  BY <1>1, <1>2 DEF Alive
<1>7. QED
  BY <1>1, <1>3, <1>4, <1>5, <1>6 DEF LoopInv

LEMMA OverrunAgainStep ==
    ASSUME LoopSizes, LoopInv, J!CaptureOverrunAgain
    PROVE  LoopInv' /\ wrote' = <<>> /\ stage' = "sync"
<1>1. /\ loop \in Loops /\ LoopFlags /\ stage = "delays" /\ stage' = "sync"
      /\ UNCHANGED <<hw, now, active, moved, due, patched>> /\ wrote' = <<>>
      /\ loop' = [loop EXCEPT !.cxrun = TRUE]
  BY DEF LoopInv, LoopTypes, J!CaptureOverrunAgain, J!slave, J!round
<1>2. loop.running /\ TRUE \in BOOLEAN
  BY <1>1 DEF LoopFlags
<1>3. /\ loop' \in Loops /\ loop'.pxrun = loop.pxrun
      /\ loop'.ring = loop.ring /\ loop'.cpos = loop.cpos /\ loop'.ccount = loop.ccount
      /\ loop'.ppos = loop.ppos /\ loop'.pcount = loop.pcount
      /\ loop'.running = loop.running
  BY <1>1, <1>2, CxrunIs
<1>4. LoopFlags'
  BY <1>1, <1>2, <1>3 DEF LoopFlags
<1>5. Alive' => Alive
  BY <1>1, <1>2 DEF Alive
<1>6. LoopTypes'
  BY <1>1, <1>3 DEF LoopInv, LoopTypes
<1>7. LoopCounts => LoopCounts'
  BY <1>1, <1>3 DEF LoopCounts
<1>8. LoopOrder => LoopOrder'
  BY <1>1, <1>3 DEF LoopOrder
<1>9. QED
  BY <1>1, <1>4, <1>5, <1>6, <1>7, <1>8 DEF LoopInv

LEMMA DropStep ==
    ASSUME LoopSizes, LoopInv, J!DropCapture
    PROVE  LoopInv' /\ wrote' = <<>> /\ stage' = "sync"
<1> DEFINE d == J!Delay(loop, hw) - Latency
           r == J!RemoveSamples(loop, d)
           m == J!Removable(loop, d)
           xr == loop.pxrun \/ hw.pstate = "xrun"
<1>1. /\ loop \in Loops /\ hw \in Devices /\ LoopTypes /\ LoopFlags
      /\ stage = "delays" /\ stage' = "sync" /\ J!Delay(loop, hw) > Latency
      /\ UNCHANGED <<now, active, moved, patched>> /\ wrote' = <<>>
      /\ loop' = [r EXCEPT !.pxrun = @ \/ hw.pstate = "xrun"]
      /\ hw' = [hw EXCEPT !.cstate = "running", !.cavail = 0]
      /\ due' = due \ (J!Waiting \cup J!Removed(loop, d))
  BY DEF LoopInv, LoopTypes, J!DropCapture, J!slave, J!round
<1>2. loop.running
  BY <1>1 DEF LoopFlags
<1>3. /\ hw.pfill \in Int /\ loop.pcount \in Int /\ loop.ccount \in Int
      /\ loop.ppos \in J!Slots /\ Latency \in Nat /\ J!Size \in Nat
      /\ now \in Nat /\ hw.cavail \in Int /\ CaptBuffer \in Nat
  BY <1>1, SizeIs DEF Loops, Devices, LoopTypes, LoopSizes
<1>4. d \in Int /\ d > 0
  BY <1>1, <1>3 DEF J!Delay
<1> HIDE DEF d
<1>5. /\ m \in {d, loop.pcount, loop.ccount}
      /\ m <= d /\ m <= loop.pcount /\ m <= loop.ccount /\ m \in Int
      /\ r \in Loops /\ r.ring = loop.ring /\ r.running = loop.running
      /\ r.cpos = loop.cpos /\ r.ccount = loop.ccount - m
      /\ r.ppos = (loop.ppos + m) % J!Size /\ r.pcount = loop.pcount - m
      /\ r.pxrun = loop.pxrun
  BY <1>1, <1>4, RemoveSamplesIs
<1>6. xr \in BOOLEAN /\ loop' = [r EXCEPT !.pxrun = xr]
  BY <1>1, <1>5 DEF Loops
<1>7. J!Removed(loop, d) = {J!FramesAt(loop.ring, loop.ppos, m)[i] :
                            i \in DOMAIN J!FramesAt(loop.ring, loop.ppos, m)}
  BY DEF J!Removed
<1> HIDE DEF m, r, xr
<1>8. /\ loop' \in Loops /\ loop'.pxrun = xr
      /\ loop'.ring = r.ring /\ loop'.cpos = r.cpos /\ loop'.ccount = r.ccount
      /\ loop'.ppos = r.ppos /\ loop'.pcount = r.pcount
      /\ loop'.running = r.running
  BY <1>5, <1>6, PxrunIs
<1>9. /\ hw' \in Devices /\ hw'.cavail = 0 /\ hw'.pfill = hw.pfill
      /\ hw'.pstate = hw.pstate
  <2> DEFINE s == "running"
             a == 0
  <2>1. s \in DeviceStates /\ a \in Int
    BY DEF DeviceStates
  <2>2. hw' = [hw EXCEPT !.cstate = s, !.cavail = a] /\ hw \in Devices
    BY <1>1, <1>1
  <2> HIDE DEF s, a
  <2>3. /\ hw' \in Devices /\ hw'.cavail = a /\ hw'.pfill = hw.pfill
        /\ hw'.pstate = hw.pstate
    BY <2>1, <2>2 DEF Devices
  <2>4. QED
    BY <2>3 DEF a
<1>10. LoopTypes'
  BY <1>1, <1>8, <1>9 DEF LoopTypes
<1>11. LoopFlags'
  BY <1>1, <1>2, <1>5, <1>8 DEF LoopFlags
<1>13. LoopCounts' /\ (~patched' => LoopOrder')
  <2>0. ~patched' => LoopOrder
    BY <1>1, <1>2 DEF LoopInv, Alive
  <2>1. LoopCounts
    BY <1>1, <1>2 DEF LoopInv, Alive
  <2> DEFINE c == loop.pcount
             top == now - hw.cavail
             cut == J!FramesAt(loop.ring, loop.ppos, m)
             D == due \ Values(cut)
  <2>2. /\ c \in 0 .. J!Size /\ m \in 0 .. c /\ m \in Nat /\ c - m \in Nat
        /\ m + (c - m) <= J!Size
        /\ top \in Nat /\ m + (c - m) = c /\ top <= now
    BY <1>3, <1>4, <1>5, <2>1 DEF LoopCounts
  <2>3. (((loop.ppos + m) % J!Size) + (c - m)) % J!Size
          = (loop.ppos + (m + (c - m))) % J!Size
    BY <1>3, <2>2, StepStep
  <2>12. /\ loop'.pxrun => hw.pstate # "running"
         /\ hw.pstate = "prepared" => loop'.pxrun
    BY <1>8, <2>1 DEF LoopCounts, xr
  <2>5. LoopCounts'
    <3>1. loop'.pcount = loop.pcount - m /\ loop'.ccount = loop.ccount - m
      BY <1>5, <1>8
    <3>2. now' = now
      BY <1>1
    <3>3. QED
      BY <1>3, <1>5, <1>9, <2>1, <2>2, <2>12, <3>1, <3>2 DEF LoopCounts
  <2>4. LoopOrder => loop'.cpos = (loop'.ppos + loop'.pcount) % J!Size
    BY <1>5, <1>8, <2>2, <2>3 DEF LoopOrder
  <2>6. LoopOrder => InOrder(loop.ring, loop.ppos, c, top, now, due)
    BY DEF LoopOrder
  <2>7. due' = D \ ((top + 1) .. now)
    BY <1>1, <1>7 DEF J!Waiting, Values
  <2>14. D = due \ Values(cut) /\ cut = J!FramesAt(loop.ring, loop.ppos, m)
    OBVIOUS
  <2> HIDE DEF c, top, D, cut
  <2>8. ASSUME LoopOrder
        PROVE  InOrder(loop.ring, (loop.ppos + m) % J!Size, c - m, top, now, D)
    <3>1. /\ loop.ppos \in J!Slots /\ c \in 0 .. J!Size /\ m \in 0 .. c
          /\ top \in Nat /\ now \in Nat
      BY <1>3, <2>2
    <3>2. InOrder(loop.ring, loop.ppos, c, top, now, due)
      BY <2>6, <2>8
    <3>3. QED
      BY <2>14, <3>1, <3>2, TakeFirst
  <2>9. LoopOrder => InOrder(loop.ring, (loop.ppos + m) % J!Size, c - m, now, now, due')
    BY <1>3, <2>2, <2>7, <2>8, LoseWaiting
  <2>10. now' - hw'.cavail = now /\ now' = now
    BY <1>1, <1>3, <1>9
  <2>11. LoopOrder => LoopOrder'
    BY <1>5, <1>8, <2>4, <2>9, <2>10 DEF LoopOrder, c
  <2>13. QED
    BY <2>0, <2>5, <2>11
<1>14. QED
  BY <1>1, <1>10, <1>11, <1>13 DEF LoopInv

\* What Trim takes from the queue of a loop whose counts agree: all that is too
\* much, or everything.
Trimmed(l, d) ==
    IF d <= Latency THEN 0 ELSE IF d - Latency <= l.pcount THEN d - Latency ELSE l.pcount

LEMMA TrimIs ==
    ASSUME LoopSizes, NEW l \in Loops, NEW d \in Int
    PROVE  LET t == J!Trim(l, d)
               m == Trimmed(l, d)
           IN  /\ t[1] \in Loops /\ t[2] \in Int
               /\ t[1].running = l.running /\ t[1].reinit = l.reinit
               /\ t[1].cxrun = l.cxrun /\ t[1].pxrun = l.pxrun
               /\ t[1].ring = l.ring /\ t[1].cpos = l.cpos
               /\ 0 <= l.pcount /\ l.pcount <= l.ccount /\ l.ccount <= J!Size =>
                    /\ m \in 0 .. l.pcount
                    /\ t[1].ppos = (l.ppos + m) % J!Size
                    /\ t[1].pcount = l.pcount - m /\ t[1].ccount = l.ccount - m
                    /\ d <= Latency => t[2] = d
                    /\ d > Latency => t[2] >= Latency
                    /\ d > Latency /\ d - Latency <= l.pcount => t[2] = Latency
<1>1. /\ l.pcount \in Int /\ l.ccount \in Int /\ l.ppos \in J!Slots /\ J!Size \in Nat
      /\ Latency \in Nat
  BY SizeIs DEF Loops, LoopSizes
<1> DEFINE l1 == IF d > Latency THEN J!RemoveSamples(l, d - Latency) ELSE l
           d1 == d - (l.pcount - l1.pcount)
           n2 == J!Min({d1 - Latency, l1.ccount})
           l2 == IF d1 > Latency THEN J!RemoveSamples(l1, n2) ELSE l1
           d2 == IF d1 > Latency THEN d1 - (n2 - J!Removable(l1, n2)) ELSE d1
           m1 == J!Removable(l, d - Latency)
           m2 == J!Removable(l1, n2)
<1>2. J!Trim(l, d) = <<l2, d2>>
  BY DEF J!Trim
<1>3. d > Latency =>
        /\ m1 \in {d - Latency, l.pcount, l.ccount}
        /\ m1 <= d - Latency /\ m1 <= l.pcount /\ m1 <= l.ccount /\ m1 \in Int
        /\ l1 \in Loops /\ l1.ring = l.ring /\ l1.running = l.running
        /\ l1.reinit = l.reinit /\ l1.cpos = l.cpos /\ l1.ccount = l.ccount - m1
        /\ l1.cxrun = l.cxrun /\ l1.ppos = (l.ppos + m1) % J!Size
        /\ l1.pcount = l.pcount - m1 /\ l1.pxrun = l.pxrun
  <2>1. d - Latency \in Int
    BY <1>1
  <2>2. QED
    BY <2>1, RemoveSamplesIs
<1>4. d <= Latency => l1 = l
  BY <1>1
<1> HIDE DEF m1, l1
<1>5. /\ l1 \in Loops /\ l1.ring = l.ring /\ l1.running = l.running
      /\ l1.reinit = l.reinit /\ l1.cpos = l.cpos
      /\ l1.cxrun = l.cxrun /\ l1.pxrun = l.pxrun
  BY <1>1, <1>3, <1>4
<1>6. l1.pcount \in Int /\ l1.ccount \in Int /\ l1.ppos \in J!Slots
  BY <1>5 DEF Loops
<1>7. d1 \in Int /\ d1 = d - (l.pcount - l1.pcount)
  BY <1>1, <1>6
<1> HIDE DEF d1
<1>8. n2 = IF d1 - Latency <= l1.ccount THEN d1 - Latency ELSE l1.ccount
  BY <1>1, <1>6, <1>7, Min2
<1>9. n2 \in Int
  BY <1>1, <1>6, <1>7, <1>8
<1> HIDE DEF n2
<1>10. /\ m2 \in {n2, l1.pcount, l1.ccount}
       /\ m2 <= n2 /\ m2 <= l1.pcount /\ m2 <= l1.ccount /\ m2 \in Int
       /\ d1 > Latency =>
            /\ l2 \in Loops /\ l2.ring = l1.ring /\ l2.running = l1.running
            /\ l2.reinit = l1.reinit /\ l2.cpos = l1.cpos /\ l2.ccount = l1.ccount - m2
            /\ l2.cxrun = l1.cxrun /\ l2.ppos = (l1.ppos + m2) % J!Size
            /\ l2.pcount = l1.pcount - m2 /\ l2.pxrun = l1.pxrun
  BY <1>5, <1>9, RemoveSamplesIs
<1>11. d1 <= Latency => l2 = l1
  BY <1>1, <1>7
<1>12. d2 = IF d1 > Latency THEN d1 - (n2 - m2) ELSE d1
  OBVIOUS
<1> HIDE DEF l2, m2, d2
<1>13. /\ l2 \in Loops /\ d2 \in Int /\ l2.ring = l.ring /\ l2.running = l.running
       /\ l2.reinit = l.reinit /\ l2.cpos = l.cpos
       /\ l2.cxrun = l.cxrun /\ l2.pxrun = l.pxrun
  BY <1>1, <1>5, <1>7, <1>9, <1>10, <1>11, <1>12
<1>14. ASSUME 0 <= l.pcount, l.pcount <= l.ccount, l.ccount <= J!Size
       PROVE  LET m == Trimmed(l, d)
              IN  /\ m \in 0 .. l.pcount
                  /\ l2.ppos = (l.ppos + m) % J!Size
                  /\ l2.pcount = l.pcount - m /\ l2.ccount = l.ccount - m
                  /\ d <= Latency => d2 = d
                  /\ d > Latency => d2 >= Latency
                  /\ d > Latency /\ d - Latency <= l.pcount => d2 = Latency
  <2> DEFINE m == Trimmed(l, d)
  <2>1. m \in 0 .. l.pcount
    BY <1>1, <1>14 DEF Trimmed
  <2>2. CASE d <= Latency
    <3>1. m = 0 /\ l1 = l /\ d1 = d
      BY <1>1, <1>4, <1>7, <2>2 DEF Trimmed
    <3>2. l2 = l /\ d2 = d
      BY <1>1, <1>11, <1>12, <2>2, <3>1
    <3>3. l.ppos = (l.ppos + 0) % J!Size
      BY <1>1, NoStep
    <3>4. QED
      BY <1>1, <2>1, <2>2, <3>1, <3>2, <3>3
  <2>3. CASE d > Latency
    <3>1. m1 = m
      BY <1>1, <1>3, <1>14, <2>3 DEF Trimmed
    <3>2. l1.pcount = l.pcount - m /\ l1.ccount = l.ccount - m
          /\ l1.ppos = (l.ppos + m) % J!Size /\ d1 = d - m
      BY <1>1, <1>3, <1>7, <2>1, <2>3, <3>1
    <3>3. CASE d - Latency <= l.pcount
      <4>1. m = d - Latency /\ d1 = Latency
        BY <1>1, <2>3, <3>2, <3>3 DEF Trimmed
      <4>2. l2 = l1 /\ d2 = Latency
        BY <1>1, <1>11, <1>12, <4>1
      <4>3. QED
        BY <1>1, <2>1, <2>3, <3>2, <4>2
    <3>4. CASE d - Latency > l.pcount
      <4>1. m = l.pcount /\ l1.pcount = 0 /\ d1 > Latency /\ l1.ccount >= 0
        BY <1>1, <1>14, <2>3, <3>2, <3>4 DEF Trimmed
      <4>2. n2 >= 0 /\ n2 <= d1 - Latency
        BY <1>1, <1>6, <1>7, <1>8, <4>1
      <4>3. m2 = 0
        BY <1>6, <1>9, <1>10, <4>1, <4>2
      <4>4. d2 >= Latency
        BY <1>1, <1>7, <1>9, <1>12, <4>1, <4>2, <4>3
      <4>5. (l1.ppos + 0) % J!Size = l1.ppos
        BY <1>6, NoStep
      <4>6. l2.ppos = l1.ppos /\ l2.pcount = l1.pcount /\ l2.ccount = l1.ccount
        BY <1>6, <1>10, <4>1, <4>3, <4>5
      <4>7. QED
        BY <1>1, <2>1, <2>3, <3>2, <3>4, <4>4, <4>6
    <3>5. QED
      BY <1>1, <3>3, <3>4
  <2>4. QED
    BY <1>1, <2>2, <2>3
<1>15. QED
  BY <1>2, <1>13, <1>14

\* The frames in the loop after a step that sets the streams in motion again.
LatencyOrDevice == J!Delay(loop', hw') <= Latency \/ J!Delay(loop', hw') = hw.pfill

\* The queue that Trim leaves, of a loop that is alive.
LEMMA TrimmedQueue ==
    ASSUME LoopSizes, LoopTypes, LoopCounts, NEW d \in Int
    PROVE  LET t == J!Trim(loop, d)[1]
               cut == J!FramesAt(loop.ring, loop.ppos, loop.pcount - t.pcount)
               D == due \ Values(cut)
           IN  /\ LoopOrder =>
                    /\ InOrder(t.ring, t.ppos, t.pcount, now - hw.cavail, now, D)
                    /\ t.cpos = (t.ppos + t.pcount) % J!Size
               /\ 0 <= t.pcount /\ t.pcount <= t.ccount /\ t.ccount <= J!Size
               /\ t.pcount = loop.pcount - Trimmed(loop, d)
<1> DEFINE t == J!Trim(loop, d)[1]
           m == Trimmed(loop, d)
           c == loop.pcount
           top == now - hw.cavail
           cut == J!FramesAt(loop.ring, loop.ppos, c - t.pcount)
           D == due \ Values(cut)
<1>1. /\ loop \in Loops /\ now \in Nat /\ hw.cavail \in Int /\ CaptBuffer \in Nat
      /\ loop.ppos \in J!Slots /\ loop.pcount \in Int /\ loop.ccount \in Int
      /\ J!Size \in Nat
  BY SizeIs DEF LoopTypes, Loops, Devices, LoopSizes
<1>2. 0 <= loop.pcount /\ loop.pcount <= loop.ccount /\ loop.ccount <= J!Size
  BY DEF LoopCounts
<1>3. /\ t.ring = loop.ring /\ t.cpos = loop.cpos /\ m \in 0 .. c
      /\ t.ppos = (loop.ppos + m) % J!Size
      /\ t.pcount = c - m /\ t.ccount = loop.ccount - m
  BY <1>1, <1>2, TrimIs
<1> HIDE DEF t, m
<1>4. /\ c \in 0 .. J!Size /\ m \in Nat /\ c - m \in Nat /\ m + (c - m) <= J!Size
      /\ m + (c - m) = c /\ c - t.pcount = m /\ top \in Nat
  BY <1>1, <1>2, <1>3 DEF LoopCounts
<1>5. (((loop.ppos + m) % J!Size) + (c - m)) % J!Size = (loop.ppos + (m + (c - m))) % J!Size
  BY <1>1, <1>4, StepStep
<1>6. LoopOrder => t.cpos = (t.ppos + t.pcount) % J!Size
  BY <1>3, <1>4, <1>5 DEF LoopOrder
<1>7. LoopOrder => InOrder(loop.ring, loop.ppos, c, top, now, due)
  BY DEF LoopOrder
<1>8. cut = J!FramesAt(loop.ring, loop.ppos, m) /\ D = due \ Values(cut)
  BY <1>4
<1> HIDE DEF cut, D, top
<1>9. ASSUME LoopOrder
      PROVE  InOrder(loop.ring, (loop.ppos + m) % J!Size, c - m, top, now, D)
  <2> HIDE DEF c
  <2>1. /\ loop.ppos \in J!Slots /\ c \in 0 .. J!Size /\ m \in 0 .. c
        /\ top \in Nat /\ now \in Nat
    BY <1>1, <1>3, <1>4
  <2>2. InOrder(loop.ring, loop.ppos, c, top, now, due)
    BY <1>7, <1>9
  <2>3. QED
    BY <1>8, <2>1, <2>2, TakeFirst
<1>10. LoopOrder => InOrder(t.ring, t.ppos, t.pcount, top, now, D)
  BY <1>3, <1>9
<1>11. /\ 0 <= t.pcount /\ t.pcount <= t.ccount /\ t.ccount <= J!Size
       /\ t.pcount = c - m
  BY <1>1, <1>2, <1>3
<1>12. LoopOrder => /\ InOrder(t.ring, t.ppos, t.pcount, top, now, D)
                    /\ t.cpos = (t.ppos + t.pcount) % J!Size
  BY <1>6, <1>10
<1>13. QED
  BY <1>11, <1>12 DEF t, m, top, cut, D

\* What is played out of the queue that is left after the cut.
LEMMA PlayedInOrder ==
    ASSUME LoopSizes, NEW t \in Loops, NEW l \in Loops, NEW n \in Int, J!Played(t, l, n),
           NEW top \in Nat, now \in Nat, 0 <= n, n <= l.pcount, l.pcount <= J!Size,
           NEW cut, cut = J!FramesAt(loop.ring, loop.ppos, loop.pcount - t.pcount),
           NEW D, D = due \ Values(cut),
           InOrder(l.ring, l.ppos, l.pcount, top, now, D)
    PROVE  /\ InOrder(l.ring, (l.ppos + n) % J!Size, l.pcount - n, top, now, due')
           /\ Turns(wrote', due, due')
<1>1. l.pcount \in 0 .. J!Size /\ n \in 0 .. l.pcount /\ l.ppos \in J!Slots
  BY SizeIs DEF Loops
<1>2. /\ wrote' = J!FramesAt(l.ring, l.ppos, n)
      /\ due' = D \ Values(wrote')
  BY DEF J!Played, Values
<1>3. /\ InOrder(l.ring, (l.ppos + n) % J!Size, l.pcount - n, top, now, due')
      /\ Turns(wrote', D, due')
  BY <1>1, <1>2, TakeFirst
<1>4. D \subseteq due
  OBVIOUS
<1>5. QED
  BY <1>3, <1>4 DEF Turns

LEMMA FillRunningStep ==
    ASSUME LoopSizes, LoopInv, LatencyFits, stage = "delays", UNCHANGED <<now, active,
           moved>>,
           ~(hw.cavail > 0 /\ J!Delay(loop, hw) > Latency),
           ~(loop.pxrun \/ hw.pstate = "xrun"),
           J!FillRunning(J!Trim(loop, J!Delay(loop, hw))[1],
                         J!Trim(loop, J!Delay(loop, hw))[2])
    PROVE  LoopInv' /\ (patched' \/ Turns(wrote', due, due'))
           /\ LatencyOrDevice
<1> DEFINE d0 == J!Delay(loop, hw)
           t == J!Trim(loop, d0)[1]
           d == J!Trim(loop, d0)[2]
           m == Trimmed(loop, d0)
           l == IF d < Latency THEN J!SilenceAt(t, Latency - d) ELSE t
           n == IF d < Latency THEN J!WriteCount(l, hw.pfill) ELSE 0
<1>1. /\ loop \in Loops /\ hw \in Devices /\ LoopTypes /\ LoopFlags /\ loop.running
      /\ ~loop.pxrun /\ ~loop.cxrun /\ stage' = "reinit"
  BY DEF LoopInv, LoopTypes, LoopFlags, J!FillRunning
<1>2. /\ hw.pfill \in Int /\ hw.cavail \in Int /\ loop.pcount \in Int
      /\ Latency \in Nat /\ J!Size \in Nat /\ PlayBuffer \in Nat /\ now \in Nat
      /\ patched \in BOOLEAN
  BY <1>1, SizeIs DEF Loops, Devices, LoopTypes, LoopSizes
<1>3. d0 = hw.cavail + hw.pfill + loop.pcount /\ d0 \in Int
  BY <1>2 DEF J!Delay
<1>4. /\ J!Played(t, l, n)
      /\ patched' = (patched \/ d < Latency)
      /\ loop' = IF d < Latency THEN J!WriteIt(l, n) ELSE t
      /\ hw' = [hw EXCEPT !.pfill = @ + n]
  BY DEF J!FillRunning
<1> HIDE DEF d0
<1>5. /\ t \in Loops /\ d \in Int /\ t.running = loop.running
      /\ t.cxrun = loop.cxrun /\ t.pxrun = loop.pxrun
      /\ 0 <= loop.pcount /\ loop.pcount <= loop.ccount /\ loop.ccount <= J!Size =>
           /\ d0 <= Latency => d = d0
           /\ d0 > Latency => d >= Latency
  BY <1>1, <1>3, TrimIs
<1>6. LoopCounts
  BY <1>1 DEF LoopInv, Alive
<1>7. LET cut == J!FramesAt(loop.ring, loop.ppos, loop.pcount - t.pcount)
          D == due \ Values(cut)
      IN  /\ LoopOrder =>
               /\ InOrder(t.ring, t.ppos, t.pcount, now - hw.cavail, now, D)
               /\ t.cpos = (t.ppos + t.pcount) % J!Size
          /\ 0 <= t.pcount /\ t.pcount <= t.ccount /\ t.ccount <= J!Size
          /\ t.pcount = loop.pcount - m
  BY <1>1, <1>3, <1>6, TrimmedQueue
<1>8. ~patched => LoopOrder
  BY <1>1 DEF LoopInv, Alive
<1> HIDE DEF t, d
<1>9. CASE d < Latency
  <2>1. /\ l = J!SilenceAt(t, Latency - d) /\ n = J!WriteCount(l, hw.pfill)
        /\ Latency - d \in Int
    BY <1>2, <1>5, <1>9
  <2> HIDE DEF l, n
  <2>2. /\ l \in Loops /\ l.running = t.running /\ l.cxrun = t.cxrun
        /\ l.pcount = t.pcount + (Latency - d) /\ l.pxrun = t.pxrun /\ l.ccount = t.ccount
    BY <1>5, <2>1, SilenceAtIs
  <2>3. /\ n \in Int /\ n <= l.pcount /\ n <= PlayBuffer - hw.pfill
        /\ l.pcount >= 0 /\ hw.pfill <= PlayBuffer => n >= 0
        /\ J!PlaysOut(l, n) \/ n = l.pcount \/ n = PlayBuffer - hw.pfill
    BY <1>2, <2>1, <2>2, WriteCountIs
  <2>4. loop' = J!WriteIt(l, n) /\ patched' = TRUE
    BY <1>4, <1>9
  <2>5. /\ loop' \in Loops /\ loop'.running = l.running /\ loop'.cxrun = l.cxrun
        /\ loop'.pcount = l.pcount - n /\ loop'.pxrun = l.pxrun
        /\ loop'.ccount = l.ccount /\ loop'.reinit = (l.reinit \/ J!PlaysOut(l, n))
    BY <2>2, <2>3, <2>4, WriteItIs
  <2>6. hw' \in Devices /\ hw'.pfill = hw.pfill + n /\ hw'.cavail = hw.cavail
        /\ hw'.pstate = hw.pstate
    BY <1>1, <1>2, <1>4, <2>3 DEF Devices
  <2>7. LoopTypes'
    BY <1>1, <2>4, <2>5, <2>6 DEF LoopTypes
  <2>8. LoopFlags'
    BY <1>1, <1>5, <2>2, <2>5 DEF LoopFlags
  <2>9. d = d0 /\ t.pcount = loop.pcount
    <3>1. d0 <= Latency /\ d = d0
      BY <1>2, <1>3, <1>5, <1>6, <1>9 DEF LoopCounts
    <3>2. m = 0
      BY <3>1 DEF Trimmed
    <3>3. QED
      BY <1>2, <1>7, <3>1, <3>2
  <2>10. l.pcount = loop.pcount + (Latency - d0)
    BY <2>2, <2>9
  <2>11. LatencyOrDevice
    <3>1. J!Delay(loop', hw') = Latency
      BY <1>2, <1>3, <2>3, <2>5, <2>6, <2>10 DEF J!Delay
    <3>2. QED
      BY <1>2, <3>1 DEF LatencyOrDevice
  <2>12. ASSUME Alive' PROVE LoopCounts'
    <3>1. ~J!PlaysOut(l, n)
      BY <1>1, <2>5, <2>12 DEF Alive
    <3>2. n = l.pcount \/ n = PlayBuffer - hw.pfill
      BY <2>3, <3>1
    <3>3. 0 <= l.pcount /\ l.pcount <= Latency - hw.pfill
      BY <1>2, <1>3, <1>6, <1>9, <2>9, <2>10 DEF LoopCounts
    <3>4. n = l.pcount
      BY <1>2, <2>3, <3>2, <3>3, <2>10, <1>3 DEF LatencyFits
    <3>5. loop'.pcount = 0 /\ loop'.ccount = t.ccount /\ ~loop'.pxrun
      BY <1>1, <1>2, <1>3, <1>5, <2>2, <2>5, <2>10, <3>4
    <3>6. hw.pstate = "running" /\ hw.pfill > 0
      BY <1>1, <1>6 DEF LoopCounts
    <3>7. hw'.pfill \in 0 .. PlayBuffer /\ hw'.pfill > 0
      BY <1>2, <1>6, <2>3, <2>6, <3>3, <3>4, <3>6 DEF LoopCounts
    <3>8. 0 <= t.ccount /\ t.ccount <= J!Size
      BY <1>5, <1>7, <1>2 DEF Loops
    <3>9. QED
      BY <1>6, <2>6, <3>5, <3>6, <3>7, <3>8 DEF LoopCounts
  <2>13. QED
    BY <2>4, <2>7, <2>8, <2>11, <2>12 DEF LoopInv
<1>10. CASE d >= Latency
  <2>1. l = t /\ n = 0 /\ loop' = t /\ patched' = patched
    BY <1>2, <1>4, <1>5, <1>10
  <2>2. hw' \in Devices /\ hw'.pfill = hw.pfill /\ hw'.cavail = hw.cavail
        /\ hw'.pstate = hw.pstate
    BY <1>1, <1>2, <1>4, <2>1 DEF Devices
  <2>3. LoopTypes'
    BY <1>1, <1>5, <2>1, <2>2 DEF LoopTypes
  <2>4. LoopFlags'
    BY <1>1, <1>5, <2>1 DEF LoopFlags
  <2>5. LoopCounts'
    BY <1>1, <1>5, <1>6, <1>7, <2>1, <2>2 DEF LoopCounts
  <2>6. ASSUME ~patched
        PROVE  LoopOrder' /\ Turns(wrote', due, due')
    <3>1. LoopCounts /\ LoopOrder
      BY <1>6, <1>8, <2>6
    <3>2. now - hw.cavail \in Nat /\ t.pcount \in Int /\ t.ppos \in J!Slots
      BY <1>2, <1>5, <3>1 DEF LoopCounts, Loops
    <3>3. /\ InOrder(t.ring, (t.ppos + 0) % J!Size, t.pcount - 0,
                     now - hw.cavail, now, due')
          /\ Turns(wrote', due, due')
      <4>1. 0 <= t.pcount /\ t.pcount <= J!Size
        BY <1>2, <1>5, <1>7, <3>1, <3>2 DEF Loops
      <4>2. J!Played(t, t, 0)
        BY <1>4, <2>1
      <4> DEFINE top == now - hw.cavail
                 cut == J!FramesAt(loop.ring, loop.ppos, loop.pcount - t.pcount)
                 D == due \ Values(cut)
      <4>3. /\ InOrder(t.ring, t.ppos, t.pcount, top, now, D)
            /\ cut = J!FramesAt(loop.ring, loop.ppos, loop.pcount - t.pcount)
            /\ D = due \ Values(cut)
        BY <1>7, <3>1
      <4> HIDE DEF top, cut, D
      <4>4. top \in Nat /\ 0 \in Int
        BY <3>2 DEF top
      <4>5. /\ InOrder(t.ring, (t.ppos + 0) % J!Size, t.pcount - 0, top, now, due')
            /\ Turns(wrote', due, due')
        BY <1>2, <1>5, <4>1, <4>2, <4>3, <4>4, PlayedInOrder
      <4>6. QED
        BY <4>5 DEF top
    <3>4. LoopOrder'
      BY <1>7, <2>1, <2>2, <3>1, <3>2, <3>3, NoStep DEF LoopOrder
    <3>5. QED
      BY <3>3, <3>4
  <2>7. LatencyOrDevice
    <3>1. t.pcount = loop.pcount - m
      BY <1>7
    <3>2. CASE d0 <= Latency
      <4>1. m = 0 /\ d0 = Latency
        BY <1>2, <1>3, <1>5, <1>6, <1>10, <3>2 DEF Trimmed, LoopCounts
      <4>2. QED
        BY <1>2, <1>3, <2>1, <2>2, <3>1, <4>1 DEF LatencyOrDevice, J!Delay
    <3>3. CASE d0 > Latency
      <4>1. hw.cavail = 0
        BY <1>2, <1>6, <3>3 DEF d0, LoopCounts
      <4>2. m = IF d0 - Latency <= loop.pcount THEN d0 - Latency ELSE loop.pcount
        BY <1>2, <1>3, <3>3 DEF Trimmed
      <4>3. QED
        BY <1>2, <1>3, <2>1, <2>2, <3>1, <4>1, <4>2 DEF LatencyOrDevice, J!Delay
    <3>4. QED
      BY <1>2, <1>3, <3>2, <3>3
  <2>8. QED
    BY <1>2, <2>1, <2>3, <2>4, <2>5, <2>6, <2>7 DEF LoopInv
<1>11. QED
  BY <1>2, <1>5, <1>9, <1>10

LEMMA FillPreparedStep ==
    ASSUME LoopSizes, LoopInv, LatencyFits, stage = "delays", UNCHANGED <<now, active,
           moved>>,
           ~(hw.cavail > 0 /\ J!Delay(loop, hw) > Latency),
           loop.pxrun \/ hw.pstate = "xrun",
           J!FillPrepared(J!Trim(loop, J!Delay(loop, hw))[1],
                          J!Trim(loop, J!Delay(loop, hw))[2])
    PROVE  LoopInv' /\ (patched' \/ Turns(wrote', due, due'))
           /\ LatencyOrDevice
<1> DEFINE d0 == J!Delay(loop, hw)
           t == J!Trim(loop, d0)[1]
           d == J!Trim(loop, d0)[2]
           m == Trimmed(loop, d0)
           adds == d < Latency /\ t.pcount < Latency - d
           diff == IF adds THEN Latency - d - t.pcount ELSE Latency - d
           l == IF adds THEN J!SilenceBefore(t, diff) ELSE t
           n == J!WriteCount(l, 0)
           w == J!WriteIt(l, n)
           b == J!BufRemove(w, n - diff)
<1>1. /\ loop \in Loops /\ hw \in Devices /\ LoopTypes /\ LoopFlags /\ loop.running
      /\ ~loop.cxrun
  BY DEF LoopInv, LoopTypes, LoopFlags
<1>2. /\ hw.pfill \in Int /\ hw.cavail \in Int /\ loop.pcount \in Int
      /\ Latency \in Nat /\ Latency > 0 /\ J!Size \in Nat /\ PlayBuffer \in Nat
      /\ now \in Nat /\ patched \in BOOLEAN /\ 2 * Latency <= J!Size
      /\ Latency <= PlayBuffer
  BY <1>1, SizeIs DEF Loops, Devices, LoopTypes, LatencyFits, LoopSizes
<1>3. d0 = hw.cavail + hw.pfill + loop.pcount /\ d0 \in Int
  BY <1>2 DEF J!Delay
<1>4. /\ J!Played(t, l, n)
      /\ patched' = (patched \/ (adds /\ t.ppos < diff))
      /\ loop' = [b EXCEPT !.pxrun = FALSE]
      /\ hw' = [hw EXCEPT !.pstate = IF n > 0 THEN "running" ELSE "prepared", !.pfill = n]
      /\ stage' = IF n > 0 THEN "reinit" ELSE "exit"
  BY DEF J!FillPrepared
<1>5. /\ t \in Loops /\ d \in Int /\ t.running = loop.running
      /\ t.cxrun = loop.cxrun
      /\ 0 <= loop.pcount /\ loop.pcount <= loop.ccount /\ loop.ccount <= J!Size =>
           /\ d0 <= Latency => d = d0
           /\ d0 > Latency => d >= Latency
           /\ d0 > Latency /\ d0 - Latency <= loop.pcount => d = Latency
  BY <1>1, <1>3, TrimIs
<1>6. LoopCounts
  BY <1>1 DEF LoopInv, Alive
<1>7. LET cut == J!FramesAt(loop.ring, loop.ppos, loop.pcount - t.pcount)
          D == due \ Values(cut)
      IN  /\ LoopOrder =>
               /\ InOrder(t.ring, t.ppos, t.pcount, now - hw.cavail, now, D)
               /\ t.cpos = (t.ppos + t.pcount) % J!Size
          /\ 0 <= t.pcount /\ t.pcount <= t.ccount /\ t.ccount <= J!Size
          /\ t.pcount = loop.pcount - m
  BY <1>1, <1>3, <1>6, TrimmedQueue
<1>8. t.pcount \in Int /\ t.ppos \in J!Slots /\ t.ccount \in Int
  BY <1>5 DEF Loops
<1> HIDE DEF t, d, d0, l, n, w, b
<1>9. diff \in Int /\ (adds => diff \in Nat)
  BY <1>2, <1>5, <1>8
<1>10. /\ l \in Loops /\ l.running = t.running /\ l.cxrun = t.cxrun
       /\ l.cpos = t.cpos /\ l.ccount = t.ccount
       /\ l.pcount = IF adds THEN t.pcount + diff ELSE t.pcount
       /\ adds /\ t.ppos >= diff =>
            l.ppos = t.ppos - diff /\ l.ring = Silenced(t.ring, t.ppos - diff, diff)
       /\ ~adds => l.ppos = t.ppos /\ l.ring = t.ring
  <2>1. CASE adds
    <3> HIDE DEF diff
    <3>1. l = J!SilenceBefore(t, diff)
      BY <2>1 DEF l
    <3>2. QED
      BY <1>5, <1>9, <2>1, <3>1, SilenceBeforeIs
  <2>2. CASE ~adds
    BY <1>5, <2>2 DEF l
  <2>3. QED
    BY <2>1, <2>2
<1>11. l.pcount \in Int /\ l.ppos \in J!Slots /\ l.ccount \in Int
  BY <1>10 DEF Loops
<1>12. /\ n \in Int /\ n <= l.pcount /\ n <= PlayBuffer
       /\ l.pcount >= 0 => n >= 0
       /\ J!PlaysOut(l, n) \/ n = l.pcount \/ n = PlayBuffer
  <2>1. 0 \in Int
    OBVIOUS
  <2>2. PlayBuffer - 0 = PlayBuffer /\ 0 <= PlayBuffer
    BY <1>2
  <2>3. QED
    BY <1>10, <2>1, <2>2, WriteCountIs DEF n
<1>13. /\ w \in Loops /\ w.ring = l.ring /\ w.running = l.running
       /\ w.cpos = l.cpos /\ w.ccount = l.ccount /\ w.cxrun = l.cxrun
       /\ w.ppos = (l.ppos + n) % J!Size /\ w.pcount = l.pcount - n
       /\ w.reinit = (l.reinit \/ J!PlaysOut(l, n))
  BY <1>10, <1>12, WriteItIs DEF w
<1>14. /\ b \in Loops /\ b.ring = w.ring /\ b.running = w.running /\ b.reinit = w.reinit
       /\ b.cpos = w.cpos /\ b.cxrun = w.cxrun /\ b.ppos = w.ppos /\ b.pcount = w.pcount
       /\ b.ccount = IF n - diff <= 0 THEN w.ccount
                     ELSE IF n - diff < w.ccount THEN w.ccount - (n - diff) ELSE 0
  <2> HIDE DEF diff
  <2>1. n - diff \in Int
    BY <1>9, <1>12
  <2>2. QED
    BY <1>13, <2>1, BufRemoveIs DEF b
<1>15. /\ loop' \in Loops /\ ~loop'.pxrun /\ loop'.ring = b.ring
       /\ loop'.running = b.running
       /\ loop'.reinit = b.reinit /\ loop'.cpos = b.cpos /\ loop'.cxrun = b.cxrun
       /\ loop'.ppos = b.ppos /\ loop'.pcount = b.pcount /\ loop'.ccount = b.ccount
  <2>1. FALSE \in BOOLEAN
    OBVIOUS
  <2>2. QED
    BY <1>4, <1>14, <2>1, PxrunIs
<1>16. /\ hw' \in Devices /\ hw'.pfill = n /\ hw'.cavail = hw.cavail
       /\ n > 0 => hw'.pstate = "running"
  <2> DEFINE s == IF n > 0 THEN "running" ELSE "prepared"
  <2>1. s \in DeviceStates /\ (n > 0 => s = "running")
    BY DEF DeviceStates
  <2>2. hw' = [hw EXCEPT !.pstate = s, !.pfill = n]
    BY <1>4
  <2> HIDE DEF s
  <2>3. hw' \in Devices /\ hw'.pfill = n /\ hw'.cavail = hw.cavail /\ hw'.pstate = s
    BY <1>1, <1>12, <2>1, <2>2 DEF Devices
  <2>4. QED
    BY <2>1, <2>3
<1>17. patched' \in BOOLEAN
  BY <1>2, <1>4
<1>18. LoopTypes'
  BY <1>1, <1>15, <1>16, <1>17 DEF LoopTypes
<1>19. LoopFlags'
  BY <1>1, <1>4, <1>5, <1>10, <1>13, <1>14, <1>15 DEF LoopFlags
<1>20. /\ 0 <= t.pcount /\ t.pcount <= t.ccount /\ t.ccount <= J!Size
       /\ hw.pfill = 0 /\ 0 <= d /\ d <= Latency
       /\ adds => d = hw.cavail + t.pcount
       /\ hw.cavail + t.pcount <= Latency
       /\ 0 <= hw.cavail /\ hw.cavail <= CaptBuffer /\ hw.cavail <= now
  <2>1. LoopCounts
    BY <1>6
  <2>2. /\ 0 <= t.pcount /\ t.pcount <= t.ccount /\ t.ccount <= J!Size
        /\ t.pcount = loop.pcount - m
    BY <1>7
  <2>3. hw.pfill = 0
    BY <1>2, <2>1 DEF LoopCounts
  <2>4. 0 <= hw.cavail /\ hw.cavail <= CaptBuffer /\ hw.cavail <= now /\ 0 <= loop.pcount
        /\ loop.pcount <= loop.ccount /\ loop.ccount <= J!Size
    BY <2>1 DEF LoopCounts, LoopSizes
  <2>5. CASE d0 <= Latency
    <3>1. m = 0 /\ d = d0
      BY <1>2, <1>3, <1>5, <2>4, <2>5 DEF Trimmed
    <3>2. QED
      BY <1>2, <1>3, <2>2, <2>3, <2>4, <2>5, <3>1
  <2>6. CASE d0 > Latency
    <3>1. hw.cavail = 0
      BY <1>2, <2>4, <2>6 DEF d0
    <3>2. d0 = loop.pcount /\ d0 - Latency <= loop.pcount
      BY <1>2, <1>3, <2>3, <3>1
    <3>3. m = d0 - Latency /\ d = Latency
      BY <1>2, <1>3, <1>5, <2>4, <2>6, <3>2 DEF Trimmed
    <3>4. QED
      BY <1>2, <1>3, <2>2, <2>3, <2>4, <2>6, <3>1, <3>2, <3>3
  <2>7. QED
    BY <1>2, <1>3, <2>5, <2>6
<1>21. LatencyOrDevice
  <2>1. l.pcount + hw.cavail <= Latency
    <3>1. CASE adds
      BY <1>2, <1>5, <1>8, <1>10, <1>20, <3>1
    <3>2. CASE ~adds
      BY <1>2, <1>8, <1>10, <1>20, <3>2
    <3>3. QED
      BY <3>1, <3>2
  <2>2. J!Delay(loop', hw') = l.pcount + hw.cavail
    BY <1>2, <1>11, <1>12, <1>13, <1>14, <1>15, <1>16 DEF J!Delay
  <2>3. QED
    BY <2>1, <2>2 DEF LatencyOrDevice
<1>22. ASSUME ~patched'
       PROVE  /\ LoopOrder' /\ Turns(wrote', due, due')
              /\ loop'.cpos = (loop'.ppos + loop'.pcount) % J!Size
  <2>1. ~patched /\ (adds => t.ppos >= diff)
    <3>1. ~patched /\ ~(adds /\ t.ppos < diff)
      BY <1>2, <1>4, <1>22
    <3>2. t.ppos \in Int
      BY <1>2, <1>8 DEF J!Slots
    <3>3. QED
      BY <1>9, <3>1, <3>2
  <2>2. LoopOrder
    BY <1>1, <2>1 DEF LoopInv, Alive
  <2> DEFINE top == now - hw.cavail
             cut == J!FramesAt(loop.ring, loop.ppos, loop.pcount - t.pcount)
             D == due \ Values(cut)
  <2>3. top \in Nat /\ top <= now
    BY <1>2, <1>20, <2>1
  <2>4. /\ InOrder(t.ring, t.ppos, t.pcount, top, now, D)
        /\ cut = J!FramesAt(loop.ring, loop.ppos, loop.pcount - t.pcount)
        /\ D = due \ Values(cut)
    BY <1>7, <2>2
  <2> HIDE DEF top, cut, D
  <2>5. /\ InOrder(l.ring, l.ppos, l.pcount, top, now, D)
        /\ l.cpos = (l.ppos + l.pcount) % J!Size
        /\ 0 <= l.pcount /\ l.pcount <= J!Size
    <3>1. CASE adds
      <4> HIDE DEF diff
      <4>1. /\ t.pcount \in Nat /\ diff \in Nat /\ diff <= t.ppos /\ t.ppos \in Int
            /\ l.pcount = t.pcount + diff /\ l.ppos = t.ppos - diff
            /\ l.ring = Silenced(t.ring, t.ppos - diff, diff)
        BY <1>2, <1>8, <1>9, <1>10, <1>20, <2>1, <3>1 DEF J!Slots
      <4>2. t.pcount + diff = Latency - d /\ t.pcount + diff <= J!Size
        BY <1>2, <1>5, <1>8, <1>20, <2>1, <3>1 DEF diff
      <4>3. InOrder(l.ring, l.ppos, l.pcount, top, now, D)
        <5>1. InOrder(Silenced(t.ring, t.ppos - diff, diff), t.ppos - diff,
                      t.pcount + diff, top, now, D)
          BY <1>2, <1>8, <2>3, <2>4, <4>1, <4>2, PrependInOrder
        <5>2. QED
          BY <4>1, <5>1
      <4>4. l.ppos + l.pcount = t.ppos + t.pcount
        BY <4>1
      <4>5. l.cpos = (l.ppos + l.pcount) % J!Size
        BY <1>7, <1>10, <2>2, <4>4
      <4>6. QED
        BY <4>1, <4>2, <4>3, <4>5
    <3>2. CASE ~adds
      BY <1>2, <1>7, <1>8, <1>10, <1>20, <2>2, <2>4, <3>2
    <3>3. QED
      BY <3>1, <3>2
  <2>6. 0 <= n /\ n <= l.pcount /\ n \in Nat /\ l.pcount - n \in Nat
        /\ n + (l.pcount - n) = l.pcount
    BY <1>11, <1>12, <2>5
  <2>7. /\ InOrder(l.ring, (l.ppos + n) % J!Size, l.pcount - n, top, now, due')
        /\ Turns(wrote', due, due')
    BY <1>2, <1>4, <1>5, <1>10, <1>12, <2>3, <2>4, <2>5, <2>6, PlayedInOrder
  <2>8. (((l.ppos + n) % J!Size) + (l.pcount - n)) % J!Size
          = (l.ppos + (n + (l.pcount - n))) % J!Size
    BY <1>2, <1>11, <2>5, <2>6, StepStep
  <2>9. loop'.cpos = (loop'.ppos + loop'.pcount) % J!Size
    BY <1>13, <1>14, <1>15, <2>5, <2>6, <2>8
  <2>10. now' - hw'.cavail = top /\ now' = now
    BY <1>16 DEF top
  <2>11. LoopOrder'
    BY <1>13, <1>14, <1>15, <2>7, <2>9, <2>10 DEF LoopOrder
  <2>12. QED
    BY <2>7, <2>9, <2>11
<1>23. ASSUME Alive' PROVE LoopCounts'
  <2>1. n > 0 /\ stage' = "reinit" /\ ~loop'.reinit
    BY <1>4, <1>23 DEF Alive
  <2>2. ~J!PlaysOut(l, n)
    BY <1>2, <1>4, <1>13, <1>14, <1>15, <2>1
  <2>3. n = l.pcount \/ n = PlayBuffer
    BY <1>12, <2>2
  <2>4. 0 <= loop'.pcount /\ loop'.pcount <= loop'.ccount /\ loop'.ccount <= J!Size
    <3>1. CASE adds
      <4>1. l.pcount = Latency - d /\ n - diff = t.pcount - (l.pcount - n)
        BY <1>2, <1>5, <1>8, <1>10, <1>12, <3>1
      <4>2. n = l.pcount
        BY <1>2, <1>5, <1>11, <1>12, <1>20, <2>2, <2>3, <4>1
      <4>3. n - diff = t.pcount
        BY <1>8, <1>11, <4>1, <4>2
      <4>4. loop'.pcount = 0
        BY <1>11, <1>13, <1>14, <1>15, <4>2
      <4>5. loop'.ccount = IF t.pcount <= 0 THEN t.ccount
                           ELSE IF t.pcount < t.ccount THEN t.ccount - t.pcount ELSE 0
        BY <1>10, <1>13, <1>14, <1>15, <4>3
      <4>6. QED
        BY <1>2, <1>8, <1>20, <2>2, <4>4, <4>5
    <3>2. CASE ~adds
      <4>1. diff = Latency - d /\ diff >= 0
        BY <1>2, <1>5, <1>20, <2>2, <3>2
      <4>2. loop'.pcount = t.pcount - n /\ n <= t.pcount
        BY <1>10, <1>12, <1>13, <1>14, <1>15, <3>2
      <4> HIDE DEF diff, adds
      <4>3. loop'.ccount = IF n - diff <= 0 THEN t.ccount
                           ELSE IF n - diff < t.ccount THEN t.ccount - (n - diff) ELSE 0
        BY <1>10, <1>13, <1>14, <1>15
      <4>4. QED
        BY <1>2, <1>8, <1>9, <1>12, <1>20, <2>1, <2>2, <4>1, <4>2, <4>3
    <3>3. QED
      BY <3>1, <3>2
  <2>5. LoopCounts'
    BY <1>2, <1>12, <1>15, <1>16, <1>20, <2>1, <2>4 DEF LoopCounts, LoopSizes
  <2>6. QED
    BY <2>5
<1>24. QED
  BY <1>17, <1>18, <1>19, <1>21, <1>22, <1>23 DEF LoopInv

LEMMA ResyncStep ==
    ASSUME LoopSizes, LoopInv, LatencyFits, J!Resync
    PROVE  LoopInv' /\ (patched' \/ Turns(wrote', due, due'))
           /\ LatencyOrDevice
<1>1. /\ stage = "delays" /\ UNCHANGED <<now, active, moved>>
      /\ ~(hw.cavail > 0 /\ J!Delay(loop, hw) > Latency)
  BY DEF J!Resync, J!slave, J!round
<1>2. CASE loop.pxrun \/ hw.pstate = "xrun"
  BY <1>1, <1>2, FillPreparedStep DEF J!Resync
<1>3. CASE ~(loop.pxrun \/ hw.pstate = "xrun")
  BY <1>1, <1>3, FillRunningStep DEF J!Resync
<1>4. QED
  BY <1>2, <1>3

LEMMA LoopStep ==
    ASSUME LoopSizes, LoopInv, LatencyFits, [J!Next]_J!vars
    PROVE  /\ LoopInv'
           /\ UNCHANGED J!vars \/ patched' \/ Turns(wrote', due, due')
           /\ UNCHANGED J!vars \/ (stage = "delays" /\ stage' = "reinit" => LatencyOrDevice)
<1>1. ASSUME NEW c \in BOOLEAN, NEW p \in BOOLEAN, J!Tick(c, p)
      PROVE  LoopInv' /\ wrote' = <<>> /\ stage' = stage
  BY <1>1, TickStep
<1>2. CASE J!Drain \/ J!SlaveChanges \/ J!Wake \/ J!After
  BY <1>2, PlainSteps, SilentStep
<1>3. CASE J!CtlEvents \/ J!MixerEvent
  BY <1>3, CtlStep, SilentStep
<1>4. CASE J!Read
  BY <1>4, ReadStep, SilentStep
<1>5. CASE J!Write
  BY <1>5, WriteStep
<1>6. CASE J!WriteUnderrun
  BY <1>6, UnderrunStep, SilentStep
<1>7. CASE J!Reinit
  BY <1>7, ReinitStep, SilentStep
<1>8. CASE J!SyncCapture
  BY <1>8, SyncStep, SilentStep
<1>9. CASE J!CaptureOverrunAgain
  BY <1>9, OverrunAgainStep, SilentStep
<1>10. CASE J!DropCapture
  BY <1>10, DropStep, SilentStep
<1>11. CASE J!Resync
  BY <1>11, ResyncStep
<1>12. CASE UNCHANGED J!vars
  <2>1. UNCHANGED <<loop, hw, now, active, moved, stage, due, patched>>
    BY <1>12 DEF J!vars, J!slave, J!round
  <2>2. LoopTypes' /\ LoopFlags' /\ (Alive' => Alive)
    BY <2>1 DEF LoopInv, LoopTypes, LoopFlags, Alive
  <2>3. (LoopCounts => LoopCounts') /\ (LoopOrder => LoopOrder')
    BY <2>1 DEF LoopCounts, LoopOrder
  <2>4. QED
    BY <1>12, <2>1, <2>2, <2>3 DEF LoopInv
<1>13. CASE \E c, p \in BOOLEAN : J!Tick(c, p)
  BY <1>1, <1>13, SilentStep
<1>14. QED
  BY <1>2, <1>3, <1>4, <1>5, <1>6, <1>7, <1>8, <1>9, <1>10, <1>11, <1>12, <1>13 DEF J!Next

\* The two positions and the two counts of the shared ring agree, what it holds
\* is in order, and with what waits in the capture device it is all that is due,
\* as long as no silence was patched in.
THEOREM LoopCountsAgree ==
    ASSUME LoopSizes, LatencyFits
    PROVE  J!Spec => []LoopInv
<1>1. J!Init => LoopInv
  BY LoopInvInit
<1>2. LoopInv /\ [J!Next]_J!vars => LoopInv'
  BY LoopStep
<1>3. QED
  BY <1>1, <1>2, PTL DEF J!Spec

\* EveryFrameInTurn: until a silence is put over frames every captured frame is
\* played once and in turn, for any latency that the playback device can hold, any
\* buffers and any drift.
THEOREM EveryFrameInTurnHolds ==
    ASSUME LoopSizes, LatencyFits
    PROVE  J!Spec => J!EveryFrameInTurn
<1>1. LoopInv /\ [J!Next]_J!vars =>
        [LET sound == {i \in DOMAIN wrote' : wrote'[i] # J!Silence}
         IN  patched' \/ /\ \A i \in sound : wrote'[i] \in due
                               /\ \A x \in due' : x > wrote'[i]
                         /\ \A i, j \in sound : i < j => wrote'[i] < wrote'[j]]_J!vars
  BY LoopStep DEF Turns
<1>2. QED
  BY <1>1, LoopCountsAgree, PTL DEF J!Spec, J!EveryFrameInTurn

\* LatencyKept, for any sizes and any drift: xrun_sync leaves no more than the
\* latency in the loop, or nothing but what the playback device has taken.
THEOREM LatencyKeptHolds ==
    ASSUME LoopSizes, LatencyFits
    PROVE  J!Spec => J!LatencyKept
<1>1. LoopInv /\ [J!Next]_J!vars =>
        [stage = "delays" /\ stage' = "reinit" =>
           J!Delay(loop', hw') <= Latency \/ J!Delay(loop', hw') = hw.pfill]_J!vars
  BY LoopStep DEF LatencyOrDevice
<1>2. QED
  BY <1>1, LoopCountsAgree, PTL DEF J!Spec, J!LatencyKept
================================================================================
