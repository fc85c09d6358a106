------------------------------- MODULE LoopThread -------------------------------
(***************************************************************************)
(* alsaloop: one thread with its loopback jobs (alsaloop.c thread_job1)    *)
(* and the mixer controls the jobs redirect (control.c).                   *)
(*                                                                         *)
(* A job's streams are LoopJob.tla; here they only wake the thread.  A job *)
(* with controls watches the events of both cards: it copies the value of  *)
(* the playback card's element to the twin it made on the capture card,    *)
(* and back.  The kernel notifies every subscriber of an element whose     *)
(* value a write changed, the writer too; events of one element merge.     *)
(***************************************************************************)
EXTENDS Integers, Sequences, FiniteSetsExt, Functions

CONSTANTS Count,        \* of the jobs of the thread
          Values,       \* what the control can be set to
          MaxSets,      \* bound on what users set
          MaxFails      \* bound on copies that fail

ASSUME CountAssumption == Count \in Nat \ {0}

Jobs  == 1 .. Count
Sides == {"play", "capt"}
Other(s) == IF s = "play" THEN "capt" ELSE "play"

VARIABLES controls,     \* whether the job redirects a control
          value,        \* job and side: the element on that card
          notified,     \* job and side: an event waits to be read
          data,         \* the jobs whose streams are ready
          quit, sets,
          pc, at,       \* the loopback that is handled
          copying,      \* the side control_event1 read, and what it read
          fails,        \* (history) of copies
          missed        \* (history) the jobs whose last copy failed

vars == <<controls, value, notified, data, quit, sets, pc, at, copying, fails, missed>>

\* active_pollfd_count: a descriptor for each stream, and for each card's events
Active(j) == IF controls[j] THEN 4 ELSE 2

Ready == data \cup {j \in Jobs : \E s \in Sides : notified[j][s]}


\* control_init2 made the twins equal
Init ==
    /\ controls \in [Jobs -> BOOLEAN]
    /\ \E v \in Values : value = [j \in Jobs |-> [s \in Sides |-> v]]
    /\ notified = [j \in Jobs |-> [s \in Sides |-> FALSE]]
    /\ data = {} /\ quit = FALSE /\ sets = 0
    /\ pc = "loop" /\ at = 1
    /\ copying = [side |-> "play", value |-> value[1]["play"]]
    /\ fails = 0 /\ missed = {}

(***************************************************************************)
(* The streams, the users of the two cards, and the signal.                *)
(***************************************************************************)
DataReady(j) ==
    /\ j \notin data /\ data' = data \cup {j}
    /\ UNCHANGED <<controls, value, notified, quit, sets, pc, at, copying, fails, missed>>

Put(j, s, v) ==
    /\ value' = [value EXCEPT ![j][s] = v]
    /\ notified' = [notified EXCEPT ![j][s] = @ \/ value[j][s] # v]

UserSets(j, s, v) ==
    /\ controls[j] /\ sets < MaxSets /\ sets' = sets + 1
    /\ v # value[j][s] /\ Put(j, s, v)
    /\ UNCHANGED <<controls, data, quit, pc, at, copying, fails, missed>>

\* signal_handler; a poll that sleeps is interrupted
Signal ==
    /\ ~quit /\ quit' = TRUE
    /\ pc' = IF pc = "poll" THEN "loop" ELSE pc
    /\ UNCHANGED <<controls, value, notified, data, sets, at, copying, fails, missed>>

(***************************************************************************)
(* The thread.                                                             *)
(***************************************************************************)
\* pcmjob_pollfds_init for every job, then poll
Loop ==
    /\ pc = "loop" /\ pc' = IF quit THEN "done" ELSE "poll"
    /\ UNCHANGED <<controls, value, notified, data, quit, sets, at, copying, fails, missed>>

\* The loop over the jobs handles those that "have descriptors": it compares the
\* place of the job's first descriptor in the array with the job's own number.
Place(j) == FoldFunctionOnSet(+, 0, [i \in Jobs |-> Active(i)], 1 .. j - 1)
Served(j) == Place(j) < Active(j)

OneJob(rest) ==                        \* mutant: back to poll after one job
    LET served == {j \in rest : Served(j)}
    IN  IF rest # Jobs \/ served = {}
        THEN pc' = "loop" /\ UNCHANGED at
        ELSE pc' = "handle" /\ at' = Min(served)
NextJob(rest) ==
    LET served == {j \in rest : Served(j)}
    IN  IF served = {}
        THEN pc' = "loop" /\ UNCHANGED at
        ELSE pc' = "handle" /\ at' = Min(served)
Later == {j \in Jobs : j > at}

Poll ==
    /\ pc = "poll" /\ Ready # {}
    /\ NextJob(Jobs)
    /\ UNCHANGED <<controls, value, notified, data, quit, sets, copying, fails, missed>>

\* handle_ctl_events, playback side first: the event is read, and then the value
CtlEvents(s) ==
    /\ pc = "handle"
    /\ notified[at][s] /\ (s = "capt" => ~notified[at]["play"])
    /\ notified' = [notified EXCEPT ![at][s] = FALSE]
    /\ copying' = [side |-> s, value |-> value[at][s]]
    /\ pc' = "write"
    /\ UNCHANGED <<controls, value, data, quit, sets, at, fails, missed>>

DrainsAfterCopy ==             \* mutant: the events are read after the value
    /\ pc = "write"
    /\ value' = [value EXCEPT ![at][Other(copying.side)] = copying.value]
    /\ notified' = [notified EXCEPT ![at][copying.side] = FALSE]
    /\ missed' = missed \ {at}
    /\ NextJob(Later)
    /\ UNCHANGED <<controls, data, quit, sets, copying, fails>>

\* control_event1 writes what it read to the twin, and the call returns
CopyValue ==
    /\ pc = "write"
    /\ Put(at, Other(copying.side), copying.value)
    /\ missed' = missed \ {at}
    /\ NextJob(Later)
    /\ UNCHANGED <<controls, data, quit, sets, copying, fails>>

\* The read or the write of the element failed: nobody looks at what control_event
\* returns, and the event has been read.
CopyFails ==
    /\ pc = "write"
    /\ fails < MaxFails /\ fails' = fails + 1
    /\ missed' = missed \cup {at}
    /\ NextJob(Later)
    /\ UNCHANGED <<controls, value, notified, data, quit, sets, copying>>

Streams ==
    /\ pc = "handle"
    /\ \A s \in Sides : ~notified[at][s]
    /\ data' = data \ {at}
    /\ NextJob(Later)
    /\ UNCHANGED <<controls, value, notified, quit, sets, copying, fails, missed>>

Thread ==
    \/ Loop \/ Poll \/ Streams
    \/ \E s \in Sides : CtlEvents(s)
    \/ CopyValue \/ CopyFails

Next ==
    \/ \E j \in Jobs : DataReady(j)
    \/ \E j \in Jobs, s \in Sides, v \in Values : UserSets(j, s, v)
    \/ Signal
    \/ Thread

\* A running stream becomes ready again and again.
Spec == Init /\ [][Next]_vars /\ WF_vars(Thread) /\ \A j \in Jobs : WF_vars(DataReady(j))

(***************************************************************************)
(* Properties.                                                             *)
(***************************************************************************)
\* The jobs the test of the loop lets through: a job has two descriptors, or four
\* if it redirects a control.
InReach(j) == j = 1 \/ (j = 2 /\ controls[2] /\ ~controls[1])

\* The element on the playback card and its twin on the capture card end up
\* with one value once nobody sets them any more, unless the thread is told to
\* quit, the job is out of reach or its last copy failed: an event read before a
\* change must not be the last word (control_event1 in control.c).
MixersAgree ==
    \A j \in Jobs :
       [](InReach(j)) => <>[](quit \/ j \in missed \/ value[j]["play"] = value[j]["capt"])

\* The manual has all jobs of a thread run within it (alsaloop.1:149-150).  What the
\* test at alsaloop.c:789 makes of it: the first job is served whenever it waits, and
\* so is a second one that redirects a control after one that does not; every other
\* job, the second of two equal ones to begin with, waits for ever.
ServedOnlyInReach ==
    \A j \in Jobs :
       /\ (InReach(j) /\ j \in data) ~> (j \notin data \/ quit)
       /\ [](~InReach(j) /\ j \in data => [](j \in data))
================================================================================
