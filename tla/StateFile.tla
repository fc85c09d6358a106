------------------------------- MODULE StateFile -------------------------------
(***************************************************************************)
(* alsactl/state.c save_state(): several alsactl processes store card      *)
(* states into one state file, each by load, merge, write to <file>.new    *)
(* and rename, under the state lock (StateLock.tla, used here through what *)
(* LockService promises).  The state of a card is abstracted to a version  *)
(* that grows with every change of its mixer; 0 means no state.            *)
(***************************************************************************)
EXTENDS Integers, FiniteSets

CONSTANTS Procs,       \* alsactl processes that store (do_lock > 0)
          MaxCard,     \* the highest card index
          MaxVersion,  \* bound on the changes of one card
          NoProc

ASSUME MaxCardAssumption == MaxCard \in Nat
ASSUME MaxVersionAssumption == MaxVersion \in Nat \ {0}
ASSUME NoProcAssumption == NoProc \notin Procs

Cards == 0 .. MaxCard
All == -1              \* cardname == NULL

VARIABLES present,     \* the cards the kernel has now
          live,        \* live[c]: the state of card c
          file,        \* the state file: complete or not, saved state per card;
                       \* cut (history): its last flush failed unnoticed
          newfile,     \* <file>.new
          holder,      \* holder of the state lock
          pc,          \* pc[p]: the next step of p's save_state
          cardname,    \* cardname[p]: the card to store, or All
          iter,        \* iter[p]: the last card visited, -1 at the start
          config,      \* config[p]: the merged configuration
          asked,       \* history: the states p was asked to store (0: none)
          unread       \* history: the cards of the file p's load did not get

mixers == <<present, live>>
history == <<asked, unread>>
vars == <<mixers, file, newfile, holder, pc, cardname, iter, config, history>>

States == [Cards -> 0 .. MaxVersion]
Files  == [complete : BOOLEAN, cut : BOOLEAN, saved : States]
Empty  == [c \in Cards |-> 0]
Incomplete == [complete |-> FALSE, cut |-> FALSE, saved |-> Empty]  \* or no such file
Part(state, kept) == [c \in Cards |-> IF c \in kept THEN state[c] ELSE 0]
Written(state) == [complete |-> TRUE, cut |-> FALSE, saved |-> state]
CutOff(state, kept) == [complete |-> FALSE, cut |-> TRUE, saved |-> Part(state, kept)]

TypeOK ==
    /\ present \in SUBSET Cards
    /\ live \in States
    /\ file \in Files /\ newfile \in Files
    /\ holder \in Procs \cup {NoProc}
    /\ pc \in [Procs -> {"idle", "lock", "load", "iterate", "open", "save", "rename",
                         "unlock"}]
    /\ cardname \in [Procs -> {All} \cup Cards]
    /\ iter \in [Procs -> {-1} \cup Cards]
    /\ config \in [Procs -> States]
    /\ asked \in [Procs -> States]
    /\ unread \in [Procs -> SUBSET Cards]

Init ==
    /\ present = Cards
    /\ live = [c \in Cards |-> 1]
    /\ file = Written(Empty)
    /\ newfile = Incomplete
    /\ holder = NoProc
    /\ pc = [p \in Procs |-> "idle"]
    /\ cardname = [p \in Procs |-> All]
    /\ iter = [p \in Procs |-> -1]
    /\ config = [p \in Procs |-> Empty]
    /\ asked = [p \in Procs |-> Empty]
    /\ unread = [p \in Procs |-> {}]

--------------------------------------------------------------------------------
\* The mixers and the cards change under the processes.
Change(c) ==
    /\ c \in present /\ live[c] < MaxVersion
    /\ live' = [live EXCEPT ![c] = @ + 1]
    /\ UNCHANGED <<present, file, newfile, holder, pc, cardname, iter, config, history>>

Plug(c) ==
    /\ present' = IF c \in present THEN present \ {c} ELSE present \cup {c}
    /\ asked' = [p \in Procs |-> [asked[p] EXCEPT ![c] = 0]]
    /\ UNCHANGED <<live, file, newfile, holder, pc, cardname, iter, config, unread>>

--------------------------------------------------------------------------------
Goto(p, label) == pc' = [pc EXCEPT ![p] = label]

\* out: the lock is given back, the configuration and the arguments are freed.
Out(p) ==
    /\ Goto(p, "idle")
    /\ holder' = IF holder = p THEN NoProc ELSE holder
    /\ config' = [config EXCEPT ![p] = Empty]
    /\ iter' = [iter EXCEPT ![p] = -1]
    /\ cardname' = [cardname EXCEPT ![p] = All]
    /\ asked' = [asked EXCEPT ![p] = Empty]
    /\ unread' = [unread EXCEPT ![p] = {}]

\* alsactl store [card]
Call(p) ==
    /\ pc[p] = "idle"
    /\ \E c \in {All} \cup Cards :
          /\ cardname' = [cardname EXCEPT ![p] = c]
          /\ asked' = [asked EXCEPT ![p] =
                [d \in Cards |-> IF d \in present /\ c \in {All, d} THEN live[d] ELSE 0]]
    /\ Goto(p, "lock")
    /\ UNCHANGED <<mixers, file, newfile, holder, iter, config, unread>>

\* state_lock(file, LOCK_TIMEOUT)
LockAndLoad(p) ==                           \* mutant: the lock comes later
    /\ pc[p] = "lock"
    /\ Goto(p, "load")
    /\ UNCHANGED <<mixers, file, newfile, holder, cardname, iter, config, history>>
Lock(p) ==
    /\ pc[p] = "lock"
    /\ \/ /\ holder = NoProc /\ holder' = p /\ Goto(p, "load")
          /\ UNCHANGED <<cardname, iter, config, history>>
       \/ Out(p)
    /\ UNCHANGED <<mixers, file, newfile>>

\* snd_input_stdio_open, snd_config_load: their errors are ignored, and the save
\* goes on with nothing or with what could be read of the file.
\* snd_card_iterator_sinit: a named card that is not there ends the save.
Load(p) ==
    /\ pc[p] = "load"
    /\ \E kept \in SUBSET Cards :
          /\ config' = [config EXCEPT ![p] = Part(file.saved, kept)]
          /\ unread' = [unread EXCEPT ![p] = {c \in Cards \ kept : file.saved[c] # 0}]
    /\ iter' = [iter EXCEPT ![p] = -1]
    /\ Goto(p, IF cardname[p] \in {All} \cup present THEN "iterate" ELSE "unlock")
    /\ UNCHANGED <<mixers, file, newfile, holder, cardname, asked>>

\* The cards snd_card_iterator_next has still to visit.
Left(p) == IF cardname[p] = All THEN {c \in present : c > iter[p]}
           ELSE {c \in {cardname[p]} : iter[p] = -1}

\* get_controls(card, config): any error ends the save.
KeepOld(p) ==            \* mutant: a card found in the file is not read again
    /\ pc[p] = "iterate"
    /\ \E c \in Left(p) :
          /\ \A d \in Left(p) : c <= d
          /\ iter' = [iter EXCEPT ![p] = c]
          /\ config' = [config EXCEPT ![p][c] = IF @ = 0 THEN live[c] ELSE @]
    /\ UNCHANGED <<mixers, file, newfile, holder, pc, cardname, history>>
GetControls(p) ==
    /\ pc[p] = "iterate"
    /\ \E c \in Left(p) :
          /\ \A d \in Left(p) : c <= d
          /\ iter' = [iter EXCEPT ![p] = c]
          /\ \/ /\ c \in present
                /\ config' = [config EXCEPT ![p][c] = live[c]]
                /\ UNCHANGED pc
             \/ Goto(p, "unlock") /\ UNCHANGED config
    /\ UNCHANGED <<mixers, file, newfile, holder, cardname, history>>

\* The end of the iteration: nothing is written when no card was seen.
EndOfCards(p) ==
    /\ pc[p] = "iterate" /\ Left(p) = {}
    /\ Goto(p, IF iter[p] = -1 THEN "unlock" ELSE "open")
    /\ UNCHANGED <<mixers, file, newfile, holder, cardname, iter, config, history>>

\* snd_output_stdio_open(&out, nfile, "w") truncates <file>.new.
OpenInPlace(p) ==                                  \* mutant: no <file>.new
    /\ pc[p] = "open"
    /\ file' = Incomplete
    /\ Goto(p, "save")
    /\ UNCHANGED <<mixers, newfile, holder, cardname, iter, config, history>>
Open(p) ==
    /\ pc[p] = "open"
    /\ \/ newfile' = Incomplete /\ Goto(p, "save")
       \/ Goto(p, "unlock") /\ UNCHANGED newfile
    /\ UNCHANGED <<mixers, file, holder, cardname, iter, config, history>>

\* snd_config_save and snd_output_close.  Nobody looks at the result of the close:
\* when the disk fills up at its flush, a part is renamed like a whole file.
Save(p) ==
    /\ pc[p] = "save"
    /\ \/ newfile' = Written(config[p]) /\ Goto(p, "rename")
       \/ /\ \E kept \in SUBSET Cards : newfile' = CutOff(config[p], kept)
          /\ Goto(p, "rename")
       \/ Goto(p, "unlock") /\ UNCHANGED newfile
    /\ UNCHANGED <<mixers, file, holder, cardname, iter, config, history>>

\* rename(nfile, file)
Rename(p) ==
    /\ pc[p] = "rename"
    /\ \/ file' = newfile /\ newfile' = Incomplete
       \/ UNCHANGED <<file, newfile>>
    /\ Goto(p, "unlock")
    /\ UNCHANGED <<mixers, holder, cardname, iter, config, history>>

\* out: state_unlock(lock_fd, file)
Unlock(p) ==
    /\ pc[p] = "unlock"
    /\ Out(p)
    /\ UNCHANGED <<mixers, file, newfile>>

\* The process dies: the kernel releases its lock, <file>.new stays as it is.
Crash(p) ==
    /\ pc[p] # "idle"
    /\ Out(p)
    /\ UNCHANGED <<mixers, file, newfile>>

--------------------------------------------------------------------------------
SaveStep(p) ==
    \/ Lock(p) \/ Load(p) \/ GetControls(p) \/ EndOfCards(p) \/ Open(p)
    \/ Save(p) \/ Rename(p) \/ Unlock(p)

Next ==
    \/ \E c \in Cards : Change(c) \/ Plug(c)
    \/ \E p \in Procs : Call(p) \/ SaveStep(p) \/ Crash(p)

Spec == Init /\ [][Next]_vars

--------------------------------------------------------------------------------
\* Whatever dies or fails in the middle of a save, the state file is complete:
\* only a completely written <file>.new is renamed over it (state.c:1704-1720).
\* The one exception is the failure nobody looks at, a flush that fails when
\* <file>.new is closed (state.c:1712); the next good store mends the file.
FileComplete == file.complete \/ file.cut

\* No store puts back an older state of any card or drops the state of a card
\* it was not asked for, absent cards included: load, merge and rename happen
\* under one lock, so concurrent stores do not lose each other's updates.  All a
\* store may drop is what its own load, whose failure is ignored, did not get
\* (state.c:1678-1687), and what a failed flush cut off.
NeverOlder ==
    [][\A c \in Cards : file'.saved[c] < file.saved[c] =>
          file'.cut \/ \E p \in Procs : Rename(p) /\ c \in unread[p]]_vars

\* A store that replaces the file has in it, for every card it was asked for and
\* that stayed, the state at the call or a later one, never what the old file
\* had (state.c:630-637 deletes the old controls), whether or not the old file
\* could be read.
StoresWhatWasAsked ==
    [][\A p \in Procs : Rename(p) /\ file' # file /\ ~file'.cut
          => \A c \in Cards : file'.saved[c] >= asked[p][c]]_vars
================================================================================
