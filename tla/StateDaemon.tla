------------------------------ MODULE StateDaemon ------------------------------
(***************************************************************************)
(* alsactl/daemon.c state_daemon(): the daemon that watches the cards'     *)
(* control events and stores the state some time after a change.           *)
(*                                                                         *)
(* One action is one stretch of the main loop between two points where a   *)
(* signal handler, a card or the mixer can make a difference.  Whether an  *)
(* event counts as a change is CardEvents.tla, what a store does to the    *)
(* file StateFile.tla; a handle here has or has not such events queued.    *)
(* Time is counted in poll timeouts, that is in half periods (line 417),   *)
(* and passes only where the daemon can sleep: in poll and in save_state.  *)
(***************************************************************************)
EXTENDS Integers, Sequences, FiniteSetsExt

CONSTANTS MaxCard,     \* the highest card index
          MaxGen       \* bound on how often cards are plugged in, all together

ASSUME MaxCardAssumption == MaxCard \in Nat
ASSUME MaxGenAssumption  == MaxGen \in Nat \ {0}

Cards == 0 .. MaxCard
All == -1              \* no cardname on the command line
Period == 2            \* the store period in half periods

VARIABLES present, gen,              \* the kernel's cards and their plug count
          cardname,                  \* the card to watch, or All
          cards,                     \* the slots of the cards array
          quit, rescan, save_now,    \* the flags of the signal handlers
          usr2,                      \* what SIGUSR2 does now: "save" or "quit"
          changed, age,              \* a change is unsaved; now - last_write
          pc, at                     \* the next step; the loop's position

kernel  == <<present, gen>>
signals == <<quit, rescan, save_now, usr2>>

\* History: what the daemon owes.
VARIABLES owed,        \* watched cards whose last change is not saved yet
          saving,      \* those of them the running save_state will have saved
          owesSave,    \* a save-and-quit signal came, no save started since
          asked        \* cards a rescan signal is for, not looked at since

history == <<owed, saving, owesSave, asked>>
vars == <<kernel, cardname, cards, signals, changed, age, pc, at, history>>

NoCard == [index |-> -1, gen |-> 0, pending |-> FALSE, revents |-> "none"]

Init ==
    /\ present \in SUBSET Cards
    /\ gen = [c \in Cards |-> IF c \in present THEN 1 ELSE 0]
    /\ cardname \in {All} \cup Cards
    /\ cards = <<>>
    /\ rescan = TRUE /\ quit = FALSE /\ save_now = FALSE /\ usr2 = "save"
    /\ changed = FALSE /\ age = 0
    /\ pc = "loop" /\ at = -1
    /\ owed = {} /\ saving = {} /\ owesSave = FALSE /\ asked = {}

Running == pc \notin {"out", "done"}
Current(h) == h.index \in present /\ h.gen = gen[h.index]
Slots == DOMAIN cards
Watched(c) == \E i \in Slots : cards[i].index = c /\ Current(cards[i])

--------------------------------------------------------------------------------
\* The kernel: a control changes and every open handle of the card gets an event.
Change(c) ==
    /\ c \in present
    /\ cards' = [i \in Slots |->
                    IF cards[i].index = c /\ Current(cards[i])
                    THEN [cards[i] EXCEPT !.pending = TRUE] ELSE cards[i]]
    /\ owed' = IF Watched(c) /\ Running /\ ~quit THEN owed \cup {c} ELSE owed
    /\ saving' = saving \ {c}
    /\ UNCHANGED <<kernel, cardname, signals, changed, age, pc, at, owesSave, asked>>

Plug(c) ==
    /\ c \notin present /\ MapThenSumSet(LAMBDA d : gen[d], Cards) < MaxGen
    /\ present' = present \cup {c}
    /\ gen' = [gen EXCEPT ![c] = @ + 1]
    /\ UNCHANGED <<cardname, cards, signals, changed, age, pc, at, history>>

Unplug(c) ==
    /\ c \in present
    /\ present' = present \ {c}
    /\ owed' = owed \ {c} /\ saving' = saving \ {c} /\ asked' = asked \ {c}
    /\ UNCHANGED <<gen, cardname, cards, signals, changed, age, pc, at, owesSave>>

\* A half period passes while the daemon sleeps.
Tick ==
    /\ pc \in {"poll", "saving"} /\ age < Period
    /\ age' = age + 1
    /\ UNCHANGED <<kernel, cardname, cards, signals, changed, pc, at, history>>

--------------------------------------------------------------------------------
\* A signal interrupts poll (EINTR, line 418); anywhere else it is only noted.
Interrupt == pc' = IF pc = "poll" THEN "loop" ELSE pc

SignalQuit ==                              \* SIGTERM, SIGINT, SIGABRT
    /\ Running
    /\ quit' = TRUE
    /\ owed' = {}
    /\ Interrupt
    /\ UNCHANGED <<kernel, cardname, cards, rescan, save_now, usr2, changed, age, at,
                   saving, owesSave, asked>>

SignalSaveAndQuit ==                       \* SIGUSR2
    /\ Running
    /\ quit' = TRUE /\ usr2' = "quit"
    /\ IF usr2 = "save" THEN save_now' = TRUE /\ owesSave' = TRUE
       ELSE UNCHANGED <<save_now, owesSave>>
    /\ owed' = {}
    /\ Interrupt
    /\ UNCHANGED <<kernel, cardname, cards, rescan, changed, age, at, saving, asked>>

SignalRescan ==                            \* SIGUSR1
    /\ Running
    /\ rescan' = TRUE
    /\ asked' = IF pc = "scan" THEN asked
                ELSE asked \cup {c \in present : /\ cardname \in {All, c}
                                               /\ \A i \in Slots : cards[i].index # c}
    /\ Interrupt
    /\ UNCHANGED <<kernel, cardname, cards, quit, save_now, usr2, changed, age, at,
                   owed, saving, owesSave>>

--------------------------------------------------------------------------------
\* while (!quit || save_now), line 380, and the two tests that open its body.
LoopForgetsSave ==                               \* mutant: while (!quit)
    /\ pc = "loop"
    /\ pc' = CASE quit            -> "out"
               [] ~quit /\ rescan  -> "scan"
               [] ~quit /\ ~rescan -> "prepare"
    /\ at' = -1
    /\ UNCHANGED <<kernel, cardname, cards, signals, changed, age, history>>
Loop ==
    /\ pc = "loop"
    /\ pc' = CASE quit /\ ~save_now -> "out"
               [] save_now          -> "save"
               [] ~save_now /\ ~quit /\ rescan  -> "scan"
               [] ~save_now /\ ~quit /\ ~rescan -> "prepare"
    /\ at' = -1
    /\ IF pc' = "out" THEN owed' = {} /\ asked' = {} ELSE UNCHANGED <<owed, asked>>
    /\ UNCHANGED <<kernel, cardname, cards, signals, changed, age, saving, owesSave>>

\* The cards add_cards (or add_card alone) has still to look at.
ToScan == IF cardname = All THEN {c \in present : c > at}
          ELSE {c \in present \cap {cardname} : at = -1}

\* The slot a new card goes to: the last free one, or one more.
SlotFor(i) ==
    IF \E k \in Slots : cards[k] = NoCard
    THEN i \in Slots /\ cards[i] = NoCard /\ \A k \in Slots : cards[k] = NoCard => k <= i
    ELSE i = Len(cards) + 1

Place(i, h) == IF i \in Slots THEN [cards EXCEPT ![i] = h] ELSE Append(cards, h)

\* add_card: a card of the same index in the array ends it; so does any error.
AddCard ==
    /\ pc = "scan"
    /\ \E c \in ToScan :
          /\ \A d \in ToScan : c <= d
          /\ at' = c
          /\ \/ /\ \E i \in Slots : cards[i].index = c
                /\ UNCHANGED <<cards, asked>>
             \/ /\ \A i \in Slots : cards[i].index # c
                /\ \/ UNCHANGED cards
                   \/ \E i \in 1 .. Len(cards) + 1 :
                        /\ SlotFor(i)
                        /\ cards' = Place(i, [index |-> c, gen |-> gen[c],
                                              pending |-> FALSE, revents |-> "none"])
                /\ asked' = asked \ {c}
    /\ UNCHANGED <<kernel, cardname, signals, changed, age, pc, owed, saving, owesSave>>

\* rescan = 0, line 390: after the scan.
ScanEnd ==
    /\ pc = "scan" /\ ToScan = {}
    /\ rescan' = FALSE
    /\ pc' = "prepare"
    /\ UNCHANGED <<kernel, cardname, cards, quit, save_now, usr2, changed, age, at, history>>

\* The descriptors of all cards are collected: no sleep yet.
Prepare ==
    /\ pc = "prepare"
    /\ pc' = "poll"
    /\ UNCHANGED <<kernel, cardname, cards, signals, changed, age, at, history>>

Revents(h) == CASE h = NoCard                         -> "none"
                [] h # NoCard /\ ~Current(h)          -> "err"
                [] h # NoCard /\ Current(h) /\ h.pending  -> "in"
                [] OTHER                              -> "none"
Ready == \E i \in Slots : Revents(cards[i]) # "none"

\* poll returns with the descriptors that are ready.
PollReturns ==
    /\ pc = "poll" /\ Ready
    /\ cards' = [i \in Slots |-> [cards[i] EXCEPT !.revents = Revents(cards[i])]]
    /\ pc' = "handle" /\ at' = 1
    /\ UNCHANGED <<kernel, cardname, signals, changed, age, history>>

\* poll times out after (period / 2) * 1000 ms.
NoTimeout == FALSE /\ UNCHANGED vars                \* mutant: poll(pfd, j, -1)
PollTimeout ==
    /\ pc = "poll" /\ ~Ready
    /\ age' = IF age < Period THEN age + 1 ELSE age
    /\ pc' = "handle" /\ at' = 1
    /\ UNCHANGED <<kernel, cardname, cards, signals, changed, history>>

\* No memory, poll prepare failed, poll failed, or poll post failed at one of the
\* cards, when those before it are handled: the daemon ends without a save.
PollFails ==
    /\ pc \in {"prepare", "poll"} \/ (pc = "handle" /\ at \in Slots /\ cards[at] # NoCard)
    /\ pc' = "out"
    /\ owed' = {} /\ asked' = {} /\ owesSave' = FALSE
    /\ UNCHANGED <<kernel, cardname, cards, signals, changed, age, at, saving>>

\* One turn of the loop over the cards, lines 425-445.
EachChangeDelays ==                    \* mutant: last_write = now every time
    /\ pc = "handle" /\ at \in Slots
    /\ LET h == cards[at] IN
       /\ cards' = [cards EXCEPT ![at] =
                        IF h.revents = "err" THEN NoCard
                        ELSE [h EXCEPT !.revents = "none",
                                       !.pending = @ /\ h.revents # "in"]]
       /\ IF h.revents = "in" /\ Current(h)
          THEN changed' = TRUE /\ age' = 0
          ELSE UNCHANGED <<changed, age>>
    /\ at' = at + 1
    /\ UNCHANGED <<kernel, cardname, signals, pc, history>>
HandleCard ==
    /\ pc = "handle" /\ at \in Slots
    /\ LET h == cards[at] IN
       /\ cards' = [cards EXCEPT ![at] =
                        IF h.revents = "err" THEN NoCard
                        ELSE [h EXCEPT !.revents = "none",
                                       !.pending = @ /\ h.revents # "in"]]
       /\ IF h.revents = "in" /\ Current(h)
          THEN changed' = TRUE /\ age' = IF changed THEN age ELSE 0
          ELSE UNCHANGED <<changed, age>>
    /\ at' = at + 1
    /\ UNCHANGED <<kernel, cardname, signals, pc, history>>

\* if ((now - last_write >= period && changed) || save_now)
Decide ==
    /\ pc = "handle" /\ at \notin Slots
    /\ pc' = IF (age >= Period /\ changed) \/ save_now THEN "save" ELSE "loop"
    /\ UNCHANGED <<kernel, cardname, cards, signals, changed, age, at, history>>

\* changed = save_now = 0; save_state(file, cardname)
Save ==
    /\ pc = "save"
    /\ changed' = FALSE /\ save_now' = FALSE
    /\ pc' = "saving"
    /\ saving' = owed /\ owesSave' = FALSE
    /\ UNCHANGED <<kernel, cardname, cards, quit, rescan, usr2, age, at, owed, asked>>

\* save_state returns; its result is not looked at, and a store that failed
\* counts as done.
SaveReturns ==
    /\ pc = "saving"
    /\ pc' = "loop"
    /\ owed' = owed \ saving
    /\ saving' = {}
    /\ UNCHANGED <<kernel, cardname, cards, signals, changed, age, at, owesSave, asked>>

\* remove(pidfile), the cards are closed.
Out ==
    /\ pc = "out"
    /\ pc' = "done"
    /\ cards' = <<>> /\ at' = -1
    /\ UNCHANGED <<kernel, cardname, signals, changed, age, history>>

--------------------------------------------------------------------------------
DaemonStep ==
    \/ Loop \/ AddCard \/ ScanEnd \/ Prepare \/ PollReturns \/ PollTimeout
    \/ HandleCard \/ Decide \/ Save \/ SaveReturns \/ Out

Next ==
    \/ DaemonStep \/ PollFails \/ Tick
    \/ SignalQuit \/ SignalSaveAndQuit \/ SignalRescan
    \/ \E c \in Cards : Change(c) \/ Plug(c) \/ Unplug(c)
    \/ pc = "done" /\ UNCHANGED vars

Spec == Init /\ [][Next]_vars

\* The daemon runs, time passes, and rescan signals do not interrupt for ever.
FairSpec ==
    Spec /\ WF_vars(DaemonStep) /\ SF_vars(Tick) /\ <>[][~SignalRescan]_vars

--------------------------------------------------------------------------------
\* The daemon does not leave its loop with a save-and-quit signal unanswered: a
\* save was started after the signal, whenever it came (daemon.c:380-382, 448).
SavesBeforeQuit == [][pc = "loop" /\ pc' = "out" => ~owesSave]_vars

\* A change of a watched card is followed by a store, also when changes never
\* stop, unless the card or the daemon goes.  A change that comes while a store
\* runs is followed by another one.
ChangeIsSaved ==
    \A c \in Cards : c \in owed /\ pc # "saving" ~> c \notin owed \/ pc = "saving"

\* A signal is served: a quit signal ends the daemon, also when it comes before
\* poll sleeps, and after a rescan signal every card that was there is looked at,
\* provided that no scan was running and no handle of the card was left in the
\* array: the scan clears the flag at its end (daemon.c:390) and passes over a card
\* whose dead handle was not noticed yet (daemon.c:105).
SignalsAreServed ==
    /\ quit ~> pc = "done"
    /\ \A c \in Cards : c \in asked ~> c \notin asked
================================================================================
