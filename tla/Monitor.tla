--------------------------------- MODULE Monitor ---------------------------------
(***************************************************************************)
(* alsactl/monitor.c: the list of open control devices, the epoll set that *)
(* points into it, and the restart when inotify tells of a new device.     *)
(* Cards come and go, and change, between any two steps.  A handle of      *)
(* alsa-lib for a card has one descriptor.                                 *)
(***************************************************************************)
EXTENDS Integers, FiniteSets

CONSTANTS Cards,      \* card numbers
          name        \* the card on the command line, or All

All == -1

Parameters == Cards \subseteq Nat /\ name \in Cards \cup {All}

VARIABLES present, born,   \* the cards there are, and how often each was plugged
          creations,       \* a controlC node was created and not yet read of
          others,          \* other nodes were
          signal,          \* SIGINT or SIGTERM is pending in the signalfd
          queued,          \* events to be read from each open handle
          srcs,            \* the list of entries: which plug of which card
          registered,      \* the entries in the epoll set
          pc, at,          \* at: the last card the iterator gave
          max_ev_count, retry,
          ready,           \* what epoll_wait returned and is not handled yet
          hidden           \* history: plugs passed over for an entry of an earlier one

environment == <<present, born, creations, others, signal>>
batch == <<max_ev_count, ready>>
vars == <<environment, queued, srcs, registered, pc, at, batch, retry, hidden>>

Plugs == [card : Cards, nr : Nat]
Current(c) == [card |-> c, nr |-> born[c]]
Alive(e) == present[e.card] /\ e = Current(e.card)
Nothing == [reads |-> {}, hangups |-> {}, node |-> FALSE, signal |-> FALSE]
Idle(r) == r.reads = {} /\ r.hangups = {} /\ ~r.node /\ ~r.signal

Init ==
    /\ present \in [Cards -> BOOLEAN] /\ born = [c \in Cards |-> 0]
    /\ creations = FALSE /\ others = FALSE /\ signal = FALSE
    /\ queued = [e \in {} |-> 0] /\ srcs = {} /\ registered = {}
    /\ pc = "scan" /\ at = -1 /\ max_ev_count = 0 /\ retry = FALSE
    /\ ready = Nothing /\ hidden = {}

-----------------------------------------------------------------------------
\* The next card of snd_card_iterator_next, or the card that was named.
Follows(c) ==
    IF name = All
    THEN /\ present[c] /\ c > at
         /\ \A d \in Cards : present[d] /\ d > at => c <= d
    ELSE c = name /\ at < c
LastCard == IF name = All THEN \A c \in Cards : present[c] => c <= at ELSE name <= at

\* seek_entry_by_name, open_ctl and insert_source_entry; a card that has been plugged
\* again is passed over while the entry of the earlier one is in the list
Scan(c) ==
    /\ pc = "scan" /\ Follows(c) /\ at' = c
    /\ IF \E e \in srcs : e.card = c
       THEN /\ hidden' = IF present[c] /\ Current(c) \notin srcs
                         THEN hidden \cup {Current(c)} ELSE hidden
            /\ UNCHANGED <<pc, srcs, queued>>
       ELSE \/ /\ present[c]
               /\ srcs' = srcs \cup {Current(c)}
               /\ queued' = [e \in srcs' |-> IF e \in srcs THEN queued[e] ELSE 0]
               /\ UNCHANGED <<pc, hidden>>
            \/ pc' = "end" /\ UNCHANGED <<srcs, queued, hidden>>
    /\ UNCHANGED <<environment, registered, batch, retry>>

\* prepare_dispatcher; an epoll_ctl that fails leaves a part
Register ==
    /\ pc = "scan" /\ LastCard
    /\ \/ registered' = srcs /\ pc' = "wait"
       \/ registered' \in SUBSET srcs /\ pc' = "clear"
    /\ max_ev_count' = Cardinality(srcs)
    /\ UNCHANGED <<environment, queued, srcs, at, ready, retry, hidden>>

\* the descriptors that epoll_wait may report
Readable == {e \in registered : Alive(e) /\ queued[e] > 0}
HungUp == {e \in registered : ~Alive(e)}
Size(r) == Cardinality(r.reads) + Cardinality(r.hangups)
           + (IF r.node THEN 1 ELSE 0) + (IF r.signal THEN 1 ELSE 0)

EpollWait ==
    /\ pc = "wait" /\ max_ev_count > 0
    /\ \E reads \in SUBSET Readable, hangups \in SUBSET HungUp,
          n \in BOOLEAN, s \in BOOLEAN :
          LET r == [reads |-> reads, hangups |-> hangups, node |-> n, signal |-> s] IN
          /\ (n => creations \/ others) /\ (s => signal)
          /\ ~Idle(r) /\ Size(r) <= max_ev_count
          /\ ready' = r
    /\ pc' = "batch"
    /\ UNCHANGED <<environment, queued, srcs, registered, at, max_ev_count, retry, hidden>>

\* without a card epoll_wait is given room for nothing, and fails
EpollFails ==
    /\ pc = "wait" /\ max_ev_count = 0 /\ pc' = "clear"
    /\ UNCHANGED <<environment, queued, srcs, registered, at, batch, retry, hidden>>

TakeSignal ==
    /\ pc = "batch" /\ ready.signal /\ pc' = "clear" /\ ready' = Nothing
    /\ UNCHANGED <<environment, queued, srcs, registered, at, max_ev_count, retry, hidden>>

\* check_control_cdev reads all there is; a new control device ends the batch
TakeNode ==
    /\ pc = "batch" /\ ready.node
    /\ creations' = FALSE /\ others' = FALSE /\ retry' = creations
    /\ IF creations THEN pc' = "clear" /\ ready' = Nothing
                    ELSE ready' = [ready EXCEPT !.node = FALSE] /\ UNCHANGED pc
    /\ UNCHANGED <<present, born, signal, queued, srcs, registered, at, max_ev_count, hidden>>

\* print_event: the read waits for an event when there is none, and fails when the
\* card has gone
TakeEvent(e) ==
    /\ pc = "batch" /\ e \in ready.reads
    /\ IF Alive(e) THEN /\ queued[e] > 0
                        /\ queued' = [queued EXCEPT ![e] = @ - 1]
                   ELSE UNCHANGED queued
    /\ ready' = [ready EXCEPT !.reads = @ \ {e}]
    /\ UNCHANGED <<environment, srcs, registered, pc, at, max_ev_count, retry, hidden>>

\* EPOLLERR: the entry leaves the epoll set and is freed
TakeHangup(e) ==
    /\ pc = "batch" /\ e \in ready.hangups
    /\ ready' = [ready EXCEPT !.hangups = @ \ {e}]
    /\ registered' = registered \ {e} /\ srcs' = srcs \ {e}
    /\ queued' = [f \in srcs' |-> queued[f]]
    /\ UNCHANGED <<environment, pc, at, max_ev_count, retry, hidden>>

EndOfBatch ==
    /\ pc = "batch" /\ Idle(ready) /\ pc' = "wait"
    /\ UNCHANGED <<environment, queued, srcs, registered, at, batch, retry, hidden>>

\* clear_dispatcher, and the way back to retry: after a second
Clear ==
    /\ pc = "clear" /\ registered' = {} /\ pc' = IF retry THEN "sleep" ELSE "end"
    /\ UNCHANGED <<environment, queued, srcs, at, batch, retry, hidden>>

Retry ==
    /\ pc = "sleep" /\ pc' = "scan" /\ at' = -1 /\ retry' = FALSE
    /\ UNCHANGED <<environment, queued, srcs, registered, batch, hidden>>

End ==
    /\ pc = "end" /\ pc' = "done" /\ srcs' = {} /\ queued' = [e \in {} |-> 0]
    /\ UNCHANGED <<environment, registered, at, batch, retry, hidden>>

-----------------------------------------------------------------------------
Plug(c) ==
    /\ ~present[c] /\ present' = [present EXCEPT ![c] = TRUE]
    /\ born' = [born EXCEPT ![c] = @ + 1] /\ creations' = TRUE
    /\ UNCHANGED <<others, signal, queued, srcs, registered, pc, at, batch, retry, hidden>>

Unplug(c) ==
    /\ present[c] /\ present' = [present EXCEPT ![c] = FALSE]
    /\ UNCHANGED <<born, creations, others, signal, queued, srcs, registered, pc, at,
                   batch, retry, hidden>>

OtherNode ==
    /\ others' = TRUE
    /\ UNCHANGED <<present, born, creations, signal, queued, srcs, registered, pc, at,
                   batch, retry, hidden>>

Interrupt ==
    /\ signal' = TRUE
    /\ UNCHANGED <<present, born, creations, others, queued, srcs, registered, pc, at,
                   batch, retry, hidden>>

ElementEvent(e) ==
    /\ e \in srcs /\ Alive(e) /\ queued' = [queued EXCEPT ![e] = @ + 1]
    /\ UNCHANGED <<environment, srcs, registered, pc, at, batch, retry, hidden>>

Dispatch == Register \/ EpollWait \/ EpollFails \/ TakeSignal \/ TakeNode
            \/ EndOfBatch \/ Clear \/ Retry \/ End
Environment == OtherNode \/ Interrupt \/ (\E c \in Cards : Plug(c) \/ Unplug(c))
               \/ (\E e \in srcs : ElementEvent(e))
Next ==
    \/ Dispatch \/ Environment
    \/ \E c \in Cards : Scan(c)
    \/ \E e \in srcs : TakeEvent(e) \/ TakeHangup(e)

Spec == Init /\ [][Next]_vars

-----------------------------------------------------------------------------
\* Nothing the epoll set or a batch points to has been freed (monitor.c:345-352: the
\* entry is the data of the event).
PointersAreValid ==
    /\ registered \subseteq srcs
    /\ pc = "batch" => ready.reads \cup ready.hangups \subseteq srcs

\* print_event never waits in snd_ctl_read, which would keep the monitor from all other
\* cards and from its signals: what epoll_wait said was there still is.
ReadNeverWaits ==
    pc = "batch" => \A e \in ready.reads : Alive(e) => queued[e] > 0

\* No card is watched twice, not by entries of different plugs either.
OneEntryEach == \A e, f \in srcs : e.card = f.card => e = f

\* A card that is there and wanted is watched, or is about to be: a creation is still to
\* be read, or the scan is still to come.  Only a card that was plugged again before the
\* hang-up of the earlier one was handled is passed over.
Wanted(c) == present[c] /\ name \in {All, c}
OnItsWay(c) == creations \/ retry \/ (pc = "scan" /\ at < c) \/ pc \in {"clear", "end", "done"}
NoCardIsForgotten ==
    \A c \in Cards : Wanted(c) =>
        Current(c) \in srcs \cup hidden \/ OnItsWay(c)
=============================================================================
