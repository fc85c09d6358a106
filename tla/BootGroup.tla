------------------------------- MODULE BootGroup -------------------------------
(***************************************************************************)
(* Boot card groups of alsactl: init_ucm.c, boot_params.c, wait.c and the  *)
(* card loop of load_state().  Cards that belong together share one group  *)
(* in a file that outlives a reboot; each carries a '.Boot' element that   *)
(* does not.  udev runs "alsactl restore" for every card as it appears;    *)
(* a card told to wait gets "alsactl wrestore", which waits for the        *)
(* synchronization window and lets the first card of the group, the        *)
(* primary, restore the controls of them all.                              *)
(***************************************************************************)
EXTENDS Integers, FiniteSetsExt

CONSTANTS Cards,        \* card numbers
          Members,      \* the cards whose UCM names the boot card group
          Commands,     \* "udev", "wait", "service": alsactl commands per card
          Served,       \* bound: the cards the boot service restores too
          SyncTime,     \* BootCardSyncTime in seconds, 0 when the UCM has none
          Phases,       \* half seconds by which the two clocks' seconds may differ
          Stale,        \* cards an earlier boot may have left in the group file
          Faults,       \* "crash", "error", "replug", "reboot", "step"
          MaxFaults,    \* bound on their number
          LastStart,    \* after this time steps are immediate, only waits take time
          MaxNow        \* bound on the time since boot, in half seconds

ASSUME BootAssumption ==
    /\ Cards \subseteq Nat /\ Members \subseteq Cards /\ Served \subseteq Cards
    /\ Commands \subseteq {"udev", "wait", "service"}
    /\ \A old \in Stale : old.cards \subseteq Cards /\ old.primary \in old.cards
    /\ SyncTime \in Nat /\ Phases \subseteq 0 .. 1
    /\ MaxFaults \in Nat /\ LastStart \in Nat /\ MaxNow \in Nat
    /\ Faults \subseteq {"crash", "error", "replug", "reboot", "step"}

VARIABLES now, offset,  \* half seconds since boot; CLOCK_REALTIME minus that
          present,      \* the cards the kernel has
          boot,         \* boot[c]: the card's '.Boot' element, or None: time, restored, primary
          group,        \* the group in the group file, or None: primary, cards, real, mono
          grouplock, cardlock,   \* the job inside the lock, or None
          pending,      \* jobs udev or systemd has still to start
          proc,         \* proc[j]: the process of job j
          ctl,          \* cards whose controls have been restored
          faults        \* faults so far

clocks == <<now, offset>>
disk == <<group, boot>>
locks == <<grouplock, cardlock>>
vars == <<clocks, present, disk, locks, pending, proc, ctl, faults>>

None == [none |-> TRUE]
Jobs == [card : Cards, cmd : Commands]

First == 3                           \* boot takes a second and a half
RealAtBoot == 20
DownTime == 100                      \* a reboot takes longer than the tolerance
ClockStep == 100                     \* so does a step of the real time clock
Mono == now \div 2
Real == (now + offset) \div 2

InPhase == offset % 2 = RealAtBoot % 2

Idle == [pc |-> "idle", valid |-> FALSE, restored |-> FALSE, res |-> "ok", cfg |-> None,
         changed |-> FALSE, todo |-> {}, linked |-> {}, start |-> 0, wake |-> 0, seen |-> None]
Waits == {"idle", "waiting"}
InUpdate == {"load", "save", "elem", "others"}

Init ==
    /\ now = First /\ offset \in {RealAtBoot + phase : phase \in Phases}
    /\ present = {} /\ ctl = {} /\ pending = {}
    /\ boot = [c \in Cards |-> None]
    /\ group \in {None} \cup {[primary |-> old.primary, cards |-> old.cards,
                                real |-> 1, mono |-> 50] : old \in Stale}
    /\ grouplock = None /\ cardlock = [c \in Cards |-> None]
    /\ proc = [j \in Jobs |-> Idle] /\ faults = 0

At(j, pc) == proc[j].pc = pc
Go(j, change) ==
    proc' = [proc EXCEPT ![j] =
                [f \in DOMAIN @ |-> IF f \in DOMAIN change THEN change[f] ELSE @[f]]]

--------------------------------------------------------------------------------
\* The cards of a group.  The first of its list is the primary, and the group goes
\* when it would lose it; the order of the others makes no difference.
\* card_group_find_primary(), card_group_find_card_node(), card_group_add_card().
Primary(g) == g.primary
HasCard(g, c) == c \in g.cards
AddCard(g, c) == [g EXCEPT !.cards = @ \cup {c}]
NewGroup(c) == [primary |-> c, cards |-> {c}, real |-> Real, mono |-> Mono]

\* card_group_save() goes by a rename, and write_boot_params() adds the element
\* when the card has none.
SaveGroup(cfg) == group' = cfg
WriteBootParams(c, params) == boot' = [boot EXCEPT ![c] = params]

\* check_boot_params_validity() and the group configuration.
Listed(c) == group # None /\ HasCard(group, c)
Drift == (Real - group.real) - (Mono - group.mono)
Valid(c) == boot[c] # None /\ Listed(c) /\ (Drift < 30 \/ Drift > -30)
WindowOpen == Real - group.real =< SyncTime     \* mutant: one second longer than the wait
InSync == Real - group.real < SyncTime

\* validate_boot_time() with a window, or without one
ValidBootTime(c, window) ==
    /\ boot[c] # None /\ Mono >= boot[c].time
    /\ window > 0 => Mono - boot[c].time < window

\* boot_params_remove_card_config(): the card and every card without a valid
\* element leave the group; without its primary the group goes.
RemoveCard(g, c) ==
    LET alive == {d \in present : ValidBootTime(d, 0)} IN
    IF ~HasCard(g, c) THEN g
    ELSE IF Primary(g) \notin alive \ {c} THEN None
    ELSE [g EXCEPT !.cards = @ \cap (alive \ {c})]

\* update_boot_params(): what it makes of the group it loaded.
JoinsInFront(g, c, valid) ==             \* mutant: the newcomer becomes primary
    LET old == IF ~valid /\ g # None THEN RemoveCard(g, c) ELSE g IN
    IF old = None THEN NewGroup(c)
    ELSE IF HasCard(old, c) THEN old ELSE [AddCard(old, c) EXCEPT !.primary = c]
Updated(g, c, valid) ==
    LET old == IF ~valid /\ g # None THEN RemoveCard(g, c) ELSE g IN
    IF old = None THEN NewGroup(c)
    ELSE IF Primary(old) # c \/ valid THEN AddCard(old, c)
    ELSE [AddCard(old, c) EXCEPT !.real = Real, !.mono = Mono]

--------------------------------------------------------------------------------
\* The card appears and udev starts "alsactl restore"; the boot service may too.
Plug(c) ==
    /\ c \notin present /\ now <= LastStart
    /\ c \in Members \/ (faults = 0 /\ InPhase)
    /\ present' = present \cup {c}
    /\ pending' = pending \cup {[card |-> c, cmd |-> k] :
                               k \in (Commands \ {"wait"}) \cap
                                    (IF c \in Served THEN Commands ELSE {"udev"})}
    /\ UNCHANGED <<clocks, disk, locks, proc, ctl, faults>>

Start(j) ==
    /\ j \in pending /\ At(j, "idle")
    /\ pending' = pending \ {j}
    /\ Go(j, [pc |-> IF j.cmd = "wait" THEN "wait" ELSE "card"])
    /\ UNCHANGED <<clocks, present, disk, locks, ctl, faults>>

\* wait_for_card(-1, c): no wait when the boot data are not valid or the card
\* is restored already.
WaitBegin(j) ==
    /\ At(j, "wait")
    /\ IF Valid(j.card) /\ ~boot[j.card].restored
       THEN Go(j, [pc |-> "waiting", start |-> Mono, wake |-> now, seen |-> boot[j.card]])
       ELSE Go(j, [pc |-> "card"])
    /\ UNCHANGED <<clocks, present, disk, locks, pending, ctl, faults>>

\* One turn of its loop, after snd_ctl_wait() timed out or the element changed.
WaitEnds(j) ==
    LET c == j.card IN
    \/ boot[c] = None \/ boot[c].restored
    \/ Mono - proc[j].start > SyncTime + 1
    \/ ~ValidBootTime(c, SyncTime)
WaitTurn(j) ==
    LET c == j.card
        left == Min({SyncTime - (Mono - proc[j].start), SyncTime - (Mono - boot[c].time)})
    IN
    /\ At(j, "waiting") /\ (now >= proc[j].wake \/ boot[c] # proc[j].seen)
    /\ IF WaitEnds(j) THEN Go(j, [pc |-> "card"])
       ELSE Go(j, [wake |-> now + 2 * Max({left, 1}), seen |-> boot[c]])
    /\ UNCHANGED <<clocks, present, disk, locks, pending, ctl, faults>>

CardLock(j) ==
    /\ At(j, "card") /\ cardlock[j.card] = None
    /\ cardlock' = [cardlock EXCEPT ![j.card] = j]
    /\ Go(j, [pc |-> "check"])
    /\ UNCHANGED <<clocks, present, disk, grouplock, pending, ctl, faults>>

--------------------------------------------------------------------------------
\* init_ucm(c) with FLAG_UCM_FBOOT.  End: its exit, which gives the group lock back.
KeepsLock(j, res) ==                     \* mutant: one exit forgets the lock
    /\ Go(j, [pc |-> "fin", res |-> res, cfg |-> None])
    /\ grouplock' = IF grouplock = j /\ res # "wait" THEN None ELSE grouplock
End(j, res) ==
    /\ Go(j, [pc |-> "fin", res |-> res, cfg |-> None])
    /\ grouplock' = IF grouplock = j THEN None ELSE grouplock

\* should_skip_initialization(), and the way on when it does not skip.
Verdict(j, onInvalid, onDue) ==
    LET c == j.card IN
    IF ~Valid(c) THEN onInvalid
    ELSE IF boot[c].primary # c THEN End(j, "skip")
    ELSE IF InSync THEN End(j, "wait")
    ELSE IF boot[c].restored THEN End(j, "restored")
    ELSE onDue

\* The first look at the group takes no lock.
Check(j) ==
    /\ At(j, "check")
    /\ Verdict(j, Go(j, [pc |-> "conf"]) /\ UNCHANGED grouplock,
                  Go(j, [pc |-> "glock", valid |-> TRUE]) /\ UNCHANGED grouplock)
    /\ UNCHANGED <<clocks, present, disk, cardlock, pending, ctl, faults>>

\* get_boot_card_group_config(), for a card the group does not know as valid
Conf(j) ==
    /\ At(j, "conf")
    /\ Go(j, IF j.card \in Members THEN [pc |-> "glock2"]
             ELSE [pc |-> "scan", cfg |-> group])
    /\ UNCHANGED <<clocks, present, disk, locks, pending, ctl, faults>>

LocksNothing(j) ==                       \* mutant: the lock result is not kept
    /\ \/ At(j, "glock") /\ Go(j, [pc |-> "load", restored |-> TRUE])
       \/ At(j, "glock2") /\ Go(j, [pc |-> "recheck"])
    /\ UNCHANGED grouplock
    /\ UNCHANGED <<clocks, present, disk, cardlock, pending, ctl, faults>>
GroupLock(j) ==
    /\ grouplock = None /\ grouplock' = j
    /\ \/ At(j, "glock") /\ Go(j, [pc |-> "load", restored |-> TRUE])
       \/ At(j, "glock2") /\ Go(j, [pc |-> "recheck"])
    /\ UNCHANGED <<clocks, present, disk, cardlock, pending, ctl, faults>>

\* The second look, under the lock: a new member writes itself into the group
\* and waits.  A window of zero is refused by update_boot_params().
Recheck(j) ==
    /\ At(j, "recheck")
    /\ Verdict(j, IF SyncTime = 0 THEN End(j, "err")
                  ELSE Go(j, [pc |-> "load", res |-> "wait"]) /\ UNCHANGED grouplock,
                  Go(j, [pc |-> "load", valid |-> TRUE, restored |-> TRUE]) /\ UNCHANGED grouplock)
    /\ UNCHANGED <<clocks, present, disk, cardlock, pending, ctl, faults>>

\* update_boot_params(): load and rework the group, save it by rename, write the
\* element, and as the primary tell every card of the same boot.
Load(j) ==
    /\ At(j, "load")
    /\ Go(j, [pc |-> "save", cfg |-> Updated(group, j.card, proc[j].valid)])
    /\ UNCHANGED <<clocks, present, disk, locks, pending, ctl, faults>>

Save(j) ==
    /\ At(j, "save")
    /\ SaveGroup(proc[j].cfg)
    /\ Go(j, [pc |-> "elem"])
    /\ UNCHANGED <<clocks, present, boot, locks, pending, ctl, faults>>

WriteElement(j) ==
    LET cfg == proc[j].cfg IN
    /\ At(j, "elem")
    /\ WriteBootParams(j.card, [time |-> cfg.mono, restored |-> proc[j].restored,
                                primary |-> Primary(cfg)])
    /\ Go(j, [pc |-> "others",
              todo |-> IF Primary(cfg) = j.card THEN cfg.cards \ {j.card} ELSE {}])
    /\ UNCHANGED <<clocks, present, group, locks, pending, ctl, faults>>

\* boot_params_update_restored(), a card at a time; add_linked_card()
ForgetsLink(j) ==                        \* mutant: the card is not linked
    /\ At(j, "others")
    /\ \E d \in proc[j].todo :
       /\ Go(j, [todo |-> proc[j].todo \ {d}])
       /\ boot' = IF boot[d] = None THEN boot
                  ELSE [boot EXCEPT ![d].restored = proc[j].restored]
    /\ UNCHANGED <<clocks, present, group, locks, pending, ctl, faults>>
SameBoot(j, d) ==
    boot[d] # None /\ boot[d].time = proc[j].cfg.mono /\ boot[d].primary = j.card
TellOther(j) ==
    /\ At(j, "others")
    /\ \E d \in proc[j].todo :
       \/ /\ SameBoot(j, d)
          /\ Go(j, [todo |-> proc[j].todo \ {d}, linked |-> proc[j].linked \cup {d}])
          /\ WriteBootParams(d, [boot[d] EXCEPT !.restored = proc[j].restored])
       \/ /\ ~SameBoot(j, d)
          /\ Go(j, [todo |-> proc[j].todo \ {d}])
          /\ UNCHANGED boot
    /\ UNCHANGED <<clocks, present, group, locks, pending, ctl, faults>>

UpdateDone(j) ==
    /\ At(j, "others") /\ proc[j].todo = {}
    /\ IF proc[j].res = "wait" THEN End(j, "wait")
       ELSE Go(j, [pc |-> "run"]) /\ UNCHANGED grouplock
    /\ UNCHANGED <<clocks, present, disk, cardlock, pending, ctl, faults>>

\* execute_boot_sequences(), and the end of init_ucm
Run(j) ==
    /\ At(j, "run") /\ End(j, "ok")
    /\ UNCHANGED <<clocks, present, disk, cardlock, pending, ctl, faults>>

\* boot_params_remove_card(), for a card outside any group, without the group
\* lock: the scan starts over after the first group, changed or not.
Scan(j) ==
    LET cfg == proc[j].cfg IN
    /\ At(j, "scan")
    /\ IF cfg = None THEN Go(j, [pc |-> IF proc[j].changed THEN "drop" ELSE "run"])
       ELSE LET new == RemoveCard(cfg, j.card) IN
            Go(j, [cfg |-> new, changed |-> proc[j].changed \/ new # cfg])
    /\ UNCHANGED <<clocks, present, disk, locks, pending, ctl, faults>>

SaveDropped(j) ==
    /\ At(j, "drop")
    /\ SaveGroup(proc[j].cfg)
    /\ Go(j, [pc |-> "run"])
    /\ UNCHANGED <<clocks, present, boot, locks, pending, ctl, faults>>

--------------------------------------------------------------------------------
\* Back in load_state(): controls, also of the linked cards, unless the card has
\* to wait, is skipped or is restored; then the card lock is given back.
Finish(j) ==
    /\ At(j, "fin")
    /\ ctl' = IF proc[j].res \in {"ok", "err"} THEN ctl \cup {j.card} \cup proc[j].linked ELSE ctl
    /\ cardlock' = [cardlock EXCEPT ![j.card] = None]
    /\ pending' = IF proc[j].res = "wait" /\ j.cmd = "udev" /\ "wait" \in Commands
                  THEN pending \cup {[j EXCEPT !.cmd = "wait"]} ELSE pending
    /\ proc' = [proc EXCEPT ![j] = Idle]
    /\ UNCHANGED <<clocks, present, disk, grouplock, faults>>

\* Faults are bounded, and left out when there is a card without a group.
Fault(kind) ==
    /\ kind \in Faults /\ faults < MaxFaults /\ present \subseteq Members
    /\ faults' = faults + 1

\* A lock that times out, a UCM, control or file operation that fails.
Fail(j) ==
    /\ Fault("error")
    /\ proc[j].pc \in {"glock", "glock2", "conf", "run"} \cup InUpdate
    /\ End(j, "err")
    /\ UNCHANGED <<clocks, present, disk, cardlock, pending, ctl>>

Crash(j) ==
    /\ Fault("crash")
    /\ ~At(j, "idle")
    /\ proc' = [proc EXCEPT ![j] = Idle]
    /\ grouplock' = IF grouplock = j THEN None ELSE grouplock
    /\ cardlock' = [c \in Cards |-> IF cardlock[c] = j THEN None ELSE cardlock[c]]
    /\ UNCHANGED <<clocks, present, disk, pending, ctl>>

\* A card that no command works on is unplugged; its element goes with it.
Unplug(c) ==
    /\ Fault("replug")
    /\ c \in present /\ \A j \in Jobs : j.card = c => At(j, "idle") /\ j \notin pending
    /\ present' = present \ {c} /\ ctl' = ctl \ {c}
    /\ boot' = [boot EXCEPT ![c] = None]
    /\ UNCHANGED <<clocks, group, locks, pending, proc>>

Reboot ==
    /\ Fault("reboot")
    /\ now' = First /\ offset' = offset + 2 * ((now - First) \div 2) + DownTime     \* the phase stays
    /\ present' = {} /\ ctl' = {} /\ pending' = {}
    /\ boot' = [c \in Cards |-> None]
    /\ grouplock' = None /\ cardlock' = [c \in Cards |-> None]
    /\ proc' = [j \in Jobs |-> Idle]
    /\ UNCHANGED group

\* The real time clock is set, as a time service does soon after boot.
SetClock ==
    /\ Fault("step")
    /\ offset' = offset + ClockStep
    /\ UNCHANGED <<now, present, disk, locks, pending, proc, ctl>>

Tick ==
    /\ now < MaxNow
    /\ now >= LastStart => pending = {} /\ \A j \in Jobs : proc[j].pc \in Waits \cup {"scan"}
    /\ now' = now + 1
    /\ UNCHANGED <<offset, present, disk, locks, pending, proc, ctl, faults>>

Step(j) ==
    \/ Start(j) \/ WaitBegin(j) \/ WaitTurn(j) \/ CardLock(j)
    \/ Check(j) \/ Conf(j) \/ GroupLock(j) \/ Recheck(j)
    \/ Load(j) \/ Save(j) \/ WriteElement(j) \/ TellOther(j) \/ UpdateDone(j)
    \/ Run(j) \/ Scan(j) \/ SaveDropped(j) \/ Finish(j)

Next ==
    \/ \E j \in Jobs : Step(j) \/ Fail(j) \/ Crash(j)
    \/ \E c \in Cards : Plug(c) \/ Unplug(c)
    \/ Reboot \/ SetClock \/ Tick

Spec == Init /\ [][Next]_vars

\* Programs run and time passes.  A command takes each lock a bounded number of
\* times, so that a waiting one needs no more than weak fairness.
Fairness == (\A j \in Jobs : WF_vars(Step(j))) /\ WF_vars(Tick)
FairSpec == Spec /\ Fairness

--------------------------------------------------------------------------------
\* Members whose element belongs to the group as it is on disk name its first
\* card as primary, but for a card just between the save and the write of its
\* element: no two cards both take themselves for the primary, and none waits
\* for a card that does not (boot_params.c:966-1040, init_ucm.c:51).
OnePrimary ==
    \A c \in Cards :
        /\ boot[c] # None /\ Listed(c) /\ boot[c].time = group.mono
        /\ \A j \in Jobs : j.card = c => ~At(j, "elem")
        => boot[c].primary = Primary(group)

\* c has joined the group and the group's primary is still there.
Joined(c) == Listed(c) /\ boot[c] # None /\ boot[Primary(group)] # None

\* An update of the group never drops a card that has joined, unless the primary
\* itself came back and starts a new group (boot_params.c:930-1027).
UpdatesKeepMembers ==
    [][present \subseteq Members =>
          \A j \in Jobs, c \in Cards : Save(j) /\ Joined(c) => Listed(c)']_vars

\* A card marked as restored has its controls, or the primary that marked it is
\* still on its way to set them (boot_params.c:885-896, state.c:1821-1832).
RestoredIsCovered ==
    \A c \in Cards : faults = 0 /\ boot[c] # None /\ boot[c].restored =>
        \/ c \in ctl
        \/ \E j \in Jobs : /\ proc[j].pc \in {"others", "run", "fin"}
                           /\ proc[j].res \in {"ok", "err"}
                           /\ c \in {j.card} \cup proc[j].linked

\* The wait of a primary is over, and it is told to wait: nobody restores its group
\* after that.
EndsEarly ==
    \E j \in Jobs : /\ j.cmd = "wait" /\ At(j, "fin") /\ proc[j].res = "wait"
                   /\ boot[j.card] # None /\ boot[j.card].primary = j.card

\* A member that has joined before its primary restores the group gets its
\* controls in the end, unless a fault comes or a card without a group has
\* rewritten the file meanwhile (init_ucm.c:253-266, state.c:1813-1832), or the
\* seconds of the two clocks begin at different moments and the wait of the
\* primary ends early: the "one second for safety" of wait.c:141 does not help,
\* for the window ends it before (wait.c:159).
MembersAreRestored ==
    [](faults = 0 /\ (InPhase \/ ~EndsEarly) /\ \A j \in Jobs : ~At(j, "drop")) =>
    \A c \in Members :
        /\ boot[c] # None
        /\ boot[boot[c].primary] # None /\ ~boot[boot[c].primary].restored
        ~> c \in ctl

\* Every command for a member ends, whatever fails, dies or comes between: with
\* no more cards coming, none waits for a lock or for the group any more.
MemberCommandsEnd ==
    <>[](\A j \in Jobs : j.card \in Members => At(j, "idle") /\ j \notin pending)
================================================================================
