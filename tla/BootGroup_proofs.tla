--------------------------- MODULE BootGroup_proofs ---------------------------
(***************************************************************************)
(* Theorems about the boot card groups of alsactl, for any cards and       *)
(* members, commands, window and times, and any number of them.            *)
(***************************************************************************)
EXTENDS BootGroup, TLAPS

\* what a process has, and what a step of it changes
Fields == {"pc", "valid", "restored", "res", "cfg", "changed", "todo", "linked", "start",
           "wake", "seen"}
Shape == DOMAIN proc = Jobs /\ \A j \in Jobs : DOMAIN proc[j] = Fields

LEMMA GoFields ==
  ASSUME Shape, NEW j \in Jobs, NEW change, DOMAIN change \subseteq Fields, Go(j, change)
  PROVE  /\ Shape'
         /\ \A k \in Jobs \ {j} : proc'[k] = proc[k]
         /\ \A f \in Fields :
               proc'[j][f] = IF f \in DOMAIN change THEN change[f] ELSE proc[j][f]
<1>1. proc' = [proc EXCEPT ![j] =
                  [f \in DOMAIN proc[j] |->
                      IF f \in DOMAIN change THEN change[f] ELSE proc[j][f]]]
  BY DEF Go
<1>2. proc'[j] = [f \in Fields |-> IF f \in DOMAIN change THEN change[f] ELSE proc[j][f]]
  BY <1>1 DEF Shape
<1>3. \A k \in Jobs \ {j} : proc'[k] = proc[k]
  BY <1>1 DEF Shape
<1>4. Shape'
  BY <1>1, <1>2, <1>3 DEF Shape
<1>5. QED
  BY <1>2, <1>3, <1>4

LEMMA IdleShape == DOMAIN Idle = Fields
  BY DEF Idle, Fields

-----------------------------------------------------------------------------
(***************************************************************************)
(* Who marks a card as restored goes on to set its controls: a process     *)
(* that has not come to the update has no result yet, and one that writes  *)
(* the mark has not been told to wait.                                     *)
(***************************************************************************)
Looks == {"idle", "wait", "waiting", "card", "check", "conf", "glock", "glock2", "recheck",
          "scan", "drop"}
After == {"others", "run", "fin"}

Fit(p) ==
    /\ p.pc \in Looks => p.res = "ok" /\ p.restored = FALSE
    /\ p.pc \in InUpdate /\ p.restored = TRUE => p.res = "ok"
    /\ p.restored \in BOOLEAN
SetsControls(p) == p.pc \in After /\ p.res \in {"ok", "err"}

Elements == DOMAIN boot = Cards /\ \A c \in Cards : boot[c] # None => "restored" \in DOMAIN boot[c]
Marked(c) == boot[c] # None /\ boot[c].restored
Covered(c) ==
    \/ c \in ctl
    \/ \E j \in Jobs : SetsControls(proc[j]) /\ c \in {j.card} \cup proc[j].linked

MarkInv ==
    /\ Shape /\ Elements /\ faults \in Nat
    /\ faults = 0 => /\ \A j \in Jobs : Fit(proc[j])
                     /\ \A c \in Cards : Marked(c) => Covered(c)

LEMMA IdleFits == Fit(Idle)
  BY DEF Fit, Idle, Looks, InUpdate

LEMMA MarkStarts == Init => MarkInv
<1> SUFFICES ASSUME Init PROVE MarkInv
  OBVIOUS
<1>1. /\ boot = [c \in Cards |-> None] /\ proc = [j \in Jobs |-> Idle] /\ faults = 0
  BY DEF Init
<1>2. QED
  BY <1>1, IdleFits, IdleShape DEF MarkInv, Shape, Elements, Marked

\* a step of one process keeps MarkInv when it stays fit, goes on with what it has begun,
\* and marks only what it covers
LEMMA MovesKeep ==
  ASSUME MarkInv, NEW j \in Jobs, Shape', Elements', faults' = faults, ctl' = ctl,
         \A k \in Jobs \ {j} : proc'[k] = proc[k],
         faults = 0 =>
           /\ Fit(proc[j]) => Fit(proc[j])'
           /\ SetsControls(proc[j]) =>
                 SetsControls(proc[j])' /\ proc[j].linked \subseteq proc'[j].linked
           /\ \A c \in Cards : Marked(c)' =>
                 \/ Marked(c)
                 \/ Fit(proc[j]) => SetsControls(proc[j])' /\ c \in {j.card} \cup proc'[j].linked
  PROVE  MarkInv'
<1> SUFFICES ASSUME faults = 0
             PROVE  /\ \A k \in Jobs : Fit(proc[k])'
                    /\ \A c \in Cards : Marked(c)' => Covered(c)'
  BY DEF MarkInv
<1>1. \A k \in Jobs : Fit(proc[k])'
  BY DEF MarkInv, Fit
<1>2. ASSUME NEW c \in Cards, Marked(c)' PROVE Covered(c)'
  <2>1. CASE Marked(c)
    <3>1. Covered(c)
      BY <2>1 DEF MarkInv
    <3>2. CASE c \in ctl
      BY <3>2 DEF Covered
    <3>3. CASE \E k \in Jobs : SetsControls(proc[k]) /\ c \in {k.card} \cup proc[k].linked
      <4>1. PICK k \in Jobs : SetsControls(proc[k]) /\ c \in {k.card} \cup proc[k].linked
        BY <3>3
      <4>2. SetsControls(proc[k])' /\ c \in {k.card} \cup proc'[k].linked
        BY <4>1 DEF SetsControls
      <4>3. QED
        BY <4>2 DEF Covered
    <3>4. QED
      BY <3>1, <3>2, <3>3 DEF Covered
  <2>2. CASE SetsControls(proc[j])' /\ c \in {j.card} \cup proc'[j].linked
    BY <2>2 DEF Covered
  <2>3. QED
    BY <1>2, <2>1, <2>2 DEF MarkInv
<1>3. QED
  BY <1>1, <1>2

\* the same for a step that touches no element
LEMMA PlainMoveKeeps ==
  ASSUME MarkInv, NEW j \in Jobs, NEW change, DOMAIN change \subseteq Fields, Go(j, change),
         UNCHANGED <<boot, ctl, faults>>,
         faults = 0 /\ Fit(proc[j]) =>
           /\ Fit(proc[j])'
           /\ SetsControls(proc[j]) =>
                 SetsControls(proc[j])' /\ proc[j].linked \subseteq proc'[j].linked
  PROVE  MarkInv'
<1>1. /\ Shape' /\ \A k \in Jobs \ {j} : proc'[k] = proc[k]
  BY GoFields DEF MarkInv
<1>2. Elements'
  BY DEF MarkInv, Elements
<1>3. \A c \in Cards : Marked(c)' => Marked(c)
  BY DEF Marked
<1>4. QED
  BY <1>1, <1>2, <1>3, MovesKeep DEF MarkInv

\* a process that has set no control yet goes on
LEMMA LooksKeep ==
  ASSUME MarkInv, NEW j \in Jobs, NEW change, DOMAIN change \subseteq Fields, Go(j, change),
         UNCHANGED <<boot, ctl, faults>>, proc[j].pc \notin After,
         Fit(proc[j]) => Fit(proc[j])'
  PROVE  MarkInv'
<1>1. ~SetsControls(proc[j])
  BY DEF SetsControls
<1>2. QED
  BY <1>1, PlainMoveKeeps

\* the exit of init_ucm
LEMMA EndKeeps ==
  ASSUME MarkInv, NEW j \in Jobs, NEW res, End(j, res), UNCHANGED <<boot, ctl, faults>>,
         SetsControls(proc[j]) => res \in {"ok", "err"}
  PROVE  MarkInv'
<1> DEFINE change == [pc |-> "fin", res |-> res, cfg |-> None]
<1>1. Go(j, change)
  BY DEF End
<1>2. DOMAIN change = {"pc", "res", "cfg"} /\ change.pc = "fin" /\ change.res = res
  OBVIOUS
<1> HIDE DEF change
<1>3. DOMAIN change \subseteq Fields
  BY <1>2 DEF Fields
<1>4. /\ proc'[j].pc = "fin" /\ proc'[j].res = res
      /\ proc'[j].linked = proc[j].linked /\ proc'[j].restored = proc[j].restored
  BY <1>1, <1>2, <1>3, GoFields DEF MarkInv, Fields
<1>5. Fit(proc[j]) => Fit(proc[j])'
  BY <1>4 DEF Fit, Looks, InUpdate
<1>6. SetsControls(proc[j]) => SetsControls(proc[j])' /\ proc[j].linked \subseteq proc'[j].linked
  BY <1>4 DEF SetsControls, After
<1>7. QED
  BY <1>1, <1>3, <1>5, <1>6, PlainMoveKeeps

-----------------------------------------------------------------------------
\* a step of a process on the way to the update
LEMMA LookOn ==
  ASSUME MarkInv, NEW j \in Jobs, NEW change, DOMAIN change \subseteq Fields, Go(j, change),
         UNCHANGED <<boot, ctl, faults>>, proc[j].pc \in Looks,
         "res" \notin DOMAIN change, "restored" \notin DOMAIN change,
         "pc" \in DOMAIN change => change.pc \in Looks
  PROVE  MarkInv'
<1>1. /\ proc'[j].pc \in Looks
      /\ proc'[j].res = proc[j].res /\ proc'[j].restored = proc[j].restored
  BY GoFields DEF MarkInv, Fields
<1>2. Fit(proc[j]) => Fit(proc[j])'
  BY <1>1 DEF Fit, Looks, InUpdate
<1>3. QED
  BY <1>2, LooksKeep DEF After, Looks

LEMMA StartKeeps ==
  ASSUME MarkInv, NEW j \in Jobs, Start(j)
  PROVE  MarkInv'
<1> DEFINE change == [pc |-> IF j.cmd = "wait" THEN "wait" ELSE "card"]
<1>1. Go(j, change) /\ proc[j].pc = "idle" /\ UNCHANGED <<boot, ctl, faults>>
  BY DEF Start, At, disk
<1>2. DOMAIN change = {"pc"} /\ change.pc \in {"wait", "card"}
  OBVIOUS
<1> HIDE DEF change
<1>3. QED
  BY <1>1, <1>2, LookOn DEF Fields, Looks

LEMMA WaitBeginKeeps ==
  ASSUME MarkInv, NEW j \in Jobs, WaitBegin(j)
  PROVE  MarkInv'
<1> DEFINE waits == [pc |-> "waiting", start |-> Mono, wake |-> now, seen |-> boot[j.card]]
           goes  == [pc |-> "card"]
<1>1. /\ Go(j, waits) \/ Go(j, goes)
      /\ proc[j].pc = "wait" /\ UNCHANGED <<boot, ctl, faults>>
  BY DEF WaitBegin, At, disk
<1>2. DOMAIN waits = {"pc", "start", "wake", "seen"} /\ waits.pc = "waiting"
  OBVIOUS
<1>3. DOMAIN goes = {"pc"} /\ goes.pc = "card"
  OBVIOUS
<1> HIDE DEF waits, goes
<1>4. QED
  BY <1>1, <1>2, <1>3, LookOn DEF Fields, Looks

LEMMA WaitTurnKeeps ==
  ASSUME MarkInv, NEW j \in Jobs, WaitTurn(j)
  PROVE  MarkInv'
<1> DEFINE goes == [pc |-> "card"]
<1>1. /\ Go(j, goes) \/ \E w, b : Go(j, [wake |-> w, seen |-> b])
      /\ proc[j].pc = "waiting" /\ UNCHANGED <<boot, ctl, faults>>
  BY DEF WaitTurn, At, disk
<1>2. DOMAIN goes = {"pc"} /\ goes.pc = "card"
  OBVIOUS
<1> HIDE DEF goes
<1>3. CASE Go(j, goes)
  BY <1>1, <1>2, <1>3, LookOn DEF Fields, Looks
<1>4. ASSUME NEW w, NEW b, Go(j, [wake |-> w, seen |-> b]) PROVE MarkInv'
  <2> DEFINE again == [wake |-> w, seen |-> b]
  <2>1. DOMAIN again = {"wake", "seen"} /\ Go(j, again)
    BY <1>4
  <2> HIDE DEF again
  <2>2. QED
    BY <1>1, <2>1, LookOn DEF Fields, Looks
<1>5. QED
  BY <1>1, <1>3, <1>4

\* an action that does nothing but go on to another look
LEMMA GoesOn ==
  ASSUME MarkInv, NEW j \in Jobs, NEW pc \in Looks, Go(j, [pc |-> pc]),
         UNCHANGED <<boot, ctl, faults>>, proc[j].pc \in Looks
  PROVE  MarkInv'
<1> DEFINE change == [pc |-> pc]
<1>1. DOMAIN change = {"pc"} /\ change.pc = pc /\ Go(j, change)
  OBVIOUS
<1> HIDE DEF change
<1>2. QED
  BY <1>1, LookOn DEF Fields

LEMMA CardLockKeeps ==
  ASSUME MarkInv, NEW j \in Jobs, CardLock(j)
  PROVE  MarkInv'
<1>1. Go(j, [pc |-> "check"]) /\ proc[j].pc = "card" /\ UNCHANGED <<boot, ctl, faults>>
  BY DEF CardLock, At, disk
<1>2. QED
  BY <1>1, GoesOn DEF Looks

LEMMA CheckKeeps ==
  ASSUME MarkInv, NEW j \in Jobs, Check(j)
  PROVE  MarkInv'
<1> DEFINE known == [pc |-> "glock", valid |-> TRUE]
<1>1. /\ \/ Go(j, [pc |-> "conf"])
         \/ Go(j, known)
         \/ \E res \in {"skip", "wait", "restored"} : End(j, res)
      /\ proc[j].pc = "check" /\ UNCHANGED <<boot, ctl, faults>>
  BY DEF Check, Verdict, At, disk
<1>2. DOMAIN known = {"pc", "valid"} /\ known.pc = "glock"
  OBVIOUS
<1> HIDE DEF known
<1>3. CASE Go(j, [pc |-> "conf"])
  BY <1>1, <1>3, GoesOn DEF Looks
<1>4. CASE Go(j, known)
  BY <1>1, <1>2, <1>4, LookOn DEF Fields, Looks
<1>5. CASE \E res \in {"skip", "wait", "restored"} : End(j, res)
  BY <1>1, <1>5, EndKeeps DEF SetsControls, After
<1>6. QED
  BY <1>1, <1>3, <1>4, <1>5

LEMMA ConfKeeps ==
  ASSUME MarkInv, NEW j \in Jobs, Conf(j)
  PROVE  MarkInv'
<1> DEFINE scans == [pc |-> "scan", cfg |-> group]
<1>1. /\ Go(j, [pc |-> "glock2"]) \/ Go(j, scans)
      /\ proc[j].pc = "conf" /\ UNCHANGED <<boot, ctl, faults>>
  BY DEF Conf, At, disk
<1>2. DOMAIN scans = {"pc", "cfg"} /\ scans.pc = "scan"
  OBVIOUS
<1> HIDE DEF scans
<1>3. CASE Go(j, [pc |-> "glock2"])
  BY <1>1, <1>3, GoesOn DEF Looks
<1>4. CASE Go(j, scans)
  BY <1>1, <1>2, <1>4, LookOn DEF Fields, Looks
<1>5. QED
  BY <1>1, <1>3, <1>4

\* a step into the update that writes the mark only with the result "ok"
LEMMA Enters ==
  ASSUME MarkInv, NEW j \in Jobs, NEW change, DOMAIN change \subseteq Fields, Go(j, change),
         UNCHANGED <<boot, ctl, faults>>, proc[j].pc \in Looks,
         "pc" \in DOMAIN change /\ change.pc = "load",
         "restored" \in DOMAIN change => "res" \notin DOMAIN change /\ change.restored = TRUE
  PROVE  MarkInv'
<1>1. /\ proc'[j].pc = "load"
      /\ \/ proc'[j].restored = TRUE /\ proc'[j].res = proc[j].res
         \/ proc'[j].restored = proc[j].restored
  BY GoFields DEF MarkInv, Fields
<1>2. Fit(proc[j]) => Fit(proc[j])'
  BY <1>1 DEF Fit, Looks, InUpdate
<1>3. QED
  BY <1>2, LooksKeep DEF After, Looks

LEMMA GroupLockKeeps ==
  ASSUME MarkInv, NEW j \in Jobs, GroupLock(j)
  PROVE  MarkInv'
<1> DEFINE marks == [pc |-> "load", restored |-> TRUE]
<1>1. /\ \/ Go(j, marks) /\ proc[j].pc = "glock"
         \/ Go(j, [pc |-> "recheck"]) /\ proc[j].pc = "glock2"
      /\ UNCHANGED <<boot, ctl, faults>>
  BY DEF GroupLock, At, disk
<1>2. DOMAIN marks = {"pc", "restored"} /\ marks.pc = "load" /\ marks.restored = TRUE
  OBVIOUS
<1> HIDE DEF marks
<1>3. CASE Go(j, marks) /\ proc[j].pc = "glock"
  BY <1>1, <1>2, <1>3, Enters DEF Fields, Looks
<1>4. CASE Go(j, [pc |-> "recheck"]) /\ proc[j].pc = "glock2"
  BY <1>1, <1>4, GoesOn DEF Looks
<1>5. QED
  BY <1>1, <1>3, <1>4

LEMMA RecheckKeeps ==
  ASSUME MarkInv, NEW j \in Jobs, Recheck(j)
  PROVE  MarkInv'
<1> DEFINE joins == [pc |-> "load", res |-> "wait"]
           marks == [pc |-> "load", valid |-> TRUE, restored |-> TRUE]
<1>1. /\ \/ Go(j, joins)
         \/ Go(j, marks)
         \/ \E res \in {"err", "skip", "wait", "restored"} : End(j, res)
      /\ proc[j].pc = "recheck" /\ UNCHANGED <<boot, ctl, faults>>
  BY DEF Recheck, Verdict, At, disk
<1>2. DOMAIN joins = {"pc", "res"} /\ joins.pc = "load"
  OBVIOUS
<1>3. DOMAIN marks = {"pc", "valid", "restored"} /\ marks.pc = "load" /\ marks.restored = TRUE
  OBVIOUS
<1> HIDE DEF joins, marks
<1>4. CASE Go(j, joins)
  BY <1>1, <1>2, <1>4, Enters DEF Fields, Looks
<1>5. CASE Go(j, marks)
  BY <1>1, <1>3, <1>5, Enters DEF Fields, Looks
<1>6. CASE \E res \in {"err", "skip", "wait", "restored"} : End(j, res)
  BY <1>1, <1>6, EndKeeps DEF SetsControls, After
<1>7. QED
  BY <1>1, <1>4, <1>5, <1>6

\* a step of the update that touches no element
LEMMA UpdatesOn ==
  ASSUME MarkInv, NEW j \in Jobs, NEW change, DOMAIN change \subseteq Fields, Go(j, change),
         UNCHANGED <<boot, ctl, faults>>, proc[j].pc \in {"load", "save"},
         "pc" \in DOMAIN change /\ change.pc \in InUpdate,
         "res" \notin DOMAIN change, "restored" \notin DOMAIN change
  PROVE  MarkInv'
<1>1. /\ proc'[j].pc \in InUpdate
      /\ proc'[j].res = proc[j].res /\ proc'[j].restored = proc[j].restored
  BY GoFields DEF MarkInv, Fields
<1>2. Fit(proc[j]) => Fit(proc[j])'
  BY <1>1 DEF Fit, Looks, InUpdate
<1>3. QED
  BY <1>2, LooksKeep DEF After

LEMMA LoadKeeps ==
  ASSUME MarkInv, NEW j \in Jobs, Load(j)
  PROVE  MarkInv'
<1> DEFINE change == [pc |-> "save", cfg |-> Updated(group, j.card, proc[j].valid)]
<1>1. Go(j, change) /\ proc[j].pc = "load" /\ UNCHANGED <<boot, ctl, faults>>
  BY DEF Load, At, disk
<1>2. DOMAIN change = {"pc", "cfg"} /\ change.pc = "save"
  OBVIOUS
<1> HIDE DEF change
<1>3. QED
  BY <1>1, <1>2, UpdatesOn DEF Fields, InUpdate

LEMMA SaveKeeps ==
  ASSUME MarkInv, NEW j \in Jobs, Save(j)
  PROVE  MarkInv'
<1> DEFINE change == [pc |-> "elem"]
<1>1. Go(j, change) /\ proc[j].pc = "save" /\ UNCHANGED <<boot, ctl, faults>>
  BY DEF Save, At
<1>2. DOMAIN change = {"pc"} /\ change.pc = "elem"
  OBVIOUS
<1> HIDE DEF change
<1>3. QED
  BY <1>1, <1>2, UpdatesOn DEF Fields, InUpdate

LEMMA WriteElementKeeps ==
  ASSUME MarkInv, NEW j \in Jobs, WriteElement(j)
  PROVE  MarkInv'
<1> DEFINE cfg == proc[j].cfg
           change == [pc |-> "others",
                      todo |-> IF Primary(cfg) = j.card THEN cfg.cards \ {j.card} ELSE {}]
           params == [time |-> cfg.mono, restored |-> proc[j].restored,
                      primary |-> Primary(cfg)]
<1>1. /\ Go(j, change) /\ proc[j].pc = "elem" /\ UNCHANGED <<ctl, faults>>
      /\ boot' = [boot EXCEPT ![j.card] = params]
  BY DEF WriteElement, WriteBootParams, At
<1>2. DOMAIN change = {"pc", "todo"} /\ change.pc = "others"
  OBVIOUS
<1>3. "restored" \in DOMAIN params /\ params.restored = proc[j].restored
  OBVIOUS
<1> HIDE DEF change, params, cfg
<1>4. DOMAIN change \subseteq Fields
  BY <1>2 DEF Fields
<1>5. /\ Shape' /\ \A k \in Jobs \ {j} : proc'[k] = proc[k]
      /\ proc'[j].pc = "others" /\ proc'[j].res = proc[j].res
      /\ proc'[j].restored = proc[j].restored
  BY <1>1, <1>2, <1>4, GoFields DEF MarkInv, Fields
<1>6. Elements'
  BY <1>1, <1>3 DEF MarkInv, Elements
<1>7. Fit(proc[j]) => Fit(proc[j])'
  BY <1>1, <1>5 DEF Fit, Looks, InUpdate
<1>8. ~SetsControls(proc[j])
  BY <1>1 DEF SetsControls, After
<1>9. ASSUME NEW c \in Cards, Marked(c)', ~Marked(c), Fit(proc[j])
      PROVE  SetsControls(proc[j])' /\ c \in {j.card} \cup proc'[j].linked
  <2>1. c = j.card /\ boot'[c] = params
    BY <1>1, <1>9 DEF Marked, MarkInv, Elements
  <2>2. proc[j].restored = TRUE
    BY <1>3, <1>9, <2>1 DEF Marked, Fit
  <2>3. QED
    BY <1>1, <1>5, <1>9, <2>1, <2>2 DEF Fit, SetsControls, After, InUpdate
<1>10. QED
  BY <1>1, <1>5, <1>6, <1>7, <1>8, <1>9, MovesKeep

LEMMA TellOtherKeeps ==
  ASSUME MarkInv, NEW j \in Jobs, TellOther(j)
  PROVE  MarkInv'
<1>1. PICK d \in proc[j].todo :
         \/ /\ SameBoot(j, d)
            /\ Go(j, [todo |-> proc[j].todo \ {d}, linked |-> proc[j].linked \cup {d}])
            /\ WriteBootParams(d, [boot[d] EXCEPT !.restored = proc[j].restored])
         \/ /\ ~SameBoot(j, d)
            /\ Go(j, [todo |-> proc[j].todo \ {d}])
            /\ UNCHANGED boot
  BY DEF TellOther
<1>2. proc[j].pc = "others" /\ UNCHANGED <<ctl, faults>>
  BY DEF TellOther, At
<1> DEFINE links == [todo |-> proc[j].todo \ {d}, linked |-> proc[j].linked \cup {d}]
           leaves == [todo |-> proc[j].todo \ {d}]
<1>3. DOMAIN links = {"todo", "linked"} /\ links.linked = proc[j].linked \cup {d}
  OBVIOUS
<1>4. DOMAIN leaves = {"todo"}
  OBVIOUS
<1>5. CASE SameBoot(j, d) /\ Go(j, links)
           /\ boot' = [boot EXCEPT ![d] = [boot[d] EXCEPT !.restored = proc[j].restored]]
  <2> HIDE DEF links
  <2>1. DOMAIN links \subseteq Fields
    BY <1>3 DEF Fields
  <2>2. /\ Shape' /\ \A k \in Jobs \ {j} : proc'[k] = proc[k]
        /\ proc'[j].pc = "others" /\ proc'[j].res = proc[j].res
        /\ proc'[j].restored = proc[j].restored /\ proc'[j].linked = proc[j].linked \cup {d}
    BY <1>2, <1>3, <1>5, <2>1, GoFields DEF MarkInv, Fields
  <2>3. boot[d] # None
    BY <1>5 DEF SameBoot
  <2>4. Elements'
    BY <1>5, <2>3 DEF MarkInv, Elements
  <2>5. Fit(proc[j]) => Fit(proc[j])'
    BY <1>2, <2>2 DEF Fit, Looks, InUpdate
  <2>6. SetsControls(proc[j]) =>
           SetsControls(proc[j])' /\ proc[j].linked \subseteq proc'[j].linked
    BY <1>2, <2>2 DEF SetsControls
  <2>7. ASSUME NEW c \in Cards, Marked(c)', ~Marked(c), Fit(proc[j])
        PROVE  SetsControls(proc[j])' /\ c \in {j.card} \cup proc'[j].linked
    <3>1. c = d /\ boot'[c] = [boot[d] EXCEPT !.restored = proc[j].restored]
      BY <1>5, <2>7 DEF Marked, MarkInv, Elements
    <3>2. boot'[c].restored = proc[j].restored
      BY <2>3, <3>1 DEF MarkInv, Elements
    <3>3. proc[j].restored = TRUE
      BY <2>7, <3>2 DEF Marked, Fit
    <3>4. QED
      BY <1>2, <2>2, <2>7, <3>1, <3>3 DEF Fit, SetsControls, After, InUpdate
  <2>8. QED
    BY <1>2, <2>2, <2>4, <2>5, <2>6, <2>7, MovesKeep
<1>6. CASE Go(j, leaves) /\ UNCHANGED boot
  <2> HIDE DEF leaves
  <2>1. DOMAIN leaves \subseteq Fields
    BY <1>4 DEF Fields
  <2>2. /\ proc'[j].pc = "others" /\ proc'[j].res = proc[j].res
        /\ proc'[j].restored = proc[j].restored /\ proc'[j].linked = proc[j].linked
    BY <1>2, <1>4, <1>6, <2>1, GoFields DEF MarkInv, Fields
  <2>3. Fit(proc[j]) => Fit(proc[j])'
    BY <1>2, <2>2 DEF Fit, Looks, InUpdate
  <2>4. SetsControls(proc[j]) =>
           SetsControls(proc[j])' /\ proc[j].linked \subseteq proc'[j].linked
    BY <1>2, <2>2 DEF SetsControls
  <2>5. QED
    BY <1>2, <1>6, <2>1, <2>3, <2>4, PlainMoveKeeps
<1>7. QED
  BY <1>1, <1>5, <1>6 DEF WriteBootParams

\* what is left of init_ucm runs
LEMMA RunsOn ==
  ASSUME MarkInv, NEW j \in Jobs, NEW change, DOMAIN change = {"pc"}, change.pc = "run",
         Go(j, change), UNCHANGED <<boot, ctl, faults>>
  PROVE  MarkInv'
<1>1. DOMAIN change \subseteq Fields
  BY DEF Fields
<1>2. /\ proc'[j].pc = "run" /\ proc'[j].res = proc[j].res
      /\ proc'[j].restored = proc[j].restored /\ proc'[j].linked = proc[j].linked
  BY <1>1, GoFields DEF MarkInv, Fields
<1>3. Fit(proc[j]) => Fit(proc[j])'
  BY <1>2 DEF Fit, Looks, InUpdate
<1>4. SetsControls(proc[j]) => SetsControls(proc[j])' /\ proc[j].linked \subseteq proc'[j].linked
  BY <1>2 DEF SetsControls, After
<1>5. QED
  BY <1>1, <1>3, <1>4, PlainMoveKeeps

LEMMA UpdateDoneKeeps ==
  ASSUME MarkInv, NEW j \in Jobs, UpdateDone(j)
  PROVE  MarkInv'
<1> DEFINE change == [pc |-> "run"]
<1>1. DOMAIN change = {"pc"} /\ change.pc = "run"
  OBVIOUS
<1>2. /\ \/ proc[j].res = "wait" /\ End(j, "wait")
         \/ Go(j, change)
      /\ UNCHANGED <<boot, ctl, faults>>
  BY DEF UpdateDone, disk
<1> HIDE DEF change
<1>3. CASE proc[j].res = "wait" /\ End(j, "wait")
  BY <1>2, <1>3, EndKeeps DEF SetsControls
<1>4. CASE Go(j, change)
  BY <1>1, <1>2, <1>4, RunsOn
<1>5. QED
  BY <1>2, <1>3, <1>4

LEMMA RunKeeps ==
  ASSUME MarkInv, NEW j \in Jobs, Run(j)
  PROVE  MarkInv'
<1>1. End(j, "ok") /\ UNCHANGED <<boot, ctl, faults>>
  BY DEF Run, disk
<1>2. QED
  BY <1>1, EndKeeps

LEMMA ScanKeeps ==
  ASSUME MarkInv, NEW j \in Jobs, Scan(j)
  PROVE  MarkInv'
<1> DEFINE ends == [pc |-> IF proc[j].changed THEN "drop" ELSE "run"]
<1>1. /\ Go(j, ends) \/ \E new, any : Go(j, [cfg |-> new, changed |-> any])
      /\ proc[j].pc = "scan" /\ UNCHANGED <<boot, ctl, faults>>
  BY DEF Scan, At, disk
<1>2. DOMAIN ends = {"pc"} /\ (ends.pc = "drop" \/ ends.pc = "run")
  OBVIOUS
<1> HIDE DEF ends
<1>3. CASE Go(j, ends) /\ ends.pc = "drop"
  BY <1>1, <1>2, <1>3, LookOn DEF Fields, Looks
<1>4. CASE Go(j, ends) /\ ends.pc = "run"
  BY <1>1, <1>2, <1>4, RunsOn
<1>5. ASSUME NEW new, NEW any, Go(j, [cfg |-> new, changed |-> any]) PROVE MarkInv'
  <2> DEFINE removes == [cfg |-> new, changed |-> any]
  <2>1. DOMAIN removes = {"cfg", "changed"} /\ Go(j, removes)
    BY <1>5
  <2> HIDE DEF removes
  <2>2. QED
    BY <1>1, <2>1, LookOn DEF Fields, Looks
<1>6. QED
  BY <1>1, <1>2, <1>3, <1>4, <1>5

LEMMA SaveDroppedKeeps ==
  ASSUME MarkInv, NEW j \in Jobs, SaveDropped(j)
  PROVE  MarkInv'
<1> DEFINE change == [pc |-> "run"]
<1>1. DOMAIN change = {"pc"} /\ change.pc = "run"
  OBVIOUS
<1>2. Go(j, change) /\ UNCHANGED <<boot, ctl, faults>>
  BY DEF SaveDropped
<1> HIDE DEF change
<1>3. QED
  BY <1>1, <1>2, RunsOn

\* load_state has set the controls of the card and of those linked to it
LEMMA FinishKeeps ==
  ASSUME MarkInv, NEW j \in Jobs, Finish(j)
  PROVE  MarkInv'
<1>1. /\ proc[j].pc = "fin" /\ proc' = [proc EXCEPT ![j] = Idle] /\ UNCHANGED <<boot, faults>>
      /\ ctl' = IF proc[j].res \in {"ok", "err"} THEN ctl \cup {j.card} \cup proc[j].linked
                ELSE ctl
  BY DEF Finish, At, disk
<1>2. Shape' /\ proc'[j] = Idle /\ \A k \in Jobs \ {j} : proc'[k] = proc[k]
  BY <1>1, IdleShape DEF MarkInv, Shape
<1>3. Elements' /\ faults' \in Nat
  BY <1>1 DEF MarkInv, Elements
<1>4. ASSUME faults = 0, NEW k \in Jobs PROVE Fit(proc[k])'
  <2>1. CASE k = j
    <3>1. proc'[k] = Idle
      BY <1>2, <2>1
    <3>2. QED
      BY <3>1, IdleFits DEF Fit
  <2>2. CASE k # j
    BY <1>2, <1>4, <2>2 DEF MarkInv, Fit
  <2>3. QED
    BY <2>1, <2>2
<1>5. ASSUME faults = 0, NEW c \in Cards, Marked(c)' PROVE Covered(c)'
  <2>1. Covered(c)
    BY <1>1, <1>5 DEF MarkInv, Marked
  <2>2. CASE c \in ctl'
    BY <2>2 DEF Covered
  <2>3. CASE c \notin ctl'
    <3>1. PICK k \in Jobs : SetsControls(proc[k]) /\ c \in {k.card} \cup proc[k].linked
      BY <1>1, <2>1, <2>3 DEF Covered
    <3>2. k # j
      BY <1>1, <2>3, <3>1 DEF SetsControls
    <3>3. SetsControls(proc[k])' /\ c \in {k.card} \cup proc'[k].linked
      BY <1>2, <3>1, <3>2 DEF SetsControls
    <3>4. QED
      BY <3>3 DEF Covered
  <2>4. QED
    BY <2>2, <2>3
<1>6. QED
  BY <1>1, <1>2, <1>3, <1>4, <1>5 DEF MarkInv

\* After a fault nothing is claimed.
LEMMA FaultKeeps ==
  ASSUME MarkInv, \/ \E j \in Jobs : Fail(j) \/ Crash(j)
                  \/ \E c \in Cards : Unplug(c)
                  \/ Reboot \/ SetClock
  PROVE  MarkInv'
<1>1. faults' = faults + 1
  BY DEF Fail, Crash, Unplug, Reboot, SetClock, Fault
<1>2. Shape'
  <2>1. ASSUME NEW j \in Jobs, Fail(j) PROVE Shape'
    <3> DEFINE change == [pc |-> "fin", res |-> "err", cfg |-> None]
    <3>1. DOMAIN change = {"pc", "res", "cfg"} /\ Go(j, change)
      BY <2>1 DEF Fail, End
    <3> HIDE DEF change
    <3>2. QED
      BY <3>1, GoFields DEF MarkInv, Fields
  <2>2. ASSUME NEW j \in Jobs, Crash(j) PROVE Shape'
    BY <2>2, IdleShape DEF Crash, MarkInv, Shape
  <2>3. ASSUME Reboot PROVE Shape'
    BY <2>3, IdleShape DEF Reboot, Shape
  <2>4. ASSUME SetClock \/ \E c \in Cards : Unplug(c) PROVE Shape'
    BY <2>4 DEF SetClock, Unplug, MarkInv, Shape
  <2>5. QED
    BY <2>1, <2>2, <2>3, <2>4
<1>3. Elements'
  BY DEF Fail, Crash, Unplug, Reboot, SetClock, disk, MarkInv, Elements
<1>4. QED
  BY <1>1, <1>2, <1>3 DEF MarkInv

LEMMA OthersKeep ==
  ASSUME MarkInv, UNCHANGED <<proc, boot, ctl, faults>>
  PROVE  MarkInv'
<1>1. Shape' /\ Elements' /\ faults' \in Nat
  BY DEF MarkInv, Shape, Elements
<1>2. \A j \in Jobs : Fit(proc[j])' <=> Fit(proc[j])
  BY DEF Fit
<1>3. \A c \in Cards : (Marked(c)' <=> Marked(c)) /\ (Covered(c)' <=> Covered(c))
  BY DEF Marked, Covered, SetsControls
<1>4. QED
  BY <1>1, <1>2, <1>3 DEF MarkInv

LEMMA MarkKept == MarkInv /\ [Next]_vars => MarkInv'
<1> SUFFICES ASSUME MarkInv, [Next]_vars PROVE MarkInv'
  OBVIOUS
<1>1. ASSUME NEW j \in Jobs, Step(j) PROVE MarkInv'
  BY <1>1, StartKeeps, WaitBeginKeeps, WaitTurnKeeps, CardLockKeeps, CheckKeeps, ConfKeeps,
     GroupLockKeeps, RecheckKeeps, LoadKeeps, SaveKeeps, WriteElementKeeps, TellOtherKeeps,
     UpdateDoneKeeps, RunKeeps, ScanKeeps, SaveDroppedKeeps, FinishKeeps DEF Step
<1>2. ASSUME NEW c \in Cards, Plug(c) PROVE MarkInv'
  BY <1>2, OthersKeep DEF Plug, disk
<1>3. CASE Tick
  BY <1>3, OthersKeep DEF Tick, disk
<1>4. CASE UNCHANGED vars
  BY <1>4, OthersKeep DEF vars, disk
<1>5. QED
  BY <1>1, <1>2, <1>3, <1>4, FaultKeeps DEF Next

\* A card marked as restored has its controls, or a process that will set them is on its
\* way: with any number of cards, commands and members, and whatever else has a part in the
\* group (boot_params_update_restored, init_linked_cards, load_state).
THEOREM MarkedIsCovered == Spec => []RestoredIsCovered
<1>1. MarkInv => RestoredIsCovered
  BY DEF MarkInv, RestoredIsCovered, Marked, Covered, SetsControls, After
<1>2. QED
  BY <1>1, MarkStarts, MarkKept, PTL DEF Spec

-----------------------------------------------------------------------------
(***************************************************************************)
(* As long as no command has been cut short and only members are plugged   *)
(* in, the group is rewritten by one process at a time, under the lock.    *)
(* What that process has planned stays right from the load to the save,    *)
(* what it has saved stays in the file until its element is written, and   *)
(* members that have joined have elements no younger than the clock, which *)
(* keeps them in the group when another joins again.  A card may go and    *)
(* come back, the machine reboot and its clock be set meanwhile.           *)
(***************************************************************************)
GroupRec == [primary : Cards, cards : SUBSET Cards, real : Int, mono : Int]
Element == [time : Int, restored : BOOLEAN, primary : Cards]
Inside == {"recheck", "load", "save", "elem", "others", "run"}

GroupTypeOK ==
    /\ group \in {None} \cup GroupRec /\ (group # None => group.primary \in group.cards)
    /\ boot \in [Cards -> {None} \cup Element]
    /\ now \in Int /\ offset \in Int

LockHeld == \A j \in Jobs : proc[j].pc \in Inside => grouplock = j

Plugged ==
    /\ \A j \in Jobs : /\ proc[j].pc # "idle" \/ j \in pending => j.card \in present
                       /\ proc[j].pc \notin {"scan", "drop"}
    /\ \A c \in Cards : boot[c] # None => c \in present

\* what a process knows of its card when it comes to the update
Known ==
    \A j \in Jobs :
        /\ proc[j].valid \in BOOLEAN /\ proc[j].restored \in BOOLEAN
        /\ proc[j].pc = "idle" => proc[j].valid = FALSE
        /\ proc[j].valid = TRUE => boot[j.card] # None
        /\ proc[j].pc = "glock" => proc[j].valid = TRUE
        /\ proc[j].pc = "load" /\ proc[j].valid = FALSE => boot[j.card] = None \/ ~Listed(j.card)

\* The group that a process is about to save is the one in the file, with all that have
\* joined, or a new one of its card.
Plan(j, cfg) ==
    /\ cfg \in GroupRec /\ cfg.primary \in cfg.cards /\ j.card \in cfg.cards
    /\ \A c \in Cards : Joined(c) => c \in cfg.cards
    /\ \/ /\ group # None /\ cfg.primary = group.primary /\ cfg.mono = group.mono
          /\ cfg.cards \subseteq group.cards \cup {j.card}
          /\ group.primary = j.card => boot[j.card] # None
       \/ cfg.primary = j.card /\ cfg.cards = {j.card} /\ cfg.mono <= Mono
Planned == \A j \in Jobs : proc[j].pc = "save" => Plan(j, proc[j].cfg)

Saved ==
    \A j \in Jobs : proc[j].pc = "elem" =>
        /\ group = proc[j].cfg /\ group # None /\ j.card \in group.cards
        /\ group.primary = j.card =>
              group.mono <= Mono /\ (boot[j.card] = None => group.cards = {j.card})

\* no process of the card is between the save and the write of its element
Settled(c) == \A j \in Jobs : j.card = c => proc[j].pc # "elem"
Timely ==
    /\ \A c \in Cards : Joined(c) /\ Settled(c) => boot[c].time <= Mono
    /\ group # None /\ boot[group.primary] # None => group.mono <= Mono

Agreed ==
    \A c \in Cards :
        boot[c] # None /\ Listed(c) /\ boot[c].time = group.mono /\ Settled(c) =>
            boot[c].primary = group.primary

CalmInv == /\ GroupTypeOK /\ LockHeld /\ Plugged /\ Known /\ Planned /\ Saved
           /\ Timely /\ Agreed

LEMMA CalmStarts == Init => CalmInv
<1> SUFFICES ASSUME Init PROVE CalmInv
  OBVIOUS
<1>1. /\ boot = [c \in Cards |-> None] /\ proc = [j \in Jobs |-> Idle] /\ present = {}
      /\ pending = {} /\ now = 3 /\ offset \in {RealAtBoot + phase : phase \in Phases}
      /\ group \in {None} \cup {[primary |-> old.primary, cards |-> old.cards,
                                real |-> 1, mono |-> 50] : old \in Stale}
  BY DEF Init, First
<1>2. GroupTypeOK
  <2>1. ASSUME NEW old \in Stale, group = [primary |-> old.primary, cards |-> old.cards,
                                           real |-> 1, mono |-> 50]
        PROVE  group \in GroupRec /\ group.primary \in group.cards
    <3>1. old.cards \subseteq Cards /\ old.primary \in old.cards
      BY BootAssumption
    <3>2. QED
      BY <2>1, <3>1 DEF GroupRec
  <2>2. offset \in Int
    <3>1. \A phase \in Phases : RealAtBoot + phase \in Int
      BY BootAssumption DEF RealAtBoot
    <3>2. QED
      BY <1>1, <3>1
  <2>3. QED
    BY <1>1, <2>1, <2>2 DEF GroupTypeOK
<1>3. \A j \in Jobs : proc[j] = Idle
  BY <1>1
<1>4. Idle.pc = "idle" /\ Idle.valid = FALSE /\ Idle.restored = FALSE
  BY DEF Idle
<1>5. LockHeld /\ Plugged /\ Known /\ Planned /\ Saved
  BY <1>1, <1>3, <1>4 DEF LockHeld, Plugged, Known, Planned, Saved, Inside
<1>6. Timely /\ Agreed
  <2>1. \A c \in Cards : boot[c] = None
    BY <1>1
  <2>2. group # None => group.primary \in Cards
    BY <1>2 DEF GroupTypeOK, GroupRec
  <2>3. QED
    BY <2>1, <2>2 DEF Timely, Agreed, Joined
<1>7. QED
  BY <1>2, <1>5, <1>6 DEF CalmInv

\* the world stays as it is
LEMMA SameWorld ==
  ASSUME UNCHANGED <<group, boot, clocks>>
  PROVE  /\ Mono' = Mono
         /\ \A c \in Cards : (Joined(c)' <=> Joined(c)) /\ (Listed(c)' <=> Listed(c))
<1>1. Mono' = Mono
  BY DEF clocks, Mono
<1>2. \A c \in Cards : (Joined(c)' <=> Joined(c)) /\ (Listed(c)' <=> Listed(c))
  BY DEF Joined, Listed, HasCard, Primary
<1>3. QED
  BY <1>1, <1>2

\* a step of one process that changes neither the group nor an element
LEMMA CalmMove ==
  ASSUME CalmInv, NEW j \in Jobs, UNCHANGED <<group, boot, clocks, present>>,
         \A k \in Jobs \ {j} : proc'[k] = proc[k],
         \A k \in pending' : k \in pending \/ k.card \in present,
         \A k \in Jobs : proc'[k].pc \in Inside => grouplock' = k,
         proc'[j].pc # "idle" => j.card \in present,
         proc[j].pc # "elem", proc'[j].pc \notin {"scan", "drop", "elem"},
         proc'[j].valid \in BOOLEAN, proc'[j].valid = TRUE => boot[j.card] # None,
         proc'[j].restored \in BOOLEAN, proc'[j].pc = "idle" => proc'[j].valid = FALSE,
         proc'[j].pc = "glock" => proc'[j].valid = TRUE,
         proc'[j].pc = "load" /\ proc'[j].valid = FALSE => boot[j.card] = None \/ ~Listed(j.card),
         proc'[j].pc = "save" => Plan(j, proc'[j].cfg)
  PROVE  CalmInv'
<1>1. GroupTypeOK'
  BY DEF CalmInv, GroupTypeOK, clocks
<1>2. LockHeld'
  BY DEF LockHeld
<1>3. Plugged'
  BY DEF CalmInv, Plugged
<1>4. Known'
  <2>1. \A k \in Jobs : Listed(k.card)' <=> Listed(k.card)
    BY SameWorld DEF Jobs
  <2>2. QED
    BY <2>1 DEF CalmInv, Known
<1>5. Planned'
  <2> SUFFICES ASSUME NEW k \in Jobs, proc'[k].pc = "save" PROVE Plan(k, proc[k].cfg)'
    BY DEF Planned
  <2> DEFINE cfg == proc'[k].cfg
  <2>1. Plan(k, cfg)
    BY DEF CalmInv, Planned
  <2>2. Mono' = Mono /\ \A c \in Cards : Joined(c)' <=> Joined(c)
    BY SameWorld
  <2>3. QED
    BY <2>1, <2>2 DEF Plan
<1>6. Saved'
  BY SameWorld DEF CalmInv, Saved
<1>7. \A c \in Cards : Settled(c)' <=> Settled(c)
  BY DEF Settled
<1>8. Timely'
  BY <1>7, SameWorld DEF CalmInv, Timely
<1>9. Agreed'
  BY <1>7, SameWorld DEF CalmInv, Agreed
<1>10. QED
  BY <1>1, <1>2, <1>3, <1>4, <1>5, <1>6, <1>8, <1>9 DEF CalmInv

\* a step that neither takes nor gives the lock, to a place that claims nothing
LEMMA CalmGoes ==
  ASSUME Shape, CalmInv, NEW j \in Jobs, NEW change, DOMAIN change \subseteq Fields,
         Go(j, change), UNCHANGED <<group, boot, clocks, present, grouplock>>,
         pending' \subseteq pending, proc[j].pc # "idle" \/ j \in pending,
         proc[j].pc \notin {"elem", "load", "save", "glock"}, "restored" \notin DOMAIN change,
         proc[j].pc = "idle" => "pc" \in DOMAIN change,
         "pc" \in DOMAIN change =>
            /\ change.pc \notin {"idle", "scan", "drop", "recheck", "load", "save", "elem"}
            /\ change.pc \in Inside => proc[j].pc \in Inside
            /\ change.pc = "glock" => "valid" \in DOMAIN change,
         "valid" \in DOMAIN change => change.valid = TRUE /\ boot[j.card] # None
  PROVE  CalmInv'
<1> DEFINE p == proc'[j]
<1>1. /\ \A k \in Jobs \ {j} : proc'[k] = proc[k]
      /\ p.pc = IF "pc" \in DOMAIN change THEN change.pc ELSE proc[j].pc
      /\ p.valid = IF "valid" \in DOMAIN change THEN change.valid ELSE proc[j].valid
      /\ p.restored = proc[j].restored
  BY GoFields DEF Fields
<1>2. /\ j.card \in present /\ proc[j].pc \notin {"scan", "drop"}
      /\ proc[j].valid \in BOOLEAN /\ (proc[j].valid = TRUE => boot[j.card] # None)
      /\ proc[j].restored \in BOOLEAN
      /\ \A k \in Jobs : proc[k].pc \in Inside => grouplock = k
  BY DEF CalmInv, Plugged, Known, LockHeld
<1> HIDE DEF p
<1>3. /\ p.pc \notin {"idle", "scan", "drop", "elem", "load", "save"}
      /\ p.pc \in Inside => proc[j].pc \in Inside
  BY <1>1, <1>2
<1>4. p.valid \in BOOLEAN /\ (p.valid = TRUE => boot[j.card] # None)
      /\ (p.pc = "glock" => p.valid = TRUE) /\ p.restored \in BOOLEAN
  BY <1>1, <1>2
<1>5. \A k \in Jobs : proc'[k].pc \in Inside => grouplock' = k
  BY <1>1, <1>2, <1>3 DEF p
<1>6. QED
  BY <1>1, <1>2, <1>3, <1>4, <1>5, CalmMove DEF p

LEMMA CalmEnds ==
  ASSUME Shape, CalmInv, NEW j \in Jobs, NEW res, End(j, res),
         UNCHANGED <<group, boot, clocks, present, pending>>, proc[j].pc \notin {"idle", "elem"}
  PROVE  CalmInv'
<1> DEFINE change == [pc |-> "fin", res |-> res, cfg |-> None]
<1>1. DOMAIN change = {"pc", "res", "cfg"} /\ change.pc = "fin" /\ Go(j, change)
  BY DEF End
<1> HIDE DEF change
<1>2. /\ \A k \in Jobs \ {j} : proc'[k] = proc[k]
      /\ proc'[j].pc = "fin" /\ proc'[j].valid = proc[j].valid
      /\ proc'[j].restored = proc[j].restored
  BY <1>1, GoFields DEF Fields
<1>3. /\ j.card \in present /\ proc[j].valid \in BOOLEAN /\ proc[j].restored \in BOOLEAN
      /\ proc[j].valid = TRUE => boot[j.card] # None
  BY DEF CalmInv, Plugged, Known
<1>4. \A k \in Jobs : proc'[k].pc \in Inside => grouplock' = k
  <2> SUFFICES ASSUME NEW k \in Jobs, proc'[k].pc \in Inside PROVE grouplock' = k
    OBVIOUS
  <2>1. k # j
    BY <1>2 DEF Inside
  <2>2. grouplock = k
    BY <1>2, <2>1 DEF CalmInv, LockHeld
  <2>3. QED
    BY <2>1, <2>2 DEF End
<1>5. QED
  BY <1>2, <1>3, <1>4, CalmMove

LEMMA StartCalm ==
  ASSUME Shape, CalmInv, NEW j \in Jobs, Start(j)
  PROVE  CalmInv'
<1> DEFINE change == [pc |-> IF j.cmd = "wait" THEN "wait" ELSE "card"]
<1>1. /\ Go(j, change) /\ proc[j].pc = "idle" /\ j \in pending /\ pending' \subseteq pending
      /\ UNCHANGED <<group, boot, clocks, present, grouplock>>
  BY DEF Start, At, disk, locks
<1>2. DOMAIN change = {"pc"} /\ (change.pc = "wait" \/ change.pc = "card")
  OBVIOUS
<1> HIDE DEF change
<1>3. QED
  BY <1>1, <1>2, CalmGoes DEF Fields, Inside

LEMMA WaitCalm ==
  ASSUME Shape, CalmInv, NEW j \in Jobs, WaitBegin(j) \/ WaitTurn(j)
  PROVE  CalmInv'
<1> DEFINE waits == [pc |-> "waiting", start |-> Mono, wake |-> now, seen |-> boot[j.card]]
           goes  == [pc |-> "card"]
<1>1. /\ Go(j, waits) \/ Go(j, goes) \/ \E w, b : Go(j, [wake |-> w, seen |-> b])
      /\ proc[j].pc = "wait" \/ proc[j].pc = "waiting"
      /\ UNCHANGED <<group, boot, clocks, present, grouplock, pending>>
  BY DEF WaitBegin, WaitTurn, At, disk, locks
<1>2. DOMAIN waits = {"pc", "start", "wake", "seen"} /\ waits.pc = "waiting"
  OBVIOUS
<1>3. DOMAIN goes = {"pc"} /\ goes.pc = "card"
  OBVIOUS
<1> HIDE DEF waits, goes
<1>4. CASE Go(j, waits)
  BY <1>1, <1>2, <1>4, CalmGoes DEF Fields, Inside
<1>5. CASE Go(j, goes)
  BY <1>1, <1>3, <1>5, CalmGoes DEF Fields, Inside
<1>6. ASSUME NEW w, NEW b, Go(j, [wake |-> w, seen |-> b]) PROVE CalmInv'
  <2> DEFINE again == [wake |-> w, seen |-> b]
  <2>1. DOMAIN again = {"wake", "seen"} /\ Go(j, again)
    BY <1>6
  <2> HIDE DEF again
  <2>2. QED
    BY <1>1, <2>1, CalmGoes DEF Fields, Inside
<1>7. QED
  BY <1>1, <1>4, <1>5, <1>6

LEMMA CardLockCalm ==
  ASSUME Shape, CalmInv, NEW j \in Jobs, CardLock(j)
  PROVE  CalmInv'
<1> DEFINE change == [pc |-> "check"]
<1>1. /\ Go(j, change) /\ proc[j].pc = "card"
      /\ UNCHANGED <<group, boot, clocks, present, grouplock, pending>>
  BY DEF CardLock, At, disk, locks
<1>2. DOMAIN change = {"pc"} /\ change.pc = "check"
  OBVIOUS
<1> HIDE DEF change
<1>3. QED
  BY <1>1, <1>2, CalmGoes DEF Fields, Inside

LEMMA CheckCalm ==
  ASSUME Shape, CalmInv, NEW j \in Jobs, Check(j)
  PROVE  CalmInv'
<1> DEFINE known == [pc |-> "glock", valid |-> TRUE]
           asks  == [pc |-> "conf"]
<1>1. /\ \/ Go(j, asks) /\ UNCHANGED grouplock
         \/ Go(j, known) /\ boot[j.card] # None /\ UNCHANGED grouplock
         \/ \E res \in {"skip", "wait", "restored"} : End(j, res)
      /\ proc[j].pc = "check" /\ UNCHANGED <<group, boot, clocks, present, pending>>
  BY DEF Check, Verdict, Valid, At, disk, locks
<1>2. DOMAIN known = {"pc", "valid"} /\ known.pc = "glock" /\ known.valid = TRUE
  OBVIOUS
<1>3. DOMAIN asks = {"pc"} /\ asks.pc = "conf"
  OBVIOUS
<1> HIDE DEF known, asks
<1>4. CASE Go(j, asks) /\ UNCHANGED grouplock
  BY <1>1, <1>3, <1>4, CalmGoes DEF Fields, Inside
<1>5. CASE Go(j, known) /\ boot[j.card] # None /\ UNCHANGED grouplock
  BY <1>1, <1>2, <1>5, CalmGoes DEF Fields, Inside
<1>6. CASE \E res \in {"skip", "wait", "restored"} : End(j, res)
  BY <1>1, <1>6, CalmEnds
<1>7. QED
  BY <1>1, <1>4, <1>5, <1>6

LEMMA ConfCalm ==
  ASSUME Shape, CalmInv, present \subseteq Members, NEW j \in Jobs, Conf(j)
  PROVE  CalmInv'
<1> DEFINE change == [pc |-> "glock2"]
<1>1. proc[j].pc = "conf" /\ UNCHANGED <<group, boot, clocks, present, grouplock, pending>>
  BY DEF Conf, At, disk, locks
<1>2. j.card \in Members
  BY <1>1 DEF CalmInv, Plugged
<1>3. Go(j, change)
  BY <1>2 DEF Conf
<1>4. DOMAIN change = {"pc"} /\ change.pc = "glock2"
  OBVIOUS
<1> HIDE DEF change
<1>5. QED
  BY <1>1, <1>3, <1>4, CalmGoes DEF Fields, Inside

LEMMA NobodyIsNoJob == None \notin Jobs
<1> SUFFICES ASSUME None \in Jobs PROVE FALSE
  OBVIOUS
<1>1. DOMAIN None = {"card", "cmd"}
  BY DEF Jobs
<1>2. DOMAIN None = {"none"}
  BY DEF None
<1>3. QED
  BY <1>1, <1>2

LEMMA GroupLockCalm ==
  ASSUME Shape, CalmInv, NEW j \in Jobs, GroupLock(j)
  PROVE  CalmInv'
<1> DEFINE marks == [pc |-> "load", restored |-> TRUE]
           looks == [pc |-> "recheck"]
<1>1. /\ \/ Go(j, marks) /\ proc[j].pc = "glock"
         \/ Go(j, looks) /\ proc[j].pc = "glock2"
      /\ UNCHANGED <<group, boot, clocks, present, pending>>
      /\ grouplock = None /\ grouplock' = j
  BY DEF GroupLock, At, disk
<1>2. DOMAIN marks = {"pc", "restored"} /\ marks.pc = "load" /\ marks.restored = TRUE
  OBVIOUS
<1>3. DOMAIN looks = {"pc"} /\ looks.pc = "recheck"
  OBVIOUS
<1> HIDE DEF marks, looks
<1>4. /\ \A k \in Jobs \ {j} : proc'[k] = proc[k]
      /\ proc'[j].valid = proc[j].valid
      /\ proc'[j].restored = TRUE \/ proc'[j].restored = proc[j].restored
      /\ \/ proc'[j].pc = "load" /\ proc[j].pc = "glock"
         \/ proc'[j].pc = "recheck" /\ proc[j].pc = "glock2"
  <2>1. CASE Go(j, marks) /\ proc[j].pc = "glock"
    BY <1>2, <2>1, GoFields DEF Fields
  <2>2. CASE Go(j, looks) /\ proc[j].pc = "glock2"
    BY <1>3, <2>2, GoFields DEF Fields
  <2>3. QED
    BY <1>1, <2>1, <2>2
<1>5. /\ j.card \in present /\ proc[j].valid \in BOOLEAN /\ proc[j].restored \in BOOLEAN
      /\ proc[j].valid = TRUE => boot[j.card] # None
      /\ proc[j].pc = "glock" => proc[j].valid = TRUE
  BY <1>1 DEF CalmInv, Plugged, Known
<1>6. \A k \in Jobs : proc'[k].pc \in Inside => grouplock' = k
  BY <1>1, <1>4, NobodyIsNoJob DEF CalmInv, LockHeld
<1>7. QED
  BY <1>1, <1>4, <1>5, <1>6, CalmMove

\* the test of the two clocks lets every group pass (boot_params.c:642)
LEMMA ValidIsKnown ==
  ASSUME CalmInv, NEW c \in Cards
  PROVE  Valid(c) <=> boot[c] # None /\ Listed(c)
<1>1. Listed(c) => Drift \in Int
  <2> SUFFICES ASSUME Listed(c) PROVE Drift \in Int
    OBVIOUS
  <2>1. group.real \in Int /\ group.mono \in Int /\ now \in Int /\ offset \in Int
    BY DEF CalmInv, GroupTypeOK, GroupRec, Listed
  <2>2. Real \in Int /\ Mono \in Int
    BY <2>1 DEF Real, Mono
  <2>3. QED
    BY <2>1, <2>2 DEF Drift
<1>2. Listed(c) => Drift < 30 \/ Drift > -30
  BY <1>1
<1>3. QED
  BY <1>2 DEF Valid

LEMMA RecheckCalm ==
  ASSUME Shape, CalmInv, NEW j \in Jobs, Recheck(j)
  PROVE  CalmInv'
<1> DEFINE joins == [pc |-> "load", res |-> "wait"]
           marks == [pc |-> "load", valid |-> TRUE, restored |-> TRUE]
<1>1. /\ \/ Go(j, joins) /\ ~Valid(j.card) /\ UNCHANGED grouplock
         \/ Go(j, marks) /\ Valid(j.card) /\ UNCHANGED grouplock
         \/ \E res \in {"err", "skip", "wait", "restored"} : End(j, res)
      /\ proc[j].pc = "recheck" /\ UNCHANGED <<group, boot, clocks, present, pending>>
  BY DEF Recheck, Verdict, At, disk
<1>2. DOMAIN joins = {"pc", "res"} /\ joins.pc = "load"
  OBVIOUS
<1>3. DOMAIN marks = {"pc", "valid", "restored"} /\ marks.pc = "load" /\ marks.valid = TRUE
      /\ marks.restored = TRUE
  OBVIOUS
<1> HIDE DEF joins, marks
<1>4. Valid(j.card) <=> boot[j.card] # None /\ Listed(j.card)
  BY ValidIsKnown DEF Jobs
<1>5. /\ j.card \in present /\ grouplock = j
      /\ proc[j].valid \in BOOLEAN /\ proc[j].restored \in BOOLEAN
      /\ proc[j].valid = TRUE => boot[j.card] # None
  BY <1>1 DEF CalmInv, Plugged, Known, LockHeld, Inside
<1>6. ASSUME UNCHANGED grouplock, \A k \in Jobs \ {j} : proc'[k] = proc[k]
      PROVE  \A k \in Jobs : proc'[k].pc \in Inside => grouplock' = k
  BY <1>5, <1>6 DEF CalmInv, LockHeld
<1>7. CASE Go(j, joins) /\ ~Valid(j.card) /\ UNCHANGED grouplock
  <2>1. /\ \A k \in Jobs \ {j} : proc'[k] = proc[k]
        /\ proc'[j].pc = "load" /\ proc'[j].valid = proc[j].valid
        /\ proc'[j].restored = proc[j].restored
    BY <1>2, <1>7, GoFields DEF Fields
  <2>2. \A k \in Jobs : proc'[k].pc \in Inside => grouplock' = k
    BY <1>6, <1>7, <2>1
  <2>3. QED
    BY <1>1, <1>4, <1>5, <1>7, <2>1, <2>2, CalmMove
<1>8. CASE Go(j, marks) /\ Valid(j.card) /\ UNCHANGED grouplock
  <2>1. /\ \A k \in Jobs \ {j} : proc'[k] = proc[k]
        /\ proc'[j].pc = "load" /\ proc'[j].valid = TRUE /\ proc'[j].restored = TRUE
    BY <1>3, <1>8, GoFields DEF Fields
  <2>2. \A k \in Jobs : proc'[k].pc \in Inside => grouplock' = k
    BY <1>6, <1>8, <2>1
  <2>3. QED
    BY <1>1, <1>4, <1>5, <1>8, <2>1, <2>2, CalmMove
<1>9. CASE \E res \in {"err", "skip", "wait", "restored"} : End(j, res)
  BY <1>1, <1>9, CalmEnds
<1>10. QED
  BY <1>1, <1>7, <1>8, <1>9

-----------------------------------------------------------------------------
LEMMA Clocks ==
  ASSUME CalmInv
  PROVE  Mono \in Int /\ Real \in Int
<1>1. now \in Int /\ offset \in Int
  BY DEF CalmInv, GroupTypeOK
<1>2. QED
  BY <1>1 DEF Mono, Real

\* a group of one card
LEMMA NewPlan ==
  ASSUME CalmInv, NEW j \in Jobs, \A c \in Cards : ~Joined(c)
  PROVE  Plan(j, NewGroup(j.card))
<1>1. j.card \in Cards
  BY DEF Jobs
<1>2. NewGroup(j.card) \in GroupRec
  BY <1>1, Clocks DEF NewGroup, GroupRec
<1>3. /\ NewGroup(j.card).primary = j.card /\ NewGroup(j.card).cards = {j.card}
      /\ NewGroup(j.card).mono = Mono
  BY DEF NewGroup
<1>4. QED
  BY <1>2, <1>3, Clocks DEF Plan

\* the group with another card
LEMMA JoinPlan ==
  ASSUME CalmInv, NEW j \in Jobs, group # None, NEW g \in GroupRec,
         g.primary = group.primary, g.mono = group.mono, g.primary \in g.cards,
         g.cards \subseteq group.cards, \A c \in Cards : Joined(c) => c \in g.cards \cup {j.card},
         group.primary = j.card => boot[j.card] # None
  PROVE  Plan(j, AddCard(g, j.card))
<1>1. j.card \in Cards
  BY DEF Jobs
<1>2. /\ AddCard(g, j.card) \in GroupRec
      /\ AddCard(g, j.card).primary = g.primary /\ AddCard(g, j.card).mono = g.mono
      /\ AddCard(g, j.card).cards = g.cards \cup {j.card}
  BY <1>1 DEF AddCard, GroupRec
<1>3. QED
  BY <1>2 DEF Plan

\* who has joined is still alive when the group is loaded
LEMMA JoinedIsAlive ==
  ASSUME CalmInv, NEW c \in Cards, Joined(c), Settled(c)
  PROVE  c \in present /\ ValidBootTime(c, 0)
<1>1. boot[c] # None /\ boot[c] \in Element /\ boot[c].time <= Mono /\ c \in present
  BY DEF CalmInv, GroupTypeOK, Timely, Plugged, Joined
<1>2. boot[c].time \in Int
  BY <1>1 DEF Element
<1>3. QED
  BY <1>1, <1>2, Clocks DEF ValidBootTime

LEMMA PrimaryHasJoined ==
  ASSUME CalmInv, NEW c \in Cards, Joined(c)
  PROVE  group # None /\ group.primary \in Cards /\ Joined(group.primary)
BY DEF CalmInv, GroupTypeOK, GroupRec, Joined, Listed, HasCard, Primary

LEMMA LoadPlans ==
  ASSUME CalmInv, NEW j \in Jobs, proc[j].pc = "load"
  PROVE  Plan(j, Updated(group, j.card, proc[j].valid))
<1> DEFINE c == j.card
           g == group
           v == proc[j].valid
<1>1. c \in Cards
  BY DEF Jobs
<1>2. /\ v \in BOOLEAN /\ (v = TRUE => boot[c] # None)
      /\ v = FALSE => boot[c] = None \/ ~Listed(c)
  BY DEF CalmInv, Known
<1>3. \A d \in Cards : Settled(d)
  <2>1. grouplock = j
    BY DEF CalmInv, LockHeld, Inside
  <2>2. \A k \in Jobs : proc[k].pc = "elem" => grouplock = k
    BY DEF CalmInv, LockHeld, Inside
  <2>3. QED
    BY <2>1, <2>2 DEF Settled
<1>4. g # None => g \in GroupRec /\ g.primary \in g.cards
  BY DEF CalmInv, GroupTypeOK
<1>5. \A d \in Cards : Joined(d) => g # None /\ d \in g.cards
  BY DEF Joined, Listed, HasCard
<1>6. CASE g = None
  <2>1. Updated(g, c, v) = NewGroup(c)
    BY <1>2, <1>6 DEF Updated
  <2>2. QED
    BY <1>5, <1>6, <2>1, NewPlan
<1>7. CASE g # None /\ v = TRUE
  <2>1. Updated(g, c, v) = AddCard(g, c)
    BY <1>7 DEF Updated
  <2>2. QED
    BY <1>2, <1>4, <1>5, <1>7, <2>1, JoinPlan
<1>8. CASE g # None /\ v = FALSE /\ c \notin g.cards
  <2>1. Updated(g, c, v) = AddCard(g, c)
    BY <1>4, <1>8 DEF Updated, RemoveCard, HasCard, Primary
  <2>2. QED
    BY <1>4, <1>5, <1>8, <2>1, JoinPlan
<1>9. CASE g # None /\ v = FALSE /\ c \in g.cards
  <2> DEFINE alive == {d \in present : ValidBootTime(d, 0)}
  <2>1. boot[c] = None
    BY <1>2, <1>9 DEF Listed, HasCard
  <2>2. \A d \in Cards : Joined(d) => d \in alive \ {c}
    BY <1>3, <2>1, JoinedIsAlive DEF Joined
  <2>3. CASE g.primary \notin alive \ {c}
    <3>1. RemoveCard(g, c) = None
      BY <1>9, <2>3 DEF RemoveCard, HasCard, Primary
    <3>2. Updated(g, c, v) = NewGroup(c)
      BY <1>9, <3>1 DEF Updated
    <3>3. \A d \in Cards : ~Joined(d)
      BY <2>2, <2>3, PrimaryHasJoined
    <3>4. QED
      BY <3>2, <3>3, NewPlan
  <2>4. CASE g.primary \in alive \ {c}
    <3> DEFINE kept == [g EXCEPT !.cards = @ \cap (alive \ {c})]
    <3>1. RemoveCard(g, c) = kept
      BY <1>9, <2>4 DEF RemoveCard, HasCard, Primary
    <3>2. /\ kept \in GroupRec /\ kept.primary = g.primary /\ kept.mono = g.mono
          /\ kept.cards = g.cards \cap (alive \ {c})
      BY <1>4, <1>9 DEF GroupRec
    <3>3. kept # None
      <4>1. DOMAIN kept = {"primary", "cards", "real", "mono"}
        BY <3>2 DEF GroupRec
      <4>2. DOMAIN None = {"none"}
        BY DEF None
      <4>3. QED
        BY <4>1, <4>2
    <3> HIDE DEF kept, alive
    <3>4. Updated(g, c, v) = AddCard(kept, c)
      BY <1>9, <2>4, <3>1, <3>2, <3>3 DEF Updated, Primary
    <3>5. \A d \in Cards : Joined(d) => d \in kept.cards \cup {c}
      BY <1>5, <2>2, <3>2
    <3>6. kept.primary \in kept.cards /\ kept.cards \subseteq g.cards /\ g.primary # c
      BY <1>4, <1>9, <2>4, <3>2
    <3>7. QED
      BY <1>9, <3>2, <3>4, <3>5, <3>6, JoinPlan
  <2>5. QED
    BY <2>3, <2>4
<1>10. QED
  BY <1>2, <1>6, <1>7, <1>8, <1>9

LEMMA LoadCalm ==
  ASSUME Shape, CalmInv, NEW j \in Jobs, Load(j)
  PROVE  CalmInv'
<1> DEFINE cfg == Updated(group, j.card, proc[j].valid)
           change == [pc |-> "save", cfg |-> cfg]
<1>1. /\ Go(j, change) /\ proc[j].pc = "load"
      /\ UNCHANGED <<group, boot, clocks, present, grouplock, pending>>
  BY DEF Load, At, disk, locks
<1>2. Plan(j, cfg)
  BY <1>1, LoadPlans
<1> HIDE DEF cfg
<1>3. DOMAIN change = {"pc", "cfg"} /\ change.pc = "save" /\ change.cfg = cfg
  OBVIOUS
<1> HIDE DEF change
<1>4. /\ \A k \in Jobs \ {j} : proc'[k] = proc[k]
      /\ proc'[j].pc = "save" /\ proc'[j].valid = proc[j].valid /\ proc'[j].cfg = cfg
      /\ proc'[j].restored = proc[j].restored
  BY <1>1, <1>3, GoFields DEF Fields
<1>5. /\ j.card \in present /\ proc[j].valid \in BOOLEAN /\ proc[j].restored \in BOOLEAN
      /\ proc[j].valid = TRUE => boot[j.card] # None
  BY <1>1 DEF CalmInv, Plugged, Known
<1>6. \A k \in Jobs : proc'[k].pc \in Inside => grouplock' = k
  BY <1>1, <1>4 DEF CalmInv, LockHeld, Inside
<1>7. QED
  BY <1>1, <1>2, <1>4, <1>5, <1>6, CalmMove

\* whoever is inside the lock is alone there
LEMMA Alone ==
  ASSUME CalmInv, NEW j \in Jobs, proc[j].pc \in Inside
  PROVE  /\ grouplock = j
         /\ \A k \in Jobs \ {j} : proc[k].pc \notin Inside
BY DEF CalmInv, LockHeld

LEMMA NoneIsNoGroup == None \notin GroupRec /\ None \notin Element
<1>1. DOMAIN None = {"none"}
  BY DEF None
<1>2. \A g \in GroupRec : DOMAIN g = {"primary", "cards", "real", "mono"}
  BY DEF GroupRec
<1>3. \A e \in Element : DOMAIN e = {"time", "restored", "primary"}
  BY DEF Element
<1>4. QED
  BY <1>1, <1>2, <1>3

LEMMA SaveCalm ==
  ASSUME Shape, CalmInv, NEW j \in Jobs, Save(j)
  PROVE  /\ CalmInv'
         /\ \A c \in Cards : Joined(c) => Listed(c)'
<1> DEFINE cfg == proc[j].cfg
           change == [pc |-> "elem"]
<1>1. /\ Go(j, change) /\ proc[j].pc = "save" /\ group' = cfg
      /\ UNCHANGED <<boot, clocks, present, grouplock, pending>>
  BY DEF Save, SaveGroup, At, locks
<1>2. DOMAIN change = {"pc"} /\ change.pc = "elem"
  OBVIOUS
<1> HIDE DEF change
<1>3. /\ \A k \in Jobs \ {j} : proc'[k] = proc[k]
      /\ proc'[j].pc = "elem" /\ proc'[j].valid = proc[j].valid /\ proc'[j].cfg = cfg
      /\ proc'[j].restored = proc[j].restored
  BY <1>1, <1>2, GoFields DEF Fields
<1>4. Plan(j, cfg)
  BY <1>1 DEF CalmInv, Planned
<1>5. \A k \in Jobs \ {j} : proc[k].pc \notin Inside
  BY <1>1, Alone DEF Inside
<1>6. /\ cfg \in GroupRec /\ cfg # None /\ cfg.primary \in cfg.cards
      /\ j.card \in cfg.cards
  BY <1>4, NoneIsNoGroup DEF Plan
<1> HIDE DEF cfg
<1>7. Mono' = Mono
  BY <1>1 DEF Mono, clocks
<1>8. \A c \in Cards : Settled(c)
  BY <1>1, <1>5 DEF Settled, Inside
<1>9. ASSUME NEW c \in Cards, c # j.card, Listed(c)'
      PROVE  /\ group # None /\ Listed(c)
             /\ cfg.primary = group.primary /\ cfg.mono = group.mono
  BY <1>1, <1>4, <1>9 DEF Plan, Listed, HasCard
<1>10. GroupTypeOK'
  BY <1>1, <1>6 DEF CalmInv, GroupTypeOK, clocks
<1>11. LockHeld'
  BY <1>1, <1>3, <1>5 DEF LockHeld, CalmInv, Inside
<1>12. Plugged'
  BY <1>1, <1>3 DEF CalmInv, Plugged
<1>13. Known'
  BY <1>1, <1>3, <1>5 DEF CalmInv, Known, Inside
<1>14. Planned'
  BY <1>3, <1>5 DEF Planned, Inside
<1>15. Saved'
  <2>1. \A k \in Jobs : proc'[k].pc = "elem" => k = j
    BY <1>3, <1>5 DEF Inside
  <2>2. cfg.primary = j.card => cfg.mono <= Mono /\ (boot[j.card] = None => cfg.cards = {j.card})
    BY <1>4 DEF Plan, CalmInv, Timely
  <2>3. QED
    BY <1>1, <1>3, <1>6, <1>7, <2>1, <2>2 DEF Saved
<1>16. Timely'
  <2>1. ASSUME NEW c \in Cards, Joined(c)', Settled(c)' PROVE boot'[c].time <= Mono'
    <3>1. c # j.card
      BY <1>3, <2>1 DEF Settled
    <3>2. Listed(c)' /\ boot[c] # None /\ boot[cfg.primary] # None
      BY <1>1, <2>1 DEF Joined, Primary
    <3>3. Joined(c)
      BY <1>9, <3>1, <3>2 DEF Joined, Primary
    <3>4. QED
      BY <1>1, <1>7, <1>8, <3>3 DEF CalmInv, Timely
  <2>2. ASSUME boot[cfg.primary] # None PROVE cfg.mono <= Mono
    BY <1>4, <2>2 DEF Plan, CalmInv, Timely
  <2>3. QED
    BY <1>1, <1>7, <2>1, <2>2 DEF Timely
<1>17. Agreed'
  <2> SUFFICES ASSUME NEW c \in Cards, boot'[c] # None, Listed(c)', boot'[c].time = group'.mono,
                      Settled(c)'
               PROVE  boot'[c].primary = group'.primary
    BY DEF Agreed
  <2>1. c # j.card
    BY <1>3 DEF Settled
  <2>2. QED
    BY <1>1, <1>8, <1>9, <2>1 DEF CalmInv, Agreed
<1>18. \A c \in Cards : Joined(c) => Listed(c)'
  BY <1>1, <1>4, <1>6 DEF Plan, Listed, HasCard
<1>19. QED
  BY <1>10, <1>11, <1>12, <1>13, <1>14, <1>15, <1>16, <1>17, <1>18 DEF CalmInv

LEMMA WriteElementCalm ==
  ASSUME Shape, CalmInv, NEW j \in Jobs, WriteElement(j)
  PROVE  CalmInv'
<1> DEFINE cfg == proc[j].cfg
           change == [pc |-> "others",
                      todo |-> IF Primary(cfg) = j.card THEN cfg.cards \ {j.card} ELSE {}]
           params == [time |-> cfg.mono, restored |-> proc[j].restored,
                      primary |-> Primary(cfg)]
<1>1. /\ Go(j, change) /\ proc[j].pc = "elem"
      /\ boot' = [boot EXCEPT ![j.card] = params]
      /\ UNCHANGED <<group, clocks, present, grouplock, pending>>
  BY DEF WriteElement, WriteBootParams, At, locks
<1>2. DOMAIN change = {"pc", "todo"} /\ change.pc = "others"
  OBVIOUS
<1> HIDE DEF change
<1>3. /\ \A k \in Jobs \ {j} : proc'[k] = proc[k]
      /\ proc'[j].pc = "others" /\ proc'[j].valid = proc[j].valid
      /\ proc'[j].restored = proc[j].restored
  BY <1>1, <1>2, GoFields DEF Fields
<1>4. /\ group = cfg /\ group # None /\ group \in GroupRec /\ group.primary \in group.cards
      /\ group.primary = j.card =>
            group.mono <= Mono /\ (boot[j.card] = None => group.cards = {j.card})
  BY <1>1 DEF CalmInv, Saved, GroupTypeOK
<1>5. /\ params \in Element /\ params.time = group.mono /\ params.primary = group.primary
  BY <1>4 DEF Element, GroupRec, Primary, CalmInv, Known
<1> HIDE DEF params, cfg
<1>6. /\ j.card \in Cards /\ boot'[j.card] = params /\ params # None
      /\ \A c \in Cards \ {j.card} : boot'[c] = boot[c]
  BY <1>1, <1>5, NoneIsNoGroup DEF Jobs, CalmInv, GroupTypeOK
<1>7. \A k \in Jobs \ {j} : proc[k].pc \notin Inside
  BY <1>1, Alone DEF Inside
<1>8. Mono' = Mono
  BY <1>1 DEF Mono, clocks
<1>9. \A c \in Cards \ {j.card} : Settled(c)
  BY <1>1, <1>7 DEF Settled, Inside
<1>10. GroupTypeOK'
  BY <1>1, <1>5, <1>6 DEF CalmInv, GroupTypeOK, clocks
<1>11. LockHeld'
  BY <1>1, <1>3, <1>7 DEF LockHeld, CalmInv, Inside
<1>12. Plugged'
  BY <1>1, <1>3, <1>6 DEF CalmInv, Plugged
<1>13. Known'
  <2>1. \A c \in Cards : boot[c] # None => boot'[c] # None
    BY <1>6
  <2>2. \A k \in Jobs : proc'[k].pc # "load"
    BY <1>3, <1>7 DEF Inside
  <2>3. \A k \in Jobs :
        /\ proc'[k].valid = proc[k].valid /\ proc'[k].restored = proc[k].restored
        /\ \A pc \in {"idle", "glock"} : proc'[k].pc = pc => proc[k].pc = pc
    BY <1>3
  <2>4. \A k \in Jobs : k.card \in Cards
    BY DEF Jobs
  <2>5. QED
    BY <2>1, <2>2, <2>3, <2>4 DEF CalmInv, Known
<1>14. Planned'
  BY <1>3, <1>7 DEF Planned, Inside
<1>15. Saved'
  BY <1>3, <1>7 DEF Saved, Inside
<1>16. Timely'
  <2>1. boot'[group.primary] # None => group.mono <= Mono
    <3>1. CASE group.primary = j.card
      BY <1>4, <3>1
    <3>2. CASE group.primary # j.card
      BY <1>4, <1>6, <3>2 DEF CalmInv, Timely, GroupRec
    <3>3. QED
      BY <3>1, <3>2
  <2>2. ASSUME NEW c \in Cards, Joined(c)' PROVE boot'[c].time <= Mono'
    <3>1. c \in group.cards /\ boot'[c] # None /\ boot'[group.primary] # None
      BY <1>1, <2>2 DEF Joined, Listed, HasCard, Primary
    <3>2. CASE c = j.card
      BY <1>5, <1>6, <1>8, <2>1, <3>1, <3>2
    <3>3. CASE c # j.card
      <4>1. boot[group.primary] # None
        <5>1. CASE group.primary = j.card
          BY <1>4, <3>1, <3>3, <5>1
        <5>2. CASE group.primary # j.card
          BY <1>4, <1>6, <3>1, <5>2 DEF GroupRec
        <5>3. QED
          BY <5>1, <5>2
      <4>2. Joined(c)
        BY <1>4, <1>6, <3>1, <3>3, <4>1 DEF Joined, Listed, HasCard, Primary
      <4>3. QED
        BY <1>6, <1>8, <1>9, <3>3, <4>2 DEF CalmInv, Timely
    <3>4. QED
      BY <3>2, <3>3
  <2>3. QED
    BY <1>1, <1>8, <2>1, <2>2 DEF Timely
<1>17. Agreed'
  <2> SUFFICES ASSUME NEW c \in Cards, boot'[c] # None, Listed(c)', boot'[c].time = group'.mono
               PROVE  boot'[c].primary = group'.primary
    BY DEF Agreed
  <2>1. CASE c = j.card
    BY <1>1, <1>5, <1>6, <2>1
  <2>2. CASE c # j.card
    <3>1. Listed(c)
      BY <1>1 DEF Listed, HasCard
    <3>2. QED
      BY <1>1, <1>6, <1>9, <2>2, <3>1 DEF CalmInv, Agreed
  <2>3. QED
    BY <2>1, <2>2
<1>18. QED
  BY <1>10, <1>11, <1>12, <1>13, <1>14, <1>15, <1>16, <1>17 DEF CalmInv

LEMMA TellOtherCalm ==
  ASSUME Shape, CalmInv, NEW j \in Jobs, TellOther(j)
  PROVE  CalmInv'
<1>1. PICK d \in proc[j].todo :
         \/ /\ SameBoot(j, d)
            /\ Go(j, [todo |-> proc[j].todo \ {d}, linked |-> proc[j].linked \cup {d}])
            /\ WriteBootParams(d, [boot[d] EXCEPT !.restored = proc[j].restored])
         \/ /\ ~SameBoot(j, d)
            /\ Go(j, [todo |-> proc[j].todo \ {d}])
            /\ UNCHANGED boot
  BY DEF TellOther
<1> DEFINE links == [todo |-> proc[j].todo \ {d}, linked |-> proc[j].linked \cup {d}]
           leaves == [todo |-> proc[j].todo \ {d}]
<1>2. proc[j].pc = "others" /\ UNCHANGED <<group, clocks, present, grouplock, pending>>
  BY DEF TellOther, At, locks
<1>3. DOMAIN links = {"todo", "linked"} /\ DOMAIN leaves = {"todo"}
  OBVIOUS
<1>4. \/ /\ boot[d] # None /\ Go(j, links)
         /\ boot' = [boot EXCEPT ![d] = [boot[d] EXCEPT !.restored = proc[j].restored]]
      \/ Go(j, leaves) /\ UNCHANGED boot
  BY <1>1 DEF SameBoot, WriteBootParams
<1> HIDE DEF links, leaves
<1>5. CASE Go(j, leaves) /\ UNCHANGED boot
  BY <1>2, <1>3, <1>5, CalmGoes DEF Fields
<1>6. CASE /\ boot[d] # None /\ Go(j, links)
           /\ boot' = [boot EXCEPT ![d] = [boot[d] EXCEPT !.restored = proc[j].restored]]
  <2>1. /\ \A k \in Jobs \ {j} : proc'[k] = proc[k]
        /\ proc'[j].pc = "others" /\ proc'[j].valid = proc[j].valid
        /\ proc'[j].restored = proc[j].restored
    BY <1>2, <1>3, <1>6, GoFields DEF Fields
  <2> proc[j].restored \in BOOLEAN
    BY DEF CalmInv, Known
  <2>2. /\ boot' \in [Cards -> {None} \cup Element]
        /\ \A c \in Cards : (boot'[c] = None <=> boot[c] = None)
        /\ \A c \in Cards : boot[c] # None =>
              boot'[c].time = boot[c].time /\ boot'[c].primary = boot[c].primary
    <3>1. boot \in [Cards -> {None} \cup Element]
      BY DEF CalmInv, GroupTypeOK
    <3>2. CASE d \in Cards
      <4> DEFINE told == [boot[d] EXCEPT !.restored = proc[j].restored]
      <4>1. boot[d] \in Element
        BY <1>6, <3>1, <3>2
      <4>2. told \in Element /\ told.time = boot[d].time /\ told.primary = boot[d].primary
        BY <4>1 DEF Element
      <4> HIDE DEF told
      <4>3. told # None
        BY <4>2, NoneIsNoGroup
      <4>4. boot' = [boot EXCEPT ![d] = told]
        BY <1>6 DEF told
      <4>5. QED
        BY <1>6, <3>1, <3>2, <4>2, <4>3, <4>4
    <3>3. CASE d \notin Cards
      BY <1>6, <3>1, <3>3
    <3>4. QED
      BY <3>2, <3>3
  <2>3. \A k \in Jobs \ {j} : proc[k].pc \notin Inside
    BY <1>2, Alone DEF Inside
  <2>4. Mono' = Mono
    BY <1>2 DEF Mono, clocks
  <2>5. \A c \in Cards : Settled(c)' <=> Settled(c)
    BY <1>2, <2>1 DEF Settled
  <2>6. \A c \in Cards : Listed(c)' <=> Listed(c)
    BY <1>2 DEF Listed, HasCard
  <2>7. \A c \in Cards : Joined(c)' <=> Joined(c)
    <3>1. group # None => group.primary \in Cards
      BY DEF CalmInv, GroupTypeOK, GroupRec
    <3>2. QED
      BY <1>2, <2>2, <2>6, <3>1 DEF Joined, Listed, Primary
  <2>8. GroupTypeOK'
    BY <1>2, <2>2 DEF CalmInv, GroupTypeOK, clocks
  <2>9. LockHeld'
    BY <1>2, <2>1, <2>3 DEF LockHeld, CalmInv, Inside
  <2>10. Plugged'
    BY <1>2, <2>1, <2>2 DEF CalmInv, Plugged
  <2>11. Known'
    <3>1. \A k \in Jobs : proc'[k].pc # "load"
      BY <2>1, <2>3 DEF Inside
    <3>2. \A k \in Jobs :
          /\ proc'[k].valid = proc[k].valid /\ proc'[k].restored = proc[k].restored
          /\ \A pc \in {"idle", "glock"} : proc'[k].pc = pc => proc[k].pc = pc
      BY <2>1
    <3>3. \A k \in Jobs : k.card \in Cards
      BY DEF Jobs
    <3>4. QED
      BY <2>2, <3>1, <3>2, <3>3 DEF CalmInv, Known
  <2>12. Planned' /\ Saved'
    BY <2>1, <2>3 DEF Planned, Saved, Inside
  <2>13. Timely'
    <3>1. group # None => group.primary \in Cards
      BY DEF CalmInv, GroupTypeOK, GroupRec
    <3>2. \A c \in Cards : Joined(c) => boot[c] # None
      BY DEF Joined
    <3>3. QED
      BY <1>2, <2>2, <2>4, <2>5, <2>7, <3>1, <3>2 DEF CalmInv, Timely
  <2>14. Agreed'
    BY <1>2, <2>2, <2>5, <2>6 DEF CalmInv, Agreed
  <2>15. QED
    BY <2>8, <2>9, <2>10, <2>11, <2>12, <2>13, <2>14 DEF CalmInv
<1>7. QED
  BY <1>4, <1>5, <1>6

LEMMA UpdateDoneCalm ==
  ASSUME Shape, CalmInv, NEW j \in Jobs, UpdateDone(j) \/ Run(j)
  PROVE  CalmInv'
<1> DEFINE change == [pc |-> "run"]
<1>1. DOMAIN change = {"pc"} /\ change.pc = "run"
  OBVIOUS
<1>2. /\ \/ \E res \in {"wait", "ok"} : End(j, res)
         \/ Go(j, change) /\ UNCHANGED grouplock
      /\ proc[j].pc = "others" \/ proc[j].pc = "run"
      /\ UNCHANGED <<group, boot, clocks, present, pending>>
  BY DEF UpdateDone, Run, At, disk
<1> HIDE DEF change
<1>3. CASE \E res \in {"wait", "ok"} : End(j, res)
  BY <1>2, <1>3, CalmEnds
<1>4. CASE Go(j, change) /\ UNCHANGED grouplock
  BY <1>1, <1>2, <1>4, CalmGoes DEF Fields, Inside
<1>5. QED
  BY <1>2, <1>3, <1>4

LEMMA FinishCalm ==
  ASSUME Shape, CalmInv, NEW j \in Jobs, Finish(j)
  PROVE  CalmInv'
<1>1. /\ proc[j].pc = "fin" /\ proc' = [proc EXCEPT ![j] = Idle]
      /\ \/ pending' = pending
         \/ pending' = pending \cup {[j EXCEPT !.cmd = "wait"]}
      /\ UNCHANGED <<group, boot, clocks, present, grouplock>>
  BY DEF Finish, At, disk
<1>2. /\ \A k \in Jobs \ {j} : proc'[k] = proc[k]
      /\ proc'[j].pc = "idle" /\ proc'[j].valid = FALSE /\ proc'[j].restored = FALSE
  BY <1>1 DEF Shape, Idle
<1>3. j.card \in present
  BY <1>1 DEF CalmInv, Plugged
<1>4. [j EXCEPT !.cmd = "wait"].card = j.card
  BY DEF Jobs
<1>5. \A k \in pending' : k \in pending \/ k.card \in present
  BY <1>1, <1>3, <1>4
<1>6. \A k \in Jobs : proc'[k].pc \in Inside => grouplock' = k
  BY <1>1, <1>2 DEF CalmInv, LockHeld, Inside
<1>7. QED
  BY <1>1, <1>2, <1>5, <1>6, CalmMove

LEMMA StepCalm ==
  ASSUME Shape, CalmInv, present \subseteq Members, NEW j \in Jobs, Step(j)
  PROVE  CalmInv'
<1>1. ~Scan(j) /\ ~SaveDropped(j)
  BY DEF CalmInv, Plugged, Scan, SaveDropped, At
<1>2. QED
  BY <1>1, StartCalm, WaitCalm, CardLockCalm, CheckCalm, ConfCalm, GroupLockCalm, RecheckCalm,
     LoadCalm, SaveCalm, WriteElementCalm, TellOtherCalm, UpdateDoneCalm, FinishCalm DEF Step

\* cards come, and time passes
LEMMA WorldCalm ==
  ASSUME CalmInv, UNCHANGED <<disk, grouplock, proc>>, Mono <= Mono', now' \in Int, offset' \in Int,
         present \subseteq present', \A k \in pending' : k \in pending \/ k.card \in present'
  PROVE  CalmInv'
<1>1. UNCHANGED <<group, boot>>
  BY DEF disk
<1>2. \A c \in Cards : (Joined(c)' <=> Joined(c)) /\ (Listed(c)' <=> Listed(c))
  BY <1>1 DEF Joined, Listed, HasCard, Primary
<1>3. Mono \in Int /\ Mono' \in Int
  <2>1. Mono \in Int
    BY Clocks
  <2>2. Mono' \in Int
    BY DEF Mono
  <2>3. QED
    BY <2>1, <2>2
<1>4. group # None => group.mono \in Int /\ group.primary \in Cards
  BY DEF CalmInv, GroupTypeOK, GroupRec
<1>5. \A c \in Cards : boot[c] # None => boot[c].time \in Int
  BY DEF CalmInv, GroupTypeOK, Element
<1>6. GroupTypeOK'
  BY <1>1 DEF CalmInv, GroupTypeOK
<1>7. LockHeld'
  BY DEF CalmInv, LockHeld
<1>8. Plugged'
  BY <1>1 DEF CalmInv, Plugged
<1>9. Known'
  <2>1. \A k \in Jobs : Listed(k.card)' <=> Listed(k.card)
    BY <1>2 DEF Jobs
  <2>2. QED
    BY <1>1, <2>1 DEF CalmInv, Known
<1>10. Planned'
  <2> SUFFICES ASSUME NEW k \in Jobs, proc'[k].pc = "save" PROVE Plan(k, proc[k].cfg)'
    BY DEF Planned
  <2> DEFINE cfg == proc[k].cfg
  <2>1. Plan(k, cfg) /\ cfg' = cfg
    BY DEF CalmInv, Planned
  <2> HIDE DEF cfg
  <2>2. cfg.mono \in Int
    BY <2>1 DEF Plan, GroupRec
  <2>3. Plan(k, cfg)'
    BY <1>1, <1>2, <1>3, <2>1, <2>2 DEF Plan
  <2>4. QED
    BY <2>3 DEF cfg
<1>11. Saved'
  BY <1>1, <1>3, <1>4 DEF CalmInv, Saved
<1>12. \A c \in Cards : Settled(c)' <=> Settled(c)
  BY DEF Settled
<1>13. Timely'
  BY <1>1, <1>2, <1>3, <1>4, <1>5, <1>12 DEF CalmInv, Timely, Joined
<1>14. Agreed'
  BY <1>1, <1>2, <1>12 DEF CalmInv, Agreed
<1>15. QED
  BY <1>6, <1>7, <1>8, <1>9, <1>10, <1>11, <1>13, <1>14 DEF CalmInv

LEMMA PlugCalm ==
  ASSUME CalmInv, NEW c \in Cards, Plug(c)
  PROVE  CalmInv'
<1>1. /\ UNCHANGED <<disk, grouplock, proc, now, offset>> /\ present' = present \cup {c}
      /\ \A k \in pending' : k \in pending \/ k.card = c
  BY DEF Plug, locks, clocks
<1>2. Mono' = Mono /\ now' \in Int /\ offset' \in Int
  BY <1>1 DEF Mono, CalmInv, GroupTypeOK
<1>3. QED
  BY <1>1, <1>2, Clocks, WorldCalm

LEMMA TickCalm ==
  ASSUME CalmInv, Tick
  PROVE  CalmInv'
<1>1. /\ UNCHANGED <<disk, grouplock, proc, offset, present, pending>> /\ now' = now + 1
  BY DEF Tick, locks
<1>2. now \in Int /\ offset \in Int
  BY DEF CalmInv, GroupTypeOK
<1>3. Mono <= Mono'
  BY <1>1, <1>2 DEF Mono
<1>4. QED
  BY <1>1, <1>2, <1>3, WorldCalm

LEMMA SetClockCalm ==
  ASSUME CalmInv, SetClock
  PROVE  CalmInv'
<1>1. /\ UNCHANGED <<disk, grouplock, proc, now, present, pending>>
      /\ offset' = offset + ClockStep
  BY DEF SetClock, locks
<1>2. now \in Int /\ offset \in Int
  BY DEF CalmInv, GroupTypeOK
<1>3. Mono' = Mono /\ offset' \in Int
  BY <1>1, <1>2 DEF Mono, ClockStep
<1>4. QED
  BY <1>1, <1>2, <1>3, Clocks, WorldCalm

\* the group outlives a reboot, the elements do not
LEMMA RebootCalm ==
  ASSUME CalmInv, Reboot
  PROVE  CalmInv'
<1>1. /\ boot' = [c \in Cards |-> None] /\ proc' = [j \in Jobs |-> Idle]
      /\ pending' = {} /\ group' = group
      /\ now' = First /\ offset' = offset + 2 * ((now - First) \div 2) + DownTime
  BY DEF Reboot
<1>2. GroupTypeOK'
  <2>1. now \in Int /\ offset \in Int
    BY DEF CalmInv, GroupTypeOK
  <2>2. now' \in Int /\ offset' \in Int
    BY <1>1, <2>1 DEF First, DownTime
  <2>3. QED
    BY <1>1, <2>2 DEF CalmInv, GroupTypeOK
<1>3. \A j \in Jobs : proc'[j] = Idle
  BY <1>1
<1>4. Idle.pc = "idle" /\ Idle.valid = FALSE /\ Idle.restored = FALSE
  BY DEF Idle
<1>5. (LockHeld /\ Plugged /\ Known /\ Planned /\ Saved)'
  BY <1>1, <1>3, <1>4 DEF LockHeld, Plugged, Known, Planned, Saved, Inside
<1>6. (Timely /\ Agreed)'
  <2>1. \A c \in Cards : boot'[c] = None
    BY <1>1
  <2>2. group' # None => group'.primary \in Cards
    BY <1>2 DEF GroupTypeOK, GroupRec
  <2>3. QED
    BY <2>1, <2>2 DEF Timely, Agreed, Joined
<1>7. QED
  BY <1>2, <1>5, <1>6 DEF CalmInv

\* a card goes that no command works on
LEMMA UnplugCalm ==
  ASSUME CalmInv, NEW c \in Cards, Unplug(c)
  PROVE  CalmInv'
<1>1. /\ \A j \in Jobs : j.card = c => proc[j].pc = "idle" /\ j \notin pending
      /\ boot' = [boot EXCEPT ![c] = None] /\ present' = present \ {c}
      /\ UNCHANGED <<clocks, group, grouplock, pending, proc>>
  BY DEF Unplug, At, locks
<1>2. boot'[c] = None /\ \A d \in Cards \ {c} : boot'[d] = boot[d]
  BY <1>1 DEF CalmInv, GroupTypeOK
<1>3. Mono' = Mono
  BY <1>1 DEF Mono, clocks
<1>4. \A d \in Cards : Listed(d)' <=> Listed(d)
  BY <1>1 DEF Listed, HasCard
<1>5. group # None => group.primary \in Cards
  BY DEF CalmInv, GroupTypeOK, GroupRec
<1>6. \A d \in Cards : Joined(d)' => Joined(d) /\ d # c
  BY <1>1, <1>2, <1>4, <1>5 DEF Joined, Listed, Primary
<1>7. GroupTypeOK'
  BY <1>1 DEF CalmInv, GroupTypeOK, clocks
<1>8. LockHeld'
  BY <1>1 DEF CalmInv, LockHeld
<1>9. Plugged'
  BY <1>1, <1>2 DEF CalmInv, Plugged
<1>10. \A j \in Jobs : j.card \in Cards
  BY DEF Jobs
<1>11. Known'
  <2>1. ASSUME NEW j \in Jobs PROVE proc[j].valid = TRUE => boot'[j.card] # None
    <3>1. CASE j.card = c
      BY <1>1, <3>1 DEF CalmInv, Known
    <3>2. CASE j.card # c
      BY <1>2, <1>10, <3>2 DEF CalmInv, Known
    <3>3. QED
      BY <3>1, <3>2
  <2>2. ASSUME NEW j \in Jobs, boot[j.card] = None \/ ~Listed(j.card)
        PROVE  boot'[j.card] = None \/ ~Listed(j.card)'
    BY <1>2, <1>4, <1>10, <2>2
  <2>3. QED
    BY <1>1, <2>1, <2>2 DEF CalmInv, Known
<1>12. Planned'
  <2> SUFFICES ASSUME NEW j \in Jobs, proc[j].pc = "save" PROVE Plan(j, proc[j].cfg)'
    BY <1>1 DEF Planned
  <2> DEFINE cfg == proc[j].cfg
  <2>1. Plan(j, cfg) /\ cfg' = cfg
    BY <1>1 DEF CalmInv, Planned
  <2> HIDE DEF cfg
  <2>2. boot'[j.card] = boot[j.card]
    BY <1>1, <1>2, <1>10
  <2>3. Plan(j, cfg)'
    BY <1>1, <1>3, <1>6, <2>1, <2>2 DEF Plan
  <2>4. QED
    BY <2>3 DEF cfg
<1>13. Saved'
  <2>1. ASSUME NEW j \in Jobs, proc[j].pc = "elem" PROVE boot'[j.card] = boot[j.card]
    BY <1>1, <1>2, <1>10, <2>1
  <2>2. QED
    BY <1>1, <1>3, <2>1 DEF CalmInv, Saved
<1>14. \A d \in Cards : Settled(d)' <=> Settled(d)
  BY <1>1 DEF Settled
<1>15. Timely'
  BY <1>1, <1>2, <1>3, <1>5, <1>6, <1>14 DEF CalmInv, Timely
<1>16. Agreed'
  BY <1>1, <1>2, <1>4, <1>14 DEF CalmInv, Agreed
<1>17. QED
  BY <1>7, <1>8, <1>9, <1>11, <1>12, <1>13, <1>15, <1>16 DEF CalmInv

\* no command has been cut short, and only members are plugged in
Unbroken == faults = 0 \/ Faults \cap {"crash", "error"} = {}
Calm == Unbroken /\ present \subseteq Members
BootInv == MarkInv /\ (Calm => CalmInv)

LEMMA BootStarts == Init => BootInv
  BY MarkStarts, CalmStarts DEF BootInv

\* calm cannot come back once it is gone
LEMMA StaysCalm ==
  ASSUME MarkInv, [Next]_vars, Calm'
  PROVE  /\ Calm
         /\ \/ \E j \in Jobs : Step(j)
            \/ \E c \in Cards : Plug(c) \/ Unplug(c)
            \/ Reboot \/ SetClock \/ Tick \/ UNCHANGED vars
<1>1. faults \in Nat /\ (faults' = 0 \/ Faults \cap {"crash", "error"} = {})
  BY DEF MarkInv, Calm, Unbroken
<1>2. ASSUME NEW kind \in {"crash", "error"} PROVE ~Fault(kind)
  BY <1>1, <1>2 DEF Fault
<1>3. \A j \in Jobs : ~Fail(j) /\ ~Crash(j)
  BY <1>2 DEF Fail, Crash
<1>4. \/ \E j \in Jobs : Step(j)
      \/ \E c \in Cards : Plug(c) \/ Unplug(c)
      \/ Reboot \/ SetClock \/ Tick \/ UNCHANGED vars
  BY <1>3 DEF Next
<1>5. \/ faults' = faults /\ present \subseteq present'
      \/ faults' = faults + 1 /\ present \subseteq Members
  <2>1. ASSUME NEW j \in Jobs, Step(j) PROVE faults' = faults /\ present' = present
    BY <2>1 DEF Step, Start, WaitBegin, WaitTurn, CardLock, Check, Conf, GroupLock, Recheck,
       Load, Save, WriteElement, TellOther, UpdateDone, Run, Scan, SaveDropped, Finish
  <2>2. ASSUME NEW c \in Cards, Plug(c) PROVE faults' = faults /\ present \subseteq present'
    BY <2>2 DEF Plug
  <2>3. ASSUME Tick \/ UNCHANGED vars PROVE faults' = faults /\ present' = present
    BY <2>3 DEF Tick, vars
  <2>4. ASSUME \/ Reboot \/ SetClock
               \/ \E c \in Cards : Unplug(c)
        PROVE  faults' = faults + 1 /\ present \subseteq Members
    BY <2>4 DEF Reboot, SetClock, Unplug, Fault
  <2>5. QED
    BY <1>4, <2>1, <2>2, <2>3, <2>4
<1>6. QED
  BY <1>1, <1>4, <1>5 DEF Calm, Unbroken

LEMMA BootKept == BootInv /\ [Next]_vars => BootInv'
<1> SUFFICES ASSUME BootInv, [Next]_vars PROVE BootInv'
  OBVIOUS
<1>1. MarkInv'
  BY MarkKept DEF BootInv
<1>2. ASSUME Calm' PROVE CalmInv'
  <2>1. /\ Calm /\ CalmInv /\ MarkInv /\ Shape
        /\ \/ \E j \in Jobs : Step(j)
           \/ \E c \in Cards : Plug(c) \/ Unplug(c)
           \/ Reboot \/ SetClock \/ Tick \/ UNCHANGED vars
    BY <1>2, StaysCalm DEF BootInv, MarkInv
  <2>2. ASSUME NEW j \in Jobs, Step(j) PROVE CalmInv'
    BY <2>1, <2>2, StepCalm DEF Calm
  <2>3. ASSUME UNCHANGED vars PROVE CalmInv'
    <3>1. UNCHANGED <<disk, grouplock, proc, now, offset, present, pending>>
      BY <2>3 DEF vars, clocks, locks
    <3>2. Mono' = Mono /\ now' \in Int /\ offset' \in Int
      BY <2>1, <3>1 DEF Mono, CalmInv, GroupTypeOK
    <3>3. QED
      BY <2>1, <3>1, <3>2, Clocks, WorldCalm
  <2>4. QED
    BY <2>1, <2>2, <2>3, PlugCalm, UnplugCalm, RebootCalm, SetClockCalm, TickCalm
<1>3. QED
  BY <1>1, <1>2 DEF BootInv

LEMMA AgreedIsOnePrimary == CalmInv => OnePrimary
  BY DEF CalmInv, Agreed, Settled, OnePrimary, At, Primary

\* As long as no command has been cut short and only members are plugged in, the members
\* agree on the primary: none takes itself for it that is not, and none waits for a card that
\* does not lead, whatever cards go and come back, whenever the machine reboots and however
\* its clock is set (update_boot_params under the group lock, should_skip_initialization).
THEOREM MembersAgree == Spec => [](Calm => OnePrimary)
<1>1. BootInv => (Calm => OnePrimary)
  BY AgreedIsOnePrimary DEF BootInv
<1>2. QED
  BY <1>1, BootStarts, BootKept, PTL DEF Spec

\* No update of the group drops a card that has joined, in a behaviour that cuts no command
\* short: whatever the group file was at the start, and whenever the cards come and go
\* (update_boot_params, boot_params_remove_card_config).
THEOREM MembersAreKept == Spec /\ []Unbroken => UpdatesKeepMembers
<1> DEFINE Keeps == present \subseteq Members =>
                       \A j \in Jobs, c \in Cards : Save(j) /\ Joined(c) => Listed(c)'
<1>1. ASSUME BootInv, Unbroken PROVE Keeps
  BY <1>1, SaveCalm DEF BootInv, MarkInv, Calm
<1>2. BootInv /\ [Next]_vars /\ Unbroken => [Keeps]_vars
  BY <1>1
<1>3. [][Keeps]_vars => UpdatesKeepMembers
  BY DEF UpdatesKeepMembers
<1> HIDE DEF Keeps
<1>4. QED
  BY <1>2, <1>3, BootStarts, BootKept, PTL DEF Spec

=============================================================================
