-------------------------------- MODULE Restore --------------------------------
(***************************************************************************)
(* alsactl/state.c: load_state() over several cards, set_controls() and    *)
(* set_control() element by element, against a state file that             *)
(* get_controls() wrote when the cards looked different: another driver    *)
(* version, other numids, no user elements yet.  Several processes restore *)
(* at once, and a process restores the cards linked to its own without     *)
(* their locks.                                                            *)
(*                                                                         *)
(* The identity of an element (interface, device, subdevice, name, index)  *)
(* is its name here.  Values are integers or items of an enumeration.      *)
(***************************************************************************)
EXTENDS Integers, Sequences, FiniteSetsExt

CONSTANTS Procs, Cards,
          Args,         \* the cards each process is to restore, in order
          Linked,       \* the cards that init_ucm links to a card
          Before,       \* for each card, the elements it may have had when stored
          After,        \* ... and those it has now
          MaxFaults     \* bound on calls that fail

ASSUME MaxFaultsAssumption == MaxFaults \in Nat
ASSUME ListsAssumption == Args \in [Procs -> Seq(Cards)] /\ Linked \in [Cards -> Seq(Cards)]

VARIABLES force, do_init,     \* -F or -P, and -I
          file,               \* the state file: for each card its entries
          mixer,              \* the elements of each card by name
          lock,               \* the card locks
          proc, faults,
          tree,               \* the copy of the file that a process has loaded
          through,            \* the cards a writing pass went through,
          failed,             \* the elements a call failed for in such a pass,
          hindered,           \* the checks of a card by a process with a call that failed,
          untold,             \* the elements whose levels or items could not be asked for,
          added               \* and who added elements to a card

options == <<force, do_init, file>>
history == <<through, failed, hindered, untold, added>>
vars == <<options, mixer, lock, proc, faults, tree, history>>

Nobody == "nobody"

(***************************************************************************)
(* The elements.  kind is [type, count, min, max, db, items]: the range of *)
(* an integer, the dB values of its ends (or <<>>), the items of an        *)
(* enumeration.  An element is [num, kind, read, write, inactive, user,    *)
(* value], value with one number for each of kind.count channels.          *)
(***************************************************************************)
Integer(kind) == kind.type = "integer"
Allowed(kind) == IF Integer(kind) THEN kind.min .. kind.max ELSE 0 .. Len(kind.items) - 1

ProperKind(kind) ==
    /\ kind.count \in Nat
    /\ IF Integer(kind) THEN /\ kind.min \in Int /\ kind.max \in Int
                             /\ kind.db = <<>> \/ kind.db \in Int \X Int
       ELSE kind.items \in Seq(Range(kind.items))
ProperElem(e) ==
    /\ DOMAIN e = {"num", "kind", "read", "write", "inactive", "user", "value"}
    /\ e.num \in Nat /\ ProperKind(e.kind)
    /\ e.value \in [1 .. e.kind.count -> Allowed(e.kind)]
    /\ {e.read, e.write, e.inactive, e.user} \subseteq BOOLEAN
ASSUME ElementsAssumption ==
    \A c \in Cards : \A elems \in Before[c] \cup After[c] :
        /\ IsFiniteSet(DOMAIN elems) /\ \A n \in DOMAIN elems : ProperElem(elems[n])
        /\ \A m, n \in DOMAIN elems : elems[m].num = elems[n].num => m = n

\* the level of a value, on a linear scale
DB(kind, v) ==
    kind.db[1] + ((v - kind.min) * (kind.db[2] - kind.db[1])) \div (kind.max - kind.min)

\* snd_ctl_convert_from_dB: the next value up or down, within the range
FromDB(kind, level, up) ==
    LET above == {v \in Allowed(kind) : DB(kind, v) >= level}
        below == {v \in Allowed(kind) : DB(kind, v) <= level}
    IN  IF above = {} THEN kind.max
        ELSE IF below = {} THEN kind.min
        ELSE IF up THEN Min(above) ELSE Max(below)

\* add_tlv_comments: the level of each channel, of an element that has one
Levels(e) ==
    IF e.kind.db = <<>> THEN <<>> ELSE [i \in DOMAIN e.value |-> DB(e.kind, e.value[i])]

\* numbers, or names of items
Value(e) ==
    IF Integer(e.kind) THEN e.value
    ELSE [i \in DOMAIN e.value |-> e.kind.items[e.value[i] + 1]]

\* get_controls and get_control: the readable elements, with what the comment
\* tells of them
Entry(name, e) ==
    [num |-> e.num, name |-> name, kind |-> e.kind, inactive |-> e.inactive,
     user |-> e.user, value |-> Value(e), level |-> Levels(e)]
Stored(elems) == {Entry(n, elems[n]) : n \in {m \in DOMAIN elems : elems[m].read}}

Idle == [pc |-> "start", todo |-> <<>>, nofile |-> FALSE, pass |-> "check", at |-> 0,
         more |-> <<>>, left |-> {}, entry |-> 0, ctl |-> <<>>, err |-> FALSE,
         final |-> FALSE, postponed |-> {}]

OneOfEach(choices) ==
    {f \in [Cards -> UNION {choices[c] : c \in Cards}] : \A c \in Cards : f[c] \in choices[c]}
Init ==
    /\ force \in BOOLEAN /\ do_init \in BOOLEAN
    /\ \E elems \in OneOfEach(Before) : file = [c \in Cards |-> Stored(elems[c])]
    /\ mixer \in OneOfEach(After)
    /\ lock = [c \in Cards |-> Nobody]
    /\ proc = [p \in Procs |-> [Idle EXCEPT !.todo = Args[p]]]
    /\ tree = [p \in Procs |-> [c \in Cards |-> [e \in file[c] |-> e.value]]]
    /\ faults = 0
    /\ through = {} /\ failed = {} /\ hindered = {} /\ untold = {} /\ added = {}

At(p, pc) == proc[p].pc = pc
Go(p, change) ==
    proc' = [proc EXCEPT ![p] =
                [f \in DOMAIN @ |-> IF f \in DOMAIN change THEN change[f] ELSE @[f]]]
Fault == faults < MaxFaults /\ faults' = faults + 1

(***************************************************************************)
(* load_state: the file, then one card after the other.                    *)
(***************************************************************************)
\* a file that cannot be opened leaves init() to be run, one that cannot be parsed
\* ends it all
Start(p) ==
    /\ At(p, "start")
    /\ \/ Go(p, [pc |-> "card"]) /\ UNCHANGED faults
       \/ /\ Fault
          /\ \E next \in {"exit"} \cup {pc \in {"card"} : do_init} :
                Go(p, [pc |-> next, nofile |-> TRUE, final |-> TRUE])
    /\ UNCHANGED <<options, mixer, lock, tree, history>>

NextCard(p, final) ==
    Go(p, [pc |-> "card", todo |-> Tail(proc[p].todo), final |-> proc[p].final \/ final])

CardLock(p) ==
    /\ At(p, "card") /\ proc[p].todo # <<>>
    /\ LET c == Head(proc[p].todo) IN
       \/ /\ lock[c] = Nobody /\ lock' = [lock EXCEPT ![c] = p]
          /\ Go(p, [pc |-> IF proc[p].nofile THEN "init" ELSE "ucm", at |-> c])
          /\ UNCHANGED faults
       \/ Fault /\ NextCard(p, TRUE) /\ UNCHANGED lock
    /\ UNCHANGED <<options, mixer, tree, history>>

\* The end of the process, which gives all its locks back.
Exit(p) ==
    /\ At(p, "exit") \/ (At(p, "card") /\ proc[p].todo = <<>>)
    /\ Go(p, [pc |-> "done"])
    /\ lock' = [c \in Cards |-> IF lock[c] = p THEN Nobody ELSE lock[c]]
    /\ UNCHANGED <<options, mixer, faults, tree, history>>

\* init_ucm postpones the card, runs its sequences or finds none; then the
\* configuration directory is cleaned, and when that fails the next card follows
\* with the lock kept
InitUcm(p) ==
    /\ At(p, "ucm")
    /\ \/ /\ Go(p, [pc |-> "unlock", postponed |-> proc[p].postponed \cup {proc[p].at}])
          /\ UNCHANGED faults
       \/ /\ \E links \in {<<>>, Linked[proc[p].at]} :
                Go(p, [pc |-> "open", pass |-> IF do_init THEN "check" ELSE "set",
                       more |-> links])
          /\ UNCHANGED faults
       \/ Fault /\ NextCard(p, TRUE)
    /\ UNCHANGED <<options, mixer, lock, tree, history>>

\* init(): what it sets is the rules' choice, the loudest here
Initialized(elems) ==
    [n \in DOMAIN elems |->
        IF elems[n].write
        THEN [elems[n] EXCEPT !.value = [i \in DOMAIN @ |-> Max(Allowed(elems[n].kind))]]
        ELSE elems[n]]

InitCard(p) ==
    /\ At(p, "init")
    /\ \/ /\ mixer' = [mixer EXCEPT ![proc[p].at] = Initialized(@)]
          /\ Go(p, [pc |-> IF proc[p].nofile THEN "unlock" ELSE "open", pass |-> "set"])
          /\ UNCHANGED faults
       \/ /\ Fault /\ UNCHANGED mixer
          /\ Go(p, [pc |-> IF proc[p].nofile THEN "unlock" ELSE "open", pass |-> "set",
                    final |-> TRUE])
    /\ UNCHANGED <<options, lock, tree, history>>

Unlock(p) ==
    /\ At(p, "unlock")
    /\ lock' = [lock EXCEPT ![Head(proc[p].todo)] = Nobody]
    /\ NextCard(p, FALSE)
    /\ UNCHANGED <<options, mixer, faults, tree, history>>

(***************************************************************************)
(* set_controls: "check" is the pass that only looks (doit is 0), "set"    *)
(* and "linked" those that write.                                          *)
(***************************************************************************)
Doit(p) == proc[p].pass # "check"
Lax(p) == force /\ Doit(p)
Entries(p) == file[proc[p].at]

\* a call that fails in a pass: whom it may concern
Fails(p, entries) ==
    /\ Fault
    /\ failed' = failed \cup {<<proc[p].at, e.name>> : e \in {d \in entries : Doit(p)}}
    /\ hindered' = hindered \cup {q \in {<<proc[p].at, p>>} : ~Doit(p)}

\* no state for the card is an error, as a card that cannot be opened
Open(p) ==
    /\ At(p, "open")
    /\ \/ /\ Go(p, [pc |-> IF Entries(p) = {} THEN "end" ELSE "find",
                    left |-> Entries(p), err |-> Entries(p) = {}])
          /\ UNCHANGED <<faults, failed, hindered>>
       \/ Fails(p, Entries(p)) /\ Go(p, [pc |-> "end", left |-> {}, err |-> TRUE])
    /\ UNCHANGED <<options, mixer, lock, tree, through, untold, added>>

StopsAtFirst(p, e, err) ==                 \* mutant: -F stops at the first failure, too
    Go(p, [pc |-> IF err THEN "end" ELSE "find", left |-> proc[p].left \ {e}, err |-> err])
\* what set_control's result does to the rest of the entries
EntryDone(p, e, err) ==
    Go(p, [pc |-> IF err /\ ~Lax(p) THEN "end" ELSE "find",
           left |-> proc[p].left \ {e}, err |-> err])

\* the check compares the numbers of controls, give or take the user elements
Mismatch(p) ==
    LET elems == mixer[proc[p].at]
        diff  == Cardinality({n \in DOMAIN elems : elems[n].read}) - Cardinality(Entries(p))
        users == Cardinality({n \in DOMAIN elems : elems[n].user})
    IN  diff > users \/ -diff > users

\* A list that cannot be had is an error, or none when memory is short; an element
\* without an answer is not counted.
LastEntry(p) ==
    /\ At(p, "find") /\ proc[p].left = {}
    /\ \/ /\ Go(p, [pc |-> "end", err |-> IF Doit(p) THEN proc[p].err ELSE Mismatch(p)])
          /\ UNCHANGED <<faults, failed, hindered>>
       \/ /\ ~Doit(p) /\ Fails(p, {})
          /\ \E err \in BOOLEAN : Go(p, [pc |-> "end", err |-> err])
    /\ UNCHANGED <<options, mixer, lock, tree, through, untold, added>>

\* back in load_state: init() after a check that failed, the linked cards after
\* the card itself
EndOfPass(p) ==
    LET final == proc[p].final \/ (proc[p].err /\ ~force) IN
    /\ At(p, "end")
    /\ \/ /\ ~Doit(p) /\ UNCHANGED through
          /\ Go(p, [pc |-> IF proc[p].err THEN "init" ELSE "open",
                    pass |-> IF proc[p].err THEN "check" ELSE "set"])
       \/ /\ Doit(p) /\ through' = through \cup {proc[p].at}
          /\ \/ proc[p].more = <<>> /\ Go(p, [pc |-> "unlock", final |-> final])
             \/ /\ proc[p].more # <<>>
                /\ Go(p, [pc |-> "open", pass |-> "linked", final |-> final,
                          at |-> Head(proc[p].more), more |-> Tail(proc[p].more)])
    /\ UNCHANGED <<options, mixer, lock, faults, tree, failed, hindered, untold, added>>

(***************************************************************************)
(* set_control.                                                            *)
(***************************************************************************)
\* the element that answers to the entry's numid, if that is asked for, or to
\* its name
Found(p, e) ==
    LET elems == mixer[proc[p].at]
        nums  == {n \in DOMAIN elems : elems[n].num = e.num}
    IN  IF ~force /\ nums # {} THEN nums ELSE {e.name} \cap DOMAIN elems

\* check_comment_range
RangeDiffers(e, kind) ==
    Integer(kind) /\ Integer(e.kind) /\ e.kind.min # kind.min /\ e.kind.max # kind.max
Converts(e, kind) ==
    /\ Integer(kind) /\ Integer(e.kind) /\ e.kind.min < e.kind.max /\ kind.min < kind.max
    /\ e.kind.db # <<>> /\ kind.db # <<>>
    /\ e.kind.db[1] < e.kind.db[2] /\ kind.db[1] < kind.db[2]
    /\ <<e.kind.min, e.kind.max, e.kind.db>> # <<kind.min, kind.max, kind.db>>

\* mutant: the level of what the copy holds by now, after the check
ConvertsAgain(e, kind, value) ==
    IF Converts(e, kind)
    THEN [i \in DOMAIN value |->
             LET level == DB(e.kind, value[i]) IN FromDB(kind, level, level > 0)]
    ELSE value
\* convert_to_new_db changes the value in the process's copy of the file, from
\* the level in the comment
Converted(e, kind, value) ==
    IF Converts(e, kind)
    THEN [i \in DOMAIN value |-> FromDB(kind, e.level[i], e.level[i] > 0)]
    ELSE value

\* restore_config_value: what the element takes, and the number for it
Understood(e, kind, x) ==
    IF Integer(e.kind) THEN Integer(kind) \/ x >= 0
    ELSE ~Integer(kind) /\ x \in Range(kind.items)
Number(e, kind, x) ==
    IF Integer(e.kind) THEN x
    ELSE (CHOOSE i \in DOMAIN kind.items : kind.items[i] = x) - 1

\* the channels: one value may serve them all, and what is missing is an error,
\* or 0, when all is tried
Channel(value, i) == IF DOMAIN value = {1} THEN value[1] ELSE value[i]
Complete(e, kind, value) ==
    /\ DOMAIN value = 1 .. kind.count
    /\ \A i \in 1 .. kind.count : Understood(e, kind, Channel(value, i))
Channels(e, kind, value) ==
    [i \in 1 .. kind.count |->
        IF /\ i \in DOMAIN value \/ DOMAIN value = {1}
           /\ Understood(e, kind, Channel(value, i))
        THEN Number(e, kind, Channel(value, i)) ELSE 0]

\* the rest of set_control with the element n, up to the write.  Levels and items
\* that the card does not tell are as if there were none.
Match(p, e, n, elem, told) ==
    LET kind  == IF told THEN elem.kind ELSE [elem.kind EXCEPT !.db = <<>>, !.items = <<>>]
        value == Converted(e, kind, tree[p][proc[p].at][e])
    IN  \/ /\ (~force /\ elem.num # e.num) \/ n # e.name \/ (RangeDiffers(e, kind) /\ ~Lax(p))
           /\ EntryDone(p, e, TRUE) /\ UNCHANGED tree
        \/ /\ (force \/ elem.num = e.num) /\ n = e.name /\ (~RangeDiffers(e, kind) \/ Lax(p))
           /\ tree' = [tree EXCEPT ![p][proc[p].at][e] = value]
           /\ IF e.inactive \/ elem.inactive \/ ~elem.write THEN EntryDone(p, e, FALSE)
              ELSE IF ~Complete(e, kind, value) /\ ~Lax(p)  THEN EntryDone(p, e, TRUE)
              ELSE IF ~Doit(p)                              THEN EntryDone(p, e, FALSE)
              ELSE Go(p, [pc |-> "write", entry |-> e, ctl |-> Channels(e, kind, value)])

\* the entry with the smallest numid of those left
Following(p, e) == e \in proc[p].left /\ \A d \in proc[p].left : e.num <= d.num

LooksFirst(p, e, found, told) ==       \* mutant: the check does not add a user element
    \/ \E n \in found : Match(p, e, n, mixer[proc[p].at][n], told)
    \/ /\ found = {} /\ UNCHANGED tree
       /\ IF e.user /\ Doit(p) THEN Go(p, [pc |-> "add", entry |-> e])
          ELSE EntryDone(p, e, TRUE)
\* with the elements that answer to the entry
Looked(p, e, found, told) ==
    \/ \E n \in found : Match(p, e, n, mixer[proc[p].at][n], told)
    \/ /\ found = {} /\ UNCHANGED tree
       /\ IF e.user THEN Go(p, [pc |-> "add", entry |-> e]) ELSE EntryDone(p, e, TRUE)

\* a request by number that fails is followed by one for the name, which may fail, too
Find(p) ==
    /\ At(p, "find")
    /\ \E e \in proc[p].left :
       /\ Following(p, e)
       /\ \/ Looked(p, e, Found(p, e), TRUE) /\ UNCHANGED <<faults, failed, hindered, untold>>
          \/ /\ Fails(p, {e}) /\ UNCHANGED untold
             /\ \E found \in {{}, {e.name} \cap DOMAIN mixer[proc[p].at]} :
                   Looked(p, e, found, TRUE)
          \/ /\ Fails(p, {e}) /\ untold' = untold \cup {<<proc[p].at, e.name>>}
             /\ Looked(p, e, Found(p, e), FALSE)
    /\ UNCHANGED <<options, mixer, lock, through, added>>

\* add_user_control: in either pass.  Another process may have added it by now.
NewElem(e, elems) ==
    [num |-> 1 + Max({elems[n].num : n \in DOMAIN elems} \cup {0}), kind |-> e.kind,
     read |-> TRUE, write |-> TRUE, inactive |-> FALSE, user |-> TRUE,
     value |-> [i \in 1 .. e.kind.count |-> Min(Allowed(e.kind))]]
With(elems, name, elem) ==
    [n \in DOMAIN elems \cup {name} |-> IF n = name THEN elem ELSE elems[n]]
AddUser(p) ==
    /\ At(p, "add")
    /\ LET e     == proc[p].entry
           c     == proc[p].at
           elem  == NewElem(e, mixer[c])
       IN  \/ /\ EntryDone(p, e, TRUE) /\ UNCHANGED <<mixer, tree, added>>
              /\ \/ e.name \in DOMAIN mixer[c] /\ UNCHANGED <<faults, failed, hindered>>
                 \/ Fails(p, {e})
           \/ /\ e.name \notin DOMAIN mixer[c]
              /\ mixer' = [mixer EXCEPT ![c] = With(@, e.name, elem)]
              /\ added' = added \cup {<<c, p>>}
              /\ \/ Match(p, e, e.name, elem, TRUE) /\ UNCHANGED <<faults, failed, hindered>>
                 \/ Fails(p, {e}) /\ EntryDone(p, e, TRUE) /\ UNCHANGED tree
    /\ UNCHANGED <<options, lock, through, untold>>

\* snd_ctl_elem_write: the kernel refuses a value outside the range
Write(p) ==
    /\ At(p, "write")
    /\ LET e  == proc[p].entry
           c  == proc[p].at
           ok == \A i \in DOMAIN proc[p].ctl : proc[p].ctl[i] \in Allowed(mixer[c][e.name].kind)
       IN  \/ /\ ok /\ EntryDone(p, e, FALSE)
              /\ mixer' = [mixer EXCEPT ![c][e.name].value = proc[p].ctl]
              /\ UNCHANGED <<faults, failed, hindered>>
           \/ ~ok /\ EntryDone(p, e, TRUE) /\ UNCHANGED <<mixer, faults, failed, hindered>>
           \/ ok /\ Fails(p, {e}) /\ EntryDone(p, e, TRUE) /\ UNCHANGED mixer
    /\ UNCHANGED <<options, lock, tree, through, untold, added>>

Next == \E p \in Procs :
           \/ Start(p) \/ CardLock(p) \/ InitUcm(p) \/ InitCard(p) \/ Unlock(p) \/ Exit(p)
           \/ Open(p) \/ LastEntry(p) \/ EndOfPass(p) \/ Find(p) \/ AddUser(p) \/ Write(p)

Spec == Init /\ [][Next]_vars

--------------------------------------------------------------------------------
\* no value of the range lies between the one set and the level asked for
Nearest(kind, v, level) ==
    \A u \in Allowed(kind) :
        ~ \/ DB(kind, v) < DB(kind, u) /\ DB(kind, u) <= level
          \/ level <= DB(kind, u) /\ DB(kind, u) < DB(kind, v)

\* the element has the stored setting: the same item, level or numbers; an integer
\* that is an enumeration now keeps its number
Restored(e, elem) ==
    /\ DOMAIN elem.value = DOMAIN e.value
    /\ \A i \in DOMAIN e.value :
          IF Converts(e, elem.kind) THEN Nearest(elem.kind, elem.value[i], e.level[i])
          ELSE IF Integer(e.kind)   THEN elem.value[i] = e.value[i]
          ELSE ~Integer(elem.kind) /\ elem.kind.items[elem.value[i] + 1] = e.value[i]

Touched(e, elem) == elem.write /\ ~elem.inactive /\ ~e.inactive
AllDone == \A p \in Procs : At(p, "done")

\* With -P, an exit code of zero of every process means that the cards they were
\* given are as stored: each stored element exists and has its setting, also where
\* the driver counts in other steps now, and whatever init() and the calls that
\* failed did before; but for elements whose levels could not be asked for, which
\* get the old number (state.c:1755-1833, 1104-1146, 1513-1530).
ZeroMeansRestored ==
    AllDone /\ ~force /\ (\A p \in Procs : ~proc[p].final) =>
        \A p \in Procs : \A c \in Range(Args[p]) \ proc[p].postponed :
            \A e \in file[c] :
                /\ e.name \in DOMAIN mixer[c]
                /\ Touched(e, mixer[c][e.name]) /\ <<c, e.name>> \notin untold
                   => Restored(e, mixer[c][e.name])

\* what the driver still understands of an entry
Fits(e, kind) ==
    /\ Integer(e.kind) = Integer(kind) /\ e.kind.count = kind.count
    /\ IF Integer(kind) THEN Converts(e, kind) \/ <<e.kind.min, e.kind.max>> = <<kind.min, kind.max>>
       ELSE Range(e.value) \subseteq Range(kind.items)

\* With -F, as much as possible is restored: an element that still fits its entry
\* has its setting at the end, whatever failed with the other elements, the other
\* cards or init() (state.c:1592-1598; alsactl.1 at --force).
AsMuchAsPossible ==
    AllDone /\ force /\ (\A p \in Procs : ~proc[p].nofile) =>
        \A c \in through : \A e \in file[c] :
            /\ e.name \in DOMAIN mixer[c] /\ <<c, e.name>> \notin failed
            /\ Touched(e, mixer[c][e.name]) /\ Fits(e, mixer[c][e.name].kind)
            => Restored(e, mixer[c][e.name])

\* the card is as it was when stored, but for user elements that went away
IsOf(e, n, elem) == n = e.name /\ elem.num = e.num /\ elem.kind = e.kind /\ elem.read
AsStored(c) ==
    /\ file[c] # {}
    /\ \A n \in DOMAIN mixer[c] : mixer[c][n].read => \E e \in file[c] : IsOf(e, n, mixer[c][n])
    /\ \A e \in file[c] :
          /\ e.user \/ e.name \in DOMAIN mixer[c]
          /\ \A n \in DOMAIN mixer[c] :
                n = e.name \/ mixer[c][n].num = e.num => IsOf(e, n, mixer[c][n])

\* The check finds no fault with a card that is as it was when stored: init() is
\* not run on it, although a reboot took its user elements; unless another process
\* puts one back meanwhile, which the linked cards allow, or a call of the check
\* fails (state.c:1795-1813, 1550-1560, 1593-1632).
InitOnlyWhenNeeded ==
    [][\A p \in Procs :
          At(p, "init") /\ proc'[p] # proc[p] /\ ~proc[p].nofile =>
              \/ ~AsStored(proc[p].at) \/ <<proc[p].at, p>> \in hindered
              \/ \E q \in Procs \ {p} : <<proc[p].at, q>> \in added]_vars
================================================================================
