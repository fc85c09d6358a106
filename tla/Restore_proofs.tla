----------------------------- MODULE Restore_proofs ----------------------------
(***************************************************************************)
(* Theorems about alsactl restore, for any cards and their elements as     *)
(* stored and as found, any processes, lists and links, and any number of  *)
(* calls that fail.                                                        *)
(***************************************************************************)
EXTENDS Restore, FiniteSetTheorems, WellFoundedInduction, TLAPS

\* what a process has, and what a step of it changes
Fields == {"pc", "todo", "nofile", "pass", "at", "more", "left", "entry", "ctl", "err",
           "final", "postponed"}
Shape == DOMAIN proc = Procs /\ \A p \in Procs : DOMAIN proc[p] = Fields

LEMMA GoFields ==
  ASSUME Shape, NEW p \in Procs, NEW change, DOMAIN change \subseteq Fields, Go(p, change)
  PROVE  /\ Shape'
         /\ \A q \in Procs \ {p} : proc'[q] = proc[q]
         /\ \A f \in Fields :
               proc'[p][f] = IF f \in DOMAIN change THEN change[f] ELSE proc[p][f]
<1>1. proc' = [proc EXCEPT ![p] =
                  [f \in DOMAIN proc[p] |->
                      IF f \in DOMAIN change THEN change[f] ELSE proc[p][f]]]
  BY DEF Go
<1>2. proc'[p] = [f \in Fields |-> IF f \in DOMAIN change THEN change[f] ELSE proc[p][f]]
  BY <1>1 DEF Shape
<1>3. \A q \in Procs \ {p} : proc'[q] = proc[q]
  BY <1>1 DEF Shape
<1>4. Shape'
  BY <1>1, <1>2, <1>3 DEF Shape
<1>5. QED
  BY <1>2, <1>3, <1>4

-----------------------------------------------------------------------------
(***************************************************************************)
(* The conversion of a value to another range.                             *)
(***************************************************************************)
LEMMA LeastOfNat ==
  ASSUME NEW S, S \subseteq Nat, S # {}
  PROVE  \E x \in S : \A y \in S : x <= y
<1>1. \E x \in S : \A y \in S : ~(<<y, x>> \in OpToRel(<, Nat))
  BY WFMin, NatLessThanWellFounded, Zenon
<1>2. PICK x \in S : \A y \in S : ~(<<y, x>> \in OpToRel(<, Nat))
  BY <1>1
<1>3. ASSUME NEW y \in S PROVE x <= y
  <2>1. ~(<<y, x>> \in OpToRel(<, Nat))
    BY <1>2
  <2>2. x \in Nat /\ y \in Nat
    OBVIOUS
  <2>3. ~(y < x)
    BY <2>1, <2>2 DEF OpToRel
  <2>4. QED
    BY <2>2, <2>3
<1>4. QED
  BY <1>3

LEMMA LeastInRange ==
  ASSUME NEW a \in Int, NEW b \in Int, NEW S, S \subseteq a .. b, S # {}
  PROVE  Min(S) \in S /\ \A y \in S : Min(S) <= y
<1> DEFINE T == {x - a : x \in S}
<1>1. T \subseteq Nat /\ T # {}
  <2>1. \A x \in S : x \in Int /\ a <= x /\ x <= b
    OBVIOUS
  <2>2. \A x \in S : x - a \in Nat
    BY <2>1
  <2>3. QED
    BY <2>2
<1>2. PICK t \in T : \A u \in T : t <= u
  BY <1>1, LeastOfNat
<1>3. PICK x \in S : t = x - a
  BY <1>2
<1>4. \A y \in S : x <= y
  <2>1. TAKE y \in S
  <2>2. t <= y - a
    BY <1>2
  <2>3. QED
    BY <1>3, <2>2
<1>5. QED
  BY <1>4 DEF Min

LEMMA GreatestInRange ==
  ASSUME NEW a \in Int, NEW b \in Int, NEW S, S \subseteq a .. b, S # {}
  PROVE  Max(S) \in S /\ \A y \in S : y <= Max(S)
<1> DEFINE T == {b - x : x \in S}
<1>1. T \subseteq Nat /\ T # {}
  <2>1. \A x \in S : x \in Int /\ a <= x /\ x <= b
    OBVIOUS
  <2>2. \A x \in S : b - x \in Nat
    BY <2>1
  <2>3. QED
    BY <2>2
<1>2. PICK t \in T : \A u \in T : t <= u
  BY <1>1, LeastOfNat
<1>3. PICK x \in S : t = b - x
  BY <1>2
<1>4. \A y \in S : y <= x
  <2>1. TAKE y \in S
  <2>2. t <= b - y
    BY <1>2
  <2>3. QED
    BY <1>3, <2>2
<1>5. QED
  BY <1>4 DEF Max

\* a larger product
LEMMA ProductGrows ==
  ASSUME NEW a \in Nat, NEW b \in Nat, NEW d \in Nat, a <= b
  PROVE  a * d <= b * d
<1>1. b = a + (b - a) /\ b - a \in Nat
  OBVIOUS
<1>2. PICK k \in Nat : b = a + k
  BY <1>1
<1>3. b * d = a * d + k * d /\ k * d \in Nat /\ a * d \in Nat
  BY <1>2
<1>4. QED
  BY <1>3

\* a larger quotient
LEMMA QuotientGrows ==
  ASSUME NEW a \in Nat, NEW b \in Nat, NEW n \in Nat \ {0}, a <= b
  PROVE  a \div n <= b \div n /\ a \div n \in Int
<1> DEFINE q == a \div n
           r == b \div n
<1>1. q \in Int /\ n * q <= a
  OBVIOUS
<1>2. r \in Int /\ b < n * (r + 1)
  OBVIOUS
<1> HIDE DEF q, r
<1>3. SUFFICES ASSUME r < q PROVE FALSE
  BY <1>1, <1>2 DEF q, r
<1>4. r + 1 <= q
  BY <1>1, <1>2, <1>3
<1>5. QED
  BY <1>1, <1>2, <1>4

LEMMA LevelGrows ==
  ASSUME NEW kind, kind.min \in Int, kind.max \in Int, kind.min < kind.max,
         kind.db[1] \in Int, kind.db[2] \in Int, kind.db[1] < kind.db[2],
         NEW u \in kind.min .. kind.max, NEW v \in kind.min .. kind.max, u <= v
  PROVE  DB(kind, u) <= DB(kind, v) /\ DB(kind, u) \in Int
<1> DEFINE d == kind.db[2] - kind.db[1]
           n == kind.max - kind.min
           a == u - kind.min
           b == v - kind.min
<1>1. d \in Nat /\ n \in Nat \ {0} /\ a \in Nat /\ b \in Nat /\ a <= b
  OBVIOUS
<1>2. DB(kind, u) = kind.db[1] + (a * d) \div n /\ DB(kind, v) = kind.db[1] + (b * d) \div n
  BY DEF DB
<1> HIDE DEF d, n, a, b
<1>3. a * d <= b * d /\ a * d \in Nat /\ b * d \in Nat
  BY <1>1, ProductGrows
<1>4. (a * d) \div n <= (b * d) \div n /\ (a * d) \div n \in Int /\ (b * d) \div n \in Int
  BY <1>1, <1>3, QuotientGrows
<1>5. QED
  BY <1>2, <1>4

\* an entry as get_control() writes it
ProperEntry(e) ==
    /\ e.num \in Nat /\ ProperKind(e.kind) /\ DOMAIN e.value = 1 .. e.kind.count
    /\ \A i \in DOMAIN e.value : IF Integer(e.kind) THEN e.value[i] \in Allowed(e.kind)
                                 ELSE e.value[i] \in Range(e.kind.items)
    /\ Integer(e.kind) /\ e.kind.min < e.kind.max /\ e.kind.db # <<>>
          /\ e.kind.db[1] < e.kind.db[2]
       => DOMAIN e.level = DOMAIN e.value /\ \A i \in DOMAIN e.level : e.level[i] \in Int
    /\ e.user \in BOOLEAN /\ e.inactive \in BOOLEAN

LEMMA FromDBIsNearest ==
  ASSUME NEW kind, Integer(kind), ProperKind(kind), kind.min < kind.max, kind.db # <<>>,
         kind.db[1] < kind.db[2], NEW level \in Int, NEW up \in BOOLEAN
  PROVE  FromDB(kind, level, up) \in Allowed(kind) /\ Nearest(kind, FromDB(kind, level, up), level)
<1> DEFINE A == kind.min .. kind.max
           above == {v \in A : DB(kind, v) >= level}
           below == {v \in A : DB(kind, v) <= level}
           w == FromDB(kind, level, up)
<1>1. /\ kind.min \in Int /\ kind.max \in Int /\ kind.db \in Int \X Int
      /\ Allowed(kind) = A
  BY DEF ProperKind, Allowed
<1>2. \A u, v \in A : u <= v => DB(kind, u) <= DB(kind, v)
  BY <1>1, LevelGrows
<1>3. \A u \in A : DB(kind, u) \in Int
  BY <1>1, LevelGrows
<1>4. kind.min \in A /\ kind.max \in A /\ \A u \in A : kind.min <= u /\ u <= kind.max
  BY <1>1
<1>5. \A u \in A : u \in Int
  BY <1>1
<1>6. w = IF above = {} THEN kind.max
          ELSE IF below = {} THEN kind.min
          ELSE IF up THEN Min(above) ELSE Max(below)
  BY <1>1 DEF FromDB
<1>7. /\ above # {} => Min(above) \in above /\ \A y \in above : Min(above) <= y
      /\ below # {} => Max(below) \in below /\ \A y \in below : y <= Max(below)
  BY <1>1, LeastInRange, GreatestInRange
<1> HIDE DEF w, A
<1>8. CASE above = {}
  <2>1. w = kind.max
    BY <1>6, <1>8
  <2>2. \A u \in A : DB(kind, u) < level /\ DB(kind, u) <= DB(kind, w)
    BY <1>2, <1>3, <1>4, <1>8, <2>1
  <2>3. QED
    BY <1>1, <1>3, <1>4, <2>1, <2>2 DEF Nearest, w
<1>9. CASE above # {} /\ below = {}
  <2>1. w = kind.min
    BY <1>6, <1>9
  <2>2. \A u \in A : level < DB(kind, u) /\ DB(kind, w) <= DB(kind, u)
    BY <1>2, <1>3, <1>4, <1>9, <2>1
  <2>3. QED
    BY <1>1, <1>3, <1>4, <2>1, <2>2 DEF Nearest, w
<1>10. CASE above # {} /\ below # {} /\ up
  <2>1. w \in A /\ DB(kind, w) >= level /\ \A y \in above : w <= y
    BY <1>6, <1>7, <1>10
  <2>2. \A u \in A : level <= DB(kind, u) => DB(kind, w) <= DB(kind, u)
    BY <1>2, <1>3, <2>1
  <2>3. \A u \in A : ~(DB(kind, w) < DB(kind, u) /\ DB(kind, u) <= level)
    BY <1>3, <2>1
  <2>4. QED
    BY <1>1, <1>3, <2>1, <2>2, <2>3 DEF Nearest, w
<1>11. CASE above # {} /\ below # {} /\ ~up
  <2>1. w \in A /\ DB(kind, w) <= level /\ \A y \in below : y <= w
    BY <1>6, <1>7, <1>11
  <2>2. \A u \in A : DB(kind, u) <= level => DB(kind, u) <= DB(kind, w)
    BY <1>2, <1>3, <2>1
  <2>3. \A u \in A : ~(level <= DB(kind, u) /\ DB(kind, u) < DB(kind, w))
    BY <1>3, <2>1
  <2>4. QED
    BY <1>1, <1>3, <2>1, <2>2, <2>3 DEF Nearest, w
<1>12. QED
  BY <1>8, <1>9, <1>10, <1>11

\* what set_control makes of an entry for an element of that kind
Wanted(e, kind) == Converted(e, kind, e.value)

LEMMA WantedLevels ==
  ASSUME NEW e, ProperEntry(e), NEW kind, ProperKind(kind), Converts(e, kind)
  PROVE  /\ DOMAIN Wanted(e, kind) = DOMAIN e.value /\ Integer(e.kind) /\ Integer(kind)
         /\ \A i \in DOMAIN e.value :
               /\ Wanted(e, kind)[i] \in Allowed(kind)
               /\ Nearest(kind, Wanted(e, kind)[i], e.level[i])
<1>1. /\ Integer(e.kind) /\ Integer(kind) /\ e.kind.min < e.kind.max /\ kind.min < kind.max
      /\ e.kind.db # <<>> /\ kind.db # <<>>
      /\ e.kind.db[1] < e.kind.db[2] /\ kind.db[1] < kind.db[2]
  BY DEF Converts
<1>2. Wanted(e, kind) = [i \in DOMAIN e.value |-> FromDB(kind, e.level[i], e.level[i] > 0)]
  BY DEF Wanted, Converted
<1>3. \A i \in DOMAIN e.value : e.level[i] \in Int
  BY <1>1 DEF ProperEntry
<1>4. ASSUME NEW i \in DOMAIN e.value
      PROVE  Wanted(e, kind)[i] \in Allowed(kind) /\ Nearest(kind, Wanted(e, kind)[i], e.level[i])
  <2>1. Wanted(e, kind)[i] = FromDB(kind, e.level[i], e.level[i] > 0)
    BY <1>2
  <2>2. (e.level[i] > 0) \in BOOLEAN
    OBVIOUS
  <2>3. QED
    BY <1>1, <1>3, <2>1, <2>2, FromDBIsNearest
<1>5. QED
  BY <1>1, <1>2, <1>4

LEMMA WantedAsIs ==
  ASSUME NEW e, NEW kind, ~Converts(e, kind)
  PROVE  Wanted(e, kind) = e.value
BY DEF Wanted, Converted

\* the value that is written, channel by channel
Written(e, kind) == Channels(e, kind, Wanted(e, kind))

LEMMA ItemNumber ==
  ASSUME NEW e, ~Integer(e.kind), NEW kind, ProperKind(kind), ~Integer(kind),
         NEW x \in Range(kind.items)
  PROVE  Number(e, kind, x) \in Allowed(kind) /\ kind.items[Number(e, kind, x) + 1] = x
<1>1. kind.items \in Seq(Range(kind.items))
  BY DEF ProperKind
<1>2. Len(kind.items) \in Nat /\ DOMAIN kind.items = 1 .. Len(kind.items)
  BY <1>1
<1>3. \E i \in DOMAIN kind.items : kind.items[i] = x
  BY DEF Range
<1>4. PICK i \in DOMAIN kind.items : kind.items[i] = x /\ Number(e, kind, x) = i - 1
  BY <1>3 DEF Number
<1>5. QED
  BY <1>2, <1>4 DEF Allowed

LEMMA WrittenChannels ==
  ASSUME NEW e, ProperEntry(e), NEW kind, ProperKind(kind),
         Complete(e, kind, Wanted(e, kind)) \/ Fits(e, kind)
  PROVE  /\ DOMAIN Written(e, kind) = DOMAIN e.value
         /\ \A i \in DOMAIN e.value :
               /\ Understood(e, kind, Wanted(e, kind)[i])
               /\ Written(e, kind)[i] = Number(e, kind, Wanted(e, kind)[i])
<1> DEFINE value == Wanted(e, kind)
<1>1. kind.count \in Nat /\ e.kind.count \in Nat /\ DOMAIN e.value = 1 .. e.kind.count
  BY DEF ProperKind, ProperEntry
<1>2. DOMAIN value = DOMAIN e.value
  BY WantedLevels, WantedAsIs
<1>3. DOMAIN value = 1 .. kind.count
  BY <1>1, <1>2 DEF Complete, Fits
<1>4. \A i \in DOMAIN value : Channel(value, i) = value[i]
  BY DEF Channel
<1>5. ASSUME NEW i \in DOMAIN value PROVE Understood(e, kind, value[i])
  <2>1. CASE Complete(e, kind, value)
    BY <1>3, <1>4, <2>1 DEF Complete
  <2>2. CASE Fits(e, kind) /\ Integer(e.kind)
    BY <2>2 DEF Fits, Understood
  <2>3. CASE Fits(e, kind) /\ ~Integer(e.kind)
    <3>1. value = e.value /\ ~Integer(kind) /\ Range(e.value) \subseteq Range(kind.items)
      BY <2>3, WantedAsIs DEF Fits, Converts
    <3>2. value[i] \in Range(kind.items)
      BY <3>1 DEF Range
    <3>3. QED
      BY <2>3, <3>1, <3>2 DEF Understood
  <2>4. QED
    BY <2>1, <2>2, <2>3
<1> HIDE DEF value
<1>6. Written(e, kind) = Channels(e, kind, value)
  BY DEF Written, value
<1>7. \A i \in 1 .. kind.count : Written(e, kind)[i] = Number(e, kind, value[i])
  BY <1>3, <1>4, <1>5, <1>6 DEF Channels
<1>8. DOMAIN Written(e, kind) = 1 .. kind.count
  BY <1>6 DEF Channels
<1>9. QED
  BY <1>2, <1>3, <1>5, <1>7, <1>8 DEF value

\* an element that has what is written has the stored setting
LEMMA WrittenIsRestored ==
  ASSUME NEW e, ProperEntry(e), NEW elem, ProperKind(elem.kind),
         Complete(e, elem.kind, Wanted(e, elem.kind)) \/ Fits(e, elem.kind),
         elem.value = Written(e, elem.kind)
  PROVE  Restored(e, elem)
<1> DEFINE kind == elem.kind
<1>1. /\ DOMAIN elem.value = DOMAIN e.value
      /\ \A i \in DOMAIN e.value : /\ Understood(e, kind, Wanted(e, kind)[i])
                                   /\ elem.value[i] = Number(e, kind, Wanted(e, kind)[i])
  BY WrittenChannels
<1>2. CASE Converts(e, kind)
  <2>1. \A i \in DOMAIN e.value : elem.value[i] = Wanted(e, kind)[i]
    BY <1>1, <1>2, WantedLevels DEF Number
  <2>2. QED
    BY <1>1, <1>2, <2>1, WantedLevels DEF Restored
<1>3. CASE ~Converts(e, kind)
  <2>1. Wanted(e, kind) = e.value
    BY <1>3, WantedAsIs
  <2>2. CASE Integer(e.kind)
    BY <1>1, <1>3, <2>1, <2>2 DEF Restored, Number
  <2>3. CASE ~Integer(e.kind)
    <3>1. ASSUME NEW i \in DOMAIN e.value
          PROVE  ~Integer(kind) /\ kind.items[elem.value[i] + 1] = e.value[i]
      <4>1. ~Integer(kind) /\ e.value[i] \in Range(kind.items)
        BY <1>1, <2>1, <2>3 DEF Understood
      <4>2. QED
        BY <1>1, <2>1, <2>3, <4>1, ItemNumber
    <3>2. QED
      BY <1>1, <1>3, <2>3, <3>1 DEF Restored
  <2>4. QED
    BY <2>2, <2>3
<1>4. QED
  BY <1>2, <1>3

\* the kernel takes what still fits
LEMMA FittingIsAllowed ==
  ASSUME NEW e, ProperEntry(e), NEW kind, ProperKind(kind), Fits(e, kind)
  PROVE  \A i \in DOMAIN Written(e, kind) : Written(e, kind)[i] \in Allowed(kind)
<1> SUFFICES ASSUME NEW i \in DOMAIN e.value
             PROVE  Number(e, kind, Wanted(e, kind)[i]) \in Allowed(kind)
  BY WrittenChannels
<1>1. Understood(e, kind, Wanted(e, kind)[i])
  BY WrittenChannels
<1>2. CASE Converts(e, kind)
  BY <1>2, WantedLevels DEF Number
<1>3. CASE ~Converts(e, kind) /\ Integer(e.kind)
  <2>1. e.value[i] \in Allowed(e.kind) /\ Integer(kind)
    BY <1>3 DEF ProperEntry, Fits
  <2>2. e.kind.min = kind.min /\ e.kind.max = kind.max
    BY <1>3 DEF Fits
  <2>3. Allowed(e.kind) = Allowed(kind)
    BY <1>3, <2>1, <2>2 DEF Allowed
  <2>4. QED
    BY <1>3, <2>1, <2>3, WantedAsIs DEF Number
<1>4. CASE ~Converts(e, kind) /\ ~Integer(e.kind)
  <2>1. ~Integer(kind) /\ e.value[i] \in Range(kind.items)
    BY <1>1, <1>4, WantedAsIs DEF Understood
  <2>2. QED
    BY <1>4, <2>1, ItemNumber, WantedAsIs
<1>5. QED
  BY <1>2, <1>3, <1>4

-----------------------------------------------------------------------------
(***************************************************************************)
(* What is always so: the entries are proper ones, each with a name and a  *)
(* numid of its own; an element keeps all but its value; the loaded copy   *)
(* of an entry has its value or the one wanted for the element; and what   *)
(* is about to be written is that.                                         *)
(***************************************************************************)
ElemFields == {"num", "kind", "read", "write", "inactive", "user", "value"}
InPass  == {"open", "find", "add", "write", "end"}
Working == InPass \cup {"ucm", "init", "unlock"}

FilesInv ==
    /\ DOMAIN file = Cards
    /\ \A c \in Cards :
          /\ IsFiniteSet(file[c]) /\ \A e \in file[c] : ProperEntry(e)
          /\ \A d, e \in file[c] : d.name = e.name \/ d.num = e.num => d = e

MixerInv ==
    /\ DOMAIN mixer = Cards
    /\ \A c \in Cards :
          /\ IsFiniteSet(DOMAIN mixer[c])
          /\ \A n \in DOMAIN mixer[c] : /\ DOMAIN mixer[c][n] = ElemFields
                                        /\ ProperKind(mixer[c][n].kind)

TreeInv ==
    /\ DOMAIN tree = Procs
    /\ \A p \in Procs :
          /\ DOMAIN tree[p] = Cards
          /\ \A c \in Cards :
                /\ DOMAIN tree[p][c] = file[c]
                /\ \A e \in file[c] :
                      \/ tree[p][c][e] = e.value
                      \/ /\ e.name \in DOMAIN mixer[c]
                         /\ tree[p][c][e] = Wanted(e, mixer[c][e.name].kind)

\* what a process is about to write, unless it could not ask for levels or items
Writes(p) ==
    LET e == proc[p].entry
        c == proc[p].at
    IN  /\ Doit(p) /\ e.name \in DOMAIN mixer[c]
        /\ \/ <<c, e.name>> \in failed \cap untold
           \/ /\ force \/ Complete(e, mixer[c][e.name].kind, Wanted(e, mixer[c][e.name].kind))
              /\ proc[p].ctl = Written(e, mixer[c][e.name].kind)

ProcInv(p) ==
    /\ proc[p].todo \in Seq(Cards) /\ proc[p].pass \in {"check", "set", "linked"}
    /\ proc[p].nofile \in BOOLEAN /\ proc[p].final \in BOOLEAN /\ proc[p].err \in BOOLEAN
    /\ proc[p].nofile => proc[p].final
    /\ proc[p].pc \in Working => proc[p].todo # <<>> /\ proc[p].at \in Cards
    /\ proc[p].pc \in InPass  => ~proc[p].nofile /\ proc[p].more \in Seq(Cards)
    /\ proc[p].pc = "ucm"     => ~proc[p].nofile
    /\ proc[p].pc = "init" /\ ~proc[p].nofile => proc[p].more \in Seq(Cards)
    /\ proc[p].pc \in {"find", "add", "write"} => proc[p].left \subseteq file[proc[p].at]
    /\ proc[p].pc \in {"add", "write"} => proc[p].entry \in proc[p].left
    /\ proc[p].pc = "write" => Writes(p)
    /\ proc[p].pc = "end" /\ Doit(p) /\ (force \/ ~proc[p].err) => proc[p].left = {}

ProcsInv == \A p \in Procs : ProcInv(p)
TypeInv == force \in BOOLEAN /\ Shape /\ FilesInv /\ MixerInv /\ TreeInv /\ ProcsInv

\* what has failed is not forgotten, and an element keeps all but its value
Noted == failed \subseteq failed' /\ hindered \subseteq hindered' /\ untold \subseteq untold'
SameElem(elem, now) == \A f \in ElemFields \ {"value"} : now[f] = elem[f]
Grows == \A c \in Cards : \A n \in DOMAIN mixer[c] :
            n \in DOMAIN mixer'[c] /\ SameElem(mixer[c][n], mixer'[c][n])

LEMMA StepNotes ==
  ASSUME [Next]_vars
  PROVE  Noted
<1>1. UNCHANGED <<failed, hindered, untold>> => Noted
  BY DEF Noted
<1>2. ASSUME NEW p \in Procs, Open(p) \/ LastEntry(p) \/ Find(p) \/ AddUser(p) \/ Write(p)
      PROVE  Noted
  <2>1. ASSUME NEW entries, Fails(p, entries)
        PROVE  failed \subseteq failed' /\ hindered \subseteq hindered'
    BY <2>1 DEF Fails
  <2>2. failed \subseteq failed' /\ hindered \subseteq hindered' /\ untold \subseteq untold'
    BY <1>2, <2>1 DEF Open, LastEntry, Find, AddUser, Write, history
  <2>3. QED
    BY <2>2 DEF Noted
<1>3. ASSUME NEW p \in Procs, \/ Start(p) \/ CardLock(p) \/ InitUcm(p) \/ InitCard(p)
                              \/ Unlock(p) \/ Exit(p) \/ EndOfPass(p)
      PROVE  UNCHANGED <<failed, hindered, untold>>
  BY <1>3 DEF Start, CardLock, InitUcm, InitCard, Unlock, Exit, EndOfPass, history
<1>4. UNCHANGED vars => UNCHANGED <<failed, hindered, untold>>
  BY DEF vars, history
<1>5. QED
  BY <1>1, <1>2, <1>3, <1>4 DEF Next

LEMMA OthersKeepTheirs ==
  ASSUME TypeInv, Noted, Grows, UNCHANGED <<file, force>>, NEW q \in Procs, proc'[q] = proc[q]
  PROVE  ProcInv(q)'
<1>1. ProcInv(q)
  BY DEF TypeInv, ProcsInv
<1>2. Doit(q)' <=> Doit(q)
  BY DEF Doit
<1>3. ASSUME proc[q].pc = "write" PROVE Writes(q)'
  <2>1. Writes(q) /\ proc[q].at \in Cards
    BY <1>1, <1>3 DEF ProcInv, Working, InPass
  <2> DEFINE c == proc[q].at
             n == proc[q].entry.name
  <2>2. n \in DOMAIN mixer[c] /\ n \in DOMAIN mixer'[c] /\ mixer'[c][n].kind = mixer[c][n].kind
    BY <2>1 DEF Writes, Grows, SameElem, ElemFields
  <2>3. QED
    BY <1>2, <2>1, <2>2 DEF Writes, Noted
<1>4. QED
  BY <1>1, <1>2, <1>3 DEF ProcInv

LEMMA TreeStays ==
  ASSUME TypeInv, Grows, UNCHANGED <<file, tree>>
  PROVE  TreeInv'
<1>1. TreeInv
  BY DEF TypeInv
<1>2. \A c \in Cards : \A n \in DOMAIN mixer[c] :
         n \in DOMAIN mixer'[c] /\ mixer'[c][n].kind = mixer[c][n].kind
  BY DEF Grows, SameElem, ElemFields
<1>3. QED
  BY <1>1, <1>2 DEF TreeInv

LEMMA TreeConverted ==
  ASSUME TypeInv, Grows, UNCHANGED file, NEW p \in Procs, NEW c \in Cards, NEW e \in file[c],
         e.name \in DOMAIN mixer'[c],
         tree' = [tree EXCEPT ![p][c][e] = Wanted(e, mixer'[c][e.name].kind)]
  PROVE  TreeInv'
<1>1. TreeInv
  BY DEF TypeInv
<1>2. \A d \in Cards : \A n \in DOMAIN mixer[d] :
         n \in DOMAIN mixer'[d] /\ mixer'[d][n].kind = mixer[d][n].kind
  BY DEF Grows, SameElem, ElemFields
<1>3. /\ DOMAIN tree' = Procs
      /\ \A q \in Procs : DOMAIN tree'[q] = Cards
      /\ \A q \in Procs, d \in Cards : DOMAIN tree'[q][d] = file[d]
      /\ \A q \in Procs, d \in Cards : \A x \in file[d] :
            tree'[q][d][x] = IF q = p /\ d = c /\ x = e THEN Wanted(e, mixer'[c][e.name].kind)
                             ELSE tree[q][d][x]
  BY <1>1 DEF TreeInv
<1>4. ASSUME NEW q \in Procs, NEW d \in Cards, NEW x \in file[d]
      PROVE  \/ tree'[q][d][x] = x.value
             \/ x.name \in DOMAIN mixer'[d] /\ tree'[q][d][x] = Wanted(x, mixer'[d][x.name].kind)
  <2>1. CASE q = p /\ d = c /\ x = e
    BY <1>3, <2>1
  <2>2. CASE ~(q = p /\ d = c /\ x = e)
    <3>1. tree'[q][d][x] = tree[q][d][x]
      BY <1>3, <2>2
    <3>2. \/ tree[q][d][x] = x.value
          \/ x.name \in DOMAIN mixer[d] /\ tree[q][d][x] = Wanted(x, mixer[d][x.name].kind)
      BY <1>1 DEF TreeInv
    <3>3. QED
      BY <1>2, <3>1, <3>2
  <2>3. QED
    BY <2>1, <2>2
<1>5. QED
  BY <1>3, <1>4 DEF TreeInv

LEMMA TreeEntry ==
  ASSUME TypeInv, NEW p \in Procs, NEW c \in Cards, NEW e \in file[c]
  PROVE  \/ tree[p][c][e] = e.value
         \/ /\ e.name \in DOMAIN mixer[c]
            /\ tree[p][c][e] = Wanted(e, mixer[c][e.name].kind)
BY DEF TypeInv, TreeInv

LEMMA TreeAsBefore ==
  ASSUME TypeInv, Grows, UNCHANGED file, NEW p \in Procs, NEW c \in Cards, NEW e \in file[c],
         tree' = [tree EXCEPT ![p][c][e] = tree[p][c][e]]
  PROVE  TreeInv'
<1>1. TreeInv
  BY DEF TypeInv
<1>2. \A d \in Cards : \A n \in DOMAIN mixer[d] :
         n \in DOMAIN mixer'[d] /\ mixer'[d][n].kind = mixer[d][n].kind
  BY DEF Grows, SameElem, ElemFields
<1>3. /\ DOMAIN tree' = Procs
      /\ \A q \in Procs : DOMAIN tree'[q] = Cards
      /\ \A q \in Procs, d \in Cards : DOMAIN tree'[q][d] = file[d]
      /\ \A q \in Procs, d \in Cards : \A x \in file[d] : tree'[q][d][x] = tree[q][d][x]
  BY <1>1 DEF TreeInv
<1>4. QED
  BY <1>1, <1>2, <1>3 DEF TreeInv

LEMMA StepKeepsTypes ==
  ASSUME TypeInv, Noted, Grows, MixerInv', TreeInv', Shape', UNCHANGED <<file, force>>,
         NEW p \in Procs, ProcInv(p)', \A q \in Procs \ {p} : proc'[q] = proc[q]
  PROVE  TypeInv'
<1>1. FilesInv'
  BY DEF TypeInv, FilesInv
<1>2. \A q \in Procs : ProcInv(q)'
  BY OthersKeepTheirs
<1>3. QED
  BY <1>1, <1>2 DEF TypeInv, ProcsInv

LEMMA MixerStays ==
  ASSUME TypeInv, UNCHANGED mixer
  PROVE  Grows /\ MixerInv'
BY DEF TypeInv, Grows, SameElem, MixerInv

\* a step that touches neither elements nor the copy
LEMMA PlainStepKeepsTypes ==
  ASSUME TypeInv, Noted, UNCHANGED <<file, force, mixer, tree>>, NEW p \in Procs,
         NEW change, DOMAIN change \subseteq Fields, Go(p, change), ProcInv(p)'
  PROVE  TypeInv'
<1>1. Grows /\ MixerInv'
  BY MixerStays
<1>2. TreeInv'
  BY <1>1, TreeStays
<1>3. Shape' /\ \A q \in Procs \ {p} : proc'[q] = proc[q]
  BY GoFields DEF TypeInv
<1>4. QED
  BY <1>1, <1>2, <1>3, StepKeepsTypes

-----------------------------------------------------------------------------
LEMMA StoredElement ==
  ASSUME NEW name, NEW elem, ProperElem(elem)
  PROVE  ProperEntry(Entry(name, elem))
<1> DEFINE e == Entry(name, elem)
<1>1. /\ e.num = elem.num /\ e.name = name /\ e.kind = elem.kind /\ e.inactive = elem.inactive
      /\ e.user = elem.user /\ e.value = Value(elem) /\ e.level = Levels(elem)
  BY DEF Entry
<1> HIDE DEF e
<1>2. /\ elem.num \in Nat /\ ProperKind(elem.kind) /\ elem.inactive \in BOOLEAN
      /\ elem.user \in BOOLEAN /\ elem.value \in [1 .. elem.kind.count -> Allowed(elem.kind)]
  BY DEF ProperElem
<1>3. DOMAIN elem.value = 1 .. elem.kind.count
      /\ \A i \in DOMAIN elem.value : elem.value[i] \in Allowed(elem.kind)
  BY <1>2
<1>4. /\ DOMAIN Value(elem) = 1 .. elem.kind.count
      /\ \A i \in DOMAIN Value(elem) : IF Integer(elem.kind) THEN Value(elem)[i] \in Allowed(elem.kind)
                                       ELSE Value(elem)[i] \in Range(elem.kind.items)
  <2>1. CASE Integer(elem.kind)
    BY <1>3, <2>1 DEF Value
  <2>2. CASE ~Integer(elem.kind)
    <3>1. Value(elem) = [i \in DOMAIN elem.value |-> elem.kind.items[elem.value[i] + 1]]
      BY <2>2 DEF Value
    <3>2. elem.kind.items \in Seq(Range(elem.kind.items))
      BY <1>2, <2>2 DEF ProperKind
    <3>3. DOMAIN elem.kind.items = 1 .. Len(elem.kind.items) /\ Len(elem.kind.items) \in Nat
      BY <3>2
    <3>4. \A i \in DOMAIN elem.value : elem.value[i] \in 0 .. Len(elem.kind.items) - 1
      BY <1>3, <2>2 DEF Allowed
    <3>5. \A i \in DOMAIN elem.value : elem.value[i] + 1 \in DOMAIN elem.kind.items
      BY <3>3, <3>4
    <3>6. \A i \in DOMAIN elem.value : elem.kind.items[elem.value[i] + 1] \in Range(elem.kind.items)
      BY <3>5 DEF Range
    <3>7. QED
      BY <1>3, <2>2, <3>1, <3>6
  <2>3. QED
    BY <2>1, <2>2
<1>5. ASSUME Integer(elem.kind), elem.kind.min < elem.kind.max, elem.kind.db # <<>>,
             elem.kind.db[1] < elem.kind.db[2]
      PROVE  DOMAIN Levels(elem) = DOMAIN Value(elem)
             /\ \A i \in DOMAIN Levels(elem) : Levels(elem)[i] \in Int
  <2>1. Levels(elem) = [i \in DOMAIN elem.value |-> DB(elem.kind, elem.value[i])]
    BY <1>5 DEF Levels
  <2>2. /\ elem.kind.min \in Int /\ elem.kind.max \in Int
        /\ elem.kind.db[1] \in Int /\ elem.kind.db[2] \in Int
    BY <1>2, <1>5 DEF ProperKind
  <2>3. \A i \in DOMAIN elem.value : elem.value[i] \in elem.kind.min .. elem.kind.max
    BY <1>3, <1>5 DEF Allowed
  <2>4. \A v \in elem.kind.min .. elem.kind.max : DB(elem.kind, v) \in Int
    <3>1. TAKE v \in elem.kind.min .. elem.kind.max
    <3>2. v <= v
      BY <2>2
    <3>3. QED
      BY <1>5, <2>2, <3>2, LevelGrows
  <2>5. QED
    BY <1>3, <1>4, <2>1, <2>3, <2>4
<1>6. QED
  BY <1>1, <1>2, <1>4, <1>5 DEF ProperEntry, e

LEMMA StoredCard ==
  ASSUME NEW elems, IsFiniteSet(DOMAIN elems), \A n \in DOMAIN elems : ProperElem(elems[n]),
         \A m, n \in DOMAIN elems : elems[m].num = elems[n].num => m = n
  PROVE  /\ IsFiniteSet(Stored(elems)) /\ \A e \in Stored(elems) : ProperEntry(e)
         /\ \A d, e \in Stored(elems) : d.name = e.name \/ d.num = e.num => d = e
<1> DEFINE N == {n \in DOMAIN elems : elems[n].read}
<1>1. Stored(elems) = {Entry(n, elems[n]) : n \in N}
  BY DEF Stored
<1>2. IsFiniteSet(N)
  BY FS_Subset
<1>3. IsFiniteSet({Entry(n, elems[n]) : n \in N})
  <2> DEFINE f == [n \in N |-> Entry(n, elems[n])]
             T == {Entry(n, elems[n]) : n \in N}
  <2>1. f \in Surjection(N, T)
    BY DEF Surjection
  <2>2. QED
    BY <1>2, <2>1, FS_Surjection
<1>4. \A n \in N : Entry(n, elems[n]).name = n /\ Entry(n, elems[n]).num = elems[n].num
  BY DEF Entry
<1>5. \A e \in Stored(elems) : ProperEntry(e)
  BY <1>1, StoredElement
<1>6. ASSUME NEW d \in Stored(elems), NEW e \in Stored(elems), d.name = e.name \/ d.num = e.num
      PROVE  d = e
  <2>1. PICK m \in N : d = Entry(m, elems[m])
    BY <1>1
  <2>2. PICK n \in N : e = Entry(n, elems[n])
    BY <1>1
  <2>3. m = n
    BY <1>4, <1>6, <2>1, <2>2
  <2>4. QED
    BY <2>1, <2>2, <2>3
<1>7. QED
  BY <1>1, <1>3, <1>5, <1>6

LEMMA TypesStart == Init => TypeInv
<1> SUFFICES ASSUME Init PROVE TypeInv
  OBVIOUS
<1>1. PICK elems \in OneOfEach(Before) : file = [c \in Cards |-> Stored(elems[c])]
  BY DEF Init
<1>2. \A c \in Cards : elems[c] \in Before[c]
  BY <1>1 DEF OneOfEach
<1>3. FilesInv
  <2>1. ASSUME NEW c \in Cards
        PROVE  /\ IsFiniteSet(file[c]) /\ \A e \in file[c] : ProperEntry(e)
               /\ \A d, e \in file[c] : d.name = e.name \/ d.num = e.num => d = e
    <3>1. /\ IsFiniteSet(DOMAIN elems[c]) /\ \A n \in DOMAIN elems[c] : ProperElem(elems[c][n])
          /\ \A m, n \in DOMAIN elems[c] : elems[c][m].num = elems[c][n].num => m = n
      BY <1>2, ElementsAssumption
    <3>2. file[c] = Stored(elems[c])
      BY <1>1
    <3>3. QED
      BY <3>1, <3>2, StoredCard
  <2>2. QED
    BY <1>1, <2>1 DEF FilesInv
<1>4. mixer \in OneOfEach(After)
  BY DEF Init
<1>5. DOMAIN mixer = Cards /\ \A c \in Cards : mixer[c] \in After[c]
  BY <1>4 DEF OneOfEach
<1>6. MixerInv
  <2>1. ASSUME NEW c \in Cards
        PROVE  /\ IsFiniteSet(DOMAIN mixer[c])
               /\ \A n \in DOMAIN mixer[c] : /\ DOMAIN mixer[c][n] = ElemFields
                                             /\ ProperKind(mixer[c][n].kind)
    <3>1. IsFiniteSet(DOMAIN mixer[c]) /\ \A n \in DOMAIN mixer[c] : ProperElem(mixer[c][n])
      BY <1>5, ElementsAssumption
    <3>2. QED
      BY <3>1 DEF ProperElem, ElemFields
  <2>2. QED
    BY <1>5, <2>1 DEF MixerInv
<1>7. TreeInv
  BY DEF Init, TreeInv
<1>8. Shape
  BY DEF Init, Shape, Idle, Fields
<1>9. ASSUME NEW p \in Procs PROVE ProcInv(p)
  <2>1. /\ proc[p].pc = "start" /\ proc[p].todo = Args[p] /\ proc[p].nofile = FALSE
        /\ proc[p].final = FALSE /\ proc[p].err = FALSE /\ proc[p].pass = "check"
    BY DEF Init, Idle
  <2>2. Args[p] \in Seq(Cards)
    BY ListsAssumption
  <2>3. QED
    BY <2>1, <2>2 DEF ProcInv, Working, InPass
<1>10. QED
  BY <1>3, <1>6, <1>7, <1>8, <1>9 DEF TypeInv, ProcsInv, Init

-----------------------------------------------------------------------------
(***************************************************************************)
(* What the steps of a process change in it.                               *)
(***************************************************************************)
Kept(p, S) == \A f \in Fields \ S : proc'[p][f] = proc[p][f]
OneMoves(p) == Shape' /\ \A q \in Procs \ {p} : proc'[q] = proc[q]

LEMMA GoOn ==
  ASSUME Shape, NEW p \in Procs, NEW change, NEW S \in SUBSET Fields, DOMAIN change = S,
         Go(p, change)
  PROVE  OneMoves(p) /\ Kept(p, S) /\ \A f \in S : proc'[p][f] = change[f]
<1>1. S \subseteq Fields
  OBVIOUS
<1>2. QED
  BY <1>1, GoFields DEF OneMoves, Kept

LEMMA NextCardEffect ==
  ASSUME Shape, NEW p \in Procs, NEW final, NextCard(p, final)
  PROVE  /\ OneMoves(p) /\ Kept(p, {"pc", "todo", "final"})
         /\ proc'[p].pc = "card" /\ proc'[p].todo = Tail(proc[p].todo)
         /\ proc'[p].final = (proc[p].final \/ final)
<1> DEFINE change == [pc |-> "card", todo |-> Tail(proc[p].todo), final |-> proc[p].final \/ final]
           S == {"pc", "todo", "final"}
<1>1. Go(p, change)
  BY DEF NextCard
<1>2. /\ DOMAIN change = S /\ change.pc = "card" /\ change.todo = Tail(proc[p].todo)
      /\ change.final = (proc[p].final \/ final)
  OBVIOUS
<1>3. S \in SUBSET Fields
  BY DEF Fields
<1> HIDE DEF change, S
<1>4. OneMoves(p) /\ Kept(p, S) /\ \A f \in S : proc'[p][f] = change[f]
  BY <1>1, <1>2, <1>3, GoOn
<1>5. QED
  BY <1>2, <1>4 DEF S

LEMMA EntryDoneEffect ==
  ASSUME Shape, NEW p \in Procs, NEW e, NEW err, EntryDone(p, e, err)
  PROVE  /\ OneMoves(p) /\ Kept(p, {"pc", "left", "err"})
         /\ proc'[p].pc = (IF err /\ ~Lax(p) THEN "end" ELSE "find")
         /\ proc'[p].left = proc[p].left \ {e} /\ proc'[p].err = err
<1> DEFINE change == [pc |-> IF err /\ ~Lax(p) THEN "end" ELSE "find",
                      left |-> proc[p].left \ {e}, err |-> err]
           S == {"pc", "left", "err"}
<1>1. Go(p, change)
  BY DEF EntryDone
<1>2. /\ DOMAIN change = S /\ change.pc = IF err /\ ~Lax(p) THEN "end" ELSE "find"
      /\ change.left = proc[p].left \ {e} /\ change.err = err
  OBVIOUS
<1>3. S \in SUBSET Fields
  BY DEF Fields
<1> HIDE DEF change, S
<1>4. OneMoves(p) /\ Kept(p, S) /\ \A f \in S : proc'[p][f] = change[f]
  BY <1>1, <1>2, <1>3, GoOn
<1>5. QED
  BY <1>2, <1>4 DEF S

LEMMA MovedEffect ==
  ASSUME Shape, NEW p \in Procs, NEW a,
         Go(p, [pc |-> a])
  PROVE  /\ OneMoves(p) /\ Kept(p, {"pc"})
         /\ proc'[p].pc = a
<1> DEFINE change == [pc |-> a]
           S == {"pc"}
<1>1. DOMAIN change = S /\ change.pc = a
  OBVIOUS
<1>2. S \in SUBSET Fields /\ Go(p, change)
  BY DEF Fields
<1> HIDE DEF change, S
<1>3. OneMoves(p) /\ Kept(p, S) /\ \A f \in S : proc'[p][f] = change[f]
  BY <1>1, <1>2, GoOn
<1>4. QED
  BY <1>1, <1>3 DEF S

LEMMA NoFileEffect ==
  ASSUME Shape, NEW p \in Procs, NEW a, NEW b, NEW c,
         Go(p, [pc |-> a, nofile |-> b, final |-> c])
  PROVE  /\ OneMoves(p) /\ Kept(p, {"pc", "nofile", "final"})
         /\ proc'[p].pc = a /\ proc'[p].nofile = b /\ proc'[p].final = c
<1> DEFINE change == [pc |-> a, nofile |-> b, final |-> c]
           S == {"pc", "nofile", "final"}
<1>1. DOMAIN change = S /\ change.pc = a /\ change.nofile = b /\ change.final = c
  OBVIOUS
<1>2. S \in SUBSET Fields /\ Go(p, change)
  BY DEF Fields
<1> HIDE DEF change, S
<1>3. OneMoves(p) /\ Kept(p, S) /\ \A f \in S : proc'[p][f] = change[f]
  BY <1>1, <1>2, GoOn
<1>4. QED
  BY <1>1, <1>3 DEF S

LEMMA LockedEffect ==
  ASSUME Shape, NEW p \in Procs, NEW a, NEW b,
         Go(p, [pc |-> a, at |-> b])
  PROVE  /\ OneMoves(p) /\ Kept(p, {"pc", "at"})
         /\ proc'[p].pc = a /\ proc'[p].at = b
<1> DEFINE change == [pc |-> a, at |-> b]
           S == {"pc", "at"}
<1>1. DOMAIN change = S /\ change.pc = a /\ change.at = b
  OBVIOUS
<1>2. S \in SUBSET Fields /\ Go(p, change)
  BY DEF Fields
<1> HIDE DEF change, S
<1>3. OneMoves(p) /\ Kept(p, S) /\ \A f \in S : proc'[p][f] = change[f]
  BY <1>1, <1>2, GoOn
<1>4. QED
  BY <1>1, <1>3 DEF S

LEMMA PostponedEffect ==
  ASSUME Shape, NEW p \in Procs, NEW a, NEW b,
         Go(p, [pc |-> a, postponed |-> b])
  PROVE  /\ OneMoves(p) /\ Kept(p, {"pc", "postponed"})
         /\ proc'[p].pc = a /\ proc'[p].postponed = b
<1> DEFINE change == [pc |-> a, postponed |-> b]
           S == {"pc", "postponed"}
<1>1. DOMAIN change = S /\ change.pc = a /\ change.postponed = b
  OBVIOUS
<1>2. S \in SUBSET Fields /\ Go(p, change)
  BY DEF Fields
<1> HIDE DEF change, S
<1>3. OneMoves(p) /\ Kept(p, S) /\ \A f \in S : proc'[p][f] = change[f]
  BY <1>1, <1>2, GoOn
<1>4. QED
  BY <1>1, <1>3 DEF S

LEMMA LinksEffect ==
  ASSUME Shape, NEW p \in Procs, NEW a, NEW b, NEW c,
         Go(p, [pc |-> a, pass |-> b, more |-> c])
  PROVE  /\ OneMoves(p) /\ Kept(p, {"pc", "pass", "more"})
         /\ proc'[p].pc = a /\ proc'[p].pass = b /\ proc'[p].more = c
<1> DEFINE change == [pc |-> a, pass |-> b, more |-> c]
           S == {"pc", "pass", "more"}
<1>1. DOMAIN change = S /\ change.pc = a /\ change.pass = b /\ change.more = c
  OBVIOUS
<1>2. S \in SUBSET Fields /\ Go(p, change)
  BY DEF Fields
<1> HIDE DEF change, S
<1>3. OneMoves(p) /\ Kept(p, S) /\ \A f \in S : proc'[p][f] = change[f]
  BY <1>1, <1>2, GoOn
<1>4. QED
  BY <1>1, <1>3 DEF S

LEMMA PassEffect ==
  ASSUME Shape, NEW p \in Procs, NEW a, NEW b,
         Go(p, [pc |-> a, pass |-> b])
  PROVE  /\ OneMoves(p) /\ Kept(p, {"pc", "pass"})
         /\ proc'[p].pc = a /\ proc'[p].pass = b
<1> DEFINE change == [pc |-> a, pass |-> b]
           S == {"pc", "pass"}
<1>1. DOMAIN change = S /\ change.pc = a /\ change.pass = b
  OBVIOUS
<1>2. S \in SUBSET Fields /\ Go(p, change)
  BY DEF Fields
<1> HIDE DEF change, S
<1>3. OneMoves(p) /\ Kept(p, S) /\ \A f \in S : proc'[p][f] = change[f]
  BY <1>1, <1>2, GoOn
<1>4. QED
  BY <1>1, <1>3 DEF S

LEMMA FailedInitEffect ==
  ASSUME Shape, NEW p \in Procs, NEW a, NEW b, NEW c,
         Go(p, [pc |-> a, pass |-> b, final |-> c])
  PROVE  /\ OneMoves(p) /\ Kept(p, {"pc", "pass", "final"})
         /\ proc'[p].pc = a /\ proc'[p].pass = b /\ proc'[p].final = c
<1> DEFINE change == [pc |-> a, pass |-> b, final |-> c]
           S == {"pc", "pass", "final"}
<1>1. DOMAIN change = S /\ change.pc = a /\ change.pass = b /\ change.final = c
  OBVIOUS
<1>2. S \in SUBSET Fields /\ Go(p, change)
  BY DEF Fields
<1> HIDE DEF change, S
<1>3. OneMoves(p) /\ Kept(p, S) /\ \A f \in S : proc'[p][f] = change[f]
  BY <1>1, <1>2, GoOn
<1>4. QED
  BY <1>1, <1>3 DEF S

LEMMA OpenedEffect ==
  ASSUME Shape, NEW p \in Procs, NEW a, NEW b, NEW c,
         Go(p, [pc |-> a, left |-> b, err |-> c])
  PROVE  /\ OneMoves(p) /\ Kept(p, {"pc", "left", "err"})
         /\ proc'[p].pc = a /\ proc'[p].left = b /\ proc'[p].err = c
<1> DEFINE change == [pc |-> a, left |-> b, err |-> c]
           S == {"pc", "left", "err"}
<1>1. DOMAIN change = S /\ change.pc = a /\ change.left = b /\ change.err = c
  OBVIOUS
<1>2. S \in SUBSET Fields /\ Go(p, change)
  BY DEF Fields
<1> HIDE DEF change, S
<1>3. OneMoves(p) /\ Kept(p, S) /\ \A f \in S : proc'[p][f] = change[f]
  BY <1>1, <1>2, GoOn
<1>4. QED
  BY <1>1, <1>3 DEF S

LEMMA ComparedEffect ==
  ASSUME Shape, NEW p \in Procs, NEW a, NEW b,
         Go(p, [pc |-> a, err |-> b])
  PROVE  /\ OneMoves(p) /\ Kept(p, {"pc", "err"})
         /\ proc'[p].pc = a /\ proc'[p].err = b
<1> DEFINE change == [pc |-> a, err |-> b]
           S == {"pc", "err"}
<1>1. DOMAIN change = S /\ change.pc = a /\ change.err = b
  OBVIOUS
<1>2. S \in SUBSET Fields /\ Go(p, change)
  BY DEF Fields
<1> HIDE DEF change, S
<1>3. OneMoves(p) /\ Kept(p, S) /\ \A f \in S : proc'[p][f] = change[f]
  BY <1>1, <1>2, GoOn
<1>4. QED
  BY <1>1, <1>3 DEF S

LEMMA FinishedEffect ==
  ASSUME Shape, NEW p \in Procs, NEW a, NEW b,
         Go(p, [pc |-> a, final |-> b])
  PROVE  /\ OneMoves(p) /\ Kept(p, {"pc", "final"})
         /\ proc'[p].pc = a /\ proc'[p].final = b
<1> DEFINE change == [pc |-> a, final |-> b]
           S == {"pc", "final"}
<1>1. DOMAIN change = S /\ change.pc = a /\ change.final = b
  OBVIOUS
<1>2. S \in SUBSET Fields /\ Go(p, change)
  BY DEF Fields
<1> HIDE DEF change, S
<1>3. OneMoves(p) /\ Kept(p, S) /\ \A f \in S : proc'[p][f] = change[f]
  BY <1>1, <1>2, GoOn
<1>4. QED
  BY <1>1, <1>3 DEF S

LEMMA NextLinkedEffect ==
  ASSUME Shape, NEW p \in Procs, NEW a, NEW b, NEW c, NEW d, NEW e,
         Go(p, [pc |-> a, pass |-> b, final |-> c, at |-> d, more |-> e])
  PROVE  /\ OneMoves(p) /\ Kept(p, {"pc", "pass", "final", "at", "more"})
         /\ proc'[p].pc = a /\ proc'[p].pass = b /\ proc'[p].final = c /\ proc'[p].at = d /\ proc'[p].more = e
<1> DEFINE change == [pc |-> a, pass |-> b, final |-> c, at |-> d, more |-> e]
           S == {"pc", "pass", "final", "at", "more"}
<1>1. DOMAIN change = S /\ change.pc = a /\ change.pass = b /\ change.final = c /\ change.at = d /\ change.more = e
  OBVIOUS
<1>2. S \in SUBSET Fields /\ Go(p, change)
  BY DEF Fields
<1> HIDE DEF change, S
<1>3. OneMoves(p) /\ Kept(p, S) /\ \A f \in S : proc'[p][f] = change[f]
  BY <1>1, <1>2, GoOn
<1>4. QED
  BY <1>1, <1>3 DEF S

LEMMA AddingEffect ==
  ASSUME Shape, NEW p \in Procs, NEW a, NEW b,
         Go(p, [pc |-> a, entry |-> b])
  PROVE  /\ OneMoves(p) /\ Kept(p, {"pc", "entry"})
         /\ proc'[p].pc = a /\ proc'[p].entry = b
<1> DEFINE change == [pc |-> a, entry |-> b]
           S == {"pc", "entry"}
<1>1. DOMAIN change = S /\ change.pc = a /\ change.entry = b
  OBVIOUS
<1>2. S \in SUBSET Fields /\ Go(p, change)
  BY DEF Fields
<1> HIDE DEF change, S
<1>3. OneMoves(p) /\ Kept(p, S) /\ \A f \in S : proc'[p][f] = change[f]
  BY <1>1, <1>2, GoOn
<1>4. QED
  BY <1>1, <1>3 DEF S

LEMMA WritingEffect ==
  ASSUME Shape, NEW p \in Procs, NEW a, NEW b, NEW c,
         Go(p, [pc |-> a, entry |-> b, ctl |-> c])
  PROVE  /\ OneMoves(p) /\ Kept(p, {"pc", "entry", "ctl"})
         /\ proc'[p].pc = a /\ proc'[p].entry = b /\ proc'[p].ctl = c
<1> DEFINE change == [pc |-> a, entry |-> b, ctl |-> c]
           S == {"pc", "entry", "ctl"}
<1>1. DOMAIN change = S /\ change.pc = a /\ change.entry = b /\ change.ctl = c
  OBVIOUS
<1>2. S \in SUBSET Fields /\ Go(p, change)
  BY DEF Fields
<1> HIDE DEF change, S
<1>3. OneMoves(p) /\ Kept(p, S) /\ \A f \in S : proc'[p][f] = change[f]
  BY <1>1, <1>2, GoOn
<1>4. QED
  BY <1>1, <1>3 DEF S

\* what becomes of an entry e whose element, by name or numid, is elem, called n
Refuses(p, e, n, elem) ==
    (~force /\ elem.num # e.num) \/ n # e.name \/ (RangeDiffers(e, elem.kind) /\ ~Lax(p))
Outcome(p, c, e, n, elem) ==
    \/ Refuses(p, e, n, elem) /\ EntryDone(p, e, TRUE) /\ UNCHANGED tree
    \/ /\ ~Refuses(p, e, n, elem)
       /\ tree' = [tree EXCEPT ![p][c][e] = Wanted(e, elem.kind)]
       /\ \/ ~Touched(e, elem) /\ EntryDone(p, e, FALSE)
          \/ /\ ~Complete(e, elem.kind, Wanted(e, elem.kind)) /\ ~Lax(p)
             /\ EntryDone(p, e, TRUE)
          \/ ~Doit(p) /\ EntryDone(p, e, FALSE)
          \/ /\ Complete(e, elem.kind, Wanted(e, elem.kind)) \/ Lax(p)
             /\ Doit(p)
             /\ Go(p, [pc |-> "write", entry |-> e, ctl |-> Written(e, elem.kind)])

LEMMA MatchEffect ==
  ASSUME NEW p \in Procs, NEW c, c = proc[p].at, NEW e, NEW n, NEW elem,
         Match(p, e, n, elem, TRUE),
         n = e.name => \/ tree[p][c][e] = e.value
                       \/ tree[p][c][e] = Wanted(e, elem.kind)
  PROVE  Outcome(p, c, e, n, elem)
<1> DEFINE kind  == elem.kind
           value == Converted(e, kind, tree[p][c][e])
<1>1. \/ /\ Refuses(p, e, n, elem) /\ EntryDone(p, e, TRUE) /\ UNCHANGED tree
      \/ /\ ~Refuses(p, e, n, elem)
         /\ tree' = [tree EXCEPT ![p][c][e] = value]
         /\ IF e.inactive \/ elem.inactive \/ ~elem.write THEN EntryDone(p, e, FALSE)
            ELSE IF ~Complete(e, kind, value) /\ ~Lax(p)  THEN EntryDone(p, e, TRUE)
            ELSE IF ~Doit(p)                              THEN EntryDone(p, e, FALSE)
            ELSE Go(p, [pc |-> "write", entry |-> e, ctl |-> Channels(e, kind, value)])
  BY DEF Match, Refuses
<1>2. n = e.name => value = Wanted(e, kind)
  <2>1. CASE Converts(e, kind)
    BY <2>1 DEF Wanted, Converted
  <2>2. CASE ~Converts(e, kind)
    <3>1. value = tree[p][c][e] /\ Wanted(e, kind) = e.value
      BY <2>2 DEF Wanted, Converted
    <3>2. QED
      BY <3>1
  <2>3. QED
    BY <2>1, <2>2
<1> HIDE DEF value
<1>3. CASE Refuses(p, e, n, elem)
  BY <1>1, <1>3 DEF Outcome
<1>4. CASE ~Refuses(p, e, n, elem)
  <2>1. value = Wanted(e, kind)
    BY <1>2, <1>4 DEF Refuses
  <2>2. tree' = [tree EXCEPT ![p][c][e] = Wanted(e, kind)]
    BY <1>1, <1>4, <2>1
  <2>3. CASE e.inactive \/ elem.inactive \/ ~elem.write
    <3>1. EntryDone(p, e, FALSE) /\ ~Touched(e, elem)
      BY <1>1, <1>4, <2>3 DEF Touched
    <3>2. QED
      BY <1>4, <2>2, <3>1 DEF Outcome
  <2>4. CASE ~(e.inactive \/ elem.inactive \/ ~elem.write)
    <3>1. IF ~Complete(e, kind, Wanted(e, kind)) /\ ~Lax(p) THEN EntryDone(p, e, TRUE)
          ELSE IF ~Doit(p) THEN EntryDone(p, e, FALSE)
          ELSE Go(p, [pc |-> "write", entry |-> e, ctl |-> Written(e, kind)])
      BY <1>1, <1>4, <2>1, <2>4 DEF Written
    <3>2. QED
      BY <1>4, <2>2, <3>1 DEF Outcome
  <2>5. QED
    BY <2>3, <2>4
<1>5. QED
  BY <1>3, <1>4

\* ... or without the levels or items of the element
Hazy(p, c, e) ==
    \/ EntryDone(p, e, TRUE)
    \/ e.name \in DOMAIN mixer[c] /\ EntryDone(p, e, FALSE)
    \/ /\ Doit(p) /\ e.name \in DOMAIN mixer[c]
       /\ \E ctl : Go(p, [pc |-> "write", entry |-> e, ctl |-> ctl])
Unconverted(p, c, e) ==
    UNCHANGED tree \/ tree' = [tree EXCEPT ![p][c][e] = tree[p][c][e]]
\* ... or when there is none
Absent(p, e) ==
    \/ e.user /\ Go(p, [pc |-> "add", entry |-> e])
    \/ ~e.user /\ EntryDone(p, e, TRUE)

LEMMA UntoldEffect ==
  ASSUME TypeInv, NEW p \in Procs, NEW c \in Cards, c = proc[p].at, NEW e \in file[c],
         NEW n \in DOMAIN mixer[c], Match(p, e, n, mixer[c][n], FALSE)
  PROVE  Unconverted(p, c, e) /\ Hazy(p, c, e)
<1> DEFINE elem  == mixer[c][n]
           kind  == [elem.kind EXCEPT !.db = <<>>, !.items = <<>>]
           value == Converted(e, kind, tree[p][c][e])
<1>1. \/ EntryDone(p, e, TRUE) /\ UNCHANGED tree
      \/ /\ n = e.name /\ tree' = [tree EXCEPT ![p][c][e] = value]
         /\ \/ EntryDone(p, e, FALSE) \/ EntryDone(p, e, TRUE)
            \/ Doit(p) /\ Go(p, [pc |-> "write", entry |-> e, ctl |-> Channels(e, kind, value)])
  BY DEF Match
<1>2. value = tree[p][c][e]
  <2>1. ~Converts(e, kind)
    <3>1. kind.db = <<>> \/ ~("db" \in DOMAIN elem.kind)
      OBVIOUS
    <3>2. QED
      BY <3>1 DEF Converts
  <2>2. QED
    BY <2>1 DEF Converted
<1> HIDE DEF value, kind
<1>3. QED
  BY <1>1, <1>2 DEF Hazy, Unconverted

LEMMA FindEffect ==
  ASSUME TypeInv, NEW p \in Procs, Find(p)
  PROVE  /\ proc[p].pc = "find" /\ UNCHANGED <<force, file, mixer, through, added>>
         /\ proc[p].at \in Cards /\ proc[p].left \subseteq file[proc[p].at]
         /\ \E e \in proc[p].left :
               LET c == proc[p].at IN
               \/ /\ UNCHANGED <<failed, hindered, untold>>
                  /\ \/ \E n \in Found(p, e) : /\ n \in DOMAIN mixer[c]
                                               /\ Outcome(p, c, e, n, mixer[c][n])
                     \/ Found(p, e) = {} /\ UNCHANGED tree /\ Absent(p, e)
               \/ /\ Fails(p, {e})
                  /\ \/ e.name \in DOMAIN mixer[c] /\ Outcome(p, c, e, e.name, mixer[c][e.name])
                     \/ UNCHANGED tree /\ Absent(p, e)
                     \/ /\ Unconverted(p, c, e) /\ Hazy(p, c, e)
                        /\ untold' = untold \cup {<<c, e.name>>}
<1> DEFINE c == proc[p].at
           byName(e) == {e.name} \cap DOMAIN mixer[c]
<1>1. proc[p].pc = "find" /\ UNCHANGED <<force, file, mixer, through, added>>
  BY DEF Find, At, options
<1>2. c \in Cards /\ proc[p].left \subseteq file[c]
  BY <1>1 DEF TypeInv, ProcsInv, ProcInv, Working, InPass
<1>3. PICK e \in proc[p].left :
         \/ Looked(p, e, Found(p, e), TRUE) /\ UNCHANGED <<failed, hindered, untold>>
         \/ Fails(p, {e}) /\ \E found \in {{}, byName(e)} : Looked(p, e, found, TRUE)
         \/ /\ Fails(p, {e}) /\ untold' = untold \cup {<<c, e.name>>}
            /\ Looked(p, e, Found(p, e), FALSE)
  BY DEF Find
<1>4. \A found, told : Looked(p, e, found, told) =>
         \/ \E n \in found : Match(p, e, n, mixer[c][n], told)
         \/ found = {} /\ UNCHANGED tree /\ Absent(p, e)
  BY DEF Looked, Absent
<1>5. ASSUME NEW n \in DOMAIN mixer[c], Match(p, e, n, mixer[c][n], TRUE)
      PROVE  Outcome(p, c, e, n, mixer[c][n])
  <2>1. n = e.name => \/ tree[p][c][e] = e.value
                      \/ tree[p][c][e] = Wanted(e, mixer[c][n].kind)
    BY <1>2, TreeEntry
  <2>2. QED
    BY <1>5, <2>1, MatchEffect
<1>6. Found(p, e) \subseteq DOMAIN mixer[c]
  BY DEF Found
<1>7. CASE Looked(p, e, Found(p, e), TRUE) /\ UNCHANGED <<failed, hindered, untold>>
  <2>1. \/ \E n \in Found(p, e) : n \in DOMAIN mixer[c] /\ Outcome(p, c, e, n, mixer[c][n])
        \/ Found(p, e) = {} /\ UNCHANGED tree /\ Absent(p, e)
    BY <1>4, <1>5, <1>6, <1>7
  <2>2. QED
    BY <1>1, <1>2, <1>7, <2>1
<1>8. ASSUME Fails(p, {e}), NEW found \in {{}, byName(e)}, Looked(p, e, found, TRUE)
      PROVE  \/ e.name \in DOMAIN mixer[c] /\ Outcome(p, c, e, e.name, mixer[c][e.name])
             \/ UNCHANGED tree /\ Absent(p, e)
  <2>1. \A n \in found : n = e.name /\ n \in DOMAIN mixer[c]
    BY <1>8
  <2>2. QED
    BY <1>4, <1>5, <1>8, <2>1
<1>9. ASSUME Looked(p, e, Found(p, e), FALSE)
      PROVE  \/ Unconverted(p, c, e) /\ Hazy(p, c, e)
             \/ UNCHANGED tree /\ Absent(p, e)
  <2>1. ASSUME NEW n \in Found(p, e), Match(p, e, n, mixer[c][n], FALSE)
        PROVE  Unconverted(p, c, e) /\ Hazy(p, c, e)
    BY <1>2, <1>6, <2>1, UntoldEffect
  <2>2. QED
    BY <1>4, <1>9, <2>1
<1>10. QED
  BY <1>1, <1>2, <1>3, <1>7, <1>8, <1>9

LEMMA AddUserEffect ==
  ASSUME TypeInv, NEW p \in Procs, AddUser(p)
  PROVE  LET c == proc[p].at
             e == proc[p].entry
         IN  /\ proc[p].pc = "add" /\ UNCHANGED <<force, file, through, untold>>
             /\ c \in Cards /\ e \in proc[p].left /\ proc[p].left \subseteq file[c]
             /\ \/ /\ EntryDone(p, e, TRUE) /\ UNCHANGED <<mixer, tree, added>>
                   /\ \/ e.name \in DOMAIN mixer[c] /\ UNCHANGED <<failed, hindered>>
                      \/ Fails(p, {e})
                \/ /\ e.name \notin DOMAIN mixer[c]
                   /\ mixer' = [mixer EXCEPT ![c] = With(mixer[c], e.name, NewElem(e, mixer[c]))]
                   /\ added' = added \cup {<<c, p>>}
                   /\ \/ /\ Outcome(p, c, e, e.name, NewElem(e, mixer[c]))
                         /\ UNCHANGED <<failed, hindered>>
                      \/ Fails(p, {e}) /\ EntryDone(p, e, TRUE) /\ UNCHANGED tree
<1> DEFINE c == proc[p].at
           e == proc[p].entry
           elem == NewElem(e, mixer[c])
<1>1. /\ proc[p].pc = "add" /\ UNCHANGED <<force, file, through, untold>>
      /\ \/ /\ EntryDone(p, e, TRUE) /\ UNCHANGED <<mixer, tree, added>>
            /\ \/ e.name \in DOMAIN mixer[c] /\ UNCHANGED <<failed, hindered>>
               \/ Fails(p, {e})
         \/ /\ e.name \notin DOMAIN mixer[c]
            /\ mixer' = [mixer EXCEPT ![c] = With(mixer[c], e.name, elem)]
            /\ added' = added \cup {<<c, p>>}
            /\ \/ Match(p, e, e.name, elem, TRUE) /\ UNCHANGED <<failed, hindered>>
               \/ Fails(p, {e}) /\ EntryDone(p, e, TRUE) /\ UNCHANGED tree
  BY DEF AddUser, At, options
<1>2. c \in Cards /\ e \in proc[p].left /\ proc[p].left \subseteq file[c]
  BY <1>1 DEF TypeInv, ProcsInv, ProcInv, Working, InPass
<1>3. ASSUME e.name \notin DOMAIN mixer[c], Match(p, e, e.name, elem, TRUE)
      PROVE  Outcome(p, c, e, e.name, elem)
  <2>1. tree[p][c][e] = e.value
    BY <1>2, <1>3 DEF TypeInv, TreeInv
  <2>2. QED
    BY <1>3, <2>1, MatchEffect
<1>4. QED
  BY <1>1, <1>2, <1>3

LEMMA WriteEffect ==
  ASSUME TypeInv, NEW p \in Procs, Write(p)
  PROVE  LET c == proc[p].at
             e == proc[p].entry
             ctl == proc[p].ctl
             kind == mixer[c][e.name].kind
             ok == \A i \in DOMAIN ctl : ctl[i] \in Allowed(kind)
         IN  /\ proc[p].pc = "write" /\ UNCHANGED <<force, file, tree, through, untold, added>>
             /\ c \in Cards /\ e \in proc[p].left /\ proc[p].left \subseteq file[c] /\ Writes(p)
             /\ \/ /\ ok /\ EntryDone(p, e, FALSE) /\ UNCHANGED <<failed, hindered>>
                   /\ mixer' = [mixer EXCEPT ![c][e.name].value = ctl]
                \/ ~ok /\ EntryDone(p, e, TRUE) /\ UNCHANGED <<mixer, failed, hindered>>
                \/ ok /\ EntryDone(p, e, TRUE) /\ UNCHANGED mixer /\ Fails(p, {e})
<1>1. proc[p].pc = "write" /\ UNCHANGED <<force, file, tree, through, untold, added>>
  BY DEF Write, At, options
<1>2. /\ proc[p].at \in Cards /\ proc[p].entry \in proc[p].left
      /\ proc[p].left \subseteq file[proc[p].at] /\ Writes(p)
  BY <1>1 DEF TypeInv, ProcsInv, ProcInv, Working, InPass
<1>3. QED
  BY <1>1, <1>2 DEF Write

-----------------------------------------------------------------------------
(***************************************************************************)
(* The elements of a card keep their kinds, and none goes.                 *)
(***************************************************************************)
LEMMA NewElemFacts ==
  ASSUME NEW e, ProperEntry(e), NEW elems
  PROVE  LET elem == NewElem(e, elems)
         IN  /\ DOMAIN elem = ElemFields /\ ProperKind(elem.kind) /\ elem.kind = e.kind
             /\ elem.read = TRUE /\ elem.write = TRUE /\ elem.inactive = FALSE /\ elem.user = TRUE
BY DEF NewElem, ElemFields, ProperEntry

LEMMA InitGrows ==
  ASSUME TypeInv, NEW c \in Cards, mixer' = [mixer EXCEPT ![c] = Initialized(mixer[c])]
  PROVE  Grows /\ MixerInv'
<1>1. MixerInv
  BY DEF TypeInv
<1>2. ASSUME NEW n \in DOMAIN mixer[c]
      PROVE  /\ DOMAIN Initialized(mixer[c])[n] = ElemFields
             /\ SameElem(mixer[c][n], Initialized(mixer[c])[n])
  <2>1. DOMAIN mixer[c][n] = ElemFields
    BY <1>1 DEF MixerInv
  <2>2. CASE mixer[c][n].write
    <3> DEFINE v == [i \in DOMAIN mixer[c][n].value |-> Max(Allowed(mixer[c][n].kind))]
    <3>1. Initialized(mixer[c])[n] = [mixer[c][n] EXCEPT !.value = v]
      BY <2>2 DEF Initialized
    <3> HIDE DEF v
    <3>2. QED
      BY <2>1, <3>1 DEF SameElem, ElemFields
  <2>3. CASE ~mixer[c][n].write
    <3>1. Initialized(mixer[c])[n] = mixer[c][n]
      BY <2>3 DEF Initialized
    <3>2. QED
      BY <2>1, <3>1 DEF SameElem
  <2>4. QED
    BY <2>2, <2>3
<1>3. DOMAIN Initialized(mixer[c]) = DOMAIN mixer[c]
  BY DEF Initialized
<1>4. /\ DOMAIN mixer' = Cards /\ mixer'[c] = Initialized(mixer[c])
      /\ \A d \in Cards \ {c} : mixer'[d] = mixer[d]
  BY <1>1 DEF MixerInv
<1>5. \A n \in DOMAIN mixer[c] : Initialized(mixer[c])[n].kind = mixer[c][n].kind
  BY <1>2 DEF SameElem, ElemFields
<1>6. Grows
  BY <1>2, <1>3, <1>4 DEF Grows, SameElem
<1>7. QED
  BY <1>1, <1>2, <1>3, <1>4, <1>5, <1>6 DEF MixerInv

LEMMA AddGrows ==
  ASSUME TypeInv, NEW c \in Cards, NEW e \in file[c], e.name \notin DOMAIN mixer[c],
         mixer' = [mixer EXCEPT ![c] = With(mixer[c], e.name, NewElem(e, mixer[c]))]
  PROVE  /\ Grows /\ MixerInv'
         /\ DOMAIN mixer'[c] = DOMAIN mixer[c] \cup {e.name}
         /\ mixer'[c][e.name] = NewElem(e, mixer[c])
         /\ \A n \in DOMAIN mixer[c] : mixer'[c][n] = mixer[c][n]
         /\ \A d \in Cards \ {c} : mixer'[d] = mixer[d]
<1>1. MixerInv /\ ProperEntry(e)
  BY DEF TypeInv, FilesInv
<1>2. /\ DOMAIN mixer' = Cards /\ mixer'[c] = With(mixer[c], e.name, NewElem(e, mixer[c]))
      /\ \A d \in Cards \ {c} : mixer'[d] = mixer[d]
  BY <1>1 DEF MixerInv
<1>3. /\ DOMAIN mixer'[c] = DOMAIN mixer[c] \cup {e.name}
      /\ mixer'[c][e.name] = NewElem(e, mixer[c])
      /\ \A n \in DOMAIN mixer[c] : mixer'[c][n] = mixer[c][n]
  BY <1>2 DEF With
<1>4. IsFiniteSet(DOMAIN mixer'[c])
  BY <1>1, <1>3, FS_AddElement DEF MixerInv
<1>5. Grows
  BY <1>2, <1>3 DEF Grows, SameElem
<1>6. MixerInv'
  <2>1. \A n \in DOMAIN mixer'[c] : /\ DOMAIN mixer'[c][n] = ElemFields
                                    /\ ProperKind(mixer'[c][n].kind)
    <3>1. DOMAIN NewElem(e, mixer[c]) = ElemFields /\ ProperKind(NewElem(e, mixer[c]).kind)
      BY <1>1, NewElemFacts
    <3>2. QED
      BY <1>1, <1>3, <3>1 DEF MixerInv
  <2>2. QED
    BY <1>1, <1>2, <1>4, <2>1 DEF MixerInv
<1>7. QED
  BY <1>2, <1>3, <1>5, <1>6

Sets(c, n, value) == mixer' = [mixer EXCEPT ![c][n].value = value]

LEMMA WriteGrows ==
  ASSUME TypeInv, NEW c \in Cards, NEW n \in DOMAIN mixer[c], NEW ctl, Sets(c, n, ctl)
  PROVE  /\ Grows /\ MixerInv'
         /\ mixer'[c][n].value = ctl
         /\ \A m \in DOMAIN mixer[c] \ {n} : mixer'[c][m] = mixer[c][m]
         /\ \A d \in Cards \ {c} : mixer'[d] = mixer[d]
         /\ \A d \in Cards : DOMAIN mixer'[d] = DOMAIN mixer[d]
<1>1. MixerInv
  BY DEF TypeInv
<1>2. DOMAIN mixer[c][n] = ElemFields
  BY <1>1 DEF MixerInv
<1>3. /\ DOMAIN mixer' = Cards /\ \A d \in Cards \ {c} : mixer'[d] = mixer[d]
      /\ DOMAIN mixer'[c] = DOMAIN mixer[c]
      /\ \A m \in DOMAIN mixer[c] \ {n} : mixer'[c][m] = mixer[c][m]
      /\ mixer'[c][n] = [mixer[c][n] EXCEPT !.value = ctl]
  BY <1>1 DEF MixerInv, Sets
<1>4. DOMAIN mixer'[c][n] = ElemFields /\ mixer'[c][n].value = ctl
      /\ SameElem(mixer[c][n], mixer'[c][n])
  BY <1>2, <1>3 DEF ElemFields, SameElem
<1>5. mixer'[c][n].kind = mixer[c][n].kind
  BY <1>4 DEF SameElem, ElemFields
<1>6. Grows
  BY <1>3, <1>4 DEF Grows, SameElem
<1>7. MixerInv'
  <2>1. \A d \in Cards : \A m \in DOMAIN mixer[d] :
           DOMAIN mixer'[d][m] = ElemFields /\ ProperKind(mixer'[d][m].kind)
    <3>1. ASSUME NEW d \in Cards, NEW m \in DOMAIN mixer[d]
          PROVE  DOMAIN mixer'[d][m] = ElemFields /\ ProperKind(mixer'[d][m].kind)
      <4>1. CASE d = c /\ m = n
        BY <1>1, <1>4, <1>5, <4>1 DEF MixerInv
      <4>2. CASE ~(d = c /\ m = n)
        BY <1>1, <1>3, <4>2 DEF MixerInv
      <4>3. QED
        BY <4>1, <4>2
    <3>2. QED
      BY <3>1
  <2>2. \A d \in Cards : DOMAIN mixer'[d] = DOMAIN mixer[d]
    BY <1>3
  <2>3. QED
    BY <1>1, <1>3, <2>1, <2>2 DEF MixerInv
<1>8. QED
  BY <1>3, <1>4, <1>6, <1>7

-----------------------------------------------------------------------------
(***************************************************************************)
(* Every step keeps TypeInv.                                               *)
(***************************************************************************)
LEMMA MovesKeepTypes ==
  ASSUME TypeInv, Noted, UNCHANGED <<file, force, mixer, tree>>, NEW p \in Procs, OneMoves(p), ProcInv(p)'
  PROVE  TypeInv'
BY MixerStays, TreeStays, StepKeepsTypes DEF OneMoves

LEMMA EntryDoneKeepsTypes ==
  ASSUME TypeInv, Noted, Grows, MixerInv', TreeInv', UNCHANGED <<file, force>>, NEW p \in Procs,
         proc[p].pc \in {"find", "add", "write"}, NEW e, NEW err \in BOOLEAN,
         EntryDone(p, e, err)
  PROVE  TypeInv'
<1>1. ProcInv(p)
  BY DEF TypeInv, ProcsInv
<1>2. /\ OneMoves(p) /\ Kept(p, {"pc", "left", "err"})
      /\ proc'[p].pc = (IF err /\ ~Lax(p) THEN "end" ELSE "find")
      /\ proc'[p].left = proc[p].left \ {e} /\ proc'[p].err = err
  BY EntryDoneEffect DEF TypeInv
<1>3. /\ proc'[p].todo = proc[p].todo /\ proc'[p].pass = proc[p].pass
      /\ proc'[p].nofile = proc[p].nofile /\ proc'[p].final = proc[p].final
      /\ proc'[p].at = proc[p].at /\ proc'[p].more = proc[p].more
  BY <1>2 DEF Kept, Fields
<1>4. proc'[p].pc = "end" => ~(Doit(p)' /\ (force \/ ~err))
  BY <1>2, <1>3 DEF Lax, Doit
<1>5. ProcInv(p)'
  BY <1>1, <1>2, <1>3, <1>4 DEF ProcInv, Working, InPass, Doit
<1>6. QED
  BY <1>2, <1>5, StepKeepsTypes DEF OneMoves

LEMMA OutcomeKeepsTypes ==
  ASSUME TypeInv, Noted, Grows, MixerInv', UNCHANGED <<file, force>>, NEW p \in Procs,
         proc[p].pc \in {"find", "add"}, NEW e \in proc[p].left, NEW n, NEW elem,
         n = e.name => /\ e.name \in DOMAIN mixer'[proc[p].at]
                       /\ mixer'[proc[p].at][e.name].kind = elem.kind,
         Outcome(p, proc[p].at, e, n, elem)
  PROVE  TypeInv'
<1> DEFINE c == proc[p].at
           goes == Go(p, [pc |-> "write", entry |-> e, ctl |-> Written(e, elem.kind)])
<1>1. ProcInv(p) /\ c \in Cards /\ e \in file[c]
  BY DEF TypeInv, ProcsInv, ProcInv, Working, InPass
<1>2. CASE Refuses(p, e, n, elem) /\ EntryDone(p, e, TRUE) /\ UNCHANGED tree
  BY <1>2, TreeStays, EntryDoneKeepsTypes
<1>3. ASSUME ~Refuses(p, e, n, elem), tree' = [tree EXCEPT ![p][c][e] = Wanted(e, elem.kind)]
      PROVE  n = e.name /\ TreeInv'
  <2>1. n = e.name
    BY <1>3 DEF Refuses
  <2>2. e.name \in DOMAIN mixer'[c] /\ mixer'[c][e.name].kind = elem.kind
    BY <2>1
  <2>3. tree' = [tree EXCEPT ![p][c][e] = Wanted(e, mixer'[c][e.name].kind)]
    BY <1>3, <2>2
  <2>4. QED
    BY <1>1, <2>1, <2>2, <2>3, TreeConverted
<1>4. CASE /\ ~Refuses(p, e, n, elem)
           /\ tree' = [tree EXCEPT ![p][c][e] = Wanted(e, elem.kind)]
           /\ EntryDone(p, e, FALSE) \/ EntryDone(p, e, TRUE)
  BY <1>3, <1>4, EntryDoneKeepsTypes
<1>5. CASE /\ ~Refuses(p, e, n, elem)
           /\ tree' = [tree EXCEPT ![p][c][e] = Wanted(e, elem.kind)]
           /\ Complete(e, elem.kind, Wanted(e, elem.kind)) \/ Lax(p)
           /\ Doit(p) /\ goes
  <2>1. n = e.name /\ TreeInv'
    BY <1>3, <1>5
  <2>2. e.name \in DOMAIN mixer'[c] /\ mixer'[c][e.name].kind = elem.kind
    BY <2>1
  <2>3. /\ OneMoves(p) /\ Kept(p, {"pc", "entry", "ctl"})
        /\ proc'[p].pc = "write" /\ proc'[p].entry = e /\ proc'[p].ctl = Written(e, elem.kind)
    BY <1>5, WritingEffect DEF TypeInv
  <2>4. /\ proc'[p].todo = proc[p].todo /\ proc'[p].pass = proc[p].pass
        /\ proc'[p].nofile = proc[p].nofile /\ proc'[p].final = proc[p].final
        /\ proc'[p].at = proc[p].at /\ proc'[p].more = proc[p].more
        /\ proc'[p].err = proc[p].err /\ proc'[p].left = proc[p].left
    BY <2>3 DEF Kept, Fields
  <2>5. Writes(p)'
    BY <1>5, <2>2, <2>3, <2>4 DEF Writes, Doit, Lax
  <2>6. ProcInv(p)'
    BY <1>1, <2>3, <2>4, <2>5 DEF ProcInv, Working, InPass
  <2>7. QED
    BY <2>1, <2>3, <2>6, StepKeepsTypes DEF OneMoves
<1>6. QED
  BY <1>2, <1>4, <1>5 DEF Outcome

LEMMA AddingKeepsTypes ==
  ASSUME TypeInv, Noted, NEW p \in Procs, proc[p].pc = "find",
         UNCHANGED <<file, force, mixer, tree>>, NEW e \in proc[p].left, Absent(p, e)
  PROVE  TypeInv'
<1>1. CASE EntryDone(p, e, TRUE)
  BY <1>1, MixerStays, TreeStays, EntryDoneKeepsTypes
<1>2. CASE Go(p, [pc |-> "add", entry |-> e])
  <2>1. /\ OneMoves(p) /\ Kept(p, {"pc", "entry"}) /\ proc'[p].pc = "add" /\ proc'[p].entry = e
    BY <1>2, AddingEffect DEF TypeInv
  <2>2. /\ proc'[p].todo = proc[p].todo /\ proc'[p].pass = proc[p].pass
        /\ proc'[p].nofile = proc[p].nofile /\ proc'[p].final = proc[p].final
        /\ proc'[p].at = proc[p].at /\ proc'[p].more = proc[p].more
        /\ proc'[p].err = proc[p].err /\ proc'[p].left = proc[p].left
    BY <2>1 DEF Kept, Fields
  <2>3. ProcInv(p)
    BY DEF TypeInv, ProcsInv
  <2>4. ProcInv(p)'
    BY <2>1, <2>2, <2>3 DEF ProcInv, Working, InPass
  <2>5. QED
    BY <2>1, <2>4, MovesKeepTypes
<1>3. QED
  BY <1>1, <1>2 DEF Absent

LEMMA HazyKeepsTypes ==
  ASSUME TypeInv, Noted, NEW p \in Procs, proc[p].pc = "find", UNCHANGED <<file, force, mixer>>,
         NEW c \in Cards, c = proc[p].at, NEW e \in proc[p].left, e \in file[c],
         Unconverted(p, c, e), Hazy(p, c, e), Fails(p, {e}), <<c, e.name>> \in untold'
  PROVE  TypeInv'
<1>1. Grows /\ MixerInv'
  BY MixerStays
<1>2. TreeInv'
  BY <1>1, TreeStays, TreeAsBefore DEF Unconverted
<1>3. CASE EntryDone(p, e, TRUE) \/ EntryDone(p, e, FALSE)
  BY <1>1, <1>2, <1>3, EntryDoneKeepsTypes
<1>4. ASSUME Doit(p), e.name \in DOMAIN mixer[c], NEW ctl,
             Go(p, [pc |-> "write", entry |-> e, ctl |-> ctl])
      PROVE  TypeInv'
  <2>1. /\ OneMoves(p) /\ Kept(p, {"pc", "entry", "ctl"})
        /\ proc'[p].pc = "write" /\ proc'[p].entry = e
    BY <1>4, WritingEffect DEF TypeInv
  <2>2. /\ proc'[p].todo = proc[p].todo /\ proc'[p].pass = proc[p].pass
        /\ proc'[p].nofile = proc[p].nofile /\ proc'[p].final = proc[p].final
        /\ proc'[p].at = proc[p].at /\ proc'[p].more = proc[p].more
        /\ proc'[p].err = proc[p].err /\ proc'[p].left = proc[p].left
    BY <2>1 DEF Kept, Fields
  <2>3. <<c, e.name>> \in failed'
    BY <1>4 DEF Fails
  <2>4. Writes(p)'
    BY <1>4, <2>1, <2>2, <2>3 DEF Writes, Doit
  <2>5. ProcInv(p)
    BY DEF TypeInv, ProcsInv
  <2>6. ProcInv(p)'
    BY <2>1, <2>2, <2>4, <2>5 DEF ProcInv, Working, InPass
  <2>7. QED
    BY <1>1, <1>2, <2>1, <2>6, StepKeepsTypes DEF OneMoves
<1>5. QED
  BY <1>3, <1>4 DEF Hazy

LEMMA FindTypes ==
  ASSUME TypeInv, Noted, NEW p \in Procs, Find(p)
  PROVE  TypeInv'
<1>1. PICK c \in Cards : c = proc[p].at
  BY FindEffect
<1>2. /\ proc[p].pc = "find" /\ UNCHANGED <<force, file, mixer>> /\ proc[p].left \subseteq file[c]
  BY <1>1, FindEffect
<1>3. PICK e \in proc[p].left :
         \/ \E n \in DOMAIN mixer[c] : Outcome(p, c, e, n, mixer[c][n])
         \/ UNCHANGED tree /\ Absent(p, e)
         \/ /\ Unconverted(p, c, e) /\ Hazy(p, c, e) /\ Fails(p, {e})
            /\ <<c, e.name>> \in untold'
  BY <1>1, FindEffect
<1>4. Grows /\ MixerInv'
  BY <1>2, MixerStays
<1>5. ASSUME NEW n \in DOMAIN mixer[c], Outcome(p, c, e, n, mixer[c][n]) PROVE TypeInv'
  BY <1>1, <1>2, <1>4, <1>5, OutcomeKeepsTypes
<1>6. QED
  BY <1>1, <1>2, <1>3, <1>5, AddingKeepsTypes, HazyKeepsTypes

LEMMA AddUserTypes ==
  ASSUME TypeInv, Noted, NEW p \in Procs, AddUser(p)
  PROVE  TypeInv'
<1> DEFINE c == proc[p].at
           e == proc[p].entry
           elem == NewElem(e, mixer[c])
<1>1. /\ proc[p].pc = "add" /\ UNCHANGED <<force, file>> /\ c \in Cards
      /\ e \in proc[p].left /\ proc[p].left \subseteq file[c]
  BY AddUserEffect
<1>2. CASE EntryDone(p, e, TRUE) /\ UNCHANGED <<mixer, tree>>
  BY <1>1, <1>2, MixerStays, TreeStays, EntryDoneKeepsTypes
<1>3. CASE /\ e.name \notin DOMAIN mixer[c]
           /\ mixer' = [mixer EXCEPT ![c] = With(mixer[c], e.name, elem)]
           /\ \/ Outcome(p, c, e, e.name, elem)
              \/ EntryDone(p, e, TRUE) /\ UNCHANGED tree
  <2>1. e \in file[c]
    BY <1>1
  <2>2. /\ Grows /\ MixerInv' /\ DOMAIN mixer'[c] = DOMAIN mixer[c] \cup {e.name}
        /\ mixer'[c][e.name] = elem
    BY <1>1, <1>3, <2>1, AddGrows
  <2> HIDE DEF elem
  <2>3. CASE Outcome(p, c, e, e.name, elem)
    BY <1>1, <2>2, <2>3, OutcomeKeepsTypes
  <2>4. CASE EntryDone(p, e, TRUE) /\ UNCHANGED tree
    BY <1>1, <2>2, <2>4, TreeStays, EntryDoneKeepsTypes
  <2>5. QED
    BY <1>3, <2>3, <2>4
<1>4. QED
  BY <1>2, <1>3, AddUserEffect

LEMMA WriteTypes ==
  ASSUME TypeInv, Noted, NEW p \in Procs, Write(p)
  PROVE  TypeInv'
<1> DEFINE c == proc[p].at
           e == proc[p].entry
<1>1. /\ proc[p].pc = "write" /\ UNCHANGED <<force, file, tree>> /\ c \in Cards
      /\ e \in proc[p].left /\ e.name \in DOMAIN mixer[c]
  BY WriteEffect DEF Writes
<1>2. CASE EntryDone(p, e, TRUE) /\ UNCHANGED mixer
  BY <1>1, <1>2, MixerStays, TreeStays, EntryDoneKeepsTypes
<1>3. CASE EntryDone(p, e, FALSE) /\ mixer' = [mixer EXCEPT ![c][e.name].value = proc[p].ctl]
  <2>1. Grows /\ MixerInv'
    BY <1>1, <1>3, WriteGrows DEF Sets
  <2>2. QED
    BY <1>1, <1>3, <2>1, TreeStays, EntryDoneKeepsTypes
<1>4. QED
  BY <1>2, <1>3, WriteEffect

LEMMA StartTypes ==
  ASSUME TypeInv, Noted, NEW p \in Procs, Start(p)
  PROVE  TypeInv'
<1>1. /\ proc[p].pc = "start" /\ UNCHANGED <<force, file, mixer, tree>>
      /\ \/ Go(p, [pc |-> "card"])
         \/ \E pc \in {"card", "exit"} : Go(p, [pc |-> pc, nofile |-> TRUE, final |-> TRUE])
  BY DEF Start, At, options
<1>2. ProcInv(p)
  BY DEF TypeInv, ProcsInv
<1>3. CASE Go(p, [pc |-> "card"])
  <2>1. OneMoves(p) /\ Kept(p, {"pc"}) /\ proc'[p].pc = "card"
    BY <1>3, MovedEffect DEF TypeInv
  <2>2. ProcInv(p)'
    BY <1>2, <2>1 DEF ProcInv, Working, InPass, Kept, Fields
  <2>3. QED
    BY <1>1, <2>1, <2>2, MovesKeepTypes
<1>4. ASSUME NEW pc \in {"card", "exit"}, Go(p, [pc |-> pc, nofile |-> TRUE, final |-> TRUE])
      PROVE  TypeInv'
  <2>1. /\ OneMoves(p) /\ Kept(p, {"pc", "nofile", "final"})
        /\ proc'[p].pc = pc /\ proc'[p].nofile = TRUE /\ proc'[p].final = TRUE
    BY <1>4, NoFileEffect DEF TypeInv
  <2>2. ProcInv(p)'
    BY <1>2, <2>1 DEF ProcInv, Working, InPass, Kept, Fields
  <2>3. QED
    BY <1>1, <2>1, <2>2, MovesKeepTypes
<1>5. QED
  BY <1>1, <1>3, <1>4

LEMMA NextCardTypes ==
  ASSUME TypeInv, Noted, NEW p \in Procs, UNCHANGED <<force, file, mixer, tree>>,
         proc[p].todo # <<>>, NEW final \in BOOLEAN, NextCard(p, final)
  PROVE  TypeInv'
<1>1. ProcInv(p)
  BY DEF TypeInv, ProcsInv
<1>2. /\ OneMoves(p) /\ Kept(p, {"pc", "todo", "final"})
      /\ proc'[p].pc = "card" /\ proc'[p].todo = Tail(proc[p].todo)
      /\ proc'[p].final = (proc[p].final \/ final)
  BY NextCardEffect DEF TypeInv
<1>3. proc'[p].todo \in Seq(Cards)
  BY <1>1, <1>2 DEF ProcInv
<1>4. proc'[p].final \in BOOLEAN
  BY <1>2
<1>5. ProcInv(p)'
  BY <1>1, <1>2, <1>3, <1>4 DEF ProcInv, Working, InPass, Kept, Fields
<1>6. QED
  BY <1>2, <1>5, MovesKeepTypes

LEMMA CardLockTypes ==
  ASSUME TypeInv, Noted, NEW p \in Procs, CardLock(p)
  PROVE  TypeInv'
<1> DEFINE c == Head(proc[p].todo)
<1>1. /\ proc[p].pc = "card" /\ proc[p].todo # <<>> /\ UNCHANGED <<force, file, mixer, tree>>
      /\ \/ Go(p, [pc |-> IF proc[p].nofile THEN "init" ELSE "ucm", at |-> c])
         \/ NextCard(p, TRUE)
  BY DEF CardLock, At, options
<1>2. ProcInv(p) /\ c \in Cards
  BY <1>1 DEF TypeInv, ProcsInv, ProcInv
<1>3. CASE Go(p, [pc |-> IF proc[p].nofile THEN "init" ELSE "ucm", at |-> c])
  <2>1. /\ OneMoves(p) /\ Kept(p, {"pc", "at"}) /\ proc'[p].at = c
        /\ proc'[p].pc = IF proc[p].nofile THEN "init" ELSE "ucm"
    BY <1>3, LockedEffect DEF TypeInv
  <2>2. ProcInv(p)'
    BY <1>1, <1>2, <2>1 DEF ProcInv, Working, InPass, Kept, Fields
  <2>3. QED
    BY <1>1, <2>1, <2>2, MovesKeepTypes
<1>4. QED
  BY <1>1, <1>3, NextCardTypes

LEMMA ExitTypes ==
  ASSUME TypeInv, Noted, NEW p \in Procs, Exit(p)
  PROVE  TypeInv'
<1>1. Go(p, [pc |-> "done"]) /\ UNCHANGED <<force, file, mixer, tree>>
  BY DEF Exit, options
<1>2. OneMoves(p) /\ Kept(p, {"pc"}) /\ proc'[p].pc = "done"
  BY <1>1, MovedEffect DEF TypeInv
<1>3. ProcInv(p)
  BY DEF TypeInv, ProcsInv
<1>4. ProcInv(p)'
  BY <1>2, <1>3 DEF ProcInv, Working, InPass, Kept, Fields
<1>5. QED
  BY <1>1, <1>2, <1>4, MovesKeepTypes

LEMMA InitUcmTypes ==
  ASSUME TypeInv, Noted, NEW p \in Procs, InitUcm(p)
  PROVE  TypeInv'
<1> DEFINE more == proc[p].postponed \cup {proc[p].at}
           pass == IF do_init THEN "check" ELSE "set"
<1>1. /\ proc[p].pc = "ucm" /\ UNCHANGED <<force, file, mixer, tree>>
      /\ \/ Go(p, [pc |-> "unlock", postponed |-> more])
         \/ \E links \in {<<>>, Linked[proc[p].at]} :
               Go(p, [pc |-> "open", pass |-> pass, more |-> links])
         \/ NextCard(p, TRUE)
  BY DEF InitUcm, At, options
<1>2. ProcInv(p) /\ proc[p].todo # <<>> /\ proc[p].at \in Cards /\ ~proc[p].nofile
  BY <1>1 DEF TypeInv, ProcsInv, ProcInv, Working
<1> HIDE DEF more
<1>3. CASE Go(p, [pc |-> "unlock", postponed |-> more])
  <2>1. OneMoves(p) /\ Kept(p, {"pc", "postponed"}) /\ proc'[p].pc = "unlock"
    BY <1>3, PostponedEffect DEF TypeInv
  <2>2. ProcInv(p)'
    BY <1>2, <2>1 DEF ProcInv, Working, InPass, Kept, Fields
  <2>3. QED
    BY <1>1, <2>1, <2>2, MovesKeepTypes
<1>4. ASSUME NEW links \in {<<>>, Linked[proc[p].at]},
             Go(p, [pc |-> "open", pass |-> pass, more |-> links])
      PROVE  TypeInv'
  <2>1. links \in Seq(Cards)
    <3>1. Linked[proc[p].at] \in Seq(Cards)
      BY <1>2, ListsAssumption
    <3>2. <<>> \in Seq(Cards)
      OBVIOUS
    <3>3. QED
      BY <3>1, <3>2
  <2>2. /\ OneMoves(p) /\ Kept(p, {"pc", "pass", "more"})
        /\ proc'[p].pc = "open" /\ proc'[p].pass = pass /\ proc'[p].more = links
    BY <1>4, LinksEffect DEF TypeInv
  <2>3. ProcInv(p)'
    BY <1>2, <2>1, <2>2 DEF ProcInv, Working, InPass, Kept, Fields
  <2>4. QED
    BY <1>1, <2>2, <2>3, MovesKeepTypes
<1>5. QED
  BY <1>1, <1>2, <1>3, <1>4, NextCardTypes

LEMMA InitCardTypes ==
  ASSUME TypeInv, Noted, NEW p \in Procs, InitCard(p)
  PROVE  TypeInv'
<1> DEFINE pc == IF proc[p].nofile THEN "unlock" ELSE "open"
<1>1. /\ proc[p].pc = "init" /\ UNCHANGED <<force, file, tree>>
      /\ \/ /\ mixer' = [mixer EXCEPT ![proc[p].at] = Initialized(mixer[proc[p].at])]
            /\ Go(p, [pc |-> pc, pass |-> "set"])
         \/ UNCHANGED mixer /\ Go(p, [pc |-> pc, pass |-> "set", final |-> TRUE])
  BY DEF InitCard, At, options
<1>2. ProcInv(p) /\ proc[p].todo # <<>> /\ proc[p].at \in Cards
  BY <1>1 DEF TypeInv, ProcsInv, ProcInv, Working
<1>3. CASE Go(p, [pc |-> pc, pass |-> "set"])
  <2>1. OneMoves(p) /\ Kept(p, {"pc", "pass"}) /\ proc'[p].pc = pc /\ proc'[p].pass = "set"
    BY <1>3, PassEffect DEF TypeInv
  <2>2. ProcInv(p)'
    BY <1>1, <1>2, <2>1 DEF ProcInv, Working, InPass, Kept, Fields
  <2>3. Grows /\ MixerInv'
    BY <1>1, <1>2, InitGrows, MixerStays
  <2>4. TreeInv'
    BY <1>1, <2>3, TreeStays
  <2>5. QED
    BY <1>1, <2>1, <2>2, <2>3, <2>4, StepKeepsTypes DEF OneMoves
<1>4. CASE UNCHANGED mixer /\ Go(p, [pc |-> pc, pass |-> "set", final |-> TRUE])
  <2>1. /\ OneMoves(p) /\ Kept(p, {"pc", "pass", "final"}) /\ proc'[p].pc = pc
        /\ proc'[p].pass = "set" /\ proc'[p].final = TRUE
    BY <1>4, FailedInitEffect DEF TypeInv
  <2>2. ProcInv(p)'
    BY <1>1, <1>2, <2>1 DEF ProcInv, Working, InPass, Kept, Fields
  <2>3. QED
    BY <1>1, <1>4, <2>1, <2>2, MovesKeepTypes
<1>5. QED
  BY <1>1, <1>3, <1>4

LEMMA UnlockTypes ==
  ASSUME TypeInv, Noted, NEW p \in Procs, Unlock(p)
  PROVE  TypeInv'
<1>1. /\ proc[p].pc = "unlock" /\ UNCHANGED <<force, file, mixer, tree>> /\ NextCard(p, FALSE)
  BY DEF Unlock, At, options
<1>2. proc[p].todo # <<>>
  BY <1>1 DEF TypeInv, ProcsInv, ProcInv, Working
<1>3. QED
  BY <1>1, <1>2, NextCardTypes

LEMMA OpenTypes ==
  ASSUME TypeInv, Noted, NEW p \in Procs, Open(p)
  PROVE  TypeInv'
<1>1. /\ proc[p].pc = "open" /\ UNCHANGED <<force, file, mixer, tree>>
      /\ \E pc \in {"end", "find"}, left \in {{}, Entries(p)}, err \in BOOLEAN :
            (pc = "end" => left = {}) /\ Go(p, [pc |-> pc, left |-> left, err |-> err])
  BY DEF Open, At, options
<1>2. PICK pc \in {"end", "find"}, left \in {{}, Entries(p)}, err \in BOOLEAN :
         (pc = "end" => left = {}) /\ Go(p, [pc |-> pc, left |-> left, err |-> err])
  BY <1>1
<1>3. ProcInv(p) /\ proc[p].todo # <<>> /\ proc[p].at \in Cards /\ ~proc[p].nofile
  BY <1>1 DEF TypeInv, ProcsInv, ProcInv, Working, InPass
<1>4. /\ OneMoves(p) /\ Kept(p, {"pc", "left", "err"}) /\ proc'[p].pc = pc
      /\ proc'[p].left = left /\ proc'[p].err = err
  BY <1>2, OpenedEffect DEF TypeInv
<1>5. proc'[p].at = proc[p].at
  BY <1>4 DEF Kept, Fields
<1>6. left \subseteq file'[proc'[p].at]
  BY <1>1, <1>5 DEF Entries
<1>7. ProcInv(p)'
  BY <1>1, <1>2, <1>3, <1>4, <1>6 DEF ProcInv, Working, InPass, Kept, Fields
<1>8. QED
  BY <1>1, <1>4, <1>7, MovesKeepTypes

LEMMA LastEntryTypes ==
  ASSUME TypeInv, Noted, NEW p \in Procs, LastEntry(p)
  PROVE  TypeInv'
<1>1. ProcInv(p)
  BY DEF TypeInv, ProcsInv
<1>2. (IF Doit(p) THEN proc[p].err ELSE Mismatch(p)) \in BOOLEAN
  BY <1>1 DEF ProcInv, Mismatch
<1>3. /\ proc[p].pc = "find" /\ proc[p].left = {} /\ UNCHANGED <<force, file, mixer, tree>>
      /\ \E err \in BOOLEAN : Go(p, [pc |-> "end", err |-> err])
  BY <1>2 DEF LastEntry, At, options
<1>4. PICK err \in BOOLEAN : Go(p, [pc |-> "end", err |-> err])
  BY <1>3
<1>5. /\ OneMoves(p) /\ Kept(p, {"pc", "err"}) /\ proc'[p].pc = "end" /\ proc'[p].err = err
  BY <1>4, ComparedEffect DEF TypeInv
<1>6. ProcInv(p)'
  BY <1>1, <1>3, <1>5 DEF ProcInv, Working, InPass, Kept, Fields
<1>7. QED
  BY <1>3, <1>5, <1>6, MovesKeepTypes

LEMMA EndOfPassTypes ==
  ASSUME TypeInv, Noted, NEW p \in Procs, EndOfPass(p)
  PROVE  TypeInv'
<1> DEFINE final == proc[p].final \/ (proc[p].err /\ ~force)
           pc    == IF proc[p].err THEN "init" ELSE "open"
           pass  == IF proc[p].err THEN "check" ELSE "set"
           next  == Head(proc[p].more)
           more  == Tail(proc[p].more)
<1>1. /\ proc[p].pc = "end" /\ UNCHANGED <<force, file, mixer, tree>>
      /\ \/ Go(p, [pc |-> pc, pass |-> pass])
         \/ Go(p, [pc |-> "unlock", final |-> final])
         \/ /\ proc[p].more # <<>>
            /\ Go(p, [pc |-> "open", pass |-> "linked", final |-> final, at |-> next,
                      more |-> more])
  BY DEF EndOfPass, At, options
<1>2. /\ ProcInv(p) /\ proc[p].todo # <<>> /\ proc[p].at \in Cards /\ ~proc[p].nofile
      /\ proc[p].more \in Seq(Cards)
  BY <1>1 DEF TypeInv, ProcsInv, ProcInv, Working, InPass
<1>3. final \in BOOLEAN /\ pc \in {"init", "open"} /\ pass \in {"check", "set"}
  OBVIOUS
<1>4. proc[p].more # <<>> => next \in Cards /\ more \in Seq(Cards)
  BY <1>2
<1> HIDE DEF final, pc, pass, next, more
<1>5. CASE Go(p, [pc |-> pc, pass |-> pass])
  <2>1. OneMoves(p) /\ Kept(p, {"pc", "pass"}) /\ proc'[p].pc = pc /\ proc'[p].pass = pass
    BY <1>5, PassEffect DEF TypeInv
  <2>2. ProcInv(p)'
    BY <1>2, <1>3, <2>1 DEF ProcInv, Working, InPass, Kept, Fields
  <2>3. QED
    BY <1>1, <2>1, <2>2, MovesKeepTypes
<1>6. CASE Go(p, [pc |-> "unlock", final |-> final])
  <2>1. OneMoves(p) /\ Kept(p, {"pc", "final"}) /\ proc'[p].pc = "unlock" /\ proc'[p].final = final
    BY <1>6, FinishedEffect DEF TypeInv
  <2>2. ProcInv(p)'
    BY <1>2, <1>3, <2>1 DEF ProcInv, Working, InPass, Kept, Fields
  <2>3. QED
    BY <1>1, <2>1, <2>2, MovesKeepTypes
<1>7. CASE /\ proc[p].more # <<>>
           /\ Go(p, [pc |-> "open", pass |-> "linked", final |-> final, at |-> next,
                     more |-> more])
  <2>1. /\ OneMoves(p) /\ Kept(p, {"pc", "pass", "final", "at", "more"})
        /\ proc'[p].pc = "open" /\ proc'[p].pass = "linked" /\ proc'[p].final = final
        /\ proc'[p].at = next /\ proc'[p].more = more
    BY <1>7, NextLinkedEffect DEF TypeInv
  <2>2. ProcInv(p)'
    BY <1>2, <1>3, <1>4, <1>7, <2>1 DEF ProcInv, Working, InPass, Kept, Fields
  <2>3. QED
    BY <1>1, <2>1, <2>2, MovesKeepTypes
<1>8. QED
  BY <1>1, <1>5, <1>6, <1>7

LEMMA TypesKept == TypeInv /\ [Next]_vars => TypeInv'
<1> SUFFICES ASSUME TypeInv, [Next]_vars PROVE TypeInv'
  OBVIOUS
<1>0. Noted
  BY StepNotes
<1>1. CASE UNCHANGED vars
  <2>1. UNCHANGED <<force, file, mixer, tree, proc>>
    BY <1>1 DEF vars, options
  <2>2. Grows /\ MixerInv'
    BY <2>1, MixerStays
  <2>3. TreeInv'
    BY <2>1, <2>2, TreeStays
  <2>4. \A q \in Procs : ProcInv(q)'
    BY <1>0, <2>1, <2>2, OthersKeepTheirs
  <2>5. QED
    BY <2>1, <2>2, <2>3, <2>4 DEF TypeInv, ProcsInv, Shape, FilesInv
<1>2. ASSUME NEW p \in Procs,
             \/ Start(p) \/ CardLock(p) \/ InitUcm(p) \/ InitCard(p) \/ Unlock(p) \/ Exit(p)
             \/ Open(p) \/ LastEntry(p) \/ EndOfPass(p) \/ Find(p) \/ AddUser(p) \/ Write(p)
      PROVE  TypeInv'
  BY <1>0, <1>2, StartTypes, CardLockTypes, InitUcmTypes, InitCardTypes, UnlockTypes, ExitTypes,
     OpenTypes, LastEntryTypes, EndOfPassTypes, FindTypes, AddUserTypes, WriteTypes
<1>3. QED
  BY <1>1, <1>2 DEF Next

-----------------------------------------------------------------------------
(***************************************************************************)
(* An entry is settled when its element, if there is one that must have    *)
(* the setting, has it, or when some process has still to come to it: a    *)
(* process owes the entries of the pass it will write, and those of the    *)
(* writing pass it is in that are left.  All that a writing pass has gone  *)
(* past is settled, as long as no process is in trouble: with -P none has  *)
(* met an error, with -F all have a file.                                  *)
(***************************************************************************)
Owes(p, c, e) ==
    /\ proc[p].at = c
    /\ \/ proc[p].pc \in {"open", "find", "add", "end"} /\ ~Doit(p)
       \/ proc[p].pc = "init" /\ ~proc[p].nofile
       \/ proc[p].pc = "open"
       \/ proc[p].pc \in {"find", "write"} /\ e \in proc[p].left
       \/ proc[p].pc = "add" /\ e \in proc[p].left /\ (force => e # proc[p].entry)

Asked(c, e) ==
    /\ e.name \in DOMAIN mixer[c] /\ Touched(e, mixer[c][e.name])
    /\ IF force THEN <<c, e.name>> \notin failed /\ Fits(e, mixer[c][e.name].kind)
       ELSE <<c, e.name>> \notin untold
Good(c, e) == Asked(c, e) => Restored(e, mixer[c][e.name])
Due(c, e)  == Good(c, e) \/ \E q \in Procs : Owes(q, c, e)
Here(c, e) == force \/ e.name \in DOMAIN mixer[c]

Trouble(p) ==
    IF force THEN proc[p].nofile
    ELSE proc[p].final \/ (proc[p].pc = "end" /\ Doit(p) /\ proc[p].err)
Sound == \A p \in Procs : ~Trouble(p)

\* the writing pass of p is past the entry, or about to add its element, which
\* another process may add
Handled(p, c, e) ==
    /\ Doit(p) /\ proc[p].at = c /\ proc[p].pc \in {"find", "add", "write", "end"}
    /\ e \notin proc[p].left
Stuck(p, c, e) ==
    force /\ Doit(p) /\ proc[p].at = c /\ proc[p].pc = "add" /\ e = proc[p].entry

SettledInv ==
    Sound => \A c \in Cards : \A e \in file[c] :
                /\ c \in through => Due(c, e) /\ Here(c, e)
                /\ \A p \in Procs : /\ Handled(p, c, e) => Due(c, e) /\ Here(c, e)
                                    /\ Stuck(p, c, e) => Due(c, e)

\* a step of p that settles what it drops and disturbs only what it owes
Settles(p) ==
    \A c \in Cards : \A e \in file[c] :
       /\ Good(c, e) => Good(c, e)' \/ Owes(p, c, e)'
       /\ Owes(p, c, e) => Good(c, e)' \/ Owes(p, c, e)'
       /\ Here(c, e) => Here(c, e)'
       /\ c \in through' => c \in through \/ Handled(p, c, e)
       /\ Handled(p, c, e)' =>
             \/ Handled(p, c, e)
             \/ (Good(c, e)' \/ Owes(p, c, e)' \/ Stuck(p, c, e)) /\ Here(c, e)'
       /\ Stuck(p, c, e)' => Good(c, e)' \/ Stuck(p, c, e)

LEMMA StepSettles ==
  ASSUME TypeInv, SettledInv, NEW p \in Procs, OneMoves(p), UNCHANGED <<file, force>>,
         Trouble(p) => Trouble(p)', Sound /\ ~Trouble(p)' => Settles(p)
  PROVE  SettledInv'
<1> SUFFICES ASSUME Sound' PROVE SettledInv'
  BY DEF SettledInv
<1>1. \A q \in Procs \ {p} : proc'[q] = proc[q]
  BY DEF OneMoves
<1>2. \A q \in Procs \ {p} : Trouble(q)' = Trouble(q)
  BY <1>1 DEF Trouble, Doit
<1>3. Sound /\ ~Trouble(p)'
  BY <1>2 DEF Sound
<1>4. Settles(p)
  BY <1>3
<1>5. \A q \in Procs \ {p} : \A c, e :
                                   /\ Owes(q, c, e)' = Owes(q, c, e)
                                   /\ Handled(q, c, e)' = Handled(q, c, e)
                                   /\ Stuck(q, c, e)' = Stuck(q, c, e)
  BY <1>1 DEF Owes, Handled, Stuck, Doit
<1>6. ASSUME NEW c \in Cards, NEW e \in file[c]
      PROVE  /\ c \in through' => Due(c, e)' /\ Here(c, e)'
             /\ \A q \in Procs : /\ Handled(q, c, e)' => Due(c, e)' /\ Here(c, e)'
                                 /\ Stuck(q, c, e)' => Due(c, e)'
  <2>1. Due(c, e) => Due(c, e)'
    <3>1. CASE Good(c, e)
      BY <1>4, <3>1 DEF Settles, Due
    <3>2. CASE Owes(p, c, e)
      BY <1>4, <3>2 DEF Settles, Due
    <3>3. CASE \E q \in Procs \ {p} : Owes(q, c, e)
      <4>1. PICK q \in Procs \ {p} : Owes(q, c, e)
        BY <3>3
      <4>2. Owes(q, c, e)'
        BY <1>5, <4>1
      <4>3. QED
        BY <4>2 DEF Due
    <3>4. QED
      BY <3>1, <3>2, <3>3 DEF Due
  <2>2. /\ c \in through => Due(c, e) /\ Here(c, e)
        /\ \A q \in Procs : /\ Handled(q, c, e) => Due(c, e) /\ Here(c, e)
                            /\ Stuck(q, c, e) => Due(c, e)
    BY <1>3 DEF SettledInv
  <2>3. Here(c, e) => Here(c, e)'
    BY <1>4 DEF Settles
  <2>4. ASSUME c \in through' PROVE Due(c, e)' /\ Here(c, e)'
    <3>1. c \in through \/ Handled(p, c, e)
      BY <1>4, <2>4 DEF Settles
    <3>2. QED
      BY <2>1, <2>2, <2>3, <3>1
  <2>5. ASSUME NEW q \in Procs, Handled(q, c, e)' PROVE Due(c, e)' /\ Here(c, e)'
    <3>1. CASE q # p
      <4>1. Handled(q, c, e)
        BY <1>5, <2>5, <3>1
      <4>2. QED
        BY <2>1, <2>2, <2>3, <4>1
    <3>2. CASE q = p
      <4>1. \/ Handled(p, c, e)
            \/ (Good(c, e)' \/ Owes(p, c, e)' \/ Stuck(p, c, e)) /\ Here(c, e)'
        BY <1>4, <2>5, <3>2 DEF Settles
      <4>2. CASE Handled(p, c, e)
        BY <2>1, <2>2, <2>3, <4>2
      <4>3. CASE Stuck(p, c, e) /\ Here(c, e)'
        BY <2>1, <2>2, <4>3
      <4>4. CASE (Good(c, e)' \/ Owes(p, c, e)') /\ Here(c, e)'
        BY <4>4 DEF Due
      <4>5. QED
        BY <4>1, <4>2, <4>3, <4>4
    <3>3. QED
      BY <3>1, <3>2
  <2>6. ASSUME NEW q \in Procs, Stuck(q, c, e)' PROVE Due(c, e)'
    <3>1. CASE q # p
      <4>1. Stuck(q, c, e)
        BY <1>5, <2>6, <3>1
      <4>2. QED
        BY <2>1, <2>2, <4>1
    <3>2. CASE q = p
      <4>1. Good(c, e)' \/ Stuck(p, c, e)
        BY <1>4, <2>6, <3>2 DEF Settles
      <4>2. QED
        BY <2>1, <2>2, <4>1 DEF Due
    <3>3. QED
      BY <3>1, <3>2
  <2>7. QED
    BY <2>4, <2>5, <2>6
<1>7. QED
  BY <1>6 DEF SettledInv

\* a step that touches no element
LEMMA Undisturbed ==
  ASSUME Noted, UNCHANGED <<force, mixer>>, NEW c, NEW e
  PROVE  (Good(c, e) => Good(c, e)') /\ Here(c, e)' = Here(c, e)
BY DEF Noted, Good, Asked, Here

\* an element that a writing pass had trouble with has not to be as asked
LEMMA FailedIsGood ==
  ASSUME NEW p \in Procs, NEW c, c = proc[p].at, NEW entries, NEW e \in entries,
         Fails(p, entries), Doit(p), force, UNCHANGED force
  PROVE  Good(c, e)'
BY DEF Fails, Good, Asked

-----------------------------------------------------------------------------
\* a step of a process that neither comes to nor leaves an entry
LEMMA PlainStepSettles ==
  ASSUME TypeInv, SettledInv, Noted, NEW p \in Procs, OneMoves(p),
         UNCHANGED <<file, force, mixer, through>>, Trouble(p) => Trouble(p)',
         \A c \in Cards : \A e \in file[c] :
            /\ Owes(p, c, e) => Owes(p, c, e)'
            /\ Handled(p, c, e)' => Handled(p, c, e)
            /\ ~Stuck(p, c, e)'
  PROVE  SettledInv'
<1>1. Settles(p)
  BY Undisturbed DEF Settles
<1>2. QED
  BY <1>1, StepSettles

\* a process outside the passes
Outside == {"start", "card", "ucm", "unlock", "exit", "done"}

LEMMA OutsideStepSettles ==
  ASSUME TypeInv, SettledInv, Noted, NEW p \in Procs, OneMoves(p),
         UNCHANGED <<file, force, mixer, through>>,
         proc[p].pc \in Outside, proc'[p].pc \in Outside \cup {"init", "open"},
         proc[p].nofile => proc'[p].nofile, proc[p].final => proc'[p].final
  PROVE  SettledInv'
<1>1. \A c, e : ~Owes(p, c, e) /\ ~Handled(p, c, e)' /\ ~Stuck(p, c, e)'
  BY DEF Owes, Handled, Stuck, Outside
<1>2. Trouble(p) => Trouble(p)'
  BY DEF Trouble, Outside
<1>3. QED
  BY <1>1, <1>2, PlainStepSettles

LEMMA DoneSettles ==
  ASSUME TypeInv, NEW p \in Procs, proc[p].pc \in {"find", "add", "write"},
         NEW c, c = proc[p].at, NEW e \in proc[p].left, proc[p].pc = "add" => e = proc[p].entry,
         NEW err \in BOOLEAN, EntryDone(p, e, err), UNCHANGED <<file, force, through>>,
         ~Trouble(p)',
         \A d \in Cards : \A x \in file[d] :
            /\ ~(d = c /\ x = e) => (Good(d, x) => Good(d, x)')
            /\ Here(d, x) => Here(d, x)',
         Doit(p) => /\ Here(c, e)'
                    /\ Good(c, e)' \/ (Stuck(p, c, e) /\ (Good(c, e) => Good(c, e)'))
  PROVE  Settles(p)
<1>1. /\ OneMoves(p) /\ Kept(p, {"pc", "left", "err"})
      /\ proc'[p].pc = (IF err /\ ~Lax(p) THEN "end" ELSE "find")
      /\ proc'[p].left = proc[p].left \ {e} /\ proc'[p].err = err
  BY EntryDoneEffect DEF TypeInv
<1>2. proc'[p].at = proc[p].at /\ proc'[p].pass = proc[p].pass /\ proc'[p].entry = proc[p].entry
  BY <1>1 DEF Kept, Fields
<1>3. Doit(p)' = Doit(p)
  BY <1>2 DEF Doit
<1>4. CASE ~Doit(p)
  <2>1. ~Doit(p)' /\ proc'[p].pc \in {"find", "end"}
    BY <1>1, <1>3, <1>4
  <2>2. \A x : Owes(p, c, x)'
    BY <1>2, <2>1 DEF Owes
  <2>3. \A d, x : Owes(p, d, x) => d = c
    BY DEF Owes
  <2>4. \A d, x : ~Handled(p, d, x)' /\ ~Stuck(p, d, x)'
    BY <2>1 DEF Handled, Stuck
  <2>5. QED
    BY <2>2, <2>3, <2>4 DEF Settles
<1>5. CASE Doit(p)
  <2>1. proc'[p].pc = "find"
    <3>1. proc'[p].pc = "end" => ~force /\ err
      BY <1>1, <1>5 DEF Lax
    <3>2. proc'[p].pc = "end" => Trouble(p)'
      BY <1>1, <1>3, <1>5, <3>1 DEF Trouble
    <3>3. QED
      BY <1>1, <3>2
  <2>2. ASSUME NEW d \in Cards, NEW x \in file[d]
        PROVE  /\ Good(d, x) => Good(d, x)'
               /\ Owes(p, d, x) => Good(d, x)' \/ Owes(p, d, x)'
               /\ Here(d, x) => Here(d, x)'
               /\ Handled(p, d, x)' =>
                     \/ Handled(p, d, x)
                     \/ (Good(d, x)' \/ Owes(p, d, x)' \/ Stuck(p, d, x)) /\ Here(d, x)'
               /\ ~Stuck(p, d, x)'
    <3>1. ~Stuck(p, d, x)'
      BY <2>1 DEF Stuck
    <3>2. CASE d = c /\ x = e
      <4>1. /\ Good(c, e)' \/ (Stuck(p, c, e) /\ (Good(c, e) => Good(c, e)'))
            /\ Here(c, e)'
        BY <1>5
      <4>2. Stuck(p, c, e) => ~Owes(p, c, e)
        BY <1>5 DEF Stuck, Owes
      <4>3. QED
        BY <3>1, <3>2, <4>1, <4>2
    <3>3. CASE ~(d = c /\ x = e)
      <4>1. (Good(d, x) => Good(d, x)') /\ (Here(d, x) => Here(d, x)')
        BY <3>3
      <4>2. Owes(p, d, x) => Owes(p, d, x)'
        <5>1. SUFFICES ASSUME Owes(p, d, x) PROVE Owes(p, d, x)'
          OBVIOUS
        <5>2. proc[p].at = d /\ x \in proc[p].left
          BY <1>5, <5>1 DEF Owes
        <5>3. x # e
          BY <3>3, <5>2
        <5>4. QED
          BY <1>1, <1>2, <2>1, <5>2, <5>3 DEF Owes
      <4>3. Handled(p, d, x)' => Handled(p, d, x)
        <5>1. SUFFICES ASSUME Handled(p, d, x)' PROVE Handled(p, d, x)
          OBVIOUS
        <5>2. proc[p].at = d /\ x \notin proc[p].left \ {e}
          BY <1>1, <1>2, <5>1 DEF Handled
        <5>3. x \notin proc[p].left
          BY <3>3, <5>2
        <5>4. QED
          BY <1>5, <5>2, <5>3 DEF Handled
      <4>4. QED
        BY <3>1, <4>1, <4>2, <4>3
    <3>4. QED
      BY <3>2, <3>3
  <2>3. QED
    BY <2>2 DEF Settles
<1>6. QED
  BY <1>4, <1>5

\* p goes on with the entry, whose element it has found or added
LEMMA OutcomeSettles ==
  ASSUME TypeInv, NEW p \in Procs, proc[p].pc \in {"find", "add"},
         NEW c, c = proc[p].at, NEW e \in proc[p].left, proc[p].pc = "add" => e = proc[p].entry,
         NEW n, NEW elem, force => n = e.name, Outcome(p, c, e, n, elem),
         n = e.name => e.name \in DOMAIN mixer'[c] /\ mixer'[c][e.name] = elem,
         UNCHANGED <<file, force, through>>, ~Trouble(p)',
         \A d \in Cards : \A x \in file[d] :
            /\ ~(d = c /\ x = e) => (Good(d, x) => Good(d, x)')
            /\ Here(d, x) => Here(d, x)',
         proc[p].pc = "find" => (Good(c, e) => Good(c, e)')
  PROVE  Settles(p)
<1>1. ASSUME EntryDone(p, e, TRUE) PROVE ~Doit(p) \/ force
  <2>1. /\ Kept(p, {"pc", "left", "err"}) /\ proc'[p].err = TRUE
        /\ proc'[p].pc = (IF ~Lax(p) THEN "end" ELSE "find")
    BY <1>1, EntryDoneEffect DEF TypeInv
  <2>2. Doit(p)' = Doit(p)
    BY <2>1 DEF Doit, Kept, Fields
  <2>3. QED
    BY <2>1, <2>2 DEF Trouble, Lax
<1>2. CASE Refuses(p, e, n, elem) /\ EntryDone(p, e, TRUE)
  <2>1. ~Doit(p)
    BY <1>1, <1>2 DEF Refuses, Lax
  <2>2. QED
    BY <1>2, <2>1, DoneSettles
<1>3. CASE ~Refuses(p, e, n, elem) /\ ~Touched(e, elem) /\ EntryDone(p, e, FALSE)
  <2>1. e.name \in DOMAIN mixer'[c] /\ mixer'[c][e.name] = elem
    BY <1>3 DEF Refuses
  <2>2. Good(c, e)' /\ Here(c, e)'
    BY <1>3, <2>1 DEF Good, Asked, Touched, Here
  <2>3. QED
    BY <1>3, <2>2, DoneSettles
<1>4. CASE ~Lax(p) /\ EntryDone(p, e, TRUE)
  <2>1. ~Doit(p)
    BY <1>1, <1>4 DEF Lax
  <2>2. QED
    BY <1>4, <2>1, DoneSettles
<1>5. CASE ~Doit(p) /\ EntryDone(p, e, FALSE)
  BY <1>5, DoneSettles
<1>6. CASE Doit(p) /\ Go(p, [pc |-> "write", entry |-> e, ctl |-> Written(e, elem.kind)])
  <2>1. /\ OneMoves(p) /\ Kept(p, {"pc", "entry", "ctl"})
        /\ proc'[p].pc = "write" /\ proc'[p].entry = e
    BY <1>6, WritingEffect DEF TypeInv
  <2>2. proc'[p].at = proc[p].at /\ proc'[p].left = proc[p].left /\ Doit(p)' = Doit(p)
    BY <2>1 DEF Kept, Fields, Doit
  <2>3. Owes(p, c, e)' /\ \A d, x : /\ Owes(p, d, x) => Owes(p, d, x)'
                                    /\ Handled(p, d, x)' => Handled(p, d, x)
                                    /\ ~Stuck(p, d, x)'
    BY <1>6, <2>1, <2>2 DEF Owes, Handled, Stuck
  <2>4. QED
    BY <2>3 DEF Settles
<1>7. QED
  BY <1>2, <1>3, <1>4, <1>5, <1>6 DEF Outcome

LEMMA NextCardSettles ==
  ASSUME TypeInv, SettledInv, Noted, NEW p \in Procs, proc[p].pc \in Outside, NEW final,
         NextCard(p, final), UNCHANGED <<file, force, mixer, through>>
  PROVE  SettledInv'
<1>1. /\ OneMoves(p) /\ Kept(p, {"pc", "todo", "final"}) /\ proc'[p].pc = "card"
      /\ proc'[p].final = (proc[p].final \/ final)
  BY NextCardEffect DEF TypeInv
<1>2. proc'[p].nofile = proc[p].nofile /\ proc[p].final \in BOOLEAN
  BY <1>1 DEF Kept, Fields, TypeInv, ProcsInv, ProcInv
<1>3. QED
  BY <1>1, <1>2, OutsideStepSettles DEF Outside

LEMMA StartSettles ==
  ASSUME TypeInv, SettledInv, Noted, NEW p \in Procs, Start(p)
  PROVE  SettledInv'
<1>1. /\ proc[p].pc = "start" /\ UNCHANGED <<file, force, mixer, through>>
      /\ \/ Go(p, [pc |-> "card"])
         \/ \E pc \in {"card", "exit"} : Go(p, [pc |-> pc, nofile |-> TRUE, final |-> TRUE])
  BY DEF Start, At, options, history
<1>2. CASE Go(p, [pc |-> "card"])
  <2>1. OneMoves(p) /\ Kept(p, {"pc"}) /\ proc'[p].pc = "card"
    BY <1>2, MovedEffect DEF TypeInv
  <2>2. proc'[p].nofile = proc[p].nofile /\ proc'[p].final = proc[p].final
    BY <2>1 DEF Kept, Fields
  <2>3. QED
    BY <1>1, <2>1, <2>2, OutsideStepSettles DEF Outside
<1>3. ASSUME NEW pc \in {"card", "exit"}, Go(p, [pc |-> pc, nofile |-> TRUE, final |-> TRUE])
      PROVE  SettledInv'
  <2>1. OneMoves(p) /\ proc'[p].pc = pc /\ proc'[p].nofile = TRUE /\ proc'[p].final = TRUE
    BY <1>3, NoFileEffect DEF TypeInv
  <2>2. QED
    BY <1>1, <2>1, OutsideStepSettles DEF Outside
<1>4. QED
  BY <1>1, <1>2, <1>3

LEMMA CardLockSettles ==
  ASSUME TypeInv, SettledInv, Noted, NEW p \in Procs, CardLock(p)
  PROVE  SettledInv'
<1>1. /\ proc[p].pc = "card" /\ UNCHANGED <<file, force, mixer, through>>
      /\ \/ \E pc \in {"init", "ucm"}, c \in {Head(proc[p].todo)} : Go(p, [pc |-> pc, at |-> c])
         \/ NextCard(p, TRUE)
  BY DEF CardLock, At, options, history
<1>2. ASSUME NEW pc \in {"init", "ucm"}, NEW c, Go(p, [pc |-> pc, at |-> c]) PROVE SettledInv'
  <2>1. OneMoves(p) /\ Kept(p, {"pc", "at"}) /\ proc'[p].pc = pc
    BY <1>2, LockedEffect DEF TypeInv
  <2>2. proc'[p].nofile = proc[p].nofile /\ proc'[p].final = proc[p].final
    BY <2>1 DEF Kept, Fields
  <2>3. QED
    BY <1>1, <2>1, <2>2, OutsideStepSettles DEF Outside
<1>3. QED
  BY <1>1, <1>2, NextCardSettles DEF Outside

LEMMA ExitSettles ==
  ASSUME TypeInv, SettledInv, Noted, NEW p \in Procs, Exit(p)
  PROVE  SettledInv'
<1>1. /\ proc[p].pc \in {"exit", "card"} /\ UNCHANGED <<file, force, mixer, through>>
      /\ Go(p, [pc |-> "done"])
  BY DEF Exit, At, options, history
<1>2. OneMoves(p) /\ Kept(p, {"pc"}) /\ proc'[p].pc = "done"
  BY <1>1, MovedEffect DEF TypeInv
<1>3. proc'[p].nofile = proc[p].nofile /\ proc'[p].final = proc[p].final
  BY <1>2 DEF Kept, Fields
<1>4. QED
  BY <1>1, <1>2, <1>3, OutsideStepSettles DEF Outside

LEMMA InitUcmSettles ==
  ASSUME TypeInv, SettledInv, Noted, NEW p \in Procs, InitUcm(p)
  PROVE  SettledInv'
<1>1. /\ proc[p].pc = "ucm" /\ UNCHANGED <<file, force, mixer, through>>
      /\ \/ \E more \in {proc[p].postponed \cup {proc[p].at}} :
               Go(p, [pc |-> "unlock", postponed |-> more])
         \/ \E pass \in {"check", "set"}, links \in {<<>>, Linked[proc[p].at]} :
               Go(p, [pc |-> "open", pass |-> pass, more |-> links])
         \/ NextCard(p, TRUE)
  BY DEF InitUcm, At, options, history
<1>2. ASSUME NEW more, Go(p, [pc |-> "unlock", postponed |-> more]) PROVE SettledInv'
  <2>1. OneMoves(p) /\ Kept(p, {"pc", "postponed"}) /\ proc'[p].pc = "unlock"
    BY <1>2, PostponedEffect DEF TypeInv
  <2>2. proc'[p].nofile = proc[p].nofile /\ proc'[p].final = proc[p].final
    BY <2>1 DEF Kept, Fields
  <2>3. QED
    BY <1>1, <2>1, <2>2, OutsideStepSettles DEF Outside
<1>3. ASSUME NEW pass, NEW links, Go(p, [pc |-> "open", pass |-> pass, more |-> links])
      PROVE  SettledInv'
  <2>1. OneMoves(p) /\ Kept(p, {"pc", "pass", "more"}) /\ proc'[p].pc = "open"
    BY <1>3, LinksEffect DEF TypeInv
  <2>2. proc'[p].nofile = proc[p].nofile /\ proc'[p].final = proc[p].final
    BY <2>1 DEF Kept, Fields
  <2>3. QED
    BY <1>1, <2>1, <2>2, OutsideStepSettles DEF Outside
<1>4. QED
  BY <1>1, <1>2, <1>3, NextCardSettles DEF Outside

LEMMA UnlockSettles ==
  ASSUME TypeInv, SettledInv, Noted, NEW p \in Procs, Unlock(p)
  PROVE  SettledInv'
<1>1. /\ proc[p].pc = "unlock" /\ UNCHANGED <<file, force, mixer, through>>
      /\ NextCard(p, FALSE)
  BY DEF Unlock, At, options, history
<1>2. QED
  BY <1>1, NextCardSettles DEF Outside

\* after init() the whole card is still to be restored
LEMMA InitCardSettles ==
  ASSUME TypeInv, SettledInv, Noted, NEW p \in Procs, InitCard(p)
  PROVE  SettledInv'
<1> DEFINE pc == IF proc[p].nofile THEN "unlock" ELSE "open"
<1>0. PICK c \in Cards : c = proc[p].at
  BY DEF InitCard, At, TypeInv, ProcsInv, ProcInv, Working
<1>1. /\ proc[p].pc = "init" /\ UNCHANGED <<file, force, through>>
      /\ \/ /\ mixer' = [mixer EXCEPT ![c] = Initialized(mixer[c])]
            /\ Go(p, [pc |-> pc, pass |-> "set"])
         \/ UNCHANGED mixer /\ Go(p, [pc |-> pc, pass |-> "set", final |-> TRUE])
  BY <1>0 DEF InitCard, At, options, history
<1>2. ProcInv(p) /\ MixerInv
  BY DEF TypeInv, ProcsInv
<1>3. /\ OneMoves(p) /\ Kept(p, {"pc", "pass", "final"}) /\ proc'[p].pc = pc
      /\ proc[p].final => proc'[p].final
  <2>1. CASE Go(p, [pc |-> pc, pass |-> "set"])
    <3>1. /\ OneMoves(p) /\ Kept(p, {"pc", "pass"}) /\ proc'[p].pc = pc
          /\ proc'[p].pass = "set"
      BY <2>1, PassEffect DEF TypeInv
    <3>2. QED
      BY <3>1 DEF Kept, Fields
  <2>2. CASE Go(p, [pc |-> pc, pass |-> "set", final |-> TRUE])
    BY <2>2, FailedInitEffect DEF TypeInv
  <2>3. QED
    BY <1>1, <2>1, <2>2
<1>4. proc'[p].nofile = proc[p].nofile /\ proc'[p].at = c
  BY <1>0, <1>3 DEF Kept, Fields
<1>5. Trouble(p) => Trouble(p)'
  BY <1>1, <1>3, <1>4 DEF Trouble
<1>6. /\ \A d \in Cards \ {c} : mixer'[d] = mixer[d]
      /\ DOMAIN mixer'[c] = DOMAIN mixer[c]
  BY <1>1, <1>2 DEF MixerInv, Initialized
<1>7. ASSUME ~Trouble(p) PROVE Settles(p)
  <2>1. ~proc[p].nofile
    BY <1>2, <1>7 DEF Trouble, ProcInv
  <2>2. proc'[p].pc = "open"
    BY <1>3, <2>1
  <2>3. \A e : Owes(p, c, e)'
    BY <1>4, <2>2 DEF Owes
  <2>4. \A d, e : ~Handled(p, d, e)' /\ ~Stuck(p, d, e)' /\ (Owes(p, d, e) => d = c)
    BY <1>0, <2>2 DEF Handled, Stuck, Owes
  <2>5. \A d \in Cards \ {c} : \A e : Good(d, e) => Good(d, e)'
    BY <1>1, <1>6 DEF Good, Asked, Noted
  <2>6. \A d \in Cards : \A e : Here(d, e) => Here(d, e)'
    BY <1>1, <1>6 DEF Here
  <2>7. ASSUME NEW d \in Cards, NEW e \in file[d]
        PROVE  (Good(d, e) => Good(d, e)' \/ Owes(p, d, e)')
               /\ (Owes(p, d, e) => Owes(p, d, e)')
    BY <2>3, <2>4, <2>5
  <2>8. \A d : d \in through' => d \in through
    BY <1>1
  <2>9. QED
    BY <2>4, <2>6, <2>7, <2>8 DEF Settles
<1>8. QED
  BY <1>1, <1>3, <1>5, <1>7, StepSettles DEF Sound

LEMMA OpenSettles ==
  ASSUME TypeInv, SettledInv, Noted, NEW p \in Procs, Open(p)
  PROVE  SettledInv'
<1>1. /\ proc[p].pc = "open" /\ UNCHANGED <<file, force, mixer, through>>
      /\ \E pc \in {"end", "find"}, left \in {{}, Entries(p)}, err \in BOOLEAN :
            /\ Go(p, [pc |-> pc, left |-> left, err |-> err])
            /\ \/ left = Entries(p) /\ (Entries(p) # {} => pc = "find")
               \/ Fails(p, Entries(p)) /\ pc = "end" /\ err /\ left = {}
  BY DEF Open, At, options
<1>2. PICK pc \in {"end", "find"}, left \in {{}, Entries(p)}, err \in BOOLEAN :
         /\ Go(p, [pc |-> pc, left |-> left, err |-> err])
         /\ \/ left = Entries(p) /\ (Entries(p) # {} => pc = "find")
            \/ Fails(p, Entries(p)) /\ pc = "end" /\ err /\ left = {}
  BY <1>1
<1>3. /\ OneMoves(p) /\ Kept(p, {"pc", "left", "err"}) /\ proc'[p].pc = pc
      /\ proc'[p].left = left /\ proc'[p].err = err
  BY <1>2, OpenedEffect DEF TypeInv
<1>4. /\ proc'[p].at = proc[p].at /\ proc'[p].nofile = proc[p].nofile
      /\ proc'[p].final = proc[p].final /\ Doit(p)' = Doit(p)
  BY <1>3 DEF Kept, Fields, Doit
<1>5. Trouble(p) => Trouble(p)'
  BY <1>1, <1>4 DEF Trouble
<1>6. CASE left = Entries(p) /\ (Entries(p) # {} => pc = "find")
  <2>1. ASSUME NEW c \in Cards, NEW e \in file[c]
        PROVE  /\ Owes(p, c, e) => Owes(p, c, e)'
               /\ ~Handled(p, c, e)' /\ ~Stuck(p, c, e)'
    <3>1. proc[p].at = c => e \in proc'[p].left /\ proc'[p].pc = "find"
      BY <1>3, <1>6 DEF Entries
    <3>2. proc'[p].pc # "add"
      BY <1>3
    <3>3. QED
      BY <1>4, <3>1, <3>2 DEF Owes, Handled, Stuck
  <2>2. QED
    BY <1>1, <1>3, <1>5, <2>1, PlainStepSettles
<1>7. CASE Fails(p, Entries(p)) /\ pc = "end" /\ err /\ left = {}
  <2>1. ASSUME ~Trouble(p)' PROVE Settles(p)
    <3>1. Doit(p) => force
      BY <1>1, <1>3, <1>4, <1>7, <2>1 DEF Trouble
    <3>2. ASSUME NEW c \in Cards, NEW e \in file[c]
          PROVE  /\ Owes(p, c, e) => Good(c, e)' \/ Owes(p, c, e)'
                 /\ Handled(p, c, e)' => Good(c, e)' /\ Here(c, e)'
                 /\ ~Stuck(p, c, e)'
      <4>1. ~Stuck(p, c, e)' /\ (Owes(p, c, e) \/ Handled(p, c, e)' => proc[p].at = c)
        BY <1>3, <1>4, <1>7 DEF Stuck, Owes, Handled
      <4>2. CASE ~Doit(p)
        BY <1>3, <1>4, <1>7, <4>1, <4>2 DEF Owes, Handled
      <4>3. ASSUME Doit(p), proc[p].at = c PROVE Good(c, e)' /\ Here(c, e)'
        <5>1. e \in Entries(p)
          BY <4>3 DEF Entries
        <5>2. Good(c, e)'
          BY <1>1, <1>7, <3>1, <4>3, <5>1, FailedIsGood
        <5>3. QED
          BY <1>1, <3>1, <4>3, <5>2 DEF Here
      <4>4. QED
        BY <4>1, <4>2, <4>3
    <3>3. \A c, e : (Good(c, e) => Good(c, e)') /\ Here(c, e)' = Here(c, e)
      BY <1>1, Undisturbed
    <3>4. QED
      BY <1>1, <3>2, <3>3 DEF Settles
  <2>2. QED
    BY <1>1, <1>3, <1>5, <2>1, StepSettles
<1>8. QED
  BY <1>2, <1>6, <1>7

LEMMA LastEntrySettles ==
  ASSUME TypeInv, SettledInv, Noted, NEW p \in Procs, LastEntry(p)
  PROVE  SettledInv'
<1>1. /\ proc[p].pc = "find" /\ proc[p].left = {}
      /\ UNCHANGED <<file, force, mixer, through>>
      /\ \E err : Go(p, [pc |-> "end", err |-> err])
  BY DEF LastEntry, At, options
<1>2. PICK err : Go(p, [pc |-> "end", err |-> err])
  BY <1>1
<1>3. OneMoves(p) /\ Kept(p, {"pc", "err"}) /\ proc'[p].pc = "end"
  BY <1>2, ComparedEffect DEF TypeInv
<1>4. /\ proc'[p].at = proc[p].at /\ proc'[p].nofile = proc[p].nofile /\ Doit(p)' = Doit(p)
      /\ proc'[p].final = proc[p].final /\ proc'[p].left = proc[p].left
  BY <1>3 DEF Kept, Fields, Doit
<1>5. Trouble(p) => Trouble(p)'
  BY <1>1, <1>4 DEF Trouble
<1>6. \A c, e : /\ Owes(p, c, e) => Owes(p, c, e)'
                /\ Handled(p, c, e)' => Handled(p, c, e)
                /\ ~Stuck(p, c, e)'
  BY <1>1, <1>3, <1>4 DEF Owes, Handled, Stuck
<1>7. QED
  BY <1>1, <1>3, <1>5, <1>6, PlainStepSettles

LEMMA EndOfPassSettles ==
  ASSUME TypeInv, SettledInv, Noted, NEW p \in Procs, EndOfPass(p)
  PROVE  SettledInv'
<1> DEFINE final == proc[p].final \/ (proc[p].err /\ ~force)
<1>1. /\ proc[p].pc = "end" /\ UNCHANGED <<file, force, mixer>>
      /\ \/ /\ ~Doit(p) /\ UNCHANGED through
            /\ \E pc \in {"init", "open"}, pass \in {"check", "set"} :
                  Go(p, [pc |-> pc, pass |-> pass])
         \/ /\ Doit(p) /\ through' = through \cup {proc[p].at}
            /\ \/ Go(p, [pc |-> "unlock", final |-> final])
               \/ \E next \in {Head(proc[p].more)}, more \in {Tail(proc[p].more)} :
                  Go(p, [pc |-> "open", pass |-> "linked", final |-> final, at |-> next,
                         more |-> more])
  BY DEF EndOfPass, At, options
<1>2. ProcInv(p) /\ ~proc[p].nofile
  BY <1>1 DEF TypeInv, ProcsInv, ProcInv, InPass
<1> HIDE DEF final
<1>3. ASSUME ~Doit(p), UNCHANGED through, NEW pc \in {"init", "open"}, NEW pass,
             Go(p, [pc |-> pc, pass |-> pass])
      PROVE  SettledInv'
  <2>1. OneMoves(p) /\ Kept(p, {"pc", "pass"}) /\ proc'[p].pc = pc
    BY <1>3, PassEffect DEF TypeInv
  <2>2. /\ proc'[p].nofile = proc[p].nofile /\ proc'[p].final = proc[p].final
        /\ proc'[p].at = proc[p].at
    BY <2>1 DEF Kept, Fields
  <2>3. Trouble(p) => Trouble(p)'
    BY <1>1, <1>3, <2>2 DEF Trouble
  <2>4. \A c, e : /\ Owes(p, c, e) => Owes(p, c, e)'
                  /\ ~Handled(p, c, e)' /\ ~Stuck(p, c, e)'
    BY <1>1, <1>2, <1>3, <2>1, <2>2 DEF Owes, Handled, Stuck
  <2>5. QED
    BY <1>1, <1>3, <2>1, <2>3, <2>4, PlainStepSettles
<1>4. ASSUME Doit(p), through' = through \cup {proc[p].at}, OneMoves(p),
             proc'[p].pc \in {"unlock", "open"}, proc'[p].final = final,
             proc'[p].nofile = proc[p].nofile
      PROVE  SettledInv'
  <2>1. Trouble(p) => Trouble(p)'
    BY <1>1, <1>4 DEF Trouble, final
  <2>2. ASSUME ~Trouble(p) PROVE Settles(p)
    <3>1. proc[p].left = {}
      BY <1>1, <1>2, <1>4, <2>2 DEF Trouble, ProcInv
    <3>2. \A e : Handled(p, proc[p].at, e)
      BY <1>1, <1>4, <3>1 DEF Handled
    <3>3. \A c, e : /\ ~Owes(p, c, e) /\ ~Handled(p, c, e)' /\ ~Stuck(p, c, e)'
                    /\ (Good(c, e) => Good(c, e)') /\ Here(c, e)' = Here(c, e)
      BY <1>1, <1>4, Undisturbed DEF Owes, Handled, Stuck
    <3>4. QED
      BY <1>4, <3>2, <3>3 DEF Settles
  <2>3. QED
    BY <1>1, <1>4, <2>1, <2>2, StepSettles DEF Sound
<1>5. CASE Doit(p) /\ through' = through \cup {proc[p].at}
           /\ Go(p, [pc |-> "unlock", final |-> final])
  <2>1. OneMoves(p) /\ Kept(p, {"pc", "final"}) /\ proc'[p].pc = "unlock" /\ proc'[p].final = final
    BY <1>5, FinishedEffect DEF TypeInv
  <2>2. QED
    BY <1>4, <1>5, <2>1 DEF Kept, Fields
<1>6. ASSUME Doit(p), through' = through \cup {proc[p].at}, NEW next, NEW more,
             Go(p, [pc |-> "open", pass |-> "linked", final |-> final, at |-> next,
                    more |-> more])
      PROVE  SettledInv'
  <2>1. /\ OneMoves(p) /\ Kept(p, {"pc", "pass", "final", "at", "more"})
        /\ proc'[p].pc = "open" /\ proc'[p].final = final
    BY <1>6, NextLinkedEffect DEF TypeInv
  <2>2. QED
    BY <1>4, <1>6, <2>1 DEF Kept, Fields
<1>7. QED
  BY <1>1, <1>3, <1>5, <1>6

\* going on with the entries leaves a process as troubled as it was
LEMMA EntryDoneTrouble ==
  ASSUME TypeInv, UNCHANGED force, NEW p \in Procs, proc[p].pc # "end", NEW e, NEW err,
         EntryDone(p, e, err)
  PROVE  /\ OneMoves(p) /\ (Trouble(p) => Trouble(p)')
         /\ err /\ Doit(p) /\ ~Trouble(p)' => force
<1>1. /\ OneMoves(p) /\ Kept(p, {"pc", "left", "err"}) /\ proc'[p].err = err
      /\ proc'[p].pc = (IF err /\ ~Lax(p) THEN "end" ELSE "find")
  BY EntryDoneEffect DEF TypeInv
<1>2. /\ proc'[p].nofile = proc[p].nofile /\ proc'[p].final = proc[p].final
      /\ Doit(p)' = Doit(p)
  BY <1>1 DEF Kept, Fields, Doit
<1>3. Trouble(p) => Trouble(p)'
  BY <1>2 DEF Trouble
<1>4. err /\ Doit(p) /\ ~force => Trouble(p)'
  BY <1>1, <1>2 DEF Trouble, Lax
<1>5. QED
  BY <1>1, <1>3, <1>4

LEMMA OutcomeTrouble ==
  ASSUME TypeInv, UNCHANGED force, NEW p \in Procs, proc[p].pc # "end",
         NEW c, NEW e, NEW n, NEW elem, Outcome(p, c, e, n, elem)
  PROVE  OneMoves(p) /\ (Trouble(p) => Trouble(p)')
<1>1. CASE EntryDone(p, e, TRUE) \/ EntryDone(p, e, FALSE)
  BY <1>1, EntryDoneTrouble
<1>2. CASE Go(p, [pc |-> "write", entry |-> e, ctl |-> Written(e, elem.kind)])
  <2>1. OneMoves(p) /\ Kept(p, {"pc", "entry", "ctl"})
    BY <1>2, WritingEffect DEF TypeInv
  <2>2. proc'[p].nofile = proc[p].nofile /\ proc'[p].final = proc[p].final
    BY <2>1 DEF Kept, Fields
  <2>3. QED
    BY <2>1, <2>2 DEF Trouble
<1>3. QED
  BY <1>1, <1>2 DEF Outcome

\* an element that was not found is none, unless p could not ask for it
LEMMA AbsentSettles ==
  ASSUME TypeInv, SettledInv, Noted, NEW p \in Procs, proc[p].pc = "find",
         UNCHANGED <<force, file, mixer, through>>, NEW c \in Cards, c = proc[p].at,
         NEW e \in proc[p].left, proc[p].left \subseteq file[c], Absent(p, e),
         e.name \notin DOMAIN mixer[c] \/ Fails(p, {e})
  PROVE  SettledInv'
<1>1. \A d, x : (Good(d, x) => Good(d, x)') /\ Here(d, x)' = Here(d, x)
  BY Undisturbed
<1>2. e.name \notin DOMAIN mixer[c] => Good(c, e)'
  BY DEF Good, Asked
<1>3. force /\ Doit(p) => Good(c, e)'
  BY <1>2, FailedIsGood
<1>4. CASE EntryDone(p, e, TRUE)
  <2>1. /\ OneMoves(p) /\ (Trouble(p) => Trouble(p)')
        /\ Doit(p) /\ ~Trouble(p)' => force
    BY <1>4, EntryDoneTrouble
  <2>2. ASSUME ~Trouble(p)' PROVE Settles(p)
    <3>1. Doit(p) => Here(c, e)' /\ Good(c, e)'
      BY <1>3, <2>1, <2>2 DEF Here
    <3>2. QED
      BY <1>1, <1>4, <2>2, <3>1, DoneSettles
  <2>3. QED
    BY <2>1, <2>2, StepSettles
<1>5. CASE Go(p, [pc |-> "add", entry |-> e])
  <2>1. /\ OneMoves(p) /\ Kept(p, {"pc", "entry"}) /\ proc'[p].pc = "add"
        /\ proc'[p].entry = e
    BY <1>5, AddingEffect DEF TypeInv
  <2>2. /\ proc'[p].nofile = proc[p].nofile /\ proc'[p].final = proc[p].final
        /\ proc'[p].at = proc[p].at /\ proc'[p].left = proc[p].left /\ Doit(p)' = Doit(p)
    BY <2>1 DEF Kept, Fields, Doit
  <2>3. Trouble(p) => Trouble(p)'
    BY <2>2 DEF Trouble
  <2>4. \A d, x : /\ Owes(p, d, x) => Owes(p, d, x)' \/ (force /\ Doit(p) /\ d = c /\ x = e)
                  /\ Handled(p, d, x)' => Handled(p, d, x)
                  /\ Stuck(p, d, x)' => force /\ Doit(p) /\ d = c /\ x = e
    BY <2>1, <2>2 DEF Owes, Handled, Stuck
  <2>5. Settles(p)
    <3>1. ASSUME NEW d \in Cards, NEW x \in file[d]
          PROVE  /\ Owes(p, d, x) => Good(d, x)' \/ Owes(p, d, x)'
                 /\ Stuck(p, d, x)' => Good(d, x)'
      BY <1>3, <2>4
    <3>2. QED
      BY <1>1, <2>4, <3>1 DEF Settles
  <2>6. QED
    BY <2>1, <2>3, <2>5, StepSettles
<1>6. QED
  BY <1>4, <1>5 DEF Absent

\* ... and one whose levels or items p could not ask for is told apart
LEMMA HazySettles ==
  ASSUME TypeInv, SettledInv, Noted, NEW p \in Procs, proc[p].pc = "find",
         UNCHANGED <<force, file, mixer, through>>, NEW c \in Cards, c = proc[p].at,
         NEW e \in proc[p].left, proc[p].left \subseteq file[c], Hazy(p, c, e), Fails(p, {e}),
         <<c, e.name>> \in untold'
  PROVE  SettledInv'
<1>1. \A d, x : (Good(d, x) => Good(d, x)') /\ Here(d, x)' = Here(d, x)
  BY Undisturbed
<1>2. Doit(p) => Good(c, e)'
  <2>1. CASE force
    BY <2>1, FailedIsGood
  <2>2. CASE ~force
    BY <2>2 DEF Good, Asked
  <2>3. QED
    BY <2>1, <2>2
<1>3. ASSUME NEW err \in BOOLEAN, EntryDone(p, e, err), err \/ e.name \in DOMAIN mixer[c]
      PROVE  SettledInv'
  <2>1. /\ OneMoves(p) /\ (Trouble(p) => Trouble(p)')
        /\ err /\ Doit(p) /\ ~Trouble(p)' => force
    BY <1>3, EntryDoneTrouble
  <2>2. ASSUME ~Trouble(p)' PROVE Settles(p)
    <3>1. Doit(p) => Here(c, e)'
      BY <1>3, <2>1, <2>2 DEF Here
    <3>2. QED
      BY <1>1, <1>2, <1>3, <2>2, <3>1, DoneSettles
  <2>3. QED
    BY <2>1, <2>2, StepSettles
<1>4. ASSUME NEW ctl, Doit(p), Go(p, [pc |-> "write", entry |-> e, ctl |-> ctl])
      PROVE  SettledInv'
  <2>1. /\ OneMoves(p) /\ Kept(p, {"pc", "entry", "ctl"})
        /\ proc'[p].pc = "write" /\ proc'[p].entry = e
    BY <1>4, WritingEffect DEF TypeInv
  <2>2. /\ proc'[p].at = proc[p].at /\ proc'[p].left = proc[p].left /\ Doit(p)' = Doit(p)
        /\ proc'[p].nofile = proc[p].nofile /\ proc'[p].final = proc[p].final
    BY <2>1 DEF Kept, Fields, Doit
  <2>3. Trouble(p) => Trouble(p)'
    BY <2>2 DEF Trouble
  <2>4. \A d, x : /\ Owes(p, d, x) => Owes(p, d, x)'
                  /\ Handled(p, d, x)' => Handled(p, d, x)
                  /\ ~Stuck(p, d, x)'
    BY <1>4, <2>1, <2>2 DEF Owes, Handled, Stuck
  <2>5. QED
    BY <2>1, <2>3, <2>4, PlainStepSettles
<1>5. QED
  BY <1>3, <1>4 DEF Hazy

LEMMA FindSettles ==
  ASSUME TypeInv, SettledInv, Noted, NEW p \in Procs, Find(p)
  PROVE  SettledInv'
<1>1. PICK c \in Cards : c = proc[p].at
  BY FindEffect
<1>2. /\ proc[p].pc = "find" /\ UNCHANGED <<force, file, mixer, through>>
      /\ proc[p].left \subseteq file[c]
  BY <1>1, FindEffect
<1>3. PICK e \in proc[p].left :
         \/ \E n \in DOMAIN mixer[c] : /\ force => n = e.name
                                      /\ Outcome(p, c, e, n, mixer[c][n])
         \/ Absent(p, e) /\ (Found(p, e) = {} \/ Fails(p, {e}))
         \/ Hazy(p, c, e) /\ Fails(p, {e}) /\ <<c, e.name>> \in untold'
  BY <1>1, FindEffect DEF Found
<1>4. \A d, x : (Good(d, x) => Good(d, x)') /\ Here(d, x)' = Here(d, x)
  BY <1>2, Undisturbed
<1>5. ASSUME NEW n \in DOMAIN mixer[c], force => n = e.name, Outcome(p, c, e, n, mixer[c][n])
      PROVE  SettledInv'
  <2>1. OneMoves(p) /\ (Trouble(p) => Trouble(p)')
    BY <1>2, <1>5, OutcomeTrouble
  <2>2. ASSUME ~Trouble(p)' PROVE Settles(p)
    <3>1. n = e.name => e.name \in DOMAIN mixer'[c] /\ mixer'[c][e.name] = mixer[c][n]
      BY <1>2, <1>5
    <3>2. QED
      BY <1>1, <1>2, <1>4, <1>5, <2>2, <3>1, OutcomeSettles
  <2>3. QED
    BY <1>2, <2>1, <2>2, StepSettles
<1>6. Found(p, e) = {} => e.name \notin DOMAIN mixer[c]
  BY <1>1 DEF Found
<1>7. QED
  BY <1>1, <1>2, <1>3, <1>5, <1>6, AbsentSettles, HazySettles

LEMMA AddUserSettles ==
  ASSUME TypeInv, SettledInv, Noted, NEW p \in Procs, AddUser(p)
  PROVE  SettledInv'
<1>1. PICK c \in Cards : c = proc[p].at
  BY AddUserEffect
<1>2. PICK e \in proc[p].left : e = proc[p].entry
  BY AddUserEffect
<1>3. /\ proc[p].pc = "add" /\ UNCHANGED <<force, file, through>>
      /\ proc[p].left \subseteq file[c]
      /\ \/ EntryDone(p, e, TRUE) /\ UNCHANGED mixer /\ (e.name \in DOMAIN mixer[c] \/ Fails(p, {e}))
         \/ /\ e.name \notin DOMAIN mixer[c]
            /\ mixer' = [mixer EXCEPT ![c] = With(mixer[c], e.name, NewElem(e, mixer[c]))]
            /\ \/ Outcome(p, c, e, e.name, NewElem(e, mixer[c]))
               \/ EntryDone(p, e, TRUE) /\ Fails(p, {e})
  BY <1>1, <1>2, AddUserEffect
<1>4. ASSUME EntryDone(p, e, TRUE),
             (e.name \in DOMAIN mixer[c] /\ UNCHANGED mixer) \/ Fails(p, {e}),
             \A d \in Cards : \A x \in file[d] :
                /\ ~(d = c /\ x = e) => (Good(d, x) => Good(d, x)')
                /\ Here(d, x) => Here(d, x)'
      PROVE  SettledInv'
  <2>1. /\ OneMoves(p) /\ (Trouble(p) => Trouble(p)')
        /\ Doit(p) /\ ~Trouble(p)' => force
    BY <1>3, <1>4, EntryDoneTrouble
  <2>2. ASSUME ~Trouble(p)' PROVE Settles(p)
    <3>1. Doit(p) => Stuck(p, c, e) /\ Here(c, e)'
      BY <1>1, <1>2, <1>3, <2>1, <2>2 DEF Stuck, Here
    <3>2. Doit(p) => Good(c, e)' \/ (Good(c, e) => Good(c, e)')
      <4>1. CASE UNCHANGED mixer
        BY <1>3, <4>1, Undisturbed
      <4>2. CASE Fails(p, {e})
        BY <1>1, <1>3, <2>1, <2>2, <4>2, FailedIsGood
      <4>3. QED
        BY <1>4, <4>1, <4>2
    <3>3. QED
      BY <1>1, <1>2, <1>3, <1>4, <2>2, <3>1, <3>2, DoneSettles
  <2>3. QED
    BY <1>3, <2>1, <2>2, StepSettles
<1>5. CASE /\ EntryDone(p, e, TRUE) /\ UNCHANGED mixer
           /\ e.name \in DOMAIN mixer[c] \/ Fails(p, {e})
  <2>1. \A d, x : (Good(d, x) => Good(d, x)') /\ Here(d, x)' = Here(d, x)
    BY <1>3, <1>5, Undisturbed
  <2>2. QED
    BY <1>4, <1>5, <2>1
<1>6. ASSUME e.name \notin DOMAIN mixer[c], NEW elem, elem = NewElem(e, mixer[c]),
             mixer' = [mixer EXCEPT ![c] = With(mixer[c], e.name, NewElem(e, mixer[c]))],
             \/ Outcome(p, c, e, e.name, elem)
             \/ EntryDone(p, e, TRUE) /\ Fails(p, {e})
      PROVE  SettledInv'
  <2>0. e \in file[c]
    BY <1>3
  <2>1. /\ DOMAIN mixer'[c] = DOMAIN mixer[c] \cup {e.name} /\ mixer'[c][e.name] = elem
        /\ \A n \in DOMAIN mixer[c] : mixer'[c][n] = mixer[c][n]
        /\ \A d \in Cards \ {c} : mixer'[d] = mixer[d]
    BY <1>6, <2>0, AddGrows
  <2>2. ASSUME NEW d \in Cards, NEW x \in file[d]
        PROVE  /\ ~(d = c /\ x = e) => (Good(d, x) => Good(d, x)')
               /\ Here(d, x) => Here(d, x)'
    <3>1. ~(d = c /\ x = e) => (x.name \in DOMAIN mixer'[d] => x.name \in DOMAIN mixer[d])
      <4>1. d = c /\ x # e => x.name # e.name
        BY <2>0 DEF TypeInv, FilesInv
      <4>2. QED
        BY <2>1, <4>1
    <3>2. x.name \in DOMAIN mixer[d] => /\ x.name \in DOMAIN mixer'[d]
                                        /\ mixer'[d][x.name] = mixer[d][x.name]
      BY <2>1
    <3>3. QED
      BY <1>3, <3>1, <3>2 DEF Good, Asked, Here, Noted
  <2>3. CASE Outcome(p, c, e, e.name, elem)
    <3>1. OneMoves(p) /\ (Trouble(p) => Trouble(p)')
      BY <1>3, <2>3, OutcomeTrouble
    <3>2. ASSUME ~Trouble(p)' PROVE Settles(p)
      <4>1. e.name \in DOMAIN mixer'[c] /\ mixer'[c][e.name] = elem
        BY <2>1
      <4>2. /\ proc[p].pc \in {"find", "add"} /\ (proc[p].pc = "add" => e = proc[p].entry)
            /\ proc[p].pc # "find" /\ UNCHANGED <<file, force, through>>
        BY <1>2, <1>3
      <4>3. QED
        BY <1>1, <2>2, <2>3, <3>2, <4>1, <4>2, OutcomeSettles
    <3>3. QED
      BY <1>3, <3>1, <3>2, StepSettles
  <2>4. QED
    BY <1>4, <1>6, <2>2, <2>3
<1>7. QED
  BY <1>3, <1>5, <1>6

LEMMA WriteSettles ==
  ASSUME TypeInv, SettledInv, Noted, NEW p \in Procs, Write(p)
  PROVE  SettledInv'
<1>1. PICK c \in Cards : c = proc[p].at
  BY WriteEffect
<1>2. PICK e \in proc[p].left : e = proc[p].entry
  BY WriteEffect
<1>3. PICK kind : kind = mixer[c][e.name].kind
  OBVIOUS
<1>4. /\ proc[p].pc = "write" /\ UNCHANGED <<force, file, through>>
      /\ proc[p].left \subseteq file[c] /\ Writes(p)
      /\ \/ /\ EntryDone(p, e, FALSE)
            /\ mixer' = [mixer EXCEPT ![c][e.name].value = proc[p].ctl]
         \/ /\ ~ \A i \in DOMAIN proc[p].ctl : proc[p].ctl[i] \in Allowed(kind)
            /\ EntryDone(p, e, TRUE) /\ UNCHANGED mixer
         \/ EntryDone(p, e, TRUE) /\ UNCHANGED mixer /\ Fails(p, {e})
  BY <1>1, <1>2, <1>3, WriteEffect
<1>5. e \in file[c] /\ ProperEntry(e) /\ ProperKind(kind)
  BY <1>1, <1>2, <1>3, <1>4 DEF TypeInv, FilesInv, MixerInv, Writes
<1>6. /\ Doit(p) /\ e.name \in DOMAIN mixer[c]
      /\ \/ <<c, e.name>> \in failed \cap untold
         \/ /\ proc[p].ctl = Written(e, kind)
            /\ force \/ Complete(e, kind, Wanted(e, kind))
  BY <1>1, <1>2, <1>3, <1>4 DEF Writes
<1>7. CASE /\ EntryDone(p, e, FALSE)
           /\ mixer' = [mixer EXCEPT ![c][e.name].value = proc[p].ctl]
  <2>1. /\ mixer'[c][e.name].value = proc[p].ctl
        /\ \A m \in DOMAIN mixer[c] \ {e.name} : mixer'[c][m] = mixer[c][m]
        /\ \A d \in Cards \ {c} : mixer'[d] = mixer[d]
        /\ \A d \in Cards : DOMAIN mixer'[d] = DOMAIN mixer[d]
        /\ Grows
    <3>1. Sets(c, e.name, proc[p].ctl)
      BY <1>7 DEF Sets
    <3>2. QED
      BY <1>1, <1>6, <3>1, WriteGrows
  <2>2. mixer'[c][e.name].kind = kind
    BY <1>3, <1>6, <2>1 DEF Grows, SameElem, ElemFields
  <2>3. Good(c, e)'
    <3>1. SUFFICES ASSUME Asked(c, e)' PROVE Restored(e, mixer'[c][e.name])
      BY DEF Good
    <3>2. PICK elem : elem = mixer'[c][e.name]
      OBVIOUS
    <3>3. (force => Fits(e, kind)) /\ <<c, e.name>> \notin failed \cap untold
      BY <1>4, <2>2, <3>1 DEF Asked, Noted
    <3>4. elem.kind = kind /\ elem.value = Written(e, kind)
      BY <1>6, <2>1, <2>2, <3>2, <3>3
    <3>5. Complete(e, elem.kind, Wanted(e, elem.kind)) \/ Fits(e, elem.kind)
      BY <1>6, <3>3, <3>4
    <3>6. QED
      BY <1>5, <3>2, <3>4, <3>5, WrittenIsRestored
  <2>4. ASSUME NEW d \in Cards, NEW x \in file[d]
        PROVE  /\ ~(d = c /\ x = e) => (Good(d, x) => Good(d, x)')
               /\ Here(d, x) => Here(d, x)'
    <3>1. d = c /\ x # e => x.name # e.name
      BY <1>5 DEF TypeInv, FilesInv
    <3>2. ~(d = c /\ x = e) /\ x.name \in DOMAIN mixer[d] =>
             mixer'[d][x.name] = mixer[d][x.name]
      BY <2>1, <3>1
    <3>3. DOMAIN mixer'[d] = DOMAIN mixer[d]
      BY <2>1
    <3>4. QED
      BY <1>4, <1>7, <3>2, <3>3 DEF Good, Asked, Here, Noted
  <2>5. Here(c, e)'
    BY <1>6, <2>1 DEF Here
  <2>6. OneMoves(p) /\ (Trouble(p) => Trouble(p)')
    BY <1>4, <1>7, EntryDoneTrouble
  <2>7. ASSUME ~Trouble(p)' PROVE Settles(p)
    BY <1>1, <1>4, <1>7, <2>3, <2>4, <2>5, <2>7, DoneSettles
  <2>8. QED
    BY <1>4, <2>6, <2>7, StepSettles
<1>8. ASSUME EntryDone(p, e, TRUE), UNCHANGED mixer, force => Good(c, e)'
      PROVE  SettledInv'
  <2>1. /\ OneMoves(p) /\ (Trouble(p) => Trouble(p)') /\ (~Trouble(p)' => force)
    BY <1>4, <1>6, <1>8, EntryDoneTrouble
  <2>2. \A d, x : (Good(d, x) => Good(d, x)') /\ (Here(d, x) => Here(d, x)')
    BY <1>4, <1>8, Undisturbed
  <2>3. ASSUME ~Trouble(p)' PROVE Settles(p)
    <3>1. Here(c, e)'
      BY <1>4, <2>1, <2>3 DEF Here
    <3>2. QED
      BY <1>1, <1>4, <1>8, <2>1, <2>2, <2>3, <3>1, DoneSettles
  <2>4. QED
    BY <1>4, <2>1, <2>3, StepSettles
<1>9. CASE /\ ~ \A i \in DOMAIN proc[p].ctl : proc[p].ctl[i] \in Allowed(kind)
           /\ EntryDone(p, e, TRUE) /\ UNCHANGED mixer
  <2>1. Fits(e, kind) => <<c, e.name>> \in failed
    BY <1>5, <1>6, <1>9, FittingIsAllowed
  <2>2. force => Good(c, e)'
    BY <1>3, <1>4, <1>9, <2>1 DEF Good, Asked, Noted
  <2>3. QED
    BY <1>8, <1>9, <2>2
<1>10. CASE EntryDone(p, e, TRUE) /\ UNCHANGED mixer /\ Fails(p, {e})
  <2>1. force => Good(c, e)'
    BY <1>1, <1>4, <1>6, <1>10, FailedIsGood
  <2>2. QED
    BY <1>8, <1>10, <2>1
<1>11. QED
  BY <1>4, <1>7, <1>9, <1>10

LEMMA SettledStart == Init => SettledInv
<1> SUFFICES ASSUME Init PROVE SettledInv
  OBVIOUS
<1>1. \A p \in Procs : proc[p].pc = "start"
  BY DEF Init, Idle
<1>2. through = {}
  BY DEF Init
<1>3. QED
  BY <1>1, <1>2 DEF SettledInv, Handled, Stuck

LEMMA SettledKept == TypeInv /\ SettledInv /\ [Next]_vars => SettledInv'
<1> SUFFICES ASSUME TypeInv, SettledInv, [Next]_vars PROVE SettledInv'
  OBVIOUS
<1>0. Noted
  BY StepNotes
<1>1. CASE UNCHANGED vars
  <2>1. UNCHANGED <<force, file, mixer, proc, through, failed, untold>>
    BY <1>1 DEF vars, options, history
  <2>2. \A c, e : Due(c, e)' = Due(c, e) /\ Here(c, e)' = Here(c, e)
    BY <2>1 DEF Due, Good, Asked, Here, Owes, Doit
  <2>3. QED
    BY <2>1, <2>2 DEF SettledInv, Sound, Trouble, Handled, Stuck, Doit
<1>2. ASSUME NEW p \in Procs,
             \/ Start(p) \/ CardLock(p) \/ InitUcm(p) \/ InitCard(p) \/ Unlock(p) \/ Exit(p)
             \/ Open(p) \/ LastEntry(p) \/ EndOfPass(p) \/ Find(p) \/ AddUser(p) \/ Write(p)
      PROVE  SettledInv'
  BY <1>0, <1>2, StartSettles, CardLockSettles, InitUcmSettles, InitCardSettles, UnlockSettles,
     ExitSettles, OpenSettles, LastEntrySettles, EndOfPassSettles, FindSettles, AddUserSettles,
     WriteSettles
<1>3. QED
  BY <1>1, <1>2 DEF Next

-----------------------------------------------------------------------------
(***************************************************************************)
(* A process that ends without an error has been through each of its       *)
(* cards, or postponed it.                                                 *)
(***************************************************************************)
Reached(p) == proc[p].postponed \cup through

Progress(p) ==
    ~proc[p].final =>
       /\ Range(Args[p]) \subseteq Reached(p) \cup Range(proc[p].todo)
       /\ \/ proc[p].pc \in {"ucm", "init"}
          \/ proc[p].pc \in InPass /\ proc[p].pass # "linked"
          => proc[p].at = Head(proc[p].todo)
       /\ \/ proc[p].pc = "unlock"
          \/ proc[p].pc \in InPass /\ proc[p].pass = "linked"
          => Head(proc[p].todo) \in Reached(p)
       /\ proc[p].pc \in {"exit", "done"} => proc[p].todo = <<>>

ProgressInv == \A p \in Procs : Progress(p)

\* what changes between the opening of a pass and its end
PassFields == {"pc", "left", "err", "entry", "ctl"}

LEMMA ProgressOfOne ==
  ASSUME ProgressInv, NEW p \in Procs, OneMoves(p), through \subseteq through', Progress(p)'
  PROVE  ProgressInv'
<1>1. ASSUME NEW q \in Procs, q # p PROVE Progress(q)'
  <2>1. Progress(q) /\ proc'[q] = proc[q]
    BY <1>1 DEF ProgressInv, OneMoves
  <2>2. Reached(q) \subseteq Reached(q)'
    BY <2>1 DEF Reached
  <2>3. QED
    BY <2>1, <2>2 DEF Progress
<1>2. QED
  BY <1>1 DEF ProgressInv

LEMMA PassProgress ==
  ASSUME ProgressInv, NEW p \in Procs, OneMoves(p), Kept(p, PassFields),
         proc[p].pc \in InPass, proc'[p].pc \in InPass, UNCHANGED through
  PROVE  ProgressInv'
<1>1. /\ proc'[p].todo = proc[p].todo /\ proc'[p].pass = proc[p].pass
      /\ proc'[p].final = proc[p].final /\ proc'[p].at = proc[p].at
      /\ proc'[p].postponed = proc[p].postponed
  BY DEF Kept, Fields, PassFields
<1>2. Reached(p)' = Reached(p) /\ Progress(p)
  BY <1>1 DEF Reached, ProgressInv
<1>3. Progress(p)'
  BY <1>1, <1>2 DEF Progress, InPass
<1>4. QED
  BY <1>3, ProgressOfOne

LEMMA EntryDoneMoves ==
  ASSUME TypeInv, NEW p \in Procs, NEW e, NEW err, EntryDone(p, e, err)
  PROVE  OneMoves(p) /\ Kept(p, PassFields) /\ proc'[p].pc \in InPass
BY EntryDoneEffect DEF TypeInv, Kept, PassFields, InPass

LEMMA OutcomeMoves ==
  ASSUME TypeInv, NEW p \in Procs, NEW c, NEW e, NEW n, NEW elem, Outcome(p, c, e, n, elem)
  PROVE  OneMoves(p) /\ Kept(p, PassFields) /\ proc'[p].pc \in InPass
<1>1. CASE Go(p, [pc |-> "write", entry |-> e, ctl |-> Written(e, elem.kind)])
  <2>1. OneMoves(p) /\ Kept(p, {"pc", "entry", "ctl"}) /\ proc'[p].pc = "write"
    BY <1>1, WritingEffect DEF TypeInv
  <2>2. QED
    BY <2>1 DEF Kept, PassFields, InPass
<1>2. QED
  BY <1>1, EntryDoneMoves DEF Outcome

\* the steps inside a pass
LEMMA PassMoves ==
  ASSUME TypeInv, NEW p \in Procs,
         Open(p) \/ LastEntry(p) \/ Find(p) \/ AddUser(p) \/ Write(p)
  PROVE  /\ OneMoves(p) /\ Kept(p, PassFields) /\ proc[p].pc \in InPass /\ proc'[p].pc \in InPass
         /\ UNCHANGED <<file, force, through>>
<1>1. CASE Open(p)
  <2>1. /\ proc[p].pc = "open" /\ UNCHANGED <<file, force, through>>
        /\ \E pc \in {"end", "find"}, left \in {{}, Entries(p)}, err \in BOOLEAN :
              Go(p, [pc |-> pc, left |-> left, err |-> err])
    BY <1>1 DEF Open, At, options
  <2>2. PICK pc \in {"end", "find"}, left \in {{}, Entries(p)}, err \in BOOLEAN :
           Go(p, [pc |-> pc, left |-> left, err |-> err])
    BY <2>1
  <2>3. OneMoves(p) /\ Kept(p, {"pc", "left", "err"}) /\ proc'[p].pc = pc
    BY <2>2, OpenedEffect DEF TypeInv
  <2>4. QED
    BY <2>1, <2>3 DEF Kept, PassFields, InPass
<1>2. CASE LastEntry(p)
  <2>1. /\ proc[p].pc = "find" /\ UNCHANGED <<file, force, through>>
        /\ \E err : Go(p, [pc |-> "end", err |-> err])
    BY <1>2 DEF LastEntry, At, options
  <2>2. OneMoves(p) /\ Kept(p, {"pc", "err"}) /\ proc'[p].pc = "end"
    BY <2>1, ComparedEffect DEF TypeInv
  <2>3. QED
    BY <2>1, <2>2 DEF Kept, PassFields, InPass
<1>3. CASE Find(p)
  <2>1. /\ proc[p].pc = "find" /\ UNCHANGED <<file, force, through>>
    BY <1>3, FindEffect
  <2>2. PICK e \in proc[p].left :
           \/ \E n : Outcome(p, proc[p].at, e, n, mixer[proc[p].at][n])
           \/ Go(p, [pc |-> "add", entry |-> e])
           \/ EntryDone(p, e, TRUE) \/ EntryDone(p, e, FALSE)
           \/ \E ctl : Go(p, [pc |-> "write", entry |-> e, ctl |-> ctl])
    BY <1>3, FindEffect DEF Absent, Hazy
  <2>3. CASE Go(p, [pc |-> "add", entry |-> e])
    <3>1. OneMoves(p) /\ Kept(p, {"pc", "entry"}) /\ proc'[p].pc = "add"
      BY <2>3, AddingEffect DEF TypeInv
    <3>2. QED
      BY <2>1, <3>1 DEF Kept, PassFields, InPass
  <2>4. ASSUME NEW n, Outcome(p, proc[p].at, e, n, mixer[proc[p].at][n])
        PROVE  OneMoves(p) /\ Kept(p, PassFields) /\ proc'[p].pc \in InPass
    BY <2>4, OutcomeMoves
  <2>5. ASSUME NEW ctl, Go(p, [pc |-> "write", entry |-> e, ctl |-> ctl])
        PROVE  OneMoves(p) /\ Kept(p, PassFields) /\ proc'[p].pc \in InPass
    BY <2>5, WritingEffect DEF TypeInv, Kept, PassFields, InPass
  <2>6. QED
    BY <2>1, <2>2, <2>3, <2>4, <2>5, EntryDoneMoves DEF InPass
<1>4. CASE AddUser(p)
  <2>1. /\ proc[p].pc = "add" /\ UNCHANGED <<file, force, through>>
        /\ \/ EntryDone(p, proc[p].entry, TRUE)
           \/ Outcome(p, proc[p].at, proc[p].entry, proc[p].entry.name,
                      NewElem(proc[p].entry, mixer[proc[p].at]))
    BY <1>4, AddUserEffect
  <2>2. QED
    BY <2>1, OutcomeMoves, EntryDoneMoves DEF InPass
<1>5. CASE Write(p)
  <2>1. /\ proc[p].pc = "write" /\ UNCHANGED <<file, force, through>>
        /\ EntryDone(p, proc[p].entry, TRUE) \/ EntryDone(p, proc[p].entry, FALSE)
    BY <1>5, WriteEffect
  <2>2. QED
    BY <2>1, EntryDoneMoves DEF InPass
<1>6. QED
  BY <1>1, <1>2, <1>3, <1>4, <1>5

LEMMA TailOfList ==
  ASSUME NEW s \in Seq(Cards), s # <<>>
  PROVE  Range(s) \subseteq {Head(s)} \cup Range(Tail(s))
<1>1. ASSUME NEW i \in DOMAIN s PROVE s[i] \in {Head(s)} \cup Range(Tail(s))
  <2>1. CASE i = 1
    BY <2>1
  <2>2. CASE i # 1
    <3>1. i - 1 \in DOMAIN Tail(s) /\ Tail(s)[i - 1] = s[i]
      BY <2>2
    <3>2. QED
      BY <3>1 DEF Range
  <2>3. QED
    BY <2>1, <2>2
<1>2. QED
  BY <1>1 DEF Range

LEMMA NextCardProgress ==
  ASSUME TypeInv, ProgressInv, NEW p \in Procs, proc[p].todo # <<>>, NEW final \in BOOLEAN,
         NextCard(p, final), UNCHANGED through, final \/ proc[p].pc = "unlock"
  PROVE  ProgressInv'
<1>1. /\ OneMoves(p) /\ Kept(p, {"pc", "todo", "final"}) /\ proc'[p].pc = "card"
      /\ proc'[p].todo = Tail(proc[p].todo) /\ proc'[p].final = (proc[p].final \/ final)
  BY NextCardEffect DEF TypeInv
<1>2. Reached(p)' = Reached(p)
  BY <1>1 DEF Reached, Kept, Fields
<1>3. proc[p].todo \in Seq(Cards) /\ Progress(p)
  BY DEF TypeInv, ProcsInv, ProcInv, ProgressInv
<1>4. Range(proc[p].todo) \subseteq {Head(proc[p].todo)} \cup Range(Tail(proc[p].todo))
  BY <1>3, TailOfList
<1>5. Progress(p)'
  <2>1. SUFFICES ASSUME ~proc[p].final, ~final
                 PROVE  Range(Args[p]) \subseteq Reached(p)' \cup Range(proc[p].todo)'
    BY <1>1 DEF Progress, InPass
  <2>2. /\ Range(Args[p]) \subseteq Reached(p) \cup Range(proc[p].todo)
        /\ Head(proc[p].todo) \in Reached(p)
    BY <1>3, <2>1 DEF Progress
  <2>3. QED
    BY <1>1, <1>2, <1>4, <2>2
<1>6. QED
  BY <1>1, <1>5, ProgressOfOne

\* a step that is not in a pass and keeps the list
LEMMA OtherProgress ==
  ASSUME TypeInv, ProgressInv, NEW p \in Procs, OneMoves(p), through \subseteq through',
         proc'[p].todo = proc[p].todo, proc[p].final => proc'[p].final,
         proc[p].postponed \subseteq proc'[p].postponed,
         ~proc'[p].final =>
            /\ \/ proc'[p].pc \in {"ucm", "init"}
               \/ proc'[p].pc \in InPass /\ proc'[p].pass # "linked"
               => proc'[p].at = Head(proc[p].todo)
            /\ \/ proc'[p].pc = "unlock"
               \/ proc'[p].pc \in InPass /\ proc'[p].pass = "linked"
               => Head(proc[p].todo) \in Reached(p)'
            /\ proc'[p].pc \in {"exit", "done"} => proc[p].todo = <<>>
  PROVE  ProgressInv'
<1>1. Reached(p) \subseteq Reached(p)' /\ Progress(p)
  BY DEF Reached, ProgressInv
<1>2. Progress(p)'
  BY <1>1 DEF Progress
<1>3. QED
  BY <1>2, ProgressOfOne

LEMMA StartProgress ==
  ASSUME TypeInv, ProgressInv, NEW p \in Procs, Start(p)
  PROVE  ProgressInv'
<1>1. /\ UNCHANGED through
      /\ \/ Go(p, [pc |-> "card"])
         \/ \E pc \in {"card", "exit"} : Go(p, [pc |-> pc, nofile |-> TRUE, final |-> TRUE])
  BY DEF Start, history
<1>2. CASE Go(p, [pc |-> "card"])
  <2>1. OneMoves(p) /\ Kept(p, {"pc"}) /\ proc'[p].pc = "card"
    BY <1>2, MovedEffect DEF TypeInv
  <2>2. /\ proc'[p].todo = proc[p].todo /\ proc'[p].final = proc[p].final
        /\ proc'[p].postponed = proc[p].postponed
    BY <2>1 DEF Kept, Fields
  <2>3. QED
    BY <1>1, <2>1, <2>2, OtherProgress DEF InPass
<1>3. ASSUME NEW pc, Go(p, [pc |-> pc, nofile |-> TRUE, final |-> TRUE]) PROVE ProgressInv'
  <2>1. OneMoves(p) /\ Kept(p, {"pc", "nofile", "final"}) /\ proc'[p].final = TRUE
    BY <1>3, NoFileEffect DEF TypeInv
  <2>2. proc'[p].todo = proc[p].todo /\ proc'[p].postponed = proc[p].postponed
    BY <2>1 DEF Kept, Fields
  <2>3. QED
    BY <1>1, <2>1, <2>2, OtherProgress
<1>4. QED
  BY <1>1, <1>2, <1>3

LEMMA CardLockProgress ==
  ASSUME TypeInv, ProgressInv, NEW p \in Procs, CardLock(p)
  PROVE  ProgressInv'
<1> DEFINE c == Head(proc[p].todo)
<1>1. /\ UNCHANGED through /\ proc[p].todo # <<>>
      /\ \/ \E pc \in {"init", "ucm"} : Go(p, [pc |-> pc, at |-> c])
         \/ NextCard(p, TRUE)
  BY DEF CardLock, history
<1>2. ASSUME NEW pc \in {"init", "ucm"}, Go(p, [pc |-> pc, at |-> c]) PROVE ProgressInv'
  <2>1. OneMoves(p) /\ Kept(p, {"pc", "at"}) /\ proc'[p].pc = pc /\ proc'[p].at = c
    BY <1>2, LockedEffect DEF TypeInv
  <2>2. /\ proc'[p].todo = proc[p].todo /\ proc'[p].final = proc[p].final
        /\ proc'[p].postponed = proc[p].postponed
    BY <2>1 DEF Kept, Fields
  <2>3. QED
    BY <1>1, <2>1, <2>2, OtherProgress DEF InPass
<1>3. QED
  BY <1>1, <1>2, NextCardProgress

LEMMA ExitProgress ==
  ASSUME TypeInv, ProgressInv, NEW p \in Procs, Exit(p)
  PROVE  ProgressInv'
<1>1. /\ UNCHANGED through /\ Go(p, [pc |-> "done"])
      /\ proc[p].pc = "exit" \/ proc[p].todo = <<>>
  BY DEF Exit, At, history
<1>2. OneMoves(p) /\ Kept(p, {"pc"}) /\ proc'[p].pc = "done"
  BY <1>1, MovedEffect DEF TypeInv
<1>3. /\ proc'[p].todo = proc[p].todo /\ proc'[p].final = proc[p].final
      /\ proc'[p].postponed = proc[p].postponed
  BY <1>2 DEF Kept, Fields
<1>4. ~proc[p].final => proc[p].todo = <<>>
  BY <1>1 DEF ProgressInv, Progress
<1>5. QED
  BY <1>1, <1>2, <1>3, <1>4, OtherProgress DEF InPass

LEMMA InitUcmProgress ==
  ASSUME TypeInv, ProgressInv, NEW p \in Procs, InitUcm(p)
  PROVE  ProgressInv'
<1> DEFINE more == proc[p].postponed \cup {proc[p].at}
<1>1. /\ proc[p].pc = "ucm" /\ UNCHANGED through
      /\ \/ Go(p, [pc |-> "unlock", postponed |-> more])
         \/ \E pass \in {"check", "set"}, links \in {<<>>, Linked[proc[p].at]} :
               Go(p, [pc |-> "open", pass |-> pass, more |-> links])
         \/ NextCard(p, TRUE)
  BY DEF InitUcm, At, history
<1>2. ~proc[p].final => proc[p].at = Head(proc[p].todo)
  BY <1>1 DEF TypeInv, ProcsInv, ProcInv, Working, ProgressInv, Progress
<1>3. proc[p].todo # <<>>
  BY <1>1 DEF TypeInv, ProcsInv, ProcInv, Working
<1>4. CASE Go(p, [pc |-> "unlock", postponed |-> more])
  <2> HIDE DEF more
  <2>1. /\ OneMoves(p) /\ Kept(p, {"pc", "postponed"}) /\ proc'[p].pc = "unlock"
        /\ proc'[p].postponed = more
    BY <1>4, PostponedEffect DEF TypeInv
  <2>2. /\ proc'[p].todo = proc[p].todo /\ proc'[p].final = proc[p].final
    BY <2>1 DEF Kept, Fields
  <2>3. ~proc[p].final => Head(proc[p].todo) \in Reached(p)'
    BY <1>2, <1>3, <2>1 DEF Reached, more
  <2>4. QED
    BY <1>1, <2>1, <2>2, <2>3, OtherProgress DEF InPass, more
<1>5. ASSUME NEW pass \in {"check", "set"}, NEW links,
             Go(p, [pc |-> "open", pass |-> pass, more |-> links])
      PROVE  ProgressInv'
  <2>1. /\ OneMoves(p) /\ Kept(p, {"pc", "pass", "more"}) /\ proc'[p].pc = "open"
        /\ proc'[p].pass = pass
    BY <1>5, LinksEffect DEF TypeInv
  <2>2. /\ proc'[p].todo = proc[p].todo /\ proc'[p].final = proc[p].final
        /\ proc'[p].at = proc[p].at /\ proc'[p].postponed = proc[p].postponed
    BY <2>1 DEF Kept, Fields
  <2>3. QED
    BY <1>1, <1>2, <1>3, <2>1, <2>2, OtherProgress DEF InPass
<1>6. QED
  BY <1>1, <1>3, <1>4, <1>5, NextCardProgress

LEMMA InitCardProgress ==
  ASSUME TypeInv, ProgressInv, NEW p \in Procs, InitCard(p)
  PROVE  ProgressInv'
<1> DEFINE pc == IF proc[p].nofile THEN "unlock" ELSE "open"
<1>1. /\ proc[p].pc = "init" /\ UNCHANGED through
      /\ \/ Go(p, [pc |-> pc, pass |-> "set"])
         \/ Go(p, [pc |-> pc, pass |-> "set", final |-> TRUE])
  BY DEF InitCard, At, history
<1>2. ProcInv(p) /\ Progress(p)
  BY DEF TypeInv, ProcsInv, ProgressInv
<1>3. CASE Go(p, [pc |-> pc, pass |-> "set", final |-> TRUE])
  <2>1. OneMoves(p) /\ Kept(p, {"pc", "pass", "final"}) /\ proc'[p].final = TRUE
    BY <1>3, FailedInitEffect DEF TypeInv
  <2>2. proc'[p].todo = proc[p].todo /\ proc'[p].postponed = proc[p].postponed
    BY <2>1 DEF Kept, Fields
  <2>3. QED
    BY <1>1, <2>1, <2>2, OtherProgress
<1>4. CASE Go(p, [pc |-> pc, pass |-> "set"])
  <2>1. OneMoves(p) /\ Kept(p, {"pc", "pass"}) /\ proc'[p].pc = pc /\ proc'[p].pass = "set"
    BY <1>4, PassEffect DEF TypeInv
  <2>2. /\ proc'[p].todo = proc[p].todo /\ proc'[p].final = proc[p].final
        /\ proc'[p].at = proc[p].at /\ proc'[p].postponed = proc[p].postponed
    BY <2>1 DEF Kept, Fields
  <2>3. ~proc[p].final => pc = "open" /\ proc[p].at = Head(proc[p].todo)
    BY <1>1, <1>2 DEF ProcInv, Progress
  <2>4. QED
    BY <1>1, <2>1, <2>2, <2>3, OtherProgress DEF InPass
<1>5. QED
  BY <1>1, <1>3, <1>4

LEMMA UnlockProgress ==
  ASSUME TypeInv, ProgressInv, NEW p \in Procs, Unlock(p)
  PROVE  ProgressInv'
<1>1. proc[p].pc = "unlock" /\ UNCHANGED through /\ NextCard(p, FALSE)
  BY DEF Unlock, At, history
<1>2. proc[p].todo # <<>>
  BY <1>1 DEF TypeInv, ProcsInv, ProcInv, Working
<1>3. QED
  BY <1>1, <1>2, NextCardProgress

LEMMA EndOfPassProgress ==
  ASSUME TypeInv, ProgressInv, NEW p \in Procs, EndOfPass(p)
  PROVE  ProgressInv'
<1> DEFINE final == proc[p].final \/ (proc[p].err /\ ~force)
<1>1. /\ proc[p].pc = "end"
      /\ \/ /\ ~Doit(p) /\ UNCHANGED through
            /\ \E pc \in {"init", "open"}, pass \in {"check", "set"} :
                  Go(p, [pc |-> pc, pass |-> pass])
         \/ /\ Doit(p) /\ through' = through \cup {proc[p].at}
            /\ \/ Go(p, [pc |-> "unlock", final |-> final])
               \/ \E next \in {Head(proc[p].more)}, more \in {Tail(proc[p].more)} :
                  Go(p, [pc |-> "open", pass |-> "linked", final |-> final, at |-> next,
                         more |-> more])
  BY DEF EndOfPass, At
<1>2. ~proc[p].final =>
         /\ proc[p].pass # "linked" => proc[p].at = Head(proc[p].todo)
         /\ proc[p].pass = "linked" => Head(proc[p].todo) \in Reached(p)
  BY <1>1 DEF ProgressInv, Progress, InPass
<1>3. ASSUME ~Doit(p), UNCHANGED through, NEW pc \in {"init", "open"},
             NEW pass \in {"check", "set"}, Go(p, [pc |-> pc, pass |-> pass])
      PROVE  ProgressInv'
  <2>1. OneMoves(p) /\ Kept(p, {"pc", "pass"}) /\ proc'[p].pc = pc /\ proc'[p].pass = pass
    BY <1>3, PassEffect DEF TypeInv
  <2>2. /\ proc'[p].todo = proc[p].todo /\ proc'[p].final = proc[p].final
        /\ proc'[p].at = proc[p].at /\ proc'[p].postponed = proc[p].postponed
    BY <2>1 DEF Kept, Fields
  <2>3. QED
    BY <1>2, <1>3, <2>1, <2>2, OtherProgress DEF Doit, InPass
<1>4. ASSUME through' = through \cup {proc[p].at}, OneMoves(p),
             proc'[p].todo = proc[p].todo, proc'[p].postponed = proc[p].postponed,
             proc'[p].final = final,
             proc'[p].pc = "unlock" \/ (proc'[p].pc = "open" /\ proc'[p].pass = "linked")
      PROVE  ProgressInv'
  <2>1. proc[p].final => proc'[p].final
    BY <1>4
  <2>2. ~proc'[p].final => Head(proc[p].todo) \in Reached(p)'
    BY <1>2, <1>4 DEF Reached
  <2>3. QED
    BY <1>4, <2>1, <2>2, OtherProgress DEF InPass
<1> HIDE DEF final
<1>5. CASE through' = through \cup {proc[p].at} /\ Go(p, [pc |-> "unlock", final |-> final])
  <2>1. OneMoves(p) /\ Kept(p, {"pc", "final"}) /\ proc'[p].pc = "unlock" /\ proc'[p].final = final
    BY <1>5, FinishedEffect DEF TypeInv
  <2>2. QED
    BY <1>4, <1>5, <2>1 DEF Kept, Fields
<1>6. ASSUME through' = through \cup {proc[p].at}, NEW next, NEW more,
             Go(p, [pc |-> "open", pass |-> "linked", final |-> final, at |-> next,
                    more |-> more])
      PROVE  ProgressInv'
  <2>1. /\ OneMoves(p) /\ Kept(p, {"pc", "pass", "final", "at", "more"})
        /\ proc'[p].pc = "open" /\ proc'[p].pass = "linked" /\ proc'[p].final = final
    BY <1>6, NextLinkedEffect DEF TypeInv
  <2>2. QED
    BY <1>4, <1>6, <2>1 DEF Kept, Fields
<1>7. QED
  BY <1>1, <1>3, <1>5, <1>6

LEMMA ProgressStart == Init => ProgressInv
BY DEF Init, Idle, ProgressInv, Progress, InPass

LEMMA ProgressKept == TypeInv /\ ProgressInv /\ [Next]_vars => ProgressInv'
<1> SUFFICES ASSUME TypeInv, ProgressInv, [Next]_vars PROVE ProgressInv'
  OBVIOUS
<1>1. CASE UNCHANGED vars
  BY <1>1 DEF vars, history, ProgressInv, Progress, Reached
<1>2. ASSUME NEW p \in Procs, Open(p) \/ LastEntry(p) \/ Find(p) \/ AddUser(p) \/ Write(p)
      PROVE  ProgressInv'
  BY <1>2, PassMoves, PassProgress
<1>3. ASSUME NEW p \in Procs,
             \/ Start(p) \/ CardLock(p) \/ InitUcm(p) \/ InitCard(p) \/ Unlock(p) \/ Exit(p)
             \/ EndOfPass(p)
      PROVE  ProgressInv'
  BY <1>3, StartProgress, CardLockProgress, InitUcmProgress, InitCardProgress, UnlockProgress,
     ExitProgress, EndOfPassProgress
<1>4. QED
  BY <1>1, <1>2, <1>3 DEF Next

LEMMA ThroughKept == TypeInv /\ through \subseteq Cards /\ [Next]_vars => (through \subseteq Cards)'
<1> SUFFICES ASSUME TypeInv, through \subseteq Cards, [Next]_vars PROVE through' \subseteq Cards
  OBVIOUS
<1>1. CASE UNCHANGED vars
  BY <1>1 DEF vars, history
<1>2. ASSUME NEW p \in Procs, EndOfPass(p) PROVE through' \subseteq Cards
  <2>1. proc[p].at \in Cards
    BY <1>2 DEF EndOfPass, At, TypeInv, ProcsInv, ProcInv, Working, InPass
  <2>2. QED
    BY <1>2, <2>1 DEF EndOfPass
<1>3. ASSUME NEW p \in Procs,
             \/ Start(p) \/ CardLock(p) \/ InitUcm(p) \/ InitCard(p) \/ Unlock(p) \/ Exit(p)
             \/ Open(p) \/ LastEntry(p) \/ Find(p) \/ AddUser(p) \/ Write(p)
      PROVE  UNCHANGED through
  BY <1>3, PassMoves DEF Start, CardLock, InitUcm, InitCard, Unlock, Exit, history
<1>4. QED
  BY <1>1, <1>2, <1>3 DEF Next

-----------------------------------------------------------------------------
(***************************************************************************)
(* Why init() is run: what the check has found wrong with a card stays     *)
(* wrong, unless a call of it failed or another process adds elements to   *)
(* the card.                                                               *)
(***************************************************************************)
Excused(p, c) ==
    \/ ~AsStored(c) \/ <<c, p>> \in hindered
    \/ \E q \in Procs \ {p} : <<c, q>> \in added

Checked(p) ==
    /\ proc[p].pc = "init" /\ ~proc[p].nofile => Excused(p, proc[p].at)
    /\ proc[p].pc = "end" /\ ~Doit(p) /\ proc[p].err => Excused(p, proc[p].at)
    /\ proc[p].pc = "add" =>
          /\ proc[p].entry.user
          /\ ~Doit(p) /\ proc[p].entry.name \in DOMAIN mixer[proc[p].at]
             => Excused(p, proc[p].at)
    /\ proc[p].pc \in {"find", "add"} /\ ~Doit(p) =>
          \A e \in file[proc[p].at] \ proc[p].left : e.name \in DOMAIN mixer[proc[p].at]

CheckInv == \A p \in Procs : Checked(p)

\* an element that a process adds is a user element, and goes by its name
Additions(p) ==
    \A c \in Cards : \A n \in DOMAIN mixer'[c] \ DOMAIN mixer[c] :
       <<c, p>> \in added' /\ \A e \in file[c] : e.name = n => e.user

LEMMA ExcusedStays ==
  ASSUME Grows, Noted, UNCHANGED file, added \subseteq added', NEW p \in Procs, Additions(p),
         NEW q \in Procs, NEW c \in Cards, Excused(q, c)
  PROVE  Excused(q, c)'
<1>1. AsStored(c)' => AsStored(c)
  <2>1. SUFFICES ASSUME AsStored(c)' PROVE AsStored(c)
    OBVIOUS
  <2>2. \A n \in DOMAIN mixer[c] :
           /\ n \in DOMAIN mixer'[c] /\ mixer'[c][n].num = mixer[c][n].num
           /\ mixer'[c][n].kind = mixer[c][n].kind /\ mixer'[c][n].read = mixer[c][n].read
    BY DEF Grows, SameElem, ElemFields
  <2>3. \A e : \A n \in DOMAIN mixer[c] : IsOf(e, n, mixer'[c][n]) <=> IsOf(e, n, mixer[c][n])
    BY <2>2 DEF IsOf
  <2>4. file[c] # {}
    BY <2>1 DEF AsStored
  <2>5. ASSUME NEW n \in DOMAIN mixer[c], mixer[c][n].read
        PROVE  \E e \in file[c] : IsOf(e, n, mixer[c][n])
    <3>1. \E e \in file[c] : IsOf(e, n, mixer'[c][n])
      BY <2>1, <2>2, <2>5 DEF AsStored
    <3>2. QED
      BY <2>3, <3>1
  <2>6. ASSUME NEW e \in file[c]
        PROVE  /\ e.user \/ e.name \in DOMAIN mixer[c]
               /\ \A n \in DOMAIN mixer[c] :
                     n = e.name \/ mixer[c][n].num = e.num => IsOf(e, n, mixer[c][n])
    <3>1. /\ e.user \/ e.name \in DOMAIN mixer'[c]
          /\ \A n \in DOMAIN mixer'[c] :
                n = e.name \/ mixer'[c][n].num = e.num => IsOf(e, n, mixer'[c][n])
      BY <2>1 DEF AsStored
    <3>2. e.user \/ e.name \in DOMAIN mixer[c]
      BY <3>1 DEF Additions
    <3>3. QED
      BY <2>2, <2>3, <3>1, <3>2
  <2>7. QED
    BY <2>4, <2>5, <2>6 DEF AsStored
<1>2. QED
  BY <1>1 DEF Excused, Noted

\* a call that fails in the check
LEMMA HinderedIsExcused ==
  ASSUME NEW p \in Procs, NEW c, c = proc[p].at, NEW entries, Fails(p, entries), ~Doit(p)
  PROVE  Excused(p, c)'
BY DEF Fails, Excused

LEMMA CheckOfOne ==
  ASSUME TypeInv, CheckInv, Noted, NEW p \in Procs, OneMoves(p), Grows, UNCHANGED file,
         added \subseteq added', Additions(p), Checked(p)'
  PROVE  CheckInv'
<1>1. ASSUME NEW q \in Procs, q # p PROVE Checked(q)'
  <2>1. proc'[q] = proc[q] /\ Checked(q) /\ (Doit(q)' <=> Doit(q))
    BY <1>1 DEF CheckInv, OneMoves, Doit
  <2>2. CASE proc[q].at \in Cards
    <3>1. PICK c \in Cards : c = proc[q].at
      BY <2>2
    <3>2. Excused(q, c) => Excused(q, c)'
      BY ExcusedStays
    <3>3. ASSUME proc[q].pc = "add", ~Doit(q), proc[q].entry.name \in DOMAIN mixer'[c]
          PROVE  Excused(q, c)'
      <4>1. CASE proc[q].entry.name \in DOMAIN mixer[c]
        BY <2>1, <3>1, <3>2, <3>3, <4>1 DEF Checked
      <4>2. CASE proc[q].entry.name \notin DOMAIN mixer[c]
        <5>1. <<c, p>> \in added'
          BY <3>3, <4>2 DEF Additions
        <5>2. QED
          BY <1>1, <5>1 DEF Excused
      <4>3. QED
        BY <4>1, <4>2
    <3>4. \A n : n \in DOMAIN mixer[c] => n \in DOMAIN mixer'[c]
      BY DEF Grows
    <3>5. proc'[q].at = c
      BY <2>1, <3>1
    <3>6. /\ proc[q].pc = "init" /\ ~proc[q].nofile => Excused(q, c)
          /\ proc[q].pc = "end" /\ ~Doit(q) /\ proc[q].err => Excused(q, c)
          /\ proc[q].pc = "add" => proc[q].entry.user
          /\ proc[q].pc \in {"find", "add"} /\ ~Doit(q) =>
                \A e \in file[c] \ proc[q].left : e.name \in DOMAIN mixer[c]
      BY <2>1, <3>1 DEF Checked
    <3>7. QED
      BY <2>1, <3>2, <3>3, <3>4, <3>5, <3>6 DEF Checked
  <2>3. CASE proc[q].at \notin Cards
    BY <2>1, <2>3 DEF Checked, TypeInv, ProcsInv, ProcInv, Working, InPass
  <2>4. QED
    BY <2>2, <2>3
<1>2. QED
  BY <1>1 DEF CheckInv

LEMMA NothingAdded ==
  ASSUME TypeInv, UNCHANGED mixer, NEW p \in Procs
  PROVE  Grows /\ Additions(p)
BY MixerStays DEF Additions

\* a process in none of the places Checked speaks of
LEMMA PlainCheck ==
  ASSUME NEW p \in Procs,
         \/ proc'[p].pc \in Outside \cup {"open", "write"}
         \/ proc'[p].pc = "init" /\ proc'[p].nofile
  PROVE  Checked(p)'
BY DEF Checked, Outside

\* a kind that is still the same
LEMMA SameKind ==
  ASSUME NEW e, ProperEntry(e), NEW kind, kind = e.kind
  PROVE  ~RangeDiffers(e, kind) /\ Complete(e, kind, Wanted(e, kind))
<1>1. Wanted(e, kind) = e.value
  BY WantedAsIs DEF Converts
<1>2. DOMAIN e.value = 1 .. kind.count
  BY DEF ProperEntry
<1>3. \A i \in 1 .. kind.count : Channel(e.value, i) = e.value[i]
  BY <1>2 DEF Channel
<1>4. \A i \in 1 .. kind.count : Understood(e, kind, e.value[i])
  BY <1>2 DEF ProperEntry, Understood
<1>5. QED
  BY <1>1, <1>2, <1>3, <1>4 DEF RangeDiffers, Complete

\* a card that is as stored has as many readable elements as entries
LEMMA NoMismatch ==
  ASSUME TypeInv, NEW p \in Procs, NEW c \in Cards, c = proc[p].at, AsStored(c),
         \A e \in file[c] : e.name \in DOMAIN mixer[c]
  PROVE  ~Mismatch(p)
<1> DEFINE elems == mixer[c]
           R == {n \in DOMAIN elems : elems[n].read}
           U == {n \in DOMAIN elems : elems[n].user}
           f == [e \in file[c] |-> e.name]
<1>1. IsFiniteSet(DOMAIN elems) /\ IsFiniteSet(file[c])
  BY DEF TypeInv, MixerInv, FilesInv
<1>2. \A e \in file[c] : e.name \in R
  BY DEF AsStored, IsOf
<1>3. \A d, e \in file[c] : d.name = e.name => d = e
  BY DEF TypeInv, FilesInv
<1>4. \A n \in R : \E e \in file[c] : e.name = n
  BY DEF AsStored, IsOf
<1>5. f \in [file[c] -> R]
  BY <1>2
<1>6. \A d, e \in file[c] : f[d] = f[e] => d = e
  BY <1>3
<1>7. \A n \in R : \E e \in file[c] : f[e] = n
  BY <1>4
<1> HIDE DEF f, R
<1>8. f \in Bijection(file[c], R)
  BY <1>5, <1>6, <1>7 DEF Bijection, Injection, IsInjective, Surjection
<1>9. Cardinality(R) = Cardinality(file[c]) /\ Cardinality(file[c]) \in Nat
  BY <1>1, <1>8, FS_Bijection, FS_CardinalityType DEF ExistsBijection
<1>10. Cardinality(U) \in Nat
  <2>1. U \in SUBSET DOMAIN elems
    OBVIOUS
  <2>2. IsFiniteSet(U)
    BY <1>1, <2>1, FS_Subset
  <2>3. QED
    BY <2>2, FS_CardinalityType
<1>11. Mismatch(p) = (\/ Cardinality(R) - Cardinality(file[c]) > Cardinality(U)
                      \/ -(Cardinality(R) - Cardinality(file[c])) > Cardinality(U))
  BY DEF Mismatch, Entries, R
<1> HIDE DEF U
<1>12. QED
  BY <1>9, <1>10, <1>11

\* the check goes on, or stops at an entry that is not as stored
LEMMA EntryDoneChecked ==
  ASSUME TypeInv, NEW p \in Procs, UNCHANGED <<file, force>>, Grows,
         NEW c \in Cards, c = proc[p].at, NEW e \in file[c],
         proc[p].pc \in {"find", "add"}, Checked(p), NEW err \in BOOLEAN, EntryDone(p, e, err),
         ~Doit(p) /\ err => Excused(p, c)',
         ~Doit(p) /\ ~err => e.name \in DOMAIN mixer'[c]
  PROVE  Checked(p)'
<1>1. /\ Kept(p, {"pc", "left", "err"}) /\ proc'[p].left = proc[p].left \ {e}
      /\ proc'[p].pc = (IF err /\ ~Lax(p) THEN "end" ELSE "find") /\ proc'[p].err = err
  BY EntryDoneEffect DEF TypeInv
<1>2. proc'[p].at = c /\ Doit(p)' = Doit(p)
  BY <1>1 DEF Kept, Fields, Doit
<1>3. CASE Doit(p)
  BY <1>1, <1>2, <1>3 DEF Checked
<1>4. CASE ~Doit(p)
  <2>1. \A x \in file[c] \ proc[p].left : x.name \in DOMAIN mixer'[c]
    BY <1>4 DEF Checked, Grows
  <2>2. err => Excused(p, proc[p].at)'
    BY <1>2, <1>4 DEF Excused
  <2>3. proc'[p].pc = (IF err THEN "end" ELSE "find")
    BY <1>1, <1>4 DEF Lax
  <2>4. ~err => \A x \in file'[proc'[p].at] \ proc'[p].left : x.name \in DOMAIN mixer'[proc'[p].at]
    BY <1>1, <1>2, <1>4, <2>1
  <2>5. QED
    BY <1>1, <2>2, <2>3, <2>4 DEF Checked
<1>5. QED
  BY <1>3, <1>4

LEMMA OutcomeChecked ==
  ASSUME TypeInv, NEW p \in Procs, UNCHANGED <<file, force>>, Grows,
         NEW c \in Cards, c = proc[p].at, NEW e \in file[c],
         proc[p].pc \in {"find", "add"}, Checked(p),
         NEW n \in DOMAIN mixer'[c], NEW elem, elem = mixer'[c][n],
         n = e.name \/ elem.num = e.num, Outcome(p, c, e, n, elem)
  PROVE  Checked(p)'
<1>1. ASSUME AsStored(c)'
      PROVE  /\ ~Refuses(p, e, n, elem) /\ Complete(e, elem.kind, Wanted(e, elem.kind))
  <2>1. IsOf(e, n, elem)
    BY <1>1 DEF AsStored
  <2>2. ProperEntry(e)
    BY DEF TypeInv, FilesInv
  <2>3. ~RangeDiffers(e, elem.kind) /\ Complete(e, elem.kind, Wanted(e, elem.kind))
    BY <2>1, <2>2, SameKind DEF IsOf
  <2>4. QED
    BY <2>1, <2>3 DEF Refuses, IsOf
<1>2. CASE Refuses(p, e, n, elem) /\ EntryDone(p, e, TRUE)
  BY <1>1, <1>2, EntryDoneChecked DEF Excused
<1>3. CASE ~Refuses(p, e, n, elem) /\ EntryDone(p, e, FALSE)
  BY <1>3, EntryDoneChecked DEF Refuses
<1>4. CASE ~Complete(e, elem.kind, Wanted(e, elem.kind)) /\ EntryDone(p, e, TRUE)
  BY <1>1, <1>4, EntryDoneChecked DEF Excused
<1>5. CASE Go(p, [pc |-> "write", entry |-> e, ctl |-> Written(e, elem.kind)])
  <2>1. proc'[p].pc = "write"
    BY <1>5, WritingEffect DEF TypeInv
  <2>2. QED
    BY <2>1, PlainCheck
<1>6. QED
  BY <1>2, <1>3, <1>4, <1>5 DEF Outcome

LEMMA AddedIsUsers ==
  ASSUME TypeInv, CheckInv, NEW p \in Procs, AddUser(p)
  PROVE  Grows /\ Additions(p) /\ UNCHANGED file /\ added \subseteq added'
<1>1. PICK c \in Cards : c = proc[p].at
  BY AddUserEffect
<1>2. PICK e \in file[c] : e = proc[p].entry
  BY <1>1, AddUserEffect
<1>3. /\ UNCHANGED file /\ proc[p].pc = "add"
      /\ \/ UNCHANGED <<mixer, added>>
         \/ /\ e.name \notin DOMAIN mixer[c] /\ added' = added \cup {<<c, p>>}
            /\ mixer' = [mixer EXCEPT ![c] = With(mixer[c], e.name, NewElem(e, mixer[c]))]
  BY <1>1, <1>2, AddUserEffect
<1>4. e.user
  BY <1>2, <1>3 DEF CheckInv, Checked
<1>5. CASE UNCHANGED <<mixer, added>>
  BY <1>3, <1>5, NothingAdded
<1>6. CASE /\ e.name \notin DOMAIN mixer[c] /\ added' = added \cup {<<c, p>>}
           /\ mixer' = [mixer EXCEPT ![c] = With(mixer[c], e.name, NewElem(e, mixer[c]))]
  <2>1. /\ Grows /\ DOMAIN mixer'[c] = DOMAIN mixer[c] \cup {e.name}
        /\ \A d \in Cards \ {c} : mixer'[d] = mixer[d]
    BY <1>6, AddGrows
  <2>2. \A x \in file[c] : x.name = e.name => x.user
    BY <1>4 DEF TypeInv, FilesInv
  <2>3. ASSUME NEW d \in Cards, NEW n \in DOMAIN mixer'[d] \ DOMAIN mixer[d]
        PROVE  <<d, p>> \in added' /\ \A x \in file[d] : x.name = n => x.user
    <3>1. d = c
      BY <2>1
    <3>2. n = e.name
      BY <2>1, <3>1
    <3>3. QED
      BY <1>6, <2>2, <3>1, <3>2
  <2>4. QED
    BY <1>3, <1>6, <2>1, <2>3 DEF Additions
<1>7. QED
  BY <1>3, <1>5, <1>6

LEMMA AddUserChecks ==
  ASSUME TypeInv, CheckInv, Noted, NEW p \in Procs, AddUser(p)
  PROVE  CheckInv'
<1>1. PICK c \in Cards : c = proc[p].at
  BY AddUserEffect
<1>2. PICK e \in file[c] : e = proc[p].entry
  BY <1>1, AddUserEffect
<1>3. /\ UNCHANGED <<file, force>> /\ proc[p].pc = "add"
      /\ \/ EntryDone(p, e, TRUE) /\ e.name \in DOMAIN mixer[c]
         \/ EntryDone(p, e, TRUE) /\ Fails(p, {e})
         \/ /\ e.name \notin DOMAIN mixer[c]
            /\ mixer' = [mixer EXCEPT ![c] = With(mixer[c], e.name, NewElem(e, mixer[c]))]
            /\ Outcome(p, c, e, e.name, NewElem(e, mixer[c]))
  BY <1>1, <1>2, AddUserEffect
<1>4. OneMoves(p)
  BY PassMoves
<1>5. Grows /\ Additions(p) /\ added \subseteq added'
  BY AddedIsUsers
<1>6. Checked(p)
  BY DEF CheckInv
<1>7. ASSUME EntryDone(p, e, TRUE), ~Doit(p) => Excused(p, c)' PROVE CheckInv'
  <2>1. Checked(p)'
    BY <1>1, <1>3, <1>5, <1>6, <1>7, EntryDoneChecked
  <2>2. QED
    BY <1>3, <1>4, <1>5, <2>1, CheckOfOne
<1>8. ASSUME e.name \notin DOMAIN mixer[c], NEW elem, elem = NewElem(e, mixer[c]),
             mixer' = [mixer EXCEPT ![c] = With(mixer[c], e.name, NewElem(e, mixer[c]))],
             Outcome(p, c, e, e.name, elem)
      PROVE  CheckInv'
  <2>1. e.name \in DOMAIN mixer'[c] /\ elem = mixer'[c][e.name]
    BY <1>8, AddGrows
  <2>2. Checked(p)'
    BY <1>1, <1>3, <1>5, <1>6, <1>8, <2>1, OutcomeChecked
  <2>3. QED
    BY <1>3, <1>4, <1>5, <2>2, CheckOfOne
<1>9. e.name \in DOMAIN mixer[c] /\ ~Doit(p) => Excused(p, c)'
  <2>1. e.name \in DOMAIN mixer[c] /\ ~Doit(p) => Excused(p, c)
    BY <1>1, <1>2, <1>3, <1>6 DEF Checked
  <2>2. QED
    BY <1>3, <1>5, <2>1, ExcusedStays
<1>10. Fails(p, {e}) /\ ~Doit(p) => Excused(p, c)'
  BY <1>1, HinderedIsExcused
<1>11. QED
  BY <1>3, <1>7, <1>8, <1>9, <1>10

LEMMA FindChecks ==
  ASSUME TypeInv, CheckInv, Noted, NEW p \in Procs, Find(p)
  PROVE  CheckInv'
<1>1. PICK c \in Cards : c = proc[p].at
  BY FindEffect
<1>2. /\ proc[p].pc = "find" /\ UNCHANGED <<force, file, mixer, added>>
      /\ proc[p].left \subseteq file[c]
  BY <1>1, FindEffect
<1>3. PICK e \in file[c] :
         \/ \E n \in DOMAIN mixer[c] : /\ n \in Found(p, e) \/ n = e.name
                                      /\ Outcome(p, c, e, n, mixer[c][n])
         \/ Absent(p, e) /\ (Found(p, e) = {} \/ Fails(p, {e}))
         \/ Hazy(p, c, e) /\ Fails(p, {e})
  BY <1>1, <1>2, FindEffect
<1>4. OneMoves(p)
  BY PassMoves
<1>5. Grows /\ Additions(p) /\ Checked(p)
  BY <1>2, NothingAdded DEF CheckInv
<1>6. SUFFICES Checked(p)'
  BY <1>2, <1>4, <1>5, CheckOfOne
<1>7. ASSUME NEW n \in DOMAIN mixer[c], n \in Found(p, e) \/ n = e.name,
             Outcome(p, c, e, n, mixer[c][n])
      PROVE  Checked(p)'
  <2>1. n = e.name \/ mixer[c][n].num = e.num
    BY <1>1, <1>7 DEF Found
  <2>2. PICK elem : elem = mixer'[c][n]
    OBVIOUS
  <2>3. elem = mixer[c][n] /\ n \in DOMAIN mixer'[c]
    BY <1>2, <1>7, <2>2
  <2>4. QED
    BY <1>1, <1>2, <1>5, <1>7, <2>1, <2>2, <2>3, OutcomeChecked
<1>8. Found(p, e) = {} => e.name \notin DOMAIN mixer[c]
  BY <1>1 DEF Found
<1>9. Fails(p, {e}) /\ ~Doit(p) => Excused(p, c)'
  BY <1>1, HinderedIsExcused
<1>10. CASE ~e.user /\ EntryDone(p, e, TRUE) /\ (Found(p, e) = {} \/ Fails(p, {e}))
  <2>1. ~Doit(p) => Excused(p, c)'
    <3>1. Found(p, e) = {} => ~AsStored(c)'
      BY <1>2, <1>8, <1>10 DEF AsStored
    <3>2. QED
      BY <1>9, <1>10, <3>1 DEF Excused
  <2>2. QED
    BY <1>1, <1>2, <1>5, <1>10, <2>1, EntryDoneChecked
<1>11. CASE /\ e.user /\ Go(p, [pc |-> "add", entry |-> e])
            /\ Found(p, e) = {} \/ Fails(p, {e})
  <2>1. Kept(p, {"pc", "entry"}) /\ proc'[p].pc = "add" /\ proc'[p].entry = e
    BY <1>11, AddingEffect DEF TypeInv
  <2>2. proc'[p].at = c /\ proc'[p].left = proc[p].left /\ Doit(p)' = Doit(p)
    BY <1>1, <2>1 DEF Kept, Fields, Doit
  <2>3. ~Doit(p) => \A x \in file[c] \ proc[p].left : x.name \in DOMAIN mixer[c]
    BY <1>1, <1>2, <1>5 DEF Checked
  <2>4. ~Doit(p) /\ e.name \in DOMAIN mixer[c] => Excused(p, proc[p].at)'
    BY <1>8, <1>9, <1>11, <2>2 DEF Excused
  <2>5. QED
    BY <1>2, <1>11, <2>1, <2>2, <2>3, <2>4 DEF Checked
<1>12. CASE Hazy(p, c, e) /\ Fails(p, {e})
  <2>1. ASSUME NEW ctl, Go(p, [pc |-> "write", entry |-> e, ctl |-> ctl])
        PROVE  proc'[p].pc = "write"
    BY <2>1, WritingEffect DEF TypeInv
  <2>2. ASSUME NEW err \in BOOLEAN, EntryDone(p, e, err), err \/ e.name \in DOMAIN mixer[c]
        PROVE  Checked(p)'
    BY <1>1, <1>2, <1>5, <1>9, <1>12, <2>2, EntryDoneChecked
  <2>3. QED
    BY <1>12, <2>1, <2>2, PlainCheck DEF Hazy
<1>13. QED
  BY <1>3, <1>7, <1>10, <1>11, <1>12 DEF Absent

LEMMA OpenChecks ==
  ASSUME TypeInv, CheckInv, Noted, NEW p \in Procs, Open(p)
  PROVE  CheckInv'
<1>1. /\ UNCHANGED <<file, mixer, added>>
      /\ \E pc \in {"end", "find"}, left \in {{}, Entries(p)}, err \in BOOLEAN :
            /\ Go(p, [pc |-> pc, left |-> left, err |-> err])
            /\ \/ left = Entries(p) /\ (pc = "end" <=> Entries(p) = {})
               \/ Fails(p, Entries(p)) /\ pc = "end"
  BY DEF Open, options
<1>2. PICK pc \in {"end", "find"}, left \in {{}, Entries(p)}, err \in BOOLEAN :
         /\ Go(p, [pc |-> pc, left |-> left, err |-> err])
         /\ \/ left = Entries(p) /\ (pc = "end" <=> Entries(p) = {})
            \/ Fails(p, Entries(p)) /\ pc = "end"
  BY <1>1
<1>3. /\ OneMoves(p) /\ Kept(p, {"pc", "left", "err"}) /\ proc'[p].pc = pc
      /\ proc'[p].left = left
  BY <1>2, OpenedEffect DEF TypeInv
<1>4. proc'[p].at = proc[p].at /\ (Doit(p)' <=> Doit(p))
  BY <1>3 DEF Kept, Fields, Doit
<1>5. Entries(p) = file'[proc'[p].at]
  BY <1>1, <1>4 DEF Entries
<1>6. CASE pc = "end"
  <2>1. Entries(p) = {} => Excused(p, proc[p].at)'
    BY <1>5 DEF Excused, AsStored
  <2>2. Fails(p, Entries(p)) /\ ~Doit(p) => Excused(p, proc[p].at)'
    <3>1. PICK c : c = proc[p].at
      OBVIOUS
    <3>2. Fails(p, Entries(p)) /\ ~Doit(p) => Excused(p, c)'
      BY <3>1, HinderedIsExcused
    <3>3. QED
      BY <1>4, <3>1, <3>2 DEF Excused
  <2>3. Checked(p)'
    BY <1>2, <1>3, <1>4, <1>6, <2>1, <2>2 DEF Checked
  <2>4. QED
    BY <1>1, <1>3, <2>3, NothingAdded, CheckOfOne
<1>7. CASE pc = "find"
  <2>1. proc'[p].pc = "find" /\ proc'[p].left = file'[proc'[p].at]
    BY <1>2, <1>3, <1>5, <1>7
  <2>2. Checked(p)'
    BY <2>1 DEF Checked
  <2>3. QED
    BY <1>1, <1>3, <2>2, NothingAdded, CheckOfOne
<1>8. QED
  BY <1>6, <1>7

LEMMA LastEntryChecks ==
  ASSUME TypeInv, CheckInv, Noted, NEW p \in Procs, LastEntry(p)
  PROVE  CheckInv'
<1>0. PICK c \in Cards : c = proc[p].at
  BY DEF LastEntry, At, TypeInv, ProcsInv, ProcInv, Working, InPass
<1>1. /\ proc[p].pc = "find" /\ proc[p].left = {} /\ UNCHANGED <<file, mixer, added>>
      /\ \E err : /\ Go(p, [pc |-> "end", err |-> err])
                  /\ Doit(p) \/ err = Mismatch(p) \/ Fails(p, {})
  BY DEF LastEntry, At, options
<1>2. PICK err : /\ Go(p, [pc |-> "end", err |-> err])
                 /\ Doit(p) \/ err = Mismatch(p) \/ Fails(p, {})
  BY <1>1
<1>3. OneMoves(p) /\ Kept(p, {"pc", "err"}) /\ proc'[p].pc = "end" /\ proc'[p].err = err
  BY <1>2, ComparedEffect DEF TypeInv
<1>4. proc'[p].at = c /\ (Doit(p)' <=> Doit(p))
  BY <1>0, <1>3 DEF Kept, Fields, Doit
<1>5. ASSUME ~Doit(p), err PROVE Excused(p, c)'
  <2>1. CASE Fails(p, {})
    BY <1>0, <1>5, <2>1, HinderedIsExcused
  <2>2. CASE err = Mismatch(p)
    <3>1. \A e \in file[c] : e.name \in DOMAIN mixer[c]
      BY <1>0, <1>1, <1>5 DEF CheckInv, Checked
    <3>2. ~AsStored(c)
      BY <1>0, <1>5, <2>2, <3>1, NoMismatch
    <3>3. ~AsStored(c)'
      BY <1>1, <3>2 DEF AsStored
    <3>4. QED
      BY <3>3 DEF Excused
  <2>3. QED
    BY <1>2, <1>5, <2>1, <2>2
<1>6. ~Doit(p) /\ err => Excused(p, proc[p].at)'
  BY <1>4, <1>5 DEF Excused
<1>7. Checked(p)'
  BY <1>3, <1>4, <1>6 DEF Checked
<1>8. QED
  BY <1>1, <1>3, <1>7, NothingAdded, CheckOfOne

LEMMA EndOfPassChecks ==
  ASSUME TypeInv, CheckInv, Noted, NEW p \in Procs, EndOfPass(p)
  PROVE  CheckInv'
<1> DEFINE final == proc[p].final \/ (proc[p].err /\ ~force)
           pc == IF proc[p].err THEN "init" ELSE "open"
           pass == IF proc[p].err THEN "check" ELSE "set"
           next == Head(proc[p].more)
           more == Tail(proc[p].more)
<1>0. PICK c \in Cards : c = proc[p].at
  BY DEF EndOfPass, At, TypeInv, ProcsInv, ProcInv, Working, InPass
<1>1. /\ proc[p].pc = "end" /\ UNCHANGED <<file, mixer, added>>
      /\ \/ ~Doit(p) /\ Go(p, [pc |-> pc, pass |-> pass])
         \/ Go(p, [pc |-> "unlock", final |-> final])
         \/ Go(p, [pc |-> "open", pass |-> "linked", final |-> final, at |-> next,
                   more |-> more])
  BY DEF EndOfPass, At, options
<1>2. Grows /\ Additions(p) /\ Checked(p)
  BY <1>1, NothingAdded DEF CheckInv
<1> HIDE DEF final, next, more
<1>3. CASE ~Doit(p) /\ Go(p, [pc |-> pc, pass |-> pass])
  <2>1. OneMoves(p) /\ Kept(p, {"pc", "pass"}) /\ proc'[p].pc = pc
    BY <1>3, PassEffect DEF TypeInv
  <2>2. proc'[p].at = c
    BY <1>0, <2>1 DEF Kept, Fields
  <2>3. ASSUME proc[p].err PROVE Checked(p)'
    <3>1. Excused(p, c)
      BY <1>0, <1>1, <1>2, <1>3, <2>3 DEF Checked
    <3>2. Excused(p, c)'
      BY <1>1, <1>2, <3>1, ExcusedStays
    <3>3. Excused(p, proc[p].at)'
      BY <2>2, <3>2 DEF Excused
    <3>4. proc'[p].pc = "init"
      BY <2>1, <2>3
    <3>5. QED
      BY <3>3, <3>4 DEF Checked
  <2>4. ASSUME ~proc[p].err PROVE Checked(p)'
    BY <2>1, <2>4, PlainCheck
  <2>5. QED
    BY <1>1, <1>2, <2>1, <2>3, <2>4, CheckOfOne
<1>4. CASE Go(p, [pc |-> "unlock", final |-> final])
  <2>1. OneMoves(p) /\ proc'[p].pc = "unlock"
    BY <1>4, FinishedEffect DEF TypeInv
  <2>2. QED
    BY <1>1, <1>2, <2>1, PlainCheck, CheckOfOne DEF Outside
<1>5. CASE Go(p, [pc |-> "open", pass |-> "linked", final |-> final, at |-> next,
                  more |-> more])
  <2>1. OneMoves(p) /\ proc'[p].pc = "open"
    BY <1>5, NextLinkedEffect DEF TypeInv
  <2>2. QED
    BY <1>1, <1>2, <2>1, PlainCheck, CheckOfOne DEF Outside
<1>6. QED
  BY <1>1, <1>3, <1>4, <1>5

LEMMA WriteChecks ==
  ASSUME TypeInv, CheckInv, Noted, NEW p \in Procs, Write(p)
  PROVE  CheckInv'
<1>1. PICK c \in Cards : c = proc[p].at
  BY WriteEffect
<1>2. PICK e \in file[c] : e = proc[p].entry
  BY <1>1, WriteEffect
<1>3. /\ proc[p].pc = "write" /\ UNCHANGED <<file, force, added>> /\ Writes(p)
      /\ \/ /\ EntryDone(p, e, FALSE)
            /\ mixer' = [mixer EXCEPT ![c][e.name].value = proc[p].ctl]
         \/ EntryDone(p, e, TRUE) /\ UNCHANGED mixer
  BY <1>1, <1>2, WriteEffect
<1>4. Doit(p) /\ e.name \in DOMAIN mixer[c]
  BY <1>1, <1>2, <1>3 DEF Writes
<1>5. Grows /\ Additions(p)
  <2>1. CASE UNCHANGED mixer
    BY <2>1, NothingAdded
  <2>2. CASE mixer' = [mixer EXCEPT ![c][e.name].value = proc[p].ctl]
    <3>1. Sets(c, e.name, proc[p].ctl)
      BY <2>2 DEF Sets
    <3>2. Grows /\ \A d \in Cards : DOMAIN mixer'[d] = DOMAIN mixer[d]
      BY <1>4, <3>1, WriteGrows
    <3>3. QED
      BY <3>2 DEF Additions
  <2>3. QED
    BY <1>3, <2>1, <2>2
<1>6. \E err : EntryDone(p, e, err)
  BY <1>3
<1>7. OneMoves(p) /\ Kept(p, {"pc", "left", "err"}) /\ proc'[p].pc \in {"end", "find"}
  BY <1>6, EntryDoneEffect DEF TypeInv
<1>8. Doit(p)'
  BY <1>4, <1>7 DEF Doit, Kept, Fields
<1>9. Checked(p)'
  BY <1>7, <1>8 DEF Checked
<1>10. QED
  BY <1>3, <1>5, <1>7, <1>9, CheckOfOne

\* the steps outside the passes
LEMMA OutsideChecks ==
  ASSUME TypeInv, CheckInv, Noted, NEW p \in Procs,
         Start(p) \/ CardLock(p) \/ InitUcm(p) \/ InitCard(p) \/ Unlock(p) \/ Exit(p)
  PROVE  CheckInv'
<1>1. ASSUME UNCHANGED <<file, mixer, added>>, OneMoves(p),
             \/ proc'[p].pc \in Outside \cup {"open"}
             \/ proc'[p].pc = "init" /\ proc'[p].nofile
      PROVE  CheckInv'
  BY <1>1, NothingAdded, PlainCheck, CheckOfOne
<1>2. CASE Start(p)
  <2>1. /\ UNCHANGED <<file, mixer, added>>
        /\ \/ Go(p, [pc |-> "card"])
           \/ \E pc \in {"card", "exit"} : Go(p, [pc |-> pc, nofile |-> TRUE, final |-> TRUE])
    BY <1>2 DEF Start, options, history
  <2>2. OneMoves(p) /\ proc'[p].pc \in Outside
    BY <2>1, MovedEffect, NoFileEffect DEF TypeInv, Outside
  <2>3. QED
    BY <1>1, <2>1, <2>2
<1>3. CASE CardLock(p)
  <2> DEFINE pc == IF proc[p].nofile THEN "init" ELSE "ucm"
             c == Head(proc[p].todo)
  <2>1. /\ UNCHANGED <<file, mixer, added>>
        /\ Go(p, [pc |-> pc, at |-> c]) \/ NextCard(p, TRUE)
    BY <1>3 DEF CardLock, options, history
  <2>2. CASE Go(p, [pc |-> pc, at |-> c])
    <3>1. OneMoves(p) /\ Kept(p, {"pc", "at"}) /\ proc'[p].pc = pc
      BY <2>2, LockedEffect DEF TypeInv
    <3>2. proc'[p].nofile = proc[p].nofile
      BY <3>1 DEF Kept, Fields
    <3>3. QED
      BY <1>1, <2>1, <3>1, <3>2 DEF Outside
  <2>3. CASE NextCard(p, TRUE)
    <3>1. OneMoves(p) /\ proc'[p].pc = "card"
      BY <2>3, NextCardEffect DEF TypeInv
    <3>2. QED
      BY <1>1, <2>1, <3>1 DEF Outside
  <2>4. QED
    BY <2>1, <2>2, <2>3
<1>4. CASE InitUcm(p)
  <2> DEFINE more == proc[p].postponed \cup {proc[p].at}
  <2>1. /\ UNCHANGED <<file, mixer, added>>
        /\ \/ Go(p, [pc |-> "unlock", postponed |-> more])
           \/ \E pass \in {"check", "set"}, links \in {<<>>, Linked[proc[p].at]} :
                 Go(p, [pc |-> "open", pass |-> pass, more |-> links])
           \/ NextCard(p, TRUE)
    BY <1>4 DEF InitUcm, options, history
  <2> HIDE DEF more
  <2>2. OneMoves(p) /\ proc'[p].pc \in Outside \cup {"open"}
    <3>1. CASE Go(p, [pc |-> "unlock", postponed |-> more])
      BY <3>1, PostponedEffect DEF TypeInv, Outside
    <3>2. ASSUME NEW pass, NEW links, Go(p, [pc |-> "open", pass |-> pass, more |-> links])
          PROVE  OneMoves(p) /\ proc'[p].pc = "open"
      BY <3>2, LinksEffect DEF TypeInv
    <3>3. CASE NextCard(p, TRUE)
      BY <3>3, NextCardEffect DEF TypeInv, Outside
    <3>4. QED
      BY <2>1, <3>1, <3>2, <3>3
  <2>3. QED
    BY <1>1, <2>1, <2>2
<1>5. CASE InitCard(p)
  <2> DEFINE pc == IF proc[p].nofile THEN "unlock" ELSE "open"
             c == proc[p].at
  <2>1. /\ UNCHANGED <<file, added>> /\ proc[p].pc = "init"
        /\ mixer' = [mixer EXCEPT ![c] = Initialized(mixer[c])] \/ UNCHANGED mixer
        /\ \/ Go(p, [pc |-> pc, pass |-> "set"])
           \/ Go(p, [pc |-> pc, pass |-> "set", final |-> TRUE])
    BY <1>5 DEF InitCard, At, options, history
  <2>2. c \in Cards /\ MixerInv
    BY <2>1 DEF TypeInv, ProcsInv, ProcInv, Working
  <2>3. OneMoves(p) /\ proc'[p].pc = pc
    BY <2>1, PassEffect, FailedInitEffect DEF TypeInv
  <2>4. Grows /\ Additions(p)
    <3>1. CASE UNCHANGED mixer
      BY <3>1, NothingAdded
    <3>2. CASE mixer' = [mixer EXCEPT ![c] = Initialized(mixer[c])]
      <4>1. \A d \in Cards : DOMAIN mixer'[d] = DOMAIN mixer[d]
        BY <2>2, <3>2 DEF MixerInv, Initialized
      <4>2. QED
        BY <2>2, <3>2, <4>1, InitGrows DEF Additions
    <3>3. QED
      BY <2>1, <3>1, <3>2
  <2>5. QED
    BY <2>1, <2>3, <2>4, PlainCheck, CheckOfOne DEF Outside
<1>6. CASE Unlock(p)
  <2>1. UNCHANGED <<file, mixer, added>> /\ NextCard(p, FALSE)
    BY <1>6 DEF Unlock, options, history
  <2>2. OneMoves(p) /\ proc'[p].pc = "card"
    BY <2>1, NextCardEffect DEF TypeInv
  <2>3. QED
    BY <1>1, <2>1, <2>2 DEF Outside
<1>7. CASE Exit(p)
  <2>1. UNCHANGED <<file, mixer, added>> /\ Go(p, [pc |-> "done"])
    BY <1>7 DEF Exit, options, history
  <2>2. OneMoves(p) /\ proc'[p].pc = "done"
    BY <2>1, MovedEffect DEF TypeInv
  <2>3. QED
    BY <1>1, <2>1, <2>2 DEF Outside
<1>8. QED
  BY <1>2, <1>3, <1>4, <1>5, <1>6, <1>7

LEMMA CheckStart == Init => CheckInv
BY DEF Init, Idle, CheckInv, Checked

LEMMA CheckKept == TypeInv /\ CheckInv /\ [Next]_vars => CheckInv'
<1> SUFFICES ASSUME TypeInv, CheckInv, [Next]_vars PROVE CheckInv'
  OBVIOUS
<1>0. Noted
  BY StepNotes
<1>1. CASE UNCHANGED vars
  <2>1. UNCHANGED <<file, mixer, proc, hindered, added>>
    BY <1>1 DEF vars, options, history
  <2>2. \A p, c : Excused(p, c)' = Excused(p, c)
    BY <2>1 DEF Excused, AsStored
  <2>3. QED
    BY <2>1, <2>2 DEF CheckInv, Checked, Doit
<1>2. ASSUME NEW p \in Procs,
             \/ Start(p) \/ CardLock(p) \/ InitUcm(p) \/ InitCard(p) \/ Unlock(p) \/ Exit(p)
             \/ Open(p) \/ LastEntry(p) \/ EndOfPass(p) \/ Find(p) \/ AddUser(p) \/ Write(p)
      PROVE  CheckInv'
  BY <1>0, <1>2, OutsideChecks, OpenChecks, LastEntryChecks, EndOfPassChecks, FindChecks,
     AddUserChecks, WriteChecks
<1>3. QED
  BY <1>1, <1>2 DEF Next

-----------------------------------------------------------------------------
(***************************************************************************)
(* state.c: the structure of a restore, load_state() to set_control(): at  *)
(* any time each process has a card to work on and entries of its section  *)
(* in hand where the code has them, elements keep what they are, and what  *)
(* is about to be written is what the entry wants.                         *)
(***************************************************************************)
THEOREM TypeCorrect == Spec => []TypeInv
<1>1. Init => TypeInv
  BY TypesStart
<1>2. TypeInv /\ [Next]_vars => TypeInv'
  BY TypesKept
<1>3. QED
  BY <1>1, <1>2, PTL DEF Spec

IInv == TypeInv /\ SettledInv /\ ProgressInv /\ CheckInv /\ through \subseteq Cards

LEMMA Invariance == Spec => []IInv
<1>1. Init => IInv
  BY TypesStart, SettledStart, ProgressStart, CheckStart DEF IInv, Init
<1>2. IInv /\ [Next]_vars => IInv'
  BY TypesKept, SettledKept, ProgressKept, CheckKept, ThroughKept DEF IInv
<1>3. QED
  BY <1>1, <1>2, PTL DEF Spec

(***************************************************************************)
(* With -P, an exit code of zero of every process means that the cards     *)
(* they were given are as stored (state.c:1755-1833, 1104-1146,            *)
(* 1513-1530): for any cards, lists and links, whatever the processes do   *)
(* to each other's cards and whatever calls fail; but for elements whose   *)
(* levels could not be asked for.                                          *)
(***************************************************************************)
THEOREM ZeroIsRestored == Spec => []ZeroMeansRestored
<1>1. IInv => ZeroMeansRestored
  <2> SUFFICES ASSUME IInv, AllDone, ~force, \A p \in Procs : ~proc[p].final,
                      NEW p \in Procs, NEW c \in Range(Args[p]) \ proc[p].postponed,
                      NEW e \in file[c]
               PROVE  /\ e.name \in DOMAIN mixer[c]
                      /\ Touched(e, mixer[c][e.name]) /\ <<c, e.name>> \notin untold
                         => Restored(e, mixer[c][e.name])
    BY DEF ZeroMeansRestored
  <2>1. \A q \in Procs : proc[q].pc = "done"
    BY DEF AllDone, At
  <2>2. c \in through
    BY <2>1 DEF IInv, ProgressInv, Progress, Reached, Range
  <2>3. c \in Cards
    BY ListsAssumption DEF Range
  <2>4. Sound
    BY <2>1 DEF Sound, Trouble
  <2>5. Due(c, e) /\ Here(c, e)
    BY <2>2, <2>3, <2>4 DEF IInv, SettledInv
  <2>6. Good(c, e)
    BY <2>1, <2>5 DEF Due, Owes
  <2>7. QED
    BY <2>5, <2>6 DEF Good, Asked, Here
<1>2. QED
  BY Invariance, <1>1, PTL

(***************************************************************************)
(* With -F, an element that still fits its entry has its setting at the    *)
(* end, whatever failed with the others (state.c:1592-1598; alsactl.1 at   *)
(* --force).                                                               *)
(***************************************************************************)
THEOREM ForceRestoresTheRest == Spec => []AsMuchAsPossible
<1>1. IInv => AsMuchAsPossible
  <2> SUFFICES ASSUME IInv, AllDone, force, \A p \in Procs : ~proc[p].nofile,
                      NEW c \in through, NEW e \in file[c],
                      e.name \in DOMAIN mixer[c], <<c, e.name>> \notin failed,
                      Touched(e, mixer[c][e.name]), Fits(e, mixer[c][e.name].kind)
               PROVE  Restored(e, mixer[c][e.name])
    BY DEF AsMuchAsPossible
  <2>1. \A q \in Procs : proc[q].pc = "done"
    BY DEF AllDone, At
  <2>2. Sound
    BY DEF Sound, Trouble
  <2>3. Due(c, e)
    BY <2>2 DEF IInv, SettledInv
  <2>4. Good(c, e)
    BY <2>1, <2>3 DEF Due, Owes
  <2>5. QED
    BY <2>4 DEF Good, Asked
<1>2. QED
  BY Invariance, <1>1, PTL

(***************************************************************************)
(* The check finds no fault with a card that is as it was when stored:     *)
(* init() is not run on it, although a reboot took its user elements;      *)
(* unless another process puts one back meanwhile or a call of the check   *)
(* fails (state.c:1795-1813, 1550-1560, 1593-1632).                        *)
(***************************************************************************)
THEOREM InitIsNeeded == Spec => InitOnlyWhenNeeded
<1>1. IInv /\ [Next]_vars =>
         [\A p \in Procs :
             At(p, "init") /\ proc'[p] # proc[p] /\ ~proc[p].nofile =>
                 \/ ~AsStored(proc[p].at) \/ <<proc[p].at, p>> \in hindered
                 \/ \E q \in Procs \ {p} : <<proc[p].at, q>> \in added]_vars
  BY DEF IInv, CheckInv, Checked, Excused, At
<1>2. QED
  BY Invariance, <1>1, PTL DEF Spec, InitOnlyWhenNeeded

-----------------------------------------------------------------------------
(***************************************************************************)
(* save_state (StateFile), an instance of its own: any number of savers,   *)
(* cards and changes of the mixers.                                        *)
(***************************************************************************)

CONSTANTS Savers, MaxCard, MaxVersion, NoProc
VARIABLES present, live, saved_file, newfile, holder, saving, cardname, iter, config, asked,
          unread

F == INSTANCE StateFile WITH Procs <- Savers, file <- saved_file, pc <- saving

\* What StateFile assumes of its constants.
StoreParameters == MaxCard \in Nat /\ MaxVersion \in Nat \ {0} /\ NoProc \notin Savers

USE DEF StoreParameters, F!mixers, F!history

(***************************************************************************)
(* What the operators on states and files return.                          *)
(***************************************************************************)
LEMMA EmptyFacts ==
  ASSUME StoreParameters
  PROVE  F!Empty \in F!States /\ F!Incomplete \in F!Files /\ F!Incomplete.cut = FALSE
  BY DEF F!Empty, F!States, F!Incomplete, F!Files

LEMMA FileFacts ==
  ASSUME StoreParameters
  PROVE  \A f \in F!Files : f.saved \in F!States /\ f.complete \in BOOLEAN
  BY DEF F!Files

LEMMA WrittenFile ==
  ASSUME StoreParameters, NEW s \in F!States
  PROVE  /\ F!Written(s) \in F!Files /\ F!Written(s).complete
         /\ F!Written(s).saved = s
  BY DEF F!Files, F!Written

LEMMA PartOfState ==
  ASSUME StoreParameters, NEW s \in F!States, NEW kept \in SUBSET F!Cards
  PROVE  /\ F!Part(s, kept) \in F!States
         /\ \A c \in F!Cards : F!Part(s, kept)[c] = IF c \in kept THEN s[c] ELSE 0
<1>1. 0 \in 0 .. MaxVersion
  OBVIOUS
<1>2. QED
  BY <1>1 DEF F!States, F!Part

LEMMA CutFile ==
  ASSUME StoreParameters, NEW s \in F!States, NEW kept \in SUBSET F!Cards
  PROVE  /\ F!CutOff(s, kept) \in F!Files /\ F!CutOff(s, kept).cut
         /\ F!CutOff(s, kept).saved = F!Part(s, kept)
  BY PartOfState DEF F!Files, F!CutOff

LEMMA StateUpdate ==
  ASSUME StoreParameters, NEW s \in F!States, NEW c \in F!Cards, NEW v \in 0 .. MaxVersion
  PROVE  [s EXCEPT ![c] = v] \in F!States
  BY DEF F!States

LEMMA StateValue ==
  ASSUME StoreParameters
  PROVE  \A s \in F!States, c \in F!Cards : s[c] \in 0 .. MaxVersion
  BY DEF F!States

LEMMA StoreNumbers ==
  ASSUME StoreParameters, F!TypeOK
  PROVE  \A c \in F!Cards : /\ live[c] \in Nat /\ saved_file.saved[c] \in Nat
                             /\ \A p \in Savers : config[p][c] \in Nat
<1> SUFFICES ASSUME F!TypeOK, NEW c \in F!Cards
             PROVE  /\ live[c] \in Nat /\ saved_file.saved[c] \in Nat
                    /\ \A p \in Savers : config[p][c] \in Nat
  OBVIOUS
<1>1. live \in F!States /\ saved_file.saved \in F!States /\ \A p \in Savers : config[p] \in F!States
  BY FileFacts DEF F!TypeOK
<1>2. QED
  BY <1>1, StateValue

\* what one turn of the iterator makes of the configuration
LEMMA OneMerged ==
  ASSUME StoreParameters, config \in [Savers -> F!States], NEW p \in Savers, NEW c,
         config' = [config EXCEPT ![p][c] = live[c]]
  PROVE  \A d \in F!Cards, q \in Savers : config'[q][d] = config[q][d] \/ config'[q][d] = live[d]
<1>1. \A q \in Savers : config'[q] = config[q] \/ config'[q] = [config[q] EXCEPT ![c] = live[c]]
  OBVIOUS
<1>2. \A q \in Savers : DOMAIN config[q] = F!Cards
  BY DEF F!States
<1>3. QED
  BY <1>1, <1>2

LEMMA StoreTypeStep ==
  ASSUME StoreParameters
  PROVE  F!TypeOK /\ [F!Next]_F!vars => F!TypeOK'
<1> SUFFICES ASSUME F!TypeOK, [F!Next]_F!vars PROVE F!TypeOK'
  OBVIOUS
<1> USE EmptyFacts DEF F!TypeOK, F!Goto, F!Out
<1>1. CASE UNCHANGED F!vars
  BY <1>1 DEF F!vars
<1>2. ASSUME NEW c \in F!Cards, F!Change(c) PROVE F!TypeOK'
  <2>1. live[c] + 1 \in 0 .. MaxVersion
    BY <1>2, StateValue DEF F!Change
  <2>2. live' \in F!States
    BY <1>2, <2>1, StateUpdate DEF F!Change
  <2>3. QED
    BY <1>2, <2>2 DEF F!Change
<1>3. ASSUME NEW c \in F!Cards, F!Plug(c) PROVE F!TypeOK'
  <2>1. \A p \in Savers : [asked[p] EXCEPT ![c] = 0] \in F!States
    <3>1. 0 \in 0 .. MaxVersion /\ \A p \in Savers : asked[p] \in F!States
      OBVIOUS
    <3> HIDE DEF F!TypeOK
    <3>2. QED
      BY <3>1, StateUpdate
  <2>2. asked' \in [Savers -> F!States]
    BY <1>3, <2>1 DEF F!Plug
  <2>3. present' \in SUBSET F!Cards
    BY <1>3 DEF F!Plug
  <2>4. QED
    BY <1>3, <2>2, <2>3 DEF F!Plug
<1>4. ASSUME NEW p \in Savers, F!Call(p) \/ F!SaveStep(p) \/ F!Crash(p) PROVE F!TypeOK'
  <2>1. CASE F!Call(p)
    <3>1. \A c \in {F!All} \cup F!Cards :
             [d \in F!Cards |-> IF d \in present /\ c \in {F!All, d} THEN live[d] ELSE 0] \in F!States
      BY StateValue DEF F!States
    <3>2. asked' \in [Savers -> F!States]
      BY <2>1, <3>1 DEF F!Call
    <3>3. QED
      BY <2>1, <3>2 DEF F!Call
  <2>2. CASE F!Lock(p)
    BY <2>2 DEF F!Lock
  <2>3. CASE F!Load(p)
    <3> PICK kept \in SUBSET F!Cards :
          /\ config' = [config EXCEPT ![p] = F!Part(saved_file.saved, kept)]
          /\ unread' = [unread EXCEPT ![p] = {c \in F!Cards \ kept : saved_file.saved[c] # 0}]
      BY <2>3 DEF F!Load
    <3>1. config' \in [Savers -> F!States]
      BY FileFacts, PartOfState
    <3>2. {c \in F!Cards \ kept : saved_file.saved[c] # 0} \in SUBSET F!Cards
      OBVIOUS
    <3>3. unread' \in [Savers -> SUBSET F!Cards]
      BY <3>2
    <3>4. QED
      BY <2>3, <3>1, <3>3 DEF F!Load
  <2>4. CASE F!GetControls(p)
    <3> PICK c \in F!Left(p) :
          /\ iter' = [iter EXCEPT ![p] = c]
          /\ \/ /\ c \in present
                /\ config' = [config EXCEPT ![p][c] = live[c]]
                /\ UNCHANGED saving
             \/ F!Goto(p, "unlock") /\ UNCHANGED config
      BY <2>4 DEF F!GetControls
    <3>1. c \in {-1} \cup F!Cards
      BY DEF F!Left, F!Cards, F!All
    <3>2. c \in present => [config[p] EXCEPT ![c] = live[c]] \in F!States
      BY StateUpdate, StateValue
    <3>3. config' \in [Savers -> F!States]
      BY <3>2
    <3>4. QED
      BY <2>4, <3>1, <3>3 DEF F!GetControls
  <2>5. CASE F!EndOfCards(p)
    BY <2>5 DEF F!EndOfCards
  <2>6. CASE F!Open(p)
    BY <2>6 DEF F!Open
  <2>7. CASE F!Save(p)
    <3>1. newfile' \in F!Files
      BY <2>7, WrittenFile, CutFile DEF F!Save
    <3>2. QED
      BY <2>7, <3>1 DEF F!Save
  <2>8. CASE F!Rename(p)
    BY <2>8 DEF F!Rename
  <2>9. CASE F!Unlock(p)
    BY <2>9 DEF F!Unlock
  <2>10. CASE F!Crash(p)
    BY <2>10 DEF F!Crash
  <2>11. QED
    BY <1>4, <2>1, <2>2, <2>3, <2>4, <2>5, <2>6, <2>7, <2>8, <2>9, <2>10 DEF F!SaveStep
<1>5. QED
  BY <1>1, <1>2, <1>3, <1>4 DEF F!Next

(***************************************************************************)
(* The inductive invariant.  A rename does not make a card's saved state   *)
(* older because the configuration it writes is at least as new as what    *)
(* could be read of the file, and it stays so because between the load and *)
(* the rename the lock keeps every other rename out.                       *)
(***************************************************************************)
\* From the load to the unlock a saver holds the lock.
SaverHolds == \A p \in Savers : saving[p] \notin {"idle", "lock"} => holder = p

\* No saved state and no merged state is newer than the mixer.
NotNewer == \A c \in F!Cards : /\ saved_file.saved[c] <= live[c]
                             /\ \A p \in Savers : config[p][c] <= live[c]

\* What a saver has merged is not older than the file.
NotOlder ==
    \A p \in Savers : saving[p] \in {"iterate", "open", "save", "rename"}
        => \A c \in F!Cards : saved_file.saved[c] <= config[p][c] \/ c \in unread[p]

\* What will be renamed is what was merged, completely written, or a part of it
\* whose flush has failed unnoticed.
ReadyToRename ==
    \A p \in Savers : saving[p] = "rename" =>
        \/ newfile.complete /\ newfile.saved = config[p]
        \/ newfile.cut /\ \A c \in F!Cards : newfile.saved[c] \in {0, config[p][c]}

StoreInv == F!TypeOK /\ F!FileComplete /\ SaverHolds /\ NotNewer /\ NotOlder /\ ReadyToRename

LEMMA StoreStarts ==
  ASSUME StoreParameters
  PROVE  F!Init => StoreInv
  BY DEF F!Init, StoreInv, F!TypeOK, F!FileComplete, SaverHolds, NotNewer, NotOlder,
         ReadyToRename, F!Written,
         F!States, F!Files, F!Empty, F!Incomplete, F!Cards, F!All

LEMMA StoreSteps ==
  ASSUME StoreParameters
  PROVE  StoreInv /\ [F!Next]_F!vars => StoreInv'
<1> SUFFICES ASSUME StoreInv, [F!Next]_F!vars PROVE StoreInv'
  OBVIOUS
<1>n. \A c \in F!Cards : /\ live[c] \in Nat /\ saved_file.saved[c] \in Nat
                       /\ \A p \in Savers : config[p][c] \in Nat
  BY StoreNumbers DEF StoreInv
<1>r. \A c \in F!Cards : saved_file.saved[c] <= saved_file.saved[c]
  BY <1>n
<1>t. F!TypeOK'
  BY StoreTypeStep DEF StoreInv
<1> USE DEF StoreInv, F!TypeOK, F!FileComplete, SaverHolds, NotNewer, NotOlder, ReadyToRename,
            F!States, F!Files, F!Empty, F!Incomplete, F!Cards, F!All, F!Goto, F!Out
<1>1. CASE UNCHANGED F!vars
  BY <1>1 DEF F!vars
<1>2. ASSUME NEW c \in F!Cards, F!Change(c) PROVE StoreInv'
  <2>1. F!TypeOK'
    BY <1>t
  <2>2. F!FileComplete'
    BY <1>2 DEF F!Change
  <2>3. SaverHolds'
    BY <1>2 DEF F!Change
  <2>4. NotNewer'
    <3>1. \A d \in F!Cards : live'[d] >= live[d] /\ live'[d] \in Nat
      <4>1. live' = [live EXCEPT ![c] = live[c] + 1] /\ live \in [F!Cards -> 0 .. MaxVersion]
        BY <1>2 DEF F!Change
      <4> HIDE DEF F!Cards
      <4>2. QED
        BY <4>1, <1>n
    <3>2. saved_file' = saved_file /\ config' = config
      BY <1>2 DEF F!Change
    <3> HIDE DEF F!Files, F!States, F!Cards
    <3>3. QED
      BY <3>1, <3>2, <1>n
  <2>5. NotOlder'
    BY <1>2 DEF F!Change
  <2>6. ReadyToRename'
    BY <1>2 DEF F!Change
  <2>7. QED
    BY <2>1, <2>2, <2>3, <2>4, <2>5, <2>6
<1>3. ASSUME NEW c \in F!Cards, F!Plug(c) PROVE StoreInv'
  <2>1. F!TypeOK'
    BY <1>t
  <2>2. F!FileComplete'
    BY <1>3 DEF F!Plug
  <2>3. SaverHolds'
    BY <1>3 DEF F!Plug
  <2>4. NotNewer'
    BY <1>3 DEF F!Plug
  <2>5. NotOlder'
    BY <1>3 DEF F!Plug
  <2>6. ReadyToRename'
    BY <1>3 DEF F!Plug
  <2>7. QED
    BY <2>1, <2>2, <2>3, <2>4, <2>5, <2>6
<1>4. ASSUME NEW p \in Savers, F!Call(p) \/ F!SaveStep(p) \/ F!Crash(p) PROVE StoreInv'
  <2>1. CASE F!Call(p)
    <3>1. F!TypeOK'
      BY <1>t
    <3>2. F!FileComplete'
      BY <2>1 DEF F!Call
    <3>3. SaverHolds'
      BY <2>1 DEF F!Call
    <3>4. NotNewer'
      BY <2>1 DEF F!Call
    <3>5. NotOlder'
      BY <2>1 DEF F!Call
    <3>6. ReadyToRename'
      BY <2>1 DEF F!Call
    <3>7. QED
      BY <3>1, <3>2, <3>3, <3>4, <3>5, <3>6
  <2>2. CASE F!Lock(p)
    <3>1. F!TypeOK'
      BY <1>t
    <3>2. F!FileComplete'
      BY <2>2 DEF F!Lock
    <3>3. SaverHolds'
      <4>1. CASE holder = NoProc /\ holder' = p /\ F!Goto(p, "load")
        BY <4>1
      <4>2. CASE F!Out(p)
        BY <2>2, <4>2 DEF F!Lock
      <4>3. QED
        BY <2>2, <4>1, <4>2 DEF F!Lock
    <3>4. NotNewer'
      <4>1. config' = config \/ config' = [config EXCEPT ![p] = F!Empty]
        BY <2>2 DEF F!Lock
      <4>2. saved_file' = saved_file /\ live' = live
        BY <2>2 DEF F!Lock
      <4>3. \A c \in F!Cards : F!Empty[c] <= live[c]
        BY <1>n
      <4> HIDE DEF F!Files, F!States, F!Cards, F!Empty
      <4>4. QED
        BY <4>1, <4>2, <4>3
    <3>5. NotOlder'
      <4>1. /\ \A q \in Savers \ {p} : /\ saving'[q] = saving[q] /\ config'[q] = config[q]
                                       /\ unread'[q] = unread[q]
            /\ saving'[p] \in {"load", "idle"} /\ saved_file' = saved_file
        BY <2>2 DEF F!Lock
      <4> HIDE DEF F!Files, F!States, F!Cards
      <4>2. QED
        BY <4>1
    <3>6. ReadyToRename'
      BY <2>2 DEF F!Lock
    <3>7. QED
      BY <3>1, <3>2, <3>3, <3>4, <3>5, <3>6
  <2>3. CASE F!Load(p)
    <3> PICK kept \in SUBSET F!Cards :
          /\ config' = [config EXCEPT ![p] = F!Part(saved_file.saved, kept)]
          /\ unread' = [unread EXCEPT ![p] = {c \in F!Cards \ kept : saved_file.saved[c] # 0}]
      BY <2>3 DEF F!Load
    <3> DEFINE loaded == F!Part(saved_file.saved, kept)
               missing == {c \in F!Cards \ kept : saved_file.saved[c] # 0}
    <3>p. \A c \in F!Cards : loaded[c] = IF c \in kept THEN saved_file.saved[c] ELSE 0
      <4>1. saved_file.saved \in F!States
        OBVIOUS
      <4> HIDE DEF F!Files, F!States, F!Cards
      <4>2. QED
        BY <4>1, PartOfState
    <3>u. /\ \A q \in Savers : /\ config'[q] = IF q = p THEN loaded ELSE config[q]
                               /\ unread'[q] = IF q = p THEN missing ELSE unread[q]
          /\ saved_file' = saved_file /\ newfile' = newfile /\ live' = live
          /\ holder' = holder /\ saving[p] = "load"
          /\ \A q \in Savers \ {p} : saving'[q] = saving[q]
          /\ saving'[p] \in {"iterate", "unlock"}
      BY <2>3 DEF F!Load
    <3>1. F!TypeOK'
      BY <1>t
    <3>2. F!FileComplete'
      BY <3>u
    <3>3. SaverHolds'
      BY <3>u
    <3> HIDE DEF loaded, F!Files, F!States, F!Cards
    <3>4. NotNewer'
      BY <3>u, <3>p, <1>n
    <3>5. NotOlder'
      <4>1. \A c \in F!Cards : saved_file.saved[c] <= loaded[c] \/ c \in missing
        BY <3>p, <1>r, <1>n
      <4>2. QED
        BY <3>u, <4>1
    <3>6. ReadyToRename'
      BY <3>u
    <3>7. QED
      BY <3>1, <3>2, <3>3, <3>4, <3>5, <3>6
  <2>4. CASE F!GetControls(p)
    <3>1. F!TypeOK'
      BY <1>t
    <3>2. F!FileComplete'
      BY <2>4 DEF F!GetControls
    <3>3. SaverHolds'
      BY <2>4 DEF F!GetControls
    <3>4. NotNewer'
      <4> PICK c \in F!Left(p) :
            \/ c \in present /\ config' = [config EXCEPT ![p][c] = live[c]] /\ saving' = saving
            \/ saving' = [saving EXCEPT ![p] = "unlock"] /\ config' = config
        BY <2>4 DEF F!GetControls
      <4>1. saved_file' = saved_file /\ live' = live
        BY <2>4 DEF F!GetControls
      <4>2. \A d \in F!Cards, q \in Savers : config'[q][d] = config[q][d] \/ config'[q][d] = live[d]
        <5>1. config \in [Savers -> F!States]
          OBVIOUS
        <5> HIDE DEF F!Cards, F!States, F!Files
        <5>2. QED
          BY <5>1, OneMerged
      <4> HIDE DEF F!Files, F!States, F!Cards
      <4>3. QED
        BY <4>1, <4>2, <1>n
    <3>5. NotOlder'
      <4> PICK c \in F!Left(p) :
            \/ c \in present /\ config' = [config EXCEPT ![p][c] = live[c]] /\ saving' = saving
            \/ saving' = [saving EXCEPT ![p] = "unlock"] /\ config' = config
        BY <2>4 DEF F!GetControls
      <4>1. saved_file' = saved_file /\ unread' = unread
        BY <2>4 DEF F!GetControls
      <4>2. \A d \in F!Cards, q \in Savers : config'[q][d] = config[q][d] \/ config'[q][d] = live[d]
        <5>1. config \in [Savers -> F!States]
          OBVIOUS
        <5> HIDE DEF F!Cards, F!States, F!Files
        <5>2. QED
          BY <5>1, OneMerged
      <4>3. \A q \in Savers : saving'[q] = saving[q] \/ saving'[q] = "unlock"
        OBVIOUS
      <4> HIDE DEF F!Files, F!States, F!Cards
      <4>4. QED
        BY <4>1, <4>2, <4>3, <1>n
    <3>6. ReadyToRename'
      BY <2>4 DEF F!GetControls
    <3>7. QED
      BY <3>1, <3>2, <3>3, <3>4, <3>5, <3>6
  <2>5. CASE F!EndOfCards(p)
    <3>1. F!TypeOK'
      BY <1>t
    <3>2. F!FileComplete'
      BY <2>5 DEF F!EndOfCards
    <3>3. SaverHolds'
      BY <2>5 DEF F!EndOfCards
    <3>4. NotNewer'
      BY <2>5 DEF F!EndOfCards
    <3>5. NotOlder'
      BY <2>5 DEF F!EndOfCards
    <3>6. ReadyToRename'
      BY <2>5 DEF F!EndOfCards
    <3>7. QED
      BY <3>1, <3>2, <3>3, <3>4, <3>5, <3>6
  <2>6. CASE F!Open(p)
    <3>1. F!TypeOK'
      BY <1>t
    <3>2. F!FileComplete'
      BY <2>6 DEF F!Open
    <3>3. SaverHolds'
      BY <2>6 DEF F!Open
    <3>4. NotNewer'
      BY <2>6 DEF F!Open
    <3>5. NotOlder'
      BY <2>6 DEF F!Open
    <3>6. ReadyToRename'
      BY <2>6 DEF F!Open
    <3>7. QED
      BY <3>1, <3>2, <3>3, <3>4, <3>5, <3>6
  <2>7. CASE F!Save(p)
    <3>1. F!TypeOK'
      BY <1>t
    <3>2. F!FileComplete'
      BY <2>7 DEF F!Save
    <3>3. SaverHolds'
      BY <2>7 DEF F!Save
    <3>4. NotNewer'
      BY <2>7 DEF F!Save
    <3>5. NotOlder'
      BY <2>7 DEF F!Save
    <3>6. ReadyToRename'
      <4>1. \A q \in Savers \ {p} : saving'[q] = saving[q] /\ saving[q] # "rename"
        BY <2>7 DEF F!Save
      <4>2. config' = config /\ config[p] \in F!States
        BY <2>7 DEF F!Save
      <4>3. \A q \in Savers : saving'[q] = "rename" => q = p
        BY <4>1
      <4>4. saving'[p] = "rename" =>
               \/ newfile' = F!Written(config[p])
               \/ \E kept \in SUBSET F!Cards : newfile' = F!CutOff(config[p], kept)
        BY <2>7 DEF F!Save
      <4> HIDE DEF F!Files, F!States, F!Cards
      <4>5. saving'[p] = "rename" =>
               \/ newfile'.complete /\ newfile'.saved = config[p]
               \/ newfile'.cut /\ \A c \in F!Cards : newfile'.saved[c] \in {0, config[p][c]}
        <5>1. ASSUME newfile' = F!Written(config[p])
              PROVE  newfile'.complete /\ newfile'.saved = config[p]
          BY <4>2, <5>1, WrittenFile
        <5>2. ASSUME NEW kept \in SUBSET F!Cards, newfile' = F!CutOff(config[p], kept)
              PROVE  newfile'.cut /\ \A c \in F!Cards : newfile'.saved[c] \in {0, config[p][c]}
          BY <4>2, <5>2, CutFile, PartOfState
        <5>3. QED
          BY <4>4, <5>1, <5>2
      <4>6. QED
        BY <4>2, <4>3, <4>5
    <3>7. QED
      BY <3>1, <3>2, <3>3, <3>4, <3>5, <3>6
  <2>8. CASE F!Rename(p)
    <3>u. /\ saving[p] = "rename" /\ saving' = [saving EXCEPT ![p] = "unlock"]
          /\ UNCHANGED <<holder, live, config, unread>>
          /\ saved_file' = saved_file \/ saved_file' = newfile
      BY <2>8 DEF F!Rename
    <3>o. \A q \in Savers : saving[q] \notin {"idle", "lock"} => q = p
      BY <3>u
    <3>s. \A q \in Savers : saving'[q] = IF q = p THEN "unlock" ELSE saving[q]
      BY <3>u
    <3> HIDE DEF F!Files, F!States, F!Cards
    <3>1. F!TypeOK'
      BY <1>t
    <3>2. F!FileComplete'
      BY <3>u
    <3>3. SaverHolds'
      BY <3>u, <3>s
    <3>4. NotNewer'
      <4>1. \A c \in F!Cards : saved_file'.saved[c] \in {0, saved_file.saved[c], config[p][c]}
        BY <3>u
      <4>2. QED
        BY <3>u, <4>1, <1>n
    <3>5. NotOlder'
      BY <3>o, <3>s
    <3>6. ReadyToRename'
      BY <3>o, <3>s
    <3>7. QED
      BY <3>1, <3>2, <3>3, <3>4, <3>5, <3>6
  <2>9. CASE F!Unlock(p)
    <3>1. F!TypeOK'
      BY <1>t
    <3>2. F!FileComplete'
      BY <2>9 DEF F!Unlock
    <3>3. SaverHolds'
      BY <2>9 DEF F!Unlock
    <3>4. NotNewer'
      BY <2>9 DEF F!Unlock
    <3>5. NotOlder'
      BY <2>9 DEF F!Unlock
    <3>6. ReadyToRename'
      BY <2>9 DEF F!Unlock
    <3>7. QED
      BY <3>1, <3>2, <3>3, <3>4, <3>5, <3>6
  <2>10. CASE F!Crash(p)
    <3>1. F!TypeOK'
      BY <1>t
    <3>2. F!FileComplete'
      BY <2>10 DEF F!Crash
    <3>3. SaverHolds'
      BY <2>10 DEF F!Crash
    <3>4. NotNewer'
      BY <2>10 DEF F!Crash
    <3>5. NotOlder'
      BY <2>10 DEF F!Crash
    <3>6. ReadyToRename'
      BY <2>10 DEF F!Crash
    <3>7. QED
      BY <3>1, <3>2, <3>3, <3>4, <3>5, <3>6
  <2>11. QED
    BY <1>4, <2>1, <2>2, <2>3, <2>4, <2>5, <2>6, <2>7, <2>8, <2>9, <2>10 DEF F!SaveStep
<1>5. QED
  BY <1>1, <1>2, <1>3, <1>4 DEF F!Next

LEMMA StoreInvariance ==
  ASSUME StoreParameters
  PROVE  F!Spec => []StoreInv
  BY StoreStarts, StoreSteps, PTL DEF F!Spec

(***************************************************************************)
(* The state file is complete whatever fails or dies, unless the flush of  *)
(* the last store that replaced it failed when it was closed, which nobody *)
(* looks at (state.c:1704-1720).                                           *)
(***************************************************************************)
THEOREM AlwaysComplete ==
  ASSUME StoreParameters
  PROVE  F!Spec => []F!FileComplete
  BY StoreInvariance, PTL DEF StoreInv

(***************************************************************************)
(* The type invariant of the model of save_state.                          *)
(***************************************************************************)
THEOREM StoreTypes ==
  ASSUME StoreParameters
  PROVE  F!Spec => []F!TypeOK
  BY StoreInvariance, PTL DEF StoreInv

(***************************************************************************)
(* No store puts back an older state of any card, and all it may drop is   *)
(* what its own load could not read, or what a failed flush cut off        *)
(* (state.c:1672-1720).                                                    *)
(***************************************************************************)
THEOREM NoLostUpdate ==
  ASSUME StoreParameters
  PROVE  F!Spec => F!NeverOlder
<1> DEFINE Dropped(c) == saved_file'.cut \/ \E p \in Savers : F!Rename(p) /\ c \in unread[p]
           NoneOlder == \A c \in F!Cards : saved_file'.saved[c] < saved_file.saved[c] => Dropped(c)
<1>1. StoreInv /\ [F!Next]_F!vars => [NoneOlder]_F!vars
  <2> SUFFICES ASSUME StoreInv, F!Next PROVE NoneOlder
    BY Zenon
  <2>1. ASSUME NEW p \in Savers, F!Rename(p) PROVE NoneOlder
    <3>1. CASE saved_file' = saved_file
      BY <3>1, StoreNumbers DEF StoreInv
    <3>2. CASE saved_file'.cut
      BY <3>2
    <3>3. CASE saved_file'.saved = config[p]
      <4>1. \A c \in F!Cards : config[p][c] >= saved_file.saved[c] \/ c \in unread[p]
        BY <2>1, StoreNumbers DEF F!Rename, StoreInv, NotOlder
      <4>2. QED
        BY <2>1, <3>3, <4>1, StoreNumbers DEF StoreInv
    <3>4. saved_file' = saved_file \/ saved_file'.cut \/ saved_file'.saved = config[p]
      BY <2>1 DEF F!Rename, StoreInv, ReadyToRename
    <3>5. QED
      BY <3>1, <3>2, <3>3, <3>4
  <2>2. CASE saved_file' = saved_file
    BY <2>2, StoreNumbers DEF StoreInv
  <2>3. saved_file' = saved_file \/ \E p \in Savers : F!Rename(p)
    BY DEF F!Next, F!Change, F!Plug, F!Call, F!SaveStep, F!Lock, F!Load, F!GetControls,
           F!EndOfCards, F!Open,
           F!Save, F!Unlock, F!Crash
  <2>4. QED
    BY <2>1, <2>2, <2>3
<1>2. QED
  BY StoreInvariance, <1>1, PTL DEF F!Spec, F!NeverOlder

(***************************************************************************)
(* What a saver was asked for is there as long as it counts, and what it   *)
(* has merged is not older; or the card is one the iterator still visits.  *)
(***************************************************************************)
Merging == {"iterate", "open", "save", "rename"}

CallHolds ==
    \A p \in Savers, c \in F!Cards :
        /\ asked[p][c] <= live[c]
        /\ asked[p][c] > 0 => c \in present /\ cardname[p] \in {F!All, c}

ToVisit(p, c) == saving[p] = "iterate" /\ c \in F!Left(p)
Merged ==
    \A p \in Savers, c \in F!Cards :
        saving[p] \in Merging /\ asked[p][c] > 0 => ToVisit(p, c) \/ asked[p][c] <= config[p][c]

AskedInv == CallHolds /\ Merged

LEMMA AskedNumbers ==
  ASSUME StoreParameters, F!TypeOK
  PROVE  \A c \in F!Cards : /\ live[c] \in Nat /\ c \in Nat
                            /\ \A p \in Savers : asked[p][c] \in Nat /\ config[p][c] \in Nat
<1>1. live \in F!States /\ \A p \in Savers : asked[p] \in F!States /\ config[p] \in F!States
  BY DEF F!TypeOK
<1>2. \A c \in F!Cards : c \in Nat
  BY DEF F!Cards
<1>3. QED
  BY <1>1, <1>2, StateValue

\* the mixers and the cards
LEMMA AskedAmongOthers ==
  ASSUME StoreParameters, F!TypeOK, F!TypeOK', AskedInv, NEW c \in F!Cards,
         F!Change(c) \/ F!Plug(c)
  PROVE  AskedInv'
<1> USE AskedNumbers DEF AskedInv
<1>1. CASE F!Change(c)
  <2>1. /\ \A d \in F!Cards : live'[d] >= live[d]
        /\ UNCHANGED <<present, asked, cardname, saving, config, iter>>
    BY <1>1 DEF F!Change, F!TypeOK, F!States
  <2>2. CallHolds'
    <3>1. \A d \in F!Cards : live'[d] \in Nat
      BY StateValue DEF F!TypeOK
    <3>2. QED
      BY <2>1, <3>1 DEF CallHolds
  <2>3. \A p \in Savers, d \in F!Cards : ToVisit(p, d)' = ToVisit(p, d)
    BY <2>1 DEF ToVisit, F!Left
  <2>4. Merged'
    BY <2>1, <2>3 DEF Merged
  <2>5. QED
    BY <2>2, <2>4
<1>2. CASE F!Plug(c)
  <2>1. UNCHANGED <<live, cardname, saving, config, iter>>
    BY <1>2 DEF F!Plug
  <2>2. \A p \in Savers, d \in F!Cards : asked'[p][d] = IF d = c THEN 0 ELSE asked[p][d]
    BY <1>2 DEF F!Plug, F!TypeOK, F!States
  <2>3. \A d \in F!Cards \ {c} : d \in present' <=> d \in present
    BY <1>2 DEF F!Plug
  <2>4. CallHolds'
    BY <2>1, <2>2, <2>3 DEF CallHolds
  <2>5. ASSUME NEW p \in Savers, NEW d \in F!Cards \ {c}, ToVisit(p, d) PROVE ToVisit(p, d)'
    BY <2>1, <2>3, <2>5 DEF ToVisit, F!Left
  <2>6. Merged'
    BY <2>1, <2>2, <2>5 DEF Merged
  <2>7. QED
    BY <2>4, <2>6
<1>3. QED
  BY <1>1, <1>2

\* a call, and what ends one
LEMMA AskedAtTheEnds ==
  ASSUME StoreParameters, F!TypeOK, AskedInv, NEW p \in Savers,
         F!Call(p) \/ F!Out(p), UNCHANGED <<present, live>>
  PROVE  AskedInv'
<1> USE AskedNumbers DEF AskedInv
<1>1. /\ \A q \in Savers \ {p} : /\ saving'[q] = saving[q] /\ cardname'[q] = cardname[q]
                                 /\ asked'[q] = asked[q] /\ config'[q] = config[q]
                                 /\ iter'[q] = iter[q]
      /\ saving'[p] \notin Merging
  BY DEF F!Call, F!Out, F!Goto, F!TypeOK, Merging
<1>2. \A d \in F!Cards : /\ asked'[p][d] <= live[d]
                         /\ asked'[p][d] > 0 => d \in present /\ cardname'[p] \in {F!All, d}
  <2>1. CASE F!Call(p)
    <3>1. PICK c \in {F!All} \cup F!Cards :
             /\ cardname' = [cardname EXCEPT ![p] = c]
             /\ asked' = [asked EXCEPT ![p] =
                   [d \in F!Cards |-> IF d \in present /\ c \in {F!All, d} THEN live[d] ELSE 0]]
      BY <2>1 DEF F!Call
    <3>2. QED
      BY <3>1 DEF F!TypeOK
  <2>2. CASE F!Out(p)
    BY <2>2 DEF F!Out, F!Empty, F!TypeOK
  <2>3. QED
    BY <2>1, <2>2
<1>3. CallHolds'
  BY <1>1, <1>2 DEF CallHolds
<1>4. \A q \in Savers \ {p}, d \in F!Cards : ToVisit(q, d)' = ToVisit(q, d)
  BY <1>1 DEF ToVisit, F!Left
<1>5. Merged'
  BY <1>1, <1>4 DEF Merged
<1>6. QED
  BY <1>3, <1>5

\* the iterator goes over the cards
LEMMA AskedIsRead ==
  ASSUME StoreParameters, F!TypeOK, AskedInv, NEW p \in Savers,
         F!Load(p) \/ F!GetControls(p) \/ F!EndOfCards(p)
  PROVE  AskedInv'
<1> USE AskedNumbers DEF AskedInv
<1>1. UNCHANGED <<present, live, cardname, asked>>
  BY DEF F!Load, F!GetControls, F!EndOfCards
<1>2. CallHolds'
  BY <1>1 DEF CallHolds
<1>3. \A q \in Savers \ {p} :
         saving'[q] = saving[q] /\ config'[q] = config[q] /\ iter'[q] = iter[q]
  BY DEF F!Load, F!GetControls, F!EndOfCards, F!Goto, F!TypeOK
<1>4. \A q \in Savers \ {p}, d \in F!Cards : ToVisit(q, d)' = ToVisit(q, d)
  BY <1>1, <1>3 DEF ToVisit, F!Left
<1>5. ASSUME NEW d \in F!Cards, saving'[p] \in Merging, asked[p][d] > 0
      PROVE  ToVisit(p, d)' \/ asked[p][d] <= config'[p][d]
  <2>1. d \in present /\ cardname[p] \in {F!All, d}
    BY <1>5 DEF CallHolds
  <2>2. CASE F!Load(p)
    <3>1. iter'[p] = -1 /\ saving'[p] = "iterate"
      BY <2>2, <1>5 DEF F!Load, F!Goto, F!TypeOK, Merging
    <3>2. d \in F!Left(p)'
      BY <1>1, <2>1, <3>1 DEF F!Left
    <3>3. QED
      BY <3>1, <3>2 DEF ToVisit
  <2>3. CASE F!GetControls(p)
    <3>1. PICK c \in F!Left(p) :
             /\ \A x \in F!Left(p) : c <= x
             /\ iter' = [iter EXCEPT ![p] = c]
             /\ \/ /\ c \in present
                   /\ config' = [config EXCEPT ![p][c] = live[c]]
                   /\ UNCHANGED saving
                \/ F!Goto(p, "unlock") /\ UNCHANGED config
      BY <2>3 DEF F!GetControls
    <3>2. /\ config' = [config EXCEPT ![p][c] = live[c]]
          /\ saving' = saving /\ saving[p] = "iterate" /\ iter'[p] = c
      BY <1>5, <2>3, <3>1 DEF F!GetControls, F!Goto, F!TypeOK, Merging
    <3>3. c \in F!Cards
      BY <3>1 DEF F!Left, F!TypeOK, F!Cards, F!All
    <3>4. CASE d = c
      <4>1. config'[p][d] = live[d]
        BY <3>2, <3>3, <3>4 DEF F!TypeOK, F!States
      <4>2. QED
        BY <4>1 DEF CallHolds
    <3>5. CASE d # c
      <4>1. config'[p][d] = config[p][d]
        BY <3>2, <3>5 DEF F!TypeOK, F!States
      <4>2. CASE ~ToVisit(p, d)
        <5>1. saving[p] \in Merging
          BY <3>2 DEF Merging
        <5>2. QED
          BY <1>5, <4>1, <4>2, <5>1 DEF Merged
      <4>3. CASE ToVisit(p, d)
        <5>1. cardname[p] = F!All /\ c < d
          BY <3>1, <3>3, <3>5, <4>3 DEF ToVisit, F!Left
        <5>2. d \in F!Left(p)'
          BY <1>1, <2>1, <3>2, <5>1 DEF F!Left
        <5>3. QED
          BY <3>2, <5>2 DEF ToVisit
      <4>4. QED
        BY <4>2, <4>3
    <3>6. QED
      BY <3>4, <3>5
  <2>4. CASE F!EndOfCards(p)
    <3>1. saving[p] \in Merging /\ ~ToVisit(p, d) /\ config' = config
      BY <2>4 DEF F!EndOfCards, ToVisit, Merging
    <3>2. QED
      BY <1>5, <3>1 DEF Merged
  <2>5. QED
    BY <2>2, <2>3, <2>4
<1>6. Merged'
  BY <1>1, <1>3, <1>4, <1>5 DEF Merged
<1>7. QED
  BY <1>2, <1>6

\* the file is written
LEMMA AskedIsWritten ==
  ASSUME StoreParameters, F!TypeOK, AskedInv, NEW p \in Savers,
         \/ F!Lock(p) /\ ~F!Out(p)
         \/ F!Open(p) \/ F!Save(p) \/ F!Rename(p)
  PROVE  AskedInv'
<1> USE AskedNumbers DEF AskedInv
<1>1. UNCHANGED <<present, live, cardname, asked, config, iter>>
  BY DEF F!Lock, F!Open, F!Save, F!Rename
<1>2. /\ \A q \in Savers \ {p} : saving'[q] = saving[q]
      /\ saving'[p] \in Merging =>
            saving[p] \in {"open", "save", "rename"} /\ saving'[p] # "iterate"
  BY DEF F!Lock, F!Open, F!Save, F!Rename, F!Goto, F!TypeOK, Merging
<1>3. CallHolds'
  BY <1>1 DEF CallHolds
<1>4. \A q \in Savers \ {p}, d \in F!Cards : ToVisit(q, d)' = ToVisit(q, d)
  BY <1>1, <1>2 DEF ToVisit, F!Left
<1>5. ASSUME NEW d \in F!Cards, saving'[p] \in Merging, asked[p][d] > 0
      PROVE  asked[p][d] <= config[p][d]
  BY <1>2, <1>5 DEF Merged, Merging, ToVisit
<1>6. Merged'
  BY <1>1, <1>2, <1>4, <1>5 DEF Merged
<1>7. QED
  BY <1>3, <1>6

(***************************************************************************)
(* A store that replaces the file has in it, for every card it was asked   *)
(* for and that stayed, the state at the call or a later one, whether or   *)
(* not the old file could be read, unless a failed flush cut it off        *)
(* (state.c:1672-1720).                                                    *)
(***************************************************************************)
THEOREM WhatWasAskedIsStored ==
  ASSUME StoreParameters
  PROVE  F!Spec => F!StoresWhatWasAsked
<1> DEFINE Stores == \A p \in Savers : F!Rename(p) /\ saved_file' # saved_file /\ ~saved_file'.cut =>
                        \A c \in F!Cards : saved_file'.saved[c] >= asked[p][c]
<1>1. StoreInv /\ F!Init => AskedInv
  BY DEF F!Init, AskedInv, CallHolds, Merged, Merging, F!Empty, F!Cards
<1>2. StoreInv /\ StoreInv' /\ AskedInv /\ [F!Next]_F!vars => AskedInv'
  <2> SUFFICES ASSUME StoreInv, StoreInv', AskedInv, [F!Next]_F!vars PROVE AskedInv'
    OBVIOUS
  <2> USE DEF StoreInv
  <2>1. CASE UNCHANGED F!vars
    BY <2>1 DEF F!vars, AskedInv, CallHolds, Merged, ToVisit, F!Left
  <2>2. ASSUME NEW c \in F!Cards, F!Change(c) \/ F!Plug(c) PROVE AskedInv'
    BY <2>2, AskedAmongOthers
  <2>3. ASSUME NEW p \in Savers, F!Call(p) \/ F!SaveStep(p) \/ F!Crash(p) PROVE AskedInv'
    <3>1. CASE F!Call(p) \/ F!Crash(p) \/ F!Unlock(p) \/ (F!Lock(p) /\ F!Out(p))
      <4>1. (F!Call(p) \/ F!Out(p)) /\ UNCHANGED <<present, live>>
        BY <3>1 DEF F!Call, F!Crash, F!Unlock, F!Lock
      <4>2. QED
        BY <4>1, AskedAtTheEnds
    <3>2. CASE F!Load(p) \/ F!GetControls(p) \/ F!EndOfCards(p)
      BY <3>2, AskedIsRead
    <3>3. CASE (F!Lock(p) /\ ~F!Out(p)) \/ F!Open(p) \/ F!Save(p) \/ F!Rename(p)
      BY <3>3, AskedIsWritten
    <3>4. QED
      BY <2>3, <3>1, <3>2, <3>3 DEF F!SaveStep
  <2>4. QED
    BY <2>1, <2>2, <2>3 DEF F!Next
<1>3. StoreInv /\ AskedInv /\ [F!Next]_F!vars => [Stores]_F!vars
  <2> SUFFICES ASSUME StoreInv, AskedInv, NEW p \in Savers, F!Rename(p),
                      saved_file' # saved_file, ~saved_file'.cut, NEW c \in F!Cards
               PROVE  saved_file'.saved[c] >= asked[p][c]
    BY Zenon
  <2>1. saved_file'.saved = config[p]
    BY DEF F!Rename, StoreInv, ReadyToRename
  <2>2. asked[p][c] > 0 => asked[p][c] <= config[p][c]
    BY DEF AskedInv, Merged, Merging, ToVisit, F!Rename
  <2>3. QED
    BY <2>1, <2>2, AskedNumbers DEF StoreInv
<1>4. QED
  BY StoreInvariance, <1>1, <1>2, <1>3, PTL DEF F!Spec, F!StoresWhatWasAsked

-----------------------------------------------------------------------------
(***************************************************************************)
(* A thread of alsaloop and the controls its jobs redirect (LoopThread),   *)
(* an instance of its own in which stage is its pc: for any number of      *)
(* jobs, any set of them with a control, any values and any number of      *)
(* changes.                                                                *)
(***************************************************************************)

CONSTANTS Count, Values, MaxSets, MaxFails
VARIABLES controls, value, notified, data, quit, sets, stage, at, copying, fails, missed

L == INSTANCE LoopThread WITH pc <- stage

LoopParameters == Count \in Nat \ {0}

TwinTypeOK ==
    /\ DOMAIN value = L!Jobs /\ DOMAIN notified = L!Jobs
    /\ \A j \in L!Jobs : DOMAIN value[j] = L!Sides /\ notified[j] \in [L!Sides -> BOOLEAN]
    /\ copying.side \in L!Sides
    /\ stage \in {"handle", "write"} => at \in L!Jobs

\* What was read to be copied is still the value there, or an event says it is not.
CopyIsCurrent ==
    stage = "write" /\ ~notified[at][copying.side] => value[at][copying.side] = copying.value

\* Two elements that differ will be looked at again, or the last copy failed.
TwinsAgree ==
    \A j \in L!Jobs :
       \/ value[j]["play"] = value[j]["capt"]
       \/ \E s \in L!Sides : notified[j][s]
       \/ stage = "write" /\ at = j
       \/ j \in missed

TwinInv == TwinTypeOK /\ CopyIsCurrent /\ TwinsAgree

\* control_init2 has made the twins equal.
LEMMA TwinStarts ==
  ASSUME LoopParameters, L!Init
  PROVE  TwinInv
<1>1. PICK v \in Values : value = [j \in L!Jobs |-> [s \in L!Sides |-> v]]
  BY DEF L!Init
<1>2. /\ notified = [j \in L!Jobs |-> [s \in L!Sides |-> FALSE]]
      /\ stage = "loop" /\ copying = [side |-> "play", value |-> value[1]["play"]]
  BY DEF L!Init
<1>3. copying.side \in L!Sides
  BY <1>2 DEF L!Sides
<1>4. TwinTypeOK
  BY <1>1, <1>2, <1>3 DEF TwinTypeOK
<1>5. CopyIsCurrent
  BY <1>2 DEF CopyIsCurrent
<1>6. TwinsAgree
  BY <1>1 DEF TwinsAgree, L!Sides
<1>7. QED
  BY <1>4, <1>5, <1>6 DEF TwinInv

\* The next job is one of those that are left.
LEMMA NextJobIs ==
  ASSUME LoopParameters, NEW rest \in SUBSET L!Jobs, L!NextJob(rest)
  PROVE  \/ stage' = "loop" /\ at' = at
         \/ stage' = "handle" /\ at' \in L!Jobs
<1> DEFINE served == {j \in rest : L!Served(j)}
<1>1. CASE served = {}
  BY <1>1 DEF L!NextJob
<1>2. CASE served # {}
  <2>1. stage' = "handle" /\ at' = L!Min(served)
    BY <1>2 DEF L!NextJob
  <2>3. L!Jobs = 1 .. Count /\ Count \in Nat
    BY DEF L!Jobs, LoopParameters
  <2>4. served \subseteq L!Jobs
    OBVIOUS
  <2> HIDE DEF served
  <2>5. served \in SUBSET Nat
    BY <2>3, <2>4
  <2>6. \E x \in served : \A y \in served : ~(<<y, x>> \in OpToRel(<, Nat))
    BY <1>2, <2>5, WFMin, NatLessThanWellFounded, Zenon
  <2>7. PICK x \in served : \A y \in served : ~(<<y, x>> \in OpToRel(<, Nat))
    BY <2>6
  <2>8. ASSUME NEW y \in served PROVE x <= y
    <3>1. ~(<<y, x>> \in OpToRel(<, Nat))
      BY <2>7
    <3>2. x \in Nat /\ y \in Nat
      BY <2>5
    <3>3. ~(y < x)
      BY <3>1, <3>2 DEF OpToRel
    <3>4. QED
      BY <3>2, <3>3
  <2>9. L!Min(served) \in served
    BY <2>8 DEF L!Min
  <2>10. QED
    BY <2>1, <2>4, <2>9
<1>3. QED
  BY <1>1, <1>2

\* The streams, the users and the signal.
LEMMA TwinsAmongOthers ==
  ASSUME LoopParameters, TwinInv,
         \/ \E j \in L!Jobs : L!DataReady(j)
         \/ \E j \in L!Jobs, s \in L!Sides, v \in Values : L!UserSets(j, s, v)
         \/ L!Signal
  PROVE  TwinInv'
<1> USE DEF TwinInv
<1>1. ASSUME NEW j \in L!Jobs, L!DataReady(j) PROVE TwinInv'
  BY <1>1 DEF L!DataReady, TwinTypeOK, CopyIsCurrent, TwinsAgree
<1>2. ASSUME NEW j \in L!Jobs, NEW s \in L!Sides, NEW v \in Values, L!UserSets(j, s, v)
      PROVE  TwinInv'
  <2>1. /\ value' = [value EXCEPT ![j][s] = v]
        /\ notified' = [notified EXCEPT ![j][s] = TRUE]
        /\ stage' = stage /\ at' = at /\ copying' = copying
        /\ missed' = missed
    BY <1>2 DEF L!UserSets, L!Put, TwinTypeOK
  <2>2. TwinTypeOK'
    BY <2>1 DEF TwinTypeOK
  <2>3. CopyIsCurrent'
    BY <2>1 DEF TwinTypeOK, CopyIsCurrent
  <2>4. TwinsAgree'
    BY <2>1 DEF TwinTypeOK, TwinsAgree
  <2>5. QED
    BY <2>2, <2>3, <2>4
<1>3. CASE L!Signal
  BY <1>3 DEF L!Signal, TwinTypeOK, CopyIsCurrent, TwinsAgree
<1>4. QED
  BY <1>1, <1>2, <1>3

\* The thread.
LEMMA TwinsInThread ==
  ASSUME LoopParameters, TwinInv, L!Thread
  PROVE  TwinInv'
<1> USE DEF TwinInv
<1>1. CASE L!Loop
  BY <1>1 DEF L!Loop, TwinTypeOK, CopyIsCurrent, TwinsAgree
<1>2. CASE L!Poll
  <2>1. /\ stage' \in {"loop", "handle"} /\ (stage' = "handle" => at' \in L!Jobs)
        /\ stage = "poll" /\ value' = value /\ notified' = notified /\ copying' = copying
        /\ missed' = missed
    BY <1>2, NextJobIs DEF L!Poll
  <2>2. QED
    BY <2>1 DEF TwinTypeOK, CopyIsCurrent, TwinsAgree
<1>3. ASSUME NEW s \in L!Sides, L!CtlEvents(s) PROVE TwinInv'
  <2>1. /\ stage = "handle" /\ stage' = "write" /\ at' = at /\ value' = value
        /\ notified' = [notified EXCEPT ![at][s] = FALSE]
        /\ copying' = [side |-> s, value |-> value[at][s]]
        /\ at \in L!Jobs /\ missed' = missed
    BY <1>3 DEF L!CtlEvents, TwinTypeOK
  <2>2. TwinTypeOK'
    BY <2>1 DEF TwinTypeOK
  <2>3. CopyIsCurrent'
    BY <2>1 DEF CopyIsCurrent
  <2>4. TwinsAgree'
    BY <2>1 DEF TwinTypeOK, TwinsAgree
  <2>5. QED
    BY <2>2, <2>3, <2>4
<1>4. CASE L!CopyValue
  <2> DEFINE o == L!Other(copying.side)
  <2>1. /\ stage' \in {"loop", "handle"} /\ (stage' = "handle" => at' \in L!Jobs)
        /\ stage = "write" /\ at \in L!Jobs /\ copying' = copying
        /\ missed' = missed \ {at}
    BY <1>4, NextJobIs DEF L!CopyValue, L!Later, TwinTypeOK
  <2>2. /\ value' = [value EXCEPT ![at][o] = copying.value]
        /\ notified' = [notified EXCEPT ![at][o] = @ \/ value[at][o] # copying.value]
    BY <1>4 DEF L!CopyValue, L!Put
  <2>3. o \in L!Sides /\ o # copying.side /\ copying.side \in L!Sides
    BY DEF TwinTypeOK, L!Other, L!Sides
  <2>4. TwinTypeOK'
    BY <2>1, <2>2, <2>3 DEF TwinTypeOK
  <2>5. CopyIsCurrent'
    BY <2>1 DEF CopyIsCurrent
  <2>6. ASSUME NEW j \in L!Jobs
        PROVE  \/ value'[j]["play"] = value'[j]["capt"]
               \/ \E s \in L!Sides : notified'[j][s]
               \/ j \in missed'
    <3> HIDE DEF o
    <3>1. CASE j # at
      BY <2>1, <2>2, <3>1 DEF TwinTypeOK, TwinsAgree
    <3>2. CASE j = at /\ notified[at][copying.side]
      BY <2>1, <2>2, <2>3, <3>2 DEF TwinTypeOK
    <3>3. CASE j = at /\ ~notified[at][copying.side]
      <4>1. value[at][copying.side] = copying.value
        BY <2>1, <3>3 DEF CopyIsCurrent
      <4>2. value'[at][o] = copying.value /\ value'[at][copying.side] = copying.value
        BY <2>1, <2>2, <2>3, <4>1 DEF TwinTypeOK
      <4>3. QED
        BY <2>3, <3>3, <4>2 DEF L!Sides
    <3>4. QED
      BY <3>1, <3>2, <3>3
  <2>7. TwinsAgree'
    BY <2>6 DEF TwinsAgree
  <2>8. QED
    BY <2>4, <2>5, <2>7
<1>5. CASE L!Streams
  <2>1. /\ stage' \in {"loop", "handle"} /\ (stage' = "handle" => at' \in L!Jobs)
        /\ stage = "handle" /\ value' = value /\ notified' = notified /\ copying' = copying
        /\ missed' = missed
    BY <1>5, NextJobIs DEF L!Streams, L!Later
  <2>2. QED
    BY <2>1 DEF TwinTypeOK, CopyIsCurrent, TwinsAgree
<1>6. CASE L!CopyFails
  <2>1. /\ stage' \in {"loop", "handle"} /\ (stage' = "handle" => at' \in L!Jobs)
        /\ stage = "write" /\ value' = value /\ notified' = notified /\ copying' = copying
        /\ missed' = missed \cup {at}
    BY <1>6, NextJobIs DEF L!CopyFails, L!Later
  <2>2. QED
    BY <2>1 DEF TwinTypeOK, CopyIsCurrent, TwinsAgree
<1>7. QED
  BY <1>1, <1>2, <1>3, <1>4, <1>5, <1>6 DEF L!Thread

\* Two elements that redirect one another differ only while a change of one is
\* still to be read, while the thread is about to write the copy, or after a copy that
\* failed (control_event1 in control.c).
THEOREM DifferingTwinsAreSeenTo ==
  ASSUME LoopParameters
  PROVE  L!Spec => []TwinsAgree
<1>1. L!Init => TwinInv
  BY TwinStarts
<1>2. TwinInv /\ [L!Next]_L!vars => TwinInv'
  <2> SUFFICES ASSUME TwinInv, [L!Next]_L!vars PROVE TwinInv'
    OBVIOUS
  <2>1. CASE UNCHANGED L!vars
    BY <2>1 DEF L!vars, TwinInv, TwinTypeOK, CopyIsCurrent, TwinsAgree
  <2>2. CASE L!Thread
    BY <2>2, TwinsInThread
  <2>3. CASE L!Next /\ ~L!Thread
    BY <2>3, TwinsAmongOthers DEF L!Next
  <2>4. QED
    BY <2>1, <2>2, <2>3
<1>3. TwinInv => TwinsAgree
  BY DEF TwinInv
<1>4. QED
  BY <1>1, <1>2, <1>3, PTL DEF L!Spec
================================================================================
