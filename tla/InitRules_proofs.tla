------------------------- MODULE InitRules_proofs --------------------------
(***************************************************************************)
(* Theorems about the interpreter of alsactl init, for any cards, elements,*)
(* labels, exit codes and bounds on keys, files and nesting.               *)
(***************************************************************************)
EXTENDS InitRules, TLAPS

CacheInv ==
    /\ "info" \notin changed => (ctl_id \in Elems /\ ctl_info = ctl_id) \/ blank
    /\ "value" \notin changed => (ctl_id \in Elems /\ ctl_value = ctl_id) \/ blank

\* What is taken for valid is the info and the value of the control that is
\* selected: cset_id, elemid_set and the keys that search (init_parse.c).
THEOREM SelectionIsCached == Spec => []CacheIsOfSelection
<1>1. Init => CacheInv
  BY DEF Init, FreshSpace, Both, CacheInv
<1>2. CacheInv /\ [Next]_vars => CacheInv'
  <2> SUFFICES ASSUME CacheInv, [Next]_vars PROVE CacheInv'
    OBVIOUS
  <2> USE DEF CacheInv
  <2>1. CASE UNCHANGED elem
    BY <2>1 DEF elem
  <2>2. CASE StartCard
    BY <2>2 DEF StartCard, Both
  <2>3. CASE Select
    BY <2>3 DEF Select, Both
  <2>4. CASE BlankSearch
    BY <2>4 DEF BlankSearch
  <2>5. CASE Search
    BY <2>5 DEF Search
  <2>6. CASE Compare
    <3>1. UNCHANGED <<ctl_id, blank>>
      BY <2>6 DEF Compare
    <3>2. PICK what \in {{"info"}, Both} :
             Refreshed(what) \/ UNCHANGED <<changed, ctl_info, ctl_value>>
      BY <2>6 DEF Compare
    <3>3. CASE UNCHANGED <<changed, ctl_info, ctl_value>>
      BY <3>1, <3>3
    <3>4. CASE Refreshed(what)
      BY <3>1, <3>4 DEF Refreshed
    <3>5. QED
      BY <3>2, <3>3, <3>4
  <2>7. ASSUME NEW ok \in BOOLEAN, SetValue(ok)
        PROVE  CacheInv'
    BY <2>7 DEF SetValue, elem
  <2>8. CASE AssignValue
    BY <2>7, <2>8 DEF AssignValue
  <2>9. CASE WriteValue
    BY <2>7, <2>9 DEF WriteValue
  <2>10. QED
    BY <2>1, <2>2, <2>3, <2>4, <2>5, <2>6, <2>8, <2>9
       DEF Next, vars, Rule, SkipCard, Finish, Open, EndFile, ReadLine,
           EndLine, Invalid, Label, Skip, Plain, Goto, Include, Exit,
           ExitReturn
<1>3. CacheInv => CacheIsOfSelection
  BY DEF CacheInv, CacheIsOfSelection
<1>4. QED
  BY <1>1, <1>2, <1>3, PTL DEF Spec

-----------------------------------------------------------------------------
Ended == [quit : BOOLEAN, code : Nat, err : Int, unread : BOOLEAN]
Errors == {ends[k].err : k \in DOMAIN ends} \ {0}

RulesTypeOK ==
    /\ pc \in {"card", "open", "line", "key", "jump", "done"}
    /\ err \in Int /\ err <= 0 /\ exit_code \in Nat /\ quit \in BOOLEAN /\ unread \in BOOLEAN
    /\ left \in Nat /\ ends \in Seq(Ended)

\* After EXIT no key is read
AfterExit ==
    quit => /\ pc \in {"line", "open", "card", "done"}
            /\ pc = "open" => exit_code = 0
            /\ pc = "line" => err \in {0, -exit_code} \/ (exit_code = 0 /\ unread)

Told == \A k \in DOMAIN ends :
          ends[k].quit => ends[k].err = -ends[k].code
                          \/ (ends[k].code = 0 /\ ends[k].unread)

FirstError == IF Errors = {} THEN lasterr = 0 ELSE lasterr \in Errors
Reported == /\ pc # "done" => FirstError
            /\ pc = "done" => IF Errors = {} THEN ret = 0 /\ left = 0 ELSE ret \in Errors

RulesInv == RulesTypeOK /\ AfterExit /\ Told /\ Reported

\* Nothing is told of a card as long as it has not ended.
LEMMA SameEnds ==
  ASSUME UNCHANGED ends
  PROVE  Errors' = Errors /\ (Told => Told')
  BY DEF Errors, Told

\* One more card has ended: its errors are added to those there were.
LEMMA AppendEnded ==
  ASSUME ends \in Seq(Ended), NEW r \in Ended, ends' = Append(ends, r)
  PROVE  /\ ends' \in Seq(Ended)
         /\ Errors' = (Errors \cup {r.err}) \ {0}
         /\ Told /\ (r.quit => r.err = -r.code \/ (r.code = 0 /\ r.unread)) => Told'
  <1>1. /\ ends' \in Seq(Ended)
        /\ DOMAIN ends = 1 .. Len(ends) /\ Len(ends) \in Nat
        /\ DOMAIN ends' = 1 .. Len(ends) + 1
        /\ ends'[Len(ends) + 1] = r
        /\ \A k \in DOMAIN ends : ends'[k] = ends[k]
    OBVIOUS
  <1>2. DOMAIN ends' = DOMAIN ends \cup {Len(ends) + 1}
    BY <1>1
  <1>3. Errors' = (Errors \cup {r.err}) \ {0}
    <2>1. {ends'[k].err : k \in DOMAIN ends'} =
              {ends'[k].err : k \in DOMAIN ends} \cup {ends'[Len(ends) + 1].err}
      BY <1>2
    <2>2. {ends'[k].err : k \in DOMAIN ends} = {ends[k].err : k \in DOMAIN ends}
      BY <1>1
    <2>3. QED
      BY <1>1, <2>1, <2>2 DEF Errors
  <1>4. Told /\ (r.quit => r.err = -r.code \/ (r.code = 0 /\ r.unread)) => Told'
    BY <1>1, <1>2 DEF Told
  <1>5. QED
    BY <1>1, <1>3, <1>4

\* the end of a card, in the loop of init
LEMMA CardEndsKeeps ==
  ASSUME RulesInv, NEW e \in Int, e <= 0, pc # "done", CardEnds(e), unread' \in BOOLEAN,
         quit => e = -exit_code \/ (exit_code = 0 /\ unread'),
         UNCHANGED <<quit, exit_code, err, left>>
  PROVE  RulesInv'
  <1> DEFINE r == [quit |-> quit, code |-> exit_code, err |-> e, unread |-> unread']
  <1>1. r \in Ended /\ ends' = Append(ends, r) /\ ends \in Seq(Ended)
    BY DEF RulesInv, RulesTypeOK, Ended, CardEnds
  <1>2. /\ r.err = e /\ r.quit = quit /\ r.code = exit_code /\ r.unread = unread'
    OBVIOUS
  <1> HIDE DEF r
  <1>3. ends' \in Seq(Ended) /\ Told' /\ Errors' = (Errors \cup {e}) \ {0}
    BY <1>1, <1>2, AppendEnded DEF RulesInv
  <1>4. pc' \in {"card", "done"}
    BY DEF CardEnds
  <1>5. RulesTypeOK'
    BY <1>3, <1>4 DEF RulesInv, RulesTypeOK
  <1>6. AfterExit'
    BY <1>4 DEF AfterExit
  <1>7. FirstError /\ 0 \notin Errors
    BY DEF RulesInv, Reported, Errors
  <1>8. Reported'
    <2>1. Errors' # {} => e # 0 \/ Errors # {}
      BY <1>3, <1>7
    <2>2. CASE pc' = "card"
      <3>1. e = 0 => lasterr' = lasterr /\ Errors' = Errors
        BY <1>3, <1>7, <2>2 DEF CardEnds
      <3>2. e # 0 => Errors' = Errors \cup {e} /\ lasterr' = (IF lasterr = 0 THEN e ELSE lasterr)
        BY <1>3, <1>7, <2>2 DEF CardEnds
      <3>3. QED
        BY <1>7, <2>2, <3>1, <3>2 DEF Reported, FirstError
    <2>3. CASE pc' = "done"
      BY <1>3, <1>7, <2>3 DEF Reported, FirstError, CardEnds
    <2>4. QED
      BY <1>4, <2>2, <2>3
  <1>9. QED
    BY <1>3, <1>5, <1>6, <1>8 DEF RulesInv

\* the end of a file: back to the file that included it, or of the directory
LEMMA ReturnKeeps ==
  ASSUME RulesInv, NEW e \in Int, e <= 0, pc \in {"open", "line", "jump"}, Return(e),
         unread' \in BOOLEAN, unread => unread',
         quit => e = -exit_code \/ (exit_code = 0 /\ unread'),
         UNCHANGED <<quit, exit_code, left>>
  PROVE  RulesInv'
  <1>1. CASE CardEnds(e) /\ UNCHANGED err
    BY <1>1, CardEndsKeeps
  <1>2. CASE /\ UNCHANGED <<lasterr, ret, ends>>
             /\ \/ e = 0 /\ pc' = "open" /\ UNCHANGED err
                \/ err' = e /\ pc' = IF quit \/ e # 0 THEN "line" ELSE "key"
    <2>1. RulesTypeOK'
      BY <1>2 DEF RulesInv, RulesTypeOK
    <2>2. AfterExit'
      BY <1>2 DEF RulesInv, RulesTypeOK, AfterExit
    <2>3. Told' /\ Reported'
      BY <1>2, SameEnds DEF RulesInv, Reported, FirstError
    <2>4. QED
      BY <2>1, <2>2, <2>3 DEF RulesInv
  <1>3. QED
    BY <1>1, <1>2 DEF Return

\* parse_line
LEMMA RuleKeeps ==
  ASSUME Codes \subseteq Nat, RulesInv, Rule
  PROVE  RulesInv' /\ ~quit
  <1>1. /\ pc = "key" /\ UNCHANGED <<left, lasterr, ret, ends, unread>>
        /\ pc' \in {"line", "key", "open", "jump"} /\ err' \in {0, -22}
        /\ \/ UNCHANGED <<quit, exit_code>>
           \/ pc' = "line" /\ err' = 0 /\ quit' = TRUE /\ exit_code' \in Codes
    BY DEF Rule, Key, Run, On, Off, cards, leave, EINVAL,
           Invalid, Label, Skip, Plain, Goto, Include, Exit, ExitReturn,
           Select, BlankSearch, Search, Compare, AssignValue, WriteValue
  <1>2. ~quit
    BY <1>1 DEF RulesInv, RulesTypeOK, AfterExit
  <1>3. RulesTypeOK'
    <2>1. exit_code' \in Nat /\ quit' \in BOOLEAN
      BY <1>1 DEF RulesInv, RulesTypeOK
    <2>2. QED
      BY <1>1, <2>1 DEF RulesInv, RulesTypeOK
  <1>6. AfterExit'
    BY <1>1, <1>2, Zenon DEF AfterExit
  <1>4. Told' /\ Reported'
    BY <1>1, SameEnds DEF RulesInv, Reported, FirstError
  <1>5. QED
    BY <1>2, <1>3, <1>4, <1>6 DEF RulesInv

\* every step of the interpreter, with the loop over the cards around it
LEMMA RulesInvariant == Spec => []RulesInv
<1>1. Init => RulesInv
  <2> SUFFICES ASSUME Init PROVE RulesInv
    OBVIOUS
  <2>1. ends = <<>> /\ Errors = {} /\ Told
    BY DEF Init, Errors, Told
  <2>2. RulesTypeOK /\ AfterExit
    <3>1. left \in Nat
      BY ElemAssumption, BoundAssumption DEF Init
    <3>2. ends \in Seq(Ended)
      BY <2>1
    <3>3. quit \in BOOLEAN /\ unread \in BOOLEAN /\ ~quit
      BY Zenon DEF Init, FreshSpace
    <3>4. pc = "card" /\ err = 0 /\ exit_code = 0
      BY DEF Init, FreshSpace
    <3>5. QED
      BY <3>1, <3>2, <3>3, <3>4 DEF RulesTypeOK, AfterExit
  <2>3. Reported
    BY <2>1 DEF Init, Reported, FirstError
  <2>4. QED
    BY <2>1, <2>2, <2>3 DEF RulesInv
<1>2. RulesInv /\ [Next]_vars => RulesInv'
  <2> SUFFICES ASSUME RulesInv, [Next]_vars PROVE RulesInv'
    OBVIOUS
  <2> USE DEF RulesInv
  <2>1. CASE SkipCard
    <3> DEFINE r == [quit |-> FALSE, code |-> 0, err |-> ENOENT, unread |-> TRUE]
    <3>1. r \in Ended /\ r.err = -2 /\ ~r.quit
      BY DEF Ended, ENOENT
    <3>2. UNCHANGED <<pc, err, exit_code, quit, unread>> /\ pc = "card" /\ left' \in Nat
      BY <2>1 DEF SkipCard, leave, RulesTypeOK
    <3> HIDE DEF r
    <3>3. CASE ends' = Append(ends, r) /\ lasterr' = (IF lasterr = 0 THEN -2 ELSE lasterr)
      <4>1. ends' \in Seq(Ended) /\ Errors' = (Errors \cup {-2}) \ {0} /\ Told'
        BY <3>1, <3>3, AppendEnded DEF RulesTypeOK
      <4>2. Reported'
        BY <3>2, <3>3, <4>1 DEF Reported, FirstError, Errors
      <4>3. QED
        BY <3>2, <4>1, <4>2 DEF RulesTypeOK, AfterExit
    <3>4. CASE UNCHANGED <<ends, lasterr>>
      BY <3>2, <3>4, SameEnds DEF RulesTypeOK, AfterExit, Reported, FirstError
    <3>5. QED
      BY <2>1, <3>3, <3>4 DEF SkipCard, ENOENT, r
  <2>2. CASE StartCard
    <3>1. RulesTypeOK' /\ AfterExit'
      <4>1. quit' \in BOOLEAN /\ unread' \in BOOLEAN /\ ~quit'
        BY <2>2, Zenon DEF StartCard
      <4>2. pc' = "open" /\ err' = 0 /\ exit_code' = 0 /\ left > 0 /\ left' = left - 1
            /\ UNCHANGED ends
        BY <2>2 DEF StartCard
      <4>3. QED
        BY <4>1, <4>2 DEF RulesTypeOK, AfterExit
    <3>2. Told' /\ Reported'
      BY <2>2, SameEnds DEF StartCard, Reported, FirstError
    <3>3. QED
      BY <3>1, <3>2
  <2>3. CASE Finish
    BY <2>3, SameEnds DEF Finish, leave, RulesTypeOK, AfterExit, Reported, FirstError
  <2>4. CASE Open
    <3>1. pc = "open" /\ UNCHANGED <<quit, exit_code>>
      BY <2>4 DEF Open, leave
    <3>2. CASE Return(ENOENT) /\ unread' = TRUE /\ UNCHANGED left
      <4>1. quit => exit_code = 0
        BY <3>1 DEF AfterExit
      <4>2. ENOENT \in Int /\ ENOENT <= 0
        BY DEF ENOENT
      <4>3. QED
        BY <3>1, <3>2, <4>1, <4>2, ReturnKeeps
    <3>3. CASE pc' = "line" /\ err' = 0 /\ UNCHANGED <<cards, unread>>
      BY <3>1, <3>3, SameEnds DEF cards, RulesTypeOK, AfterExit, Reported, FirstError
    <3>4. QED
      BY <2>4, <3>2, <3>3 DEF Open
  <2>5. CASE EndFile
    <3> DEFINE e == IF err # 0 THEN err ELSE -exit_code
    <3>1. /\ pc \in {"line", "jump"} /\ UNCHANGED <<quit, exit_code, left, unread>>
          /\ Return(e)
      BY <2>5 DEF EndFile, leave
    <3>2. e \in Int /\ e <= 0
      BY DEF RulesTypeOK
    <3>3. quit => e = -exit_code \/ (exit_code = 0 /\ unread)
      BY <3>1 DEF AfterExit, RulesTypeOK
    <3> HIDE DEF e
    <3>4. QED
      BY <3>1, <3>2, <3>3, ReturnKeeps DEF RulesTypeOK
  <2>6. CASE ReadLine \/ EndLine
    BY <2>6, SameEnds DEF ReadLine, EndLine, cards, leave, RulesTypeOK, AfterExit,
                          Reported, FirstError
  <2>7. CASE Rule
    BY <2>7, RuleKeeps, ElemAssumption, BoundAssumption
  <2>8. CASE UNCHANGED vars
    BY <2>8, SameEnds DEF vars, cards, leave, RulesTypeOK, AfterExit, Reported, FirstError
  <2>9. QED
    BY <2>1, <2>2, <2>3, <2>4, <2>5, <2>6, <2>7, <2>8 DEF Next
<1>3. QED
  BY <1>1, <1>2, PTL DEF Spec

\* A card whose rules say EXIT ends with that code, and the program reports an
\* error exactly when some card had one, and one that it had (init in init_parse.c).
THEOREM EveryCardEndsAsTold == Spec => []EndsAsTold
<1>1. RulesInv => EndsAsTold
  BY DEF RulesInv, Told, Reported, Errors, EndsAsTold
<1>2. QED
  BY <1>1, RulesInvariant, PTL

\* No key is looked at after EXIT, at whatever depth of files it is.
THEOREM NothingAfterExit == Spec => ExitIsLast
<1>1. RulesInv /\ [Next]_vars => (quit /\ pc # "card" => UNCHANGED <<keys, elem>>)
  <2> SUFFICES ASSUME RulesInv, [Next]_vars, quit, pc # "card"
               PROVE  UNCHANGED <<keys, elem>>
    OBVIOUS
  <2>1. CASE UNCHANGED vars
    BY <2>1 DEF vars
  <2>2. CASE Rule
    BY <2>2, RuleKeeps, ElemAssumption, BoundAssumption
  <2>3. QED
    BY <2>1, <2>2
       DEF Next, SkipCard, StartCard, Finish, Open, EndFile, ReadLine, EndLine
<1>2. QED
  BY <1>1, RulesInvariant, PTL DEF Spec, ExitIsLast

-----------------------------------------------------------------------------
(***************************************************************************)
(* The events of a watched card (CardEvents, daemon.c), an instance of its *)
(* own in which elems is its elem: what the daemon remembers of the        *)
(* elements is right or about to be corrected, and no change of a writable *)
(* element goes unnoticed, for any number of elements, numids and queued   *)
(* events.                                                                 *)
(***************************************************************************)

CONSTANT Ids
VARIABLES elems, lastnum, queue, whitelist, blacklist, ev, res, must

C == INSTANCE CardEvents WITH elem <- elems

Event == [id : Ids, numid : Nat \ {0}, mask : C!Masks]
Lists == Seq(Ids \cup {C!Null})

CardTypeOK ==
    /\ elems \in [Ids -> [numid : Nat, writable : BOOLEAN]]
    /\ lastnum \in Nat
    /\ queue \in Seq(Event) /\ ev \in Event \cup {C!Null}
    /\ whitelist \in Lists /\ blacklist \in Lists
    /\ res \in BOOLEAN /\ must \in SUBSET Ids

\* a numid is given out once, and its events are about the element that has it
Numbered ==
    /\ \A x \in Ids : elems[x].numid <= lastnum
    /\ \A x, y \in Ids : elems[x].numid = elems[y].numid /\ C!Exists(x) => x = y
    /\ \A i \in DOMAIN queue :
          /\ queue[i].numid <= lastnum
          /\ \A x \in Ids : queue[i].numid = elems[x].numid =>
                                queue[i].id = x /\ "REMOVE" \notin queue[i].mask
          /\ C!Exists(queue[i].id) => queue[i].numid <= elems[queue[i].id].numid

\* the events about an earlier element of the same identity come first
Ordered ==
    \A i, j \in DOMAIN queue :
        i < j /\ queue[i].id = queue[j].id => queue[i].numid < queue[j].numid

Announces(e, id) == e # C!Null /\ e.id = id /\ e.mask \cap {"INFO", "REMOVE"} # {}
Reports(e, id) == e # C!Null /\ e.id = id /\ e.numid = elems[id].numid /\ "CHANGE" \in e.mask

\* an event will make card_events say that id has changed: when its turn comes,
\* the blacklist does not hold id
WillTell(id) ==
    \/ Reports(ev, id) /\ (C!InList(blacklist, id) => Announces(ev, id))
    \/ \E i \in DOMAIN queue :
          /\ Reports(queue[i], id)
          /\ \/ ~C!InList(blacklist, id)
             \/ Announces(ev, id)
             \/ \E j \in DOMAIN queue : j <= i /\ Announces(queue[j], id)

Noticed == \A id \in must : C!Writable(id) /\ (res \/ WillTell(id))

CardInv == CardTypeOK /\ Numbered /\ Ordered /\ C!CacheIsExplained /\ Noticed

-----------------------------------------------------------------------------
LEMMA EventIsNotNull == \A e \in Event : e # C!Null
<1> SUFFICES ASSUME NEW e \in Event, e = C!Null PROVE FALSE
  OBVIOUS
<1>1. DOMAIN e = {"id", "numid", "mask"}
  BY DEF Event
<1>2. DOMAIN e = {"null"}
  BY DEF C!Null
<1>3. QED
  BY <1>1, <1>2

\* Only what REMOVE is merged with is lost.
LEMMA MergedMask ==
    ASSUME NEW m1 \in C!Masks, NEW m2 \in C!Masks
    PROVE  /\ C!Merged(m1, m2) \in C!Masks
           /\ "REMOVE" \in C!Merged(m1, m2) <=> "REMOVE" \in m1 \/ "REMOVE" \in m2
           /\ "REMOVE" \notin C!Merged(m1, m2) => C!Merged(m1, m2) = m1 \cup m2
<1>1. CASE "REMOVE" \in m1 \cup m2
  BY <1>1 DEF C!Merged, C!Masks
<1>2. CASE "REMOVE" \notin m1 \cup m2
  <2>1. C!Merged(m1, m2) = m1 \cup m2
    BY <1>2 DEF C!Merged
  <2>2. m1 \in {{"CHANGE"}, {"INFO"}, {"CHANGE", "INFO"}}
    BY <1>2 DEF C!Masks
  <2>3. m2 \in {{"CHANGE"}, {"INFO"}, {"CHANGE", "INFO"}}
    BY <1>2 DEF C!Masks
  <2>4. m1 \cup m2 \in {{"CHANGE"}, {"INFO"}, {"CHANGE", "INFO"}}
    BY <2>2, <2>3
  <2>5. QED
    BY <1>2, <2>1, <2>4 DEF C!Masks
<1>3. QED
  BY <1>1, <1>2

\* Notify adds an event at the end or merges the mask into the one there is.
Notified(id, n, mask) ==
    /\ DOMAIN queue \subseteq DOMAIN queue'
    /\ \A i \in DOMAIN queue :
          /\ queue'[i].id = queue[i].id /\ queue'[i].numid = queue[i].numid
          /\ queue[i].numid # n => queue'[i] = queue[i]
          /\ queue[i].numid = n => queue'[i].mask = C!Merged(queue[i].mask, mask)
    /\ \A i \in DOMAIN queue' : i \notin DOMAIN queue =>
          /\ queue'[i].id = id /\ queue'[i].numid = n /\ queue'[i].mask = mask
          /\ i = Len(queue) + 1
          /\ \A j \in DOMAIN queue : j < i /\ queue[j].numid # n
    /\ \E i \in DOMAIN queue' : queue'[i].numid = n

LEMMA NotifyKeeps ==
    ASSUME queue \in Seq(Event), NEW id \in Ids, NEW n \in Nat \ {0}, NEW mask \in C!Masks,
           C!Notify(id, n, mask)
    PROVE  queue' \in Seq(Event) /\ Notified(id, n, mask)
<1> DEFINE queued == {i \in DOMAIN queue : queue[i].numid = n}
           new == [id |-> id, numid |-> n, mask |-> mask]
<1>1. new \in Event
  BY DEF Event
<1>2. CASE queued = {}
  <2>1. queue' = Append(queue, new)
    BY <1>2 DEF C!Notify
  <2>2. /\ queue' \in Seq(Event) /\ DOMAIN queue = 1 .. Len(queue)
        /\ DOMAIN queue' = 1 .. Len(queue) + 1 /\ Len(queue) \in Nat
        /\ \A i \in 1 .. Len(queue) : queue'[i] = queue[i]
        /\ queue'[Len(queue) + 1] = new
    BY <1>1, <2>1
  <2>3. \A i \in DOMAIN queue : queue[i].numid # n
    BY <1>2
  <2>4. new.id = id /\ new.numid = n /\ new.mask = mask /\ Len(queue) + 1 \in DOMAIN queue'
    BY <2>2
  <2> HIDE DEF queued, new
  <2>5. QED
    BY <2>2, <2>3, <2>4 DEF Notified
<1>3. CASE queued # {}
  <2>1. queue' = [i \in DOMAIN queue |->
                     IF i \in queued THEN [queue[i] EXCEPT !.mask = C!Merged(@, mask)]
                     ELSE queue[i]]
    BY <1>3 DEF C!Notify
  <2>2. DOMAIN queue = 1 .. Len(queue) /\ Len(queue) \in Nat
        /\ \A i \in DOMAIN queue : queue[i] \in Event
    OBVIOUS
  <2>3. DOMAIN queue' = DOMAIN queue
    BY <2>1
  <2>4. ASSUME NEW i \in DOMAIN queue, i \in queued
        PROVE  /\ queue'[i] \in Event
               /\ queue'[i].id = queue[i].id /\ queue'[i].numid = n
               /\ queue'[i].mask = C!Merged(queue[i].mask, mask)
    <3>1. queue'[i] = [queue[i] EXCEPT !.mask = C!Merged(queue[i].mask, mask)]
      BY <2>1, <2>4
    <3>2. C!Merged(queue[i].mask, mask) \in C!Masks
      BY <2>2, MergedMask DEF Event
    <3>3. queue[i].numid = n
      BY <2>4
    <3>4. QED
      BY <2>2, <3>1, <3>2, <3>3 DEF Event
  <2>5. ASSUME NEW i \in DOMAIN queue, i \notin queued
        PROVE  queue'[i] = queue[i] /\ queue[i].numid # n
    BY <2>1, <2>5
  <2>6. \A i \in 1 .. Len(queue) : queue'[i] \in Event
    BY <2>2, <2>4, <2>5
  <2>7. queue' \in Seq(Event)
    <3>1. queue' \in [1 .. Len(queue) -> Event]
      BY <2>1, <2>2, <2>3, <2>6
    <3>2. QED
      BY <3>1, <2>2
  <2>8. \E i \in DOMAIN queue' : queue'[i].numid = n
    BY <1>3, <2>3, <2>4
  <2>9. \A i \in DOMAIN queue : i \in queued => queue[i].numid = n
    OBVIOUS
  <2> HIDE DEF queued
  <2>10. QED
    BY <2>3, <2>4, <2>5, <2>7, <2>8, <2>9 DEF Notified
<1>4. QED
  BY <1>2, <1>3

\* The lists hold what was in them, and what is added to them.
LEMMA ListsHold ==
    ASSUME C!Null \notin Ids, NEW list \in Lists, NEW id \in Ids
    PROVE  /\ C!RemoveFromList(list, id) \in Lists /\ C!AddToList(list, id) \in Lists
           /\ ~C!InList(C!RemoveFromList(list, id), id)
           /\ \A x \in Ids : C!InList(C!RemoveFromList(list, id), x) => C!InList(list, x)
           /\ \A x \in Ids : C!InList(C!AddToList(list, id), x) => C!InList(list, x) \/ x = id
<1> DEFINE removed == C!RemoveFromList(list, id)
           put(k) == [list EXCEPT ![k] = id]
<1>1. list \in [1 .. Len(list) -> Ids \cup {C!Null}] /\ Len(list) \in Nat
      /\ DOMAIN list = 1 .. Len(list)
  BY DEF Lists
<1>2. /\ removed \in Lists /\ DOMAIN removed = DOMAIN list
      /\ \A i \in DOMAIN list : removed[i] = IF list[i] = id THEN C!Null ELSE list[i]
  <2>1. removed = [i \in 1 .. Len(list) |-> IF list[i] = id THEN C!Null ELSE list[i]]
    BY <1>1 DEF C!RemoveFromList
  <2>2. removed \in [1 .. Len(list) -> Ids \cup {C!Null}]
    BY <1>1, <2>1
  <2>3. QED
    BY <1>1, <2>1, <2>2 DEF Lists
<1>3. ~C!InList(removed, id) /\ \A x \in Ids : C!InList(removed, x) => C!InList(list, x)
  <2> HIDE DEF removed
  <2> QED
    BY <1>1, <1>2 DEF C!InList
<1>4. ASSUME NEW k
      PROVE  put(k) \in Lists /\ \A x \in Ids : C!InList(put(k), x) => C!InList(list, x) \/ x = id
  <2>1. /\ put(k) \in [1 .. Len(list) -> Ids \cup {C!Null}]
        /\ \A i \in DOMAIN list : put(k)[i] = id \/ put(k)[i] = list[i]
        /\ DOMAIN put(k) = DOMAIN list
    BY <1>1
  <2>2. put(k) \in Lists
    BY <1>1, <2>1 DEF Lists
  <2> HIDE DEF put
  <2>3. QED
    BY <2>1, <2>2 DEF C!InList
<1>5. /\ Append(list, id) \in Lists
      /\ \A x \in Ids : C!InList(Append(list, id), x) => C!InList(list, x) \/ x = id
  <2>1. /\ Append(list, id) \in Lists /\ DOMAIN Append(list, id) = 1 .. Len(list) + 1
        /\ \A i \in 1 .. Len(list) : Append(list, id)[i] = list[i]
        /\ Append(list, id)[Len(list) + 1] = id
    BY <1>1 DEF Lists
  <2>2. ASSUME NEW x \in Ids, NEW i \in 1 .. Len(list) + 1, Append(list, id)[i] = x
        PROVE  C!InList(list, x) \/ x = id
    <3>1. CASE i \in 1 .. Len(list)
      BY <1>1, <2>1, <2>2, <3>1 DEF C!InList
    <3>2. CASE i = Len(list) + 1
      BY <2>1, <2>2, <3>2
    <3>3. QED
      BY <1>1, <3>1, <3>2
  <2>3. QED
    BY <2>1, <2>2 DEF C!InList
<1>6. C!AddToList(list, id) = Append(list, id) \/ \E k : C!AddToList(list, id) = put(k)
  BY DEF C!AddToList
<1>7. QED
  <2> HIDE DEF put
  <2> QED
    BY <1>2, <1>3, <1>4, <1>5, <1>6

-----------------------------------------------------------------------------
\* Notify keeps the events of an identity in the order of their numids.
LEMMA NotifyOrder ==
    ASSUME CardTypeOK, Numbered, Ordered,
           NEW id \in Ids, NEW mask \in C!Masks, NEW n \in Nat \ {0}, C!Notify(id, n, mask),
           elems[id].numid = n \/ (~C!Exists(id) /\ n = lastnum + 1)
    PROVE  /\ Ordered'
           /\ \A i \in DOMAIN queue' : queue'[i].numid = n => queue'[i].id = id
<1>n. queue' \in Seq(Event) /\ Notified(id, n, mask)
  BY NotifyKeeps DEF CardTypeOK
<1>1. queue \in Seq(Event) /\ lastnum \in Nat /\ \A x \in Ids : elems[x].numid \in Nat
  BY DEF CardTypeOK
<1>2. /\ \A i \in DOMAIN queue : queue[i].numid \in Nat \ {0} /\ i \in Nat
      /\ DOMAIN queue = 1 .. Len(queue) /\ Len(queue) \in Nat
  <2>1. \A i \in DOMAIN queue : queue[i] \in Event
    BY <1>1
  <2>2. QED
    BY <1>1, <2>1 DEF Event
<1>3. \A i \in DOMAIN queue : queue[i].id = id => queue[i].numid =< n
  BY <1>1, <1>2 DEF Numbered, C!Exists
<1>4. \A i \in DOMAIN queue : queue[i].numid = n => queue[i].id = id
  BY <1>1, <1>2 DEF Numbered, C!Exists
<1>5. Ordered'
  <2> SUFFICES ASSUME NEW i \in DOMAIN queue', NEW j \in DOMAIN queue',
                      i < j, queue'[i].id = queue'[j].id
               PROVE  queue'[i].numid < queue'[j].numid
    BY DEF Ordered
  <2>1. CASE i \in DOMAIN queue /\ j \in DOMAIN queue
    BY <1>1, <2>1, <1>n DEF Ordered, Notified
  <2>2. CASE i \in DOMAIN queue /\ j \notin DOMAIN queue
    <3>1. queue'[j].id = id /\ queue'[j].numid = n /\ queue[i].numid # n
      BY <1>1, <2>2, <1>n DEF Notified
    <3>2. queue[i].id = id /\ queue'[i].numid = queue[i].numid
      BY <1>1, <2>2, <3>1, <1>n DEF Notified
    <3>3. QED
      BY <1>2, <1>3, <2>2, <3>1, <3>2
  <2>3. CASE i \notin DOMAIN queue
    <3>1. i = Len(queue) + 1 /\ (j \in DOMAIN queue => j < i) /\ (j \notin DOMAIN queue => j = i)
      BY <1>1, <1>2, <2>3, <1>n DEF Notified
    <3>2. QED
      BY <1>2, <3>1
  <2>4. QED
    BY <2>1, <2>2, <2>3
<1>6. \A i \in DOMAIN queue' : queue'[i].numid = n => queue'[i].id = id
  <2> TAKE i \in DOMAIN queue'
  <2>1. CASE i \in DOMAIN queue
    <3>1. queue'[i].id = queue[i].id /\ queue'[i].numid = queue[i].numid
      BY <1>1, <2>1, <1>n DEF Notified
    <3>2. QED
      BY <1>4, <2>1, <3>1
  <2>2. CASE i \notin DOMAIN queue
    BY <1>1, <2>2, <1>n DEF Notified
  <2>3. QED
    BY <2>1, <2>2
<1>7. QED
  BY <1>5, <1>6

\* Notify takes no announcement away, and tells what mask asks for.
LEMMA NotifyAnnounces ==
    ASSUME CardTypeOK, UNCHANGED ev,
           NEW id \in Ids, NEW mask \in C!Masks, NEW n \in Nat \ {0}, C!Notify(id, n, mask),
           \A i \in DOMAIN queue' : queue'[i].numid = n => queue'[i].id = id
    PROVE  /\ \A x \in Ids : C!Announced(x) => C!Announced(x)'
           /\ mask \in {{"INFO"}, {"REMOVE"}} => C!Announced(id)'
<1>1. queue' \in Seq(Event) /\ Notified(id, n, mask)
  BY NotifyKeeps DEF CardTypeOK
<1>2. ASSUME NEW x, NEW i \in DOMAIN queue', queue'[i].id = x,
             queue'[i].mask \cap {"INFO", "REMOVE"} # {}
      PROVE  C!Announced(x)'
  BY <1>2 DEF C!Announced
<1>3. ASSUME NEW x, NEW i \in DOMAIN queue, queue[i].id = x,
             queue[i].mask \cap {"INFO", "REMOVE"} # {}
      PROVE  C!Announced(x)'
  <2>1. i \in DOMAIN queue' /\ queue'[i].id = queue[i].id
    BY <1>1 DEF Notified
  <2>2. queue'[i].mask \cap {"INFO", "REMOVE"} # {}
    <3>1. CASE queue[i].numid # n
      BY <1>1, <1>3, <3>1 DEF Notified
    <3>2. CASE queue[i].numid = n
      <4>1. queue'[i].mask = C!Merged(queue[i].mask, mask)
        BY <1>1, <1>3, <3>2 DEF Notified
      <4>2. QED
        BY <1>3, <4>1 DEF C!Merged
    <3>3. QED
      BY <3>1, <3>2
  <2>3. QED
    BY <1>2, <1>3, <2>1, <2>2
<1>4. \A x \in Ids : C!Announced(x) => C!Announced(x)'
  <2> TAKE x \in Ids
  <2>1. CASE \E e \in {ev} \ {C!Null} : e.id = x /\ e.mask \cap {"INFO", "REMOVE"} # {}
    BY <2>1 DEF C!Announced
  <2>2. CASE \E i \in DOMAIN queue : queue[i].id = x /\ queue[i].mask \cap {"INFO", "REMOVE"} # {}
    BY <1>3, <2>2
  <2>3. QED
    BY <2>1, <2>2 DEF C!Announced
<1>5. mask \in {{"INFO"}, {"REMOVE"}} => C!Announced(id)'
  <2> HAVE mask \in {{"INFO"}, {"REMOVE"}}
  <2>1. PICK i \in DOMAIN queue' : queue'[i].numid = n
    BY <1>1 DEF Notified
  <2>2. queue'[i].mask \cap {"INFO", "REMOVE"} # {}
    <3>1. CASE i \in DOMAIN queue
      <4>1. queue'[i].mask = C!Merged(queue[i].mask, mask)
        BY <1>1, <2>1, <3>1 DEF Notified
      <4>2. QED
        BY <4>1 DEF C!Merged
    <3>2. CASE i \notin DOMAIN queue
      BY <1>1, <3>2 DEF Notified
    <3>3. QED
      BY <3>1, <3>2
  <2>3. QED
    BY <1>2, <2>1, <2>2
<1>6. QED
  BY <1>4, <1>5

\* What was to be told of an element is still told, unless Notify removes it.
LEMMA NotifyTells ==
    ASSUME CardTypeOK, UNCHANGED <<ev, blacklist>>,
           NEW id \in Ids, NEW mask \in C!Masks, NEW n \in Nat \ {0}, C!Notify(id, n, mask),
           NEW x \in Ids, WillTell(x), elems'[x].numid = elems[x].numid,
           elems[x].numid = n => mask # {"REMOVE"} /\
               \A i \in DOMAIN queue : queue[i].numid = n => "REMOVE" \notin queue[i].mask
    PROVE  WillTell(x)'
<1>1. queue' \in Seq(Event) /\ Notified(id, n, mask)
  BY NotifyKeeps DEF CardTypeOK
<1>2. \A i \in DOMAIN queue' : queue'[i] # C!Null
  <2>1. queue' \in Seq(Event)
    BY <1>1
  <2>2. \A i \in DOMAIN queue' : queue'[i] \in Event
    BY <2>1
  <2>3. QED
    BY <2>2, EventIsNotNull
<1>3. CASE Reports(ev, x) /\ (C!InList(blacklist, x) => Announces(ev, x))
  BY <1>3 DEF WillTell, Reports, Announces, C!InList
<1>4. ASSUME NEW i \in DOMAIN queue, Reports(queue[i], x),
             \/ ~C!InList(blacklist, x)
             \/ Announces(ev, x)
             \/ \E j \in DOMAIN queue : j =< i /\ Announces(queue[j], x)
      PROVE  WillTell(x)'
  <2>1. i \in DOMAIN queue' /\ Reports(queue[i], x)'
    <3>1. CASE queue[i].numid # n
      BY <1>1, <1>2, <1>4, <3>1 DEF Reports, Notified
    <3>2. CASE queue[i].numid = n
      <4>1. i \in DOMAIN queue' /\ queue'[i].id = queue[i].id /\ queue'[i].numid = queue[i].numid
            /\ queue'[i].mask = C!Merged(queue[i].mask, mask)
        BY <1>1, <3>2 DEF Notified
      <4>2. mask # {"REMOVE"} /\ "REMOVE" \notin queue[i].mask /\ elems[x].numid = n
        BY <1>4, <3>2 DEF Reports
      <4>3. "REMOVE" \notin mask
        BY <4>2 DEF C!Masks
      <4>4. "CHANGE" \in C!Merged(queue[i].mask, mask)
        BY <1>4, <4>2, <4>3 DEF C!Merged, Reports
      <4>5. QED
        BY <1>2, <1>4, <4>1, <4>4 DEF Reports
    <3>3. QED
      BY <3>1, <3>2
  <2>2. ASSUME NEW j \in DOMAIN queue, j =< i, Announces(queue[j], x)
        PROVE  j \in DOMAIN queue' /\ Announces(queue[j], x)'
    <3>1. CASE queue[j].numid # n
      BY <1>1, <2>2, <3>1 DEF Notified
    <3>2. CASE queue[j].numid = n
      <4>1. j \in DOMAIN queue' /\ queue'[j].id = queue[j].id
            /\ queue'[j].mask = C!Merged(queue[j].mask, mask)
        BY <1>1, <3>2 DEF Notified
      <4>2. QED
        BY <1>2, <2>2, <4>1 DEF Announces, C!Merged
    <3>3. QED
      BY <3>1, <3>2
  <2>3. CASE ~C!InList(blacklist, x) \/ Announces(ev, x)
    BY <2>1, <2>3 DEF WillTell, C!InList, Announces
  <2>4. CASE \E j \in DOMAIN queue : j =< i /\ Announces(queue[j], x)
    <3>1. PICK j \in DOMAIN queue : j =< i /\ Announces(queue[j], x)
      BY <2>4
    <3>2. j \in DOMAIN queue' /\ Announces(queue[j], x)'
      BY <2>2, <3>1
    <3>3. QED
      BY <2>1, <3>1, <3>2 DEF WillTell
  <2>5. QED
    BY <1>4, <2>3, <2>4
<1>5. QED
  BY <1>3, <1>4 DEF WillTell

-----------------------------------------------------------------------------
\* Announced, with the place of the event.
LEMMA AnnouncedWhere ==
    \A x : C!Announced(x) <=> Announces(ev, x) \/ \E i \in DOMAIN queue :
                                queue[i].id = x /\ queue[i].mask \cap {"INFO", "REMOVE"} # {}
BY DEF C!Announced, Announces

LEMMA QueuedEvents == ASSUME CardTypeOK
                      PROVE  \A i \in DOMAIN queue :
                                /\ i \in Nat /\ queue[i] # C!Null /\ queue[i].id \in Ids
                                /\ queue[i].numid \in Nat \ {0} /\ queue[i].mask \in C!Masks
<1>1. \A i \in DOMAIN queue : queue[i] \in Event /\ i \in Nat
  BY DEF CardTypeOK
<1>2. QED
  BY <1>1, EventIsNotNull DEF Event

\* What was announced before the event of n is announced before it after Notify.
LEMMA NotifyAnnouncesAt ==
    ASSUME CardTypeOK, CardTypeOK', NEW id, NEW n, NEW mask, Notified(id, n, mask),
           NEW x, NEW i \in DOMAIN queue, Announces(queue[i], x)
    PROVE  i \in DOMAIN queue' /\ Announces(queue[i], x)'
<1>1. i \in DOMAIN queue' /\ queue'[i].id = x
  BY DEF Announces, Notified
<1>2. queue'[i] # C!Null
  <2>1. queue' \in Seq(Event)
    BY DEF CardTypeOK
  <2>2. queue'[i] \in Event
    BY <1>1, <2>1
  <2>3. QED
    BY <2>2, EventIsNotNull
<1>3. queue'[i].mask \cap {"INFO", "REMOVE"} # {}
  <2>1. CASE queue[i].numid # n
    BY <2>1 DEF Announces, Notified
  <2>2. CASE queue[i].numid = n
    BY <2>2 DEF Announces, Notified, C!Merged
  <2>3. QED
    BY <2>1, <2>2
<1>4. QED
  BY <1>1, <1>2, <1>3 DEF Announces

-----------------------------------------------------------------------------
\* A new element: its events will come after all that is queued.
LEMMA AddKeeps ==
    ASSUME CardInv, NEW id \in Ids, C!AddElement(id) PROVE CardInv'
<1> DEFINE n == lastnum + 1
<1>1. PICK w \in BOOLEAN :
          /\ elems' = [elems EXCEPT ![id] = [numid |-> n, writable |-> w]]
          /\ must' = IF w THEN must \cup {id} ELSE must
  BY DEF C!AddElement
<1>2. /\ ~C!Exists(id) /\ lastnum' = n /\ C!Notify(id, n, {"CHANGE"})
      /\ UNCHANGED <<whitelist, blacklist, ev, res>>
  BY DEF C!AddElement, C!lists
<1>3. n \in Nat \ {0} /\ {"CHANGE"} \in C!Masks /\ lastnum \in Nat
  BY DEF CardInv, CardTypeOK, C!Masks
<1>4. queue' \in Seq(Event) /\ Notified(id, n, {"CHANGE"})
  BY <1>2, <1>3, NotifyKeeps DEF CardInv, CardTypeOK
<1>5. /\ \A x \in Ids : x # id => elems'[x] = elems[x]
      /\ elems'[id].numid = n /\ elems'[id].writable = w
      /\ \A x \in Ids : elems[x].numid \in Nat /\ elems[x].numid =< lastnum
  BY <1>1 DEF CardInv, CardTypeOK, Numbered
<1>6. CardTypeOK'
  <2>1. elems' \in [Ids -> [numid : Nat, writable : BOOLEAN]]
    BY <1>1, <1>3 DEF CardInv, CardTypeOK
  <2>2. QED
    BY <1>1, <1>2, <1>3, <1>4, <2>1 DEF CardInv, CardTypeOK
<1>7. Ordered' /\ \A i \in DOMAIN queue' : queue'[i].numid = n => queue'[i].id = id
  BY <1>2, <1>3, NotifyOrder DEF CardInv
<1>8. \A i \in DOMAIN queue : queue[i].numid =< lastnum /\ queue[i].numid \in Nat \ {0}
  BY QueuedEvents DEF CardInv, Numbered
<1>9. \A i \in DOMAIN queue : i \in DOMAIN queue' /\ queue'[i] = queue[i]
  BY <1>3, <1>4, <1>8 DEF Notified
<1> HIDE DEF n
<1>10. n > lastnum
  BY <1>3 DEF n
<1>11. Numbered'
  <2>1. \A x \in Ids : elems'[x].numid =< lastnum'
    BY <1>2, <1>3, <1>5, <1>10
  <2>2. \A x, y \in Ids : elems'[x].numid = elems'[y].numid /\ C!Exists(x)' => x = y
    BY <1>3, <1>5, <1>10 DEF CardInv, Numbered, C!Exists
  <2>3. ASSUME NEW i \in DOMAIN queue'
        PROVE  /\ queue'[i].numid =< lastnum'
               /\ \A x \in Ids : queue'[i].numid = elems'[x].numid =>
                                queue'[i].id = x /\ "REMOVE" \notin queue'[i].mask
               /\ elems'[queue'[i].id].numid # 0 => queue'[i].numid =< elems'[queue'[i].id].numid
    <3>1. CASE i \in DOMAIN queue
      <4>1. queue[i].id \in Ids
        BY <3>1, QueuedEvents DEF CardInv
      <4>2. QED
        BY <1>2, <1>3, <1>5, <1>8, <1>9, <1>10, <3>1, <4>1 DEF CardInv, Numbered, C!Exists
    <3>2. CASE i \notin DOMAIN queue
      BY <1>2, <1>3, <1>4, <1>5, <1>10, <3>2 DEF Notified
    <3>3. QED
      BY <3>1, <3>2
  <2>4. QED
    BY <2>1, <2>2, <2>3 DEF Numbered, C!Exists
<1>12. \A x \in Ids : C!Announced(x) => C!Announced(x)'
  BY <1>2, <1>3, <1>7, NotifyAnnounces DEF CardInv
<1>13. C!CacheIsExplained'
  <2> SUFFICES ASSUME NEW x \in Ids
               PROVE  /\ C!InList(whitelist, x) => C!Writable(x)' \/ C!Announced(x)'
                      /\ C!InList(blacklist, x) =>
                             (C!Exists(x)' /\ ~C!Writable(x)') \/ C!Announced(x)'
    BY <1>2 DEF C!CacheIsExplained, C!InList
  <2>1. CASE x = id
    BY <1>2, <1>12, <2>1 DEF CardInv, C!CacheIsExplained, C!Writable
  <2>2. CASE x # id
    BY <1>5, <1>12, <2>2 DEF CardInv, C!CacheIsExplained, C!Writable, C!Exists
  <2>3. QED
    BY <2>1, <2>2
<1>14. Noticed'
  <2> SUFFICES ASSUME NEW x \in must' PROVE C!Writable(x)' /\ (res \/ WillTell(x)')
    BY <1>2 DEF Noticed
  <2>1. CASE x \in must
    <3>1. C!Writable(x) /\ (res \/ WillTell(x)) /\ x \in Ids
      BY <2>1 DEF CardInv, Noticed, CardTypeOK
    <3>2. x # id /\ elems'[x] = elems[x]
      BY <1>2, <1>5, <3>1 DEF C!Writable
    <3>3. elems[x].numid # n
      BY <1>3, <1>5, <1>10, <3>1
    <3>4. WillTell(x) => WillTell(x)'
      BY <1>2, <1>3, <3>1, <3>2, <3>3, NotifyTells DEF CardInv
    <3>5. QED
      BY <3>1, <3>2, <3>4 DEF C!Writable, C!Exists
  <2>2. CASE x \notin must
    <3>1. x = id /\ w
      BY <1>1, <2>2
    <3>2. PICK i \in DOMAIN queue' : queue'[i].numid = n
      BY <1>4 DEF Notified
    <3>3. i \notin DOMAIN queue
      BY <1>3, <1>8, <1>9, <1>10, <3>2
    <3>4. queue'[i].id = id /\ queue'[i].mask = {"CHANGE"} /\ \A j \in DOMAIN queue : j < i
      BY <1>4, <3>3 DEF Notified
    <3>5. Reports(queue[i], id)'
      <4>1. queue'[i] # C!Null
        BY <1>4, <3>2, EventIsNotNull
      <4>2. QED
        BY <1>5, <3>2, <3>4, <4>1 DEF Reports
    <3>6. C!InList(blacklist, id) =>
               Announces(ev, id) \/ \E j \in DOMAIN queue : Announces(queue[j], id)
      <4>1. C!InList(blacklist, id) => C!Announced(id)
        BY <1>2 DEF CardInv, C!CacheIsExplained
      <4>2. QED
        BY <4>1, AnnouncedWhere, QueuedEvents DEF CardInv, Announces
    <3>7. \A j \in DOMAIN queue : Announces(queue[j], id) =>
              j \in DOMAIN queue' /\ j =< i /\ Announces(queue[j], id)'
      <4>1. i \in Nat /\ DOMAIN queue \subseteq Nat
        BY <1>4, <3>2 DEF CardInv, CardTypeOK
      <4>2. QED
        BY <1>9, <3>4, <4>1 DEF Announces
    <3>8. WillTell(id)'
      <4>1. C!InList(blacklist, id)' <=> C!InList(blacklist, id)
        BY <1>2 DEF C!InList
      <4>2. Announces(ev, id)' <=> Announces(ev, id)
        BY <1>2 DEF Announces
      <4>3. QED
        BY <3>2, <3>5, <3>6, <3>7, <4>1, <4>2 DEF WillTell
    <3>9. QED
      BY <1>3, <1>5, <3>1, <3>8 DEF C!Writable, C!Exists
  <2>3. QED
    BY <2>1, <2>2
<1>15. QED
  BY <1>6, <1>7, <1>11, <1>13, <1>14 DEF CardInv

\* An element that goes: what was remembered of it is announced to be wrong.
LEMMA RemoveKeeps ==
    ASSUME CardInv, NEW id \in Ids, C!RemoveElement(id) PROVE CardInv'
<1> DEFINE n == elems[id].numid
<1>1. /\ C!Exists(id) /\ elems' = [elems EXCEPT ![id].numid = 0] /\ must' = must \ {id}
      /\ C!Notify(id, n, {"REMOVE"}) /\ UNCHANGED <<lastnum, whitelist, blacklist, ev, res>>
  BY DEF C!RemoveElement, C!lists
<1>2. n \in Nat \ {0} /\ {"REMOVE"} \in C!Masks
  BY <1>1 DEF CardInv, CardTypeOK, C!Masks, C!Exists
<1>3. queue' \in Seq(Event) /\ Notified(id, n, {"REMOVE"})
  BY <1>1, <1>2, NotifyKeeps DEF CardInv, CardTypeOK
<1>4. /\ \A x \in Ids : x # id => elems'[x] = elems[x]
      /\ elems'[id].numid = 0
      /\ \A x \in Ids : elems[x].numid \in Nat /\ elems[x].numid =< lastnum
  BY <1>1 DEF CardInv, CardTypeOK, Numbered
<1>5. CardTypeOK'
  <2>1. elems' \in [Ids -> [numid : Nat, writable : BOOLEAN]]
    BY <1>1 DEF CardInv, CardTypeOK
  <2>2. QED
    BY <1>1, <1>3, <2>1 DEF CardInv, CardTypeOK
<1>6. Ordered' /\ \A i \in DOMAIN queue' : queue'[i].numid = n => queue'[i].id = id
  BY <1>1, <1>2, NotifyOrder DEF CardInv
<1>7. \A x \in Ids : x # id => elems[x].numid # n
  BY <1>1 DEF CardInv, Numbered
<1>8. \A i \in DOMAIN queue : queue[i].numid \in Nat \ {0} /\ queue[i].id \in Ids
  BY QueuedEvents DEF CardInv
<1> HIDE DEF n
<1>9. Numbered'
  <2>1. \A x \in Ids : elems'[x].numid =< lastnum'
    BY <1>1, <1>4 DEF CardInv, CardTypeOK
  <2>2. \A x, y \in Ids : elems'[x].numid = elems'[y].numid /\ C!Exists(x)' => x = y
    BY <1>4 DEF CardInv, Numbered, C!Exists
  <2>3. ASSUME NEW i \in DOMAIN queue'
        PROVE  /\ queue'[i].numid =< lastnum'
               /\ \A x \in Ids : queue'[i].numid = elems'[x].numid =>
                                queue'[i].id = x /\ "REMOVE" \notin queue'[i].mask
               /\ elems'[queue'[i].id].numid # 0 => queue'[i].numid =< elems'[queue'[i].id].numid
    <3>1. CASE i \in DOMAIN queue /\ queue[i].numid # n
      BY <1>1, <1>3, <1>4, <1>8, <3>1 DEF CardInv, Numbered, C!Exists, Notified
    <3>2. CASE i \in DOMAIN queue /\ queue[i].numid = n
      <4>1. queue'[i].numid = n /\ queue'[i].id = id
        BY <1>3, <1>6, <3>2 DEF Notified
      <4>2. QED
        BY <1>1, <1>2, <1>4, <1>7, <4>1 DEF n
    <3>3. CASE i \notin DOMAIN queue
      <4>1. queue'[i].numid = n /\ queue'[i].id = id
        BY <1>3, <3>3 DEF Notified
      <4>2. QED
        BY <1>1, <1>2, <1>4, <1>7, <4>1 DEF n
    <3>4. QED
      BY <3>1, <3>2, <3>3
  <2>4. QED
    BY <2>1, <2>2, <2>3 DEF Numbered, C!Exists
<1>10. /\ \A x \in Ids : C!Announced(x) => C!Announced(x)'
       /\ C!Announced(id)'
  BY <1>1, <1>2, <1>6, NotifyAnnounces DEF CardInv
<1>11. C!CacheIsExplained'
  <2> SUFFICES ASSUME NEW x \in Ids
               PROVE  /\ C!InList(whitelist, x) => C!Writable(x)' \/ C!Announced(x)'
                      /\ C!InList(blacklist, x) =>
                             (C!Exists(x)' /\ ~C!Writable(x)') \/ C!Announced(x)'
    BY <1>1 DEF C!CacheIsExplained, C!InList
  <2>1. CASE x = id
    BY <1>10, <2>1
  <2>2. CASE x # id
    BY <1>4, <1>10, <2>2 DEF CardInv, C!CacheIsExplained, C!Writable, C!Exists
  <2>3. QED
    BY <2>1, <2>2
<1>12. Noticed'
  <2> SUFFICES ASSUME NEW x \in must \ {id} PROVE C!Writable(x)' /\ (res \/ WillTell(x)')
    BY <1>1 DEF Noticed
  <2>1. C!Writable(x) /\ (res \/ WillTell(x)) /\ x \in Ids
    BY DEF CardInv, Noticed, CardTypeOK
  <2>2. elems'[x] = elems[x] /\ elems[x].numid # n
    BY <1>4, <1>7, <2>1
  <2>3. WillTell(x) => WillTell(x)'
    BY <1>1, <1>2, <2>1, <2>2, NotifyTells DEF CardInv
  <2>4. QED
    BY <2>1, <2>2, <2>3 DEF C!Writable, C!Exists
<1>13. QED
  BY <1>5, <1>6, <1>9, <1>11, <1>12 DEF CardInv

-----------------------------------------------------------------------------
\* An element that stays, with its numid: its value or its access changes.
LEMMA StayKeeps ==
    ASSUME CardInv, NEW id \in Ids, C!Exists(id), NEW mask \in {{"CHANGE"}, {"INFO"}},
           elems' \in [Ids -> [numid : Nat, writable : BOOLEAN]],
           \A x \in Ids : /\ elems'[x].numid = elems[x].numid
                          /\ x # id \/ mask = {"CHANGE"} => elems'[x] = elems[x],
           C!Notify(id, elems[id].numid, mask),
           must' \in SUBSET Ids,
           must' \subseteq IF mask = {"INFO"} THEN must \ {id}
                           ELSE IF C!Writable(id) THEN must \cup {id} ELSE must,
           UNCHANGED <<lastnum, whitelist, blacklist, ev, res>>
    PROVE  CardInv'
<1> DEFINE n == elems[id].numid
<1>1. n \in Nat \ {0} /\ mask \in C!Masks /\ mask # {"REMOVE"} /\ "REMOVE" \notin mask
  BY DEF CardInv, CardTypeOK, C!Masks, C!Exists
<1>2. queue' \in Seq(Event) /\ Notified(id, n, mask)
  BY <1>1, NotifyKeeps DEF CardInv, CardTypeOK
<1>3. CardTypeOK'
  BY <1>2 DEF CardInv, CardTypeOK
<1>4. Ordered' /\ \A i \in DOMAIN queue' : queue'[i].numid = n => queue'[i].id = id
  BY <1>1, NotifyOrder DEF CardInv
<1>5. \A x \in Ids : x # id => elems[x].numid # n
  BY DEF CardInv, Numbered
<1>6. \A i \in DOMAIN queue :
          /\ queue[i].numid \in Nat \ {0} /\ queue[i].id \in Ids /\ queue[i].mask \in C!Masks
          /\ queue[i].numid = n => "REMOVE" \notin queue[i].mask
  BY QueuedEvents DEF CardInv, Numbered
<1>7. \A i \in DOMAIN queue' : queue'[i].numid = n =>
          "REMOVE" \notin queue'[i].mask /\ mask \subseteq queue'[i].mask
  <2> TAKE i \in DOMAIN queue'
  <2> HAVE queue'[i].numid = n
  <2>1. CASE i \in DOMAIN queue
    <3>1. queue[i].numid = n /\ queue'[i].mask = C!Merged(queue[i].mask, mask)
      BY <1>2, <2>1 DEF Notified
    <3>2. QED
      BY <1>1, <1>6, <2>1, <3>1, MergedMask
  <2>2. CASE i \notin DOMAIN queue
    BY <1>1, <1>2, <2>2 DEF Notified
  <2>3. QED
    BY <2>1, <2>2
<1> HIDE DEF n
<1>8. n = elems[id].numid
  BY DEF n
<1>9. Numbered'
  <2>1. \A x \in Ids : elems'[x].numid =< lastnum'
    BY DEF CardInv, Numbered
  <2>2. \A x, y \in Ids : elems'[x].numid = elems'[y].numid /\ C!Exists(x)' => x = y
    BY DEF CardInv, Numbered, C!Exists
  <2>3. ASSUME NEW i \in DOMAIN queue'
        PROVE  /\ queue'[i].numid =< lastnum'
               /\ \A x \in Ids : queue'[i].numid = elems'[x].numid =>
                                queue'[i].id = x /\ "REMOVE" \notin queue'[i].mask
               /\ elems'[queue'[i].id].numid # 0 => queue'[i].numid =< elems'[queue'[i].id].numid
    <3>1. CASE queue'[i].numid # n
      <4>1. i \in DOMAIN queue /\ queue'[i] = queue[i]
        BY <1>2, <3>1 DEF Notified
      <4>2. QED
        BY <1>6, <4>1 DEF CardInv, Numbered, C!Exists
    <3>2. CASE queue'[i].numid = n
      <4>1. queue'[i].id = id /\ "REMOVE" \notin queue'[i].mask
        BY <1>4, <1>7, <3>2
      <4>2. n =< lastnum /\ n =< n
        BY <1>1, <1>8 DEF CardInv, Numbered
      <4>3. QED
        BY <1>5, <1>8, <3>2, <4>1, <4>2
    <3>3. QED
      BY <3>1, <3>2
  <2>4. QED
    BY <2>1, <2>2, <2>3 DEF Numbered, C!Exists
<1>10. /\ \A x \in Ids : C!Announced(x) => C!Announced(x)'
       /\ mask = {"INFO"} => C!Announced(id)'
  BY <1>1, <1>4, <1>8, NotifyAnnounces DEF CardInv
<1>11. C!CacheIsExplained'
  <2> SUFFICES ASSUME NEW x \in Ids
               PROVE  /\ C!InList(whitelist, x) => C!Writable(x)' \/ C!Announced(x)'
                      /\ C!InList(blacklist, x) =>
                             (C!Exists(x)' /\ ~C!Writable(x)') \/ C!Announced(x)'
    BY DEF C!CacheIsExplained, C!InList
  <2>1. CASE x = id /\ mask = {"INFO"}
    BY <1>10, <2>1
  <2>2. CASE x # id \/ mask = {"CHANGE"}
    BY <1>10, <2>2 DEF CardInv, C!CacheIsExplained, C!Writable, C!Exists
  <2>3. QED
    BY <2>1, <2>2
<1>12. ASSUME NEW x \in must, x # id \/ mask = {"CHANGE"}
       PROVE  C!Writable(x)' /\ (res \/ WillTell(x)')
  <2>1. C!Writable(x) /\ (res \/ WillTell(x)) /\ x \in Ids /\ elems'[x] = elems[x]
    BY <1>12 DEF CardInv, Noticed, CardTypeOK
  <2>2. WillTell(x) => WillTell(x)'
    BY <1>1, <1>6, <1>8, <2>1, NotifyTells DEF CardInv
  <2>3. QED
    BY <2>1, <2>2 DEF C!Writable, C!Exists
<1>13. ASSUME C!Writable(id), mask = {"CHANGE"}
       PROVE  C!Writable(id)' /\ WillTell(id)'
  <2>1. PICK i \in DOMAIN queue' : queue'[i].numid = n
    BY <1>2 DEF Notified
  <2>2. queue'[i] # C!Null /\ i \in Nat
    BY <1>2, EventIsNotNull
  <2>3. Reports(queue[i], id)'
    BY <1>4, <1>7, <1>8, <1>13, <2>1, <2>2 DEF Reports
  <2>4. \A j \in DOMAIN queue : Announces(queue[j], id) =>
            j \in DOMAIN queue' /\ j =< i /\ Announces(queue[j], id)'
    <3> SUFFICES ASSUME NEW j \in DOMAIN queue, Announces(queue[j], id)
                 PROVE  j \in DOMAIN queue' /\ j =< i /\ Announces(queue[j], id)'
      OBVIOUS
    <3>1. j \in DOMAIN queue' /\ Announces(queue[j], id)'
      BY <1>2, <1>3, NotifyAnnouncesAt DEF CardInv
    <3>2. j =< i
      <4>1. queue[j].numid =< n /\ j \in Nat /\ queue[j].id = id
        BY <1>8, QueuedEvents DEF CardInv, Numbered, Announces
      <4>2. CASE i \in DOMAIN queue
        <5>1. queue[i].numid = n /\ queue[i].id = id
          BY <1>2, <1>4, <2>1, <4>2 DEF Notified
        <5>2. ~(i < j)
          BY <1>1, <1>6, <4>1, <4>2, <5>1 DEF CardInv, Ordered
        <5>3. QED
          BY <2>2, <4>1, <5>2
      <4>3. CASE i \notin DOMAIN queue
        BY <1>2, <2>2, <4>1, <4>3 DEF Notified
      <4>4. QED
        BY <4>2, <4>3
    <3>3. QED
      BY <3>1, <3>2
  <2>5. C!InList(blacklist, id) =>
               Announces(ev, id) \/ \E j \in DOMAIN queue : Announces(queue[j], id)
    <3>1. C!InList(blacklist, id) => C!Announced(id)
      BY <1>13 DEF CardInv, C!CacheIsExplained
    <3>2. QED
      BY <3>1, AnnouncedWhere, QueuedEvents DEF CardInv, Announces
  <2>6. WillTell(id)'
    <3>1. C!InList(blacklist, id)' <=> C!InList(blacklist, id)
      BY DEF C!InList
    <3>2. Announces(ev, id)' <=> Announces(ev, id)
      BY DEF Announces
    <3>3. QED
      BY <2>1, <2>3, <2>4, <2>5, <3>1, <3>2 DEF WillTell
  <2>7. QED
    BY <1>13, <2>6 DEF C!Writable, C!Exists
<1>14. Noticed'
  <2> SUFFICES ASSUME NEW x \in must' PROVE C!Writable(x)' /\ (res \/ WillTell(x)')
    BY DEF Noticed
  <2>1. CASE x \in must /\ (x # id \/ mask = {"CHANGE"})
    BY <1>12, <2>1
  <2>2. CASE x = id /\ mask = {"CHANGE"} /\ C!Writable(id)
    BY <1>13, <2>2
  <2>3. QED
    BY <2>1, <2>2
<1>15. QED
  BY <1>3, <1>4, <1>9, <1>11, <1>14 DEF CardInv

-----------------------------------------------------------------------------
\* The first event of the queue becomes ev: nothing is lost or overtaken.
LEMMA ReadKeeps == ASSUME CardInv, C!Read PROVE CardInv'
<1>1. /\ ev = C!Null /\ queue # <<>> /\ ev' = Head(queue) /\ queue' = Tail(queue)
      /\ UNCHANGED <<elems, lastnum, whitelist, blacklist, res, must>>
  BY DEF C!Read, C!kernel, C!lists
<1>2. /\ queue \in Seq(Event) /\ DOMAIN queue = 1 .. Len(queue) /\ Len(queue) \in Nat \ {0}
      /\ queue' \in Seq(Event) /\ DOMAIN queue' = 1 .. Len(queue) - 1
      /\ \A i \in DOMAIN queue' : queue'[i] = queue[i + 1] /\ i + 1 \in DOMAIN queue
      /\ ev' = queue[1] /\ 1 \in DOMAIN queue
  BY <1>1 DEF CardInv, CardTypeOK
<1>3. \A i \in DOMAIN queue : queue[i] \in Event /\ queue[i] # C!Null
  BY <1>2, EventIsNotNull
<1>4. \A i \in DOMAIN queue : i = 1 \/ (i - 1 \in DOMAIN queue' /\ queue'[i - 1] = queue[i])
  BY <1>2
<1>5. CardTypeOK'
  BY <1>1, <1>2, <1>3 DEF CardInv, CardTypeOK
<1>6. Numbered'
  BY <1>1, <1>2 DEF CardInv, Numbered, C!Exists
<1>7. Ordered'
  <2> SUFFICES ASSUME NEW i \in DOMAIN queue', NEW j \in DOMAIN queue',
                      i < j, queue'[i].id = queue'[j].id
               PROVE  queue'[i].numid < queue'[j].numid
    BY DEF Ordered
  <2>1. i + 1 \in DOMAIN queue /\ j + 1 \in DOMAIN queue /\ i + 1 < j + 1
    BY <1>2
  <2>2. QED
    BY <1>2, <2>1 DEF CardInv, Ordered
<1>8. \A x : C!Announced(x) => C!Announced(x)'
  <2> SUFFICES ASSUME NEW i \in DOMAIN queue, NEW x,
                      queue[i].id = x, queue[i].mask \cap {"INFO", "REMOVE"} # {}
               PROVE  C!Announced(x)'
    BY <1>1 DEF C!Announced
  <2>1. CASE i = 1
    BY <1>2, <1>3, <2>1 DEF C!Announced
  <2>2. CASE i - 1 \in DOMAIN queue' /\ queue'[i - 1] = queue[i]
    BY <2>2 DEF C!Announced
  <2>3. QED
    BY <1>4, <2>1, <2>2
<1>9. C!CacheIsExplained'
  BY <1>1, <1>8 DEF CardInv, C!CacheIsExplained, C!InList, C!Writable, C!Exists
<1>10. Noticed'
  <2> SUFFICES ASSUME NEW x \in must, WillTell(x) PROVE WillTell(x)'
    BY <1>1 DEF CardInv, Noticed, C!Writable, C!Exists
  <2>1. PICK i \in DOMAIN queue :
            /\ Reports(queue[i], x)
            /\ \/ ~C!InList(blacklist, x)
               \/ \E j \in DOMAIN queue : j =< i /\ Announces(queue[j], x)
    BY <1>1 DEF WillTell, Reports, Announces
  <2>2. CASE i = 1
    <3>1. Reports(ev, x)'
      BY <1>1, <1>2, <2>1, <2>2 DEF Reports
    <3>2. \A j \in DOMAIN queue : j =< 1 => j = 1
      BY <1>2
    <3>3. C!InList(blacklist, x)' => Announces(ev, x)'
      BY <1>1, <1>2, <2>1, <2>2, <3>2 DEF C!InList, Announces
    <3>4. QED
      BY <3>1, <3>3 DEF WillTell
  <2>3. CASE i - 1 \in DOMAIN queue' /\ queue'[i - 1] = queue[i]
    <3>1. Reports(queue[i - 1], x)'
      BY <1>1, <2>1, <2>3 DEF Reports
    <3>2. CASE ~C!InList(blacklist, x)
      BY <1>1, <2>3, <3>1, <3>2 DEF WillTell, C!InList
    <3>3. ASSUME NEW j \in DOMAIN queue, j =< i, Announces(queue[j], x)
          PROVE  WillTell(x)'
      <4>1. CASE j = 1
        <5>1. Announces(ev, x)'
          BY <1>2, <3>3, <4>1 DEF Announces
        <5>2. QED
          BY <2>3, <3>1, <5>1 DEF WillTell
      <4>2. CASE j - 1 \in DOMAIN queue' /\ queue'[j - 1] = queue[j]
        <5>1. Announces(queue[j - 1], x)' /\ j - 1 =< i - 1
          BY <1>2, <3>3, <4>2 DEF Announces
        <5>2. QED
          BY <2>3, <3>1, <4>2, <5>1 DEF WillTell
      <4>3. QED
        BY <1>4, <4>1, <4>2
    <3>4. QED
      BY <2>1, <3>2, <3>3
  <2>4. QED
    BY <1>4, <2>2, <2>3
<1>11. QED
  BY <1>5, <1>6, <1>7, <1>9, <1>10 DEF CardInv

-----------------------------------------------------------------------------
\* What handling the event ev may do to the lists and to res.
Handled ==
    /\ \A x \in Ids : C!InList(whitelist, x)' =>
          \/ C!InList(whitelist, x) /\ ~Announces(ev, x)
          \/ C!Writable(x)
    /\ \A x \in Ids : C!InList(blacklist, x)' =>
          \/ C!InList(blacklist, x) /\ ~Announces(ev, x)
          \/ C!Exists(x) /\ ~C!Writable(x)
    /\ res => res'
    /\ \A x \in Ids : /\ C!Writable(x) /\ Reports(ev, x)
                      /\ C!InList(blacklist, x) => Announces(ev, x)
                      => res'

LEMMA HandledKeeps ==
    ASSUME CardInv, Handled, ev' = C!Null, whitelist' \in Lists, blacklist' \in Lists,
           res' \in BOOLEAN, UNCHANGED <<elems, lastnum, queue, must>>
    PROVE  CardInv'
<1>1. CardTypeOK' /\ Numbered' /\ Ordered'
  BY DEF CardInv, CardTypeOK, Numbered, Ordered, C!Exists
<1>2. \A x : C!Announced(x) => Announces(ev, x) \/ C!Announced(x)'
  BY DEF C!Announced, Announces
<1>3. C!CacheIsExplained'
  BY <1>2 DEF CardInv, C!CacheIsExplained, Handled, C!Writable, C!Exists
<1>4. Noticed'
  <2> SUFFICES ASSUME NEW x \in must PROVE C!Writable(x)' /\ (res' \/ WillTell(x)')
    BY DEF Noticed
  <2>0. x \in Ids /\ C!Writable(x) /\ (res \/ WillTell(x))
    BY DEF CardInv, Noticed, CardTypeOK
  <2> SUFFICES ASSUME ~res' PROVE WillTell(x)'
    BY <2>0 DEF C!Writable, C!Exists
  <2>1. x \in Ids /\ C!Writable(x) /\ WillTell(x)
    BY <2>0 DEF Handled
  <2>2. ~(Reports(ev, x) /\ (C!InList(blacklist, x) => Announces(ev, x)))
    BY <2>1 DEF Handled
  <2>3. PICK i \in DOMAIN queue :
          /\ Reports(queue[i], x)
          /\ \/ ~C!InList(blacklist, x)
             \/ Announces(ev, x)
             \/ \E j \in DOMAIN queue : j =< i /\ Announces(queue[j], x)
    BY <2>1, <2>2 DEF WillTell
  <2>4. Reports(queue[i], x)'
    BY <2>3 DEF Reports
  <2>5. ~C!InList(blacklist, x) \/ Announces(ev, x) => ~C!InList(blacklist, x)'
    BY <2>1 DEF Handled
  <2>6. \A j \in DOMAIN queue : Announces(queue[j], x) => Announces(queue[j], x)'
    BY DEF Announces
  <2>7. QED
    BY <2>3, <2>4, <2>5, <2>6 DEF WillTell
<1>5. QED
  BY <1>1, <1>3, <1>4 DEF CardInv

\* REMOVE and a lone INFO only make the lists forget.
LEMMA ForgetKeeps ==
    ASSUME C!Null \notin Ids, CardInv, C!HandleRemove \/ C!HandleInfo PROVE CardInv'
<1>1. /\ ev # C!Null /\ ev \in Event /\ ev.mask \in {{"REMOVE"}, {"INFO"}}
      /\ C!Forget(ev.id) /\ ev' = C!Null /\ UNCHANGED <<elems, lastnum, queue, res, must>>
  BY DEF C!HandleRemove, C!HandleInfo, CardInv, CardTypeOK, Event, C!Masks, C!kernel
<1>2. ev.id \in Ids /\ whitelist \in Lists /\ blacklist \in Lists /\ res \in BOOLEAN
  BY <1>1 DEF Event, CardInv, CardTypeOK
<1>3. /\ whitelist' = C!RemoveFromList(whitelist, ev.id) /\ whitelist' \in Lists
      /\ blacklist' = C!RemoveFromList(blacklist, ev.id) /\ blacklist' \in Lists
  BY <1>1, <1>2, ListsHold DEF C!Forget
<1>4. \A x \in Ids : /\ C!InList(whitelist', x) => C!InList(whitelist, x) /\ x # ev.id
                     /\ C!InList(blacklist', x) => C!InList(blacklist, x) /\ x # ev.id
  BY <1>2, <1>3, ListsHold
<1>5. \A x : ~Reports(ev, x) /\ (Announces(ev, x) => x = ev.id)
  BY <1>1 DEF Reports, Announces
<1>6. Handled
  BY <1>1, <1>4, <1>5 DEF Handled, C!InList
<1>7. QED
  BY <1>1, <1>2, <1>3, <1>6, HandledKeeps

\* A change is told of unless the element is known or found not to be writable.
LEMMA ChangeKeeps == ASSUME C!Null \notin Ids, CardInv, C!HandleChange PROVE CardInv'
<1> DEFINE id == ev.id
           num == ev.numid
           white == IF "INFO" \in ev.mask THEN C!RemoveFromList(whitelist, id) ELSE whitelist
           black == IF "INFO" \in ev.mask THEN C!RemoveFromList(blacklist, id) ELSE blacklist
<1>1. /\ ev # C!Null /\ ev \in Event /\ "CHANGE" \in ev.mask /\ "REMOVE" \notin ev.mask
      /\ C!CheckLists(white, black, id, num)
      /\ ev' = C!Null /\ UNCHANGED <<elems, lastnum, queue, must>>
  BY DEF C!HandleChange, CardInv, CardTypeOK, Event, C!Masks, C!kernel
<1>2. /\ id \in Ids /\ num \in Nat \ {0}
      /\ whitelist \in Lists /\ blacklist \in Lists /\ res \in BOOLEAN
  BY <1>1 DEF Event, CardInv, CardTypeOK
<1>3. white \in Lists /\ black \in Lists
  BY <1>2, ListsHold
<1>4. \A x \in Ids : /\ C!InList(white, x) => C!InList(whitelist, x) /\ ~Announces(ev, x)
                     /\ C!InList(black, x) => C!InList(blacklist, x) /\ ~Announces(ev, x)
  <2>1. \A x : Announces(ev, x) <=> x = id /\ "INFO" \in ev.mask
    BY <1>1 DEF Announces
  <2>2. CASE "INFO" \in ev.mask
    BY <1>2, <2>1, <2>2, ListsHold
  <2>3. CASE "INFO" \notin ev.mask
    BY <2>1, <2>3
  <2>4. QED
    BY <2>2, <2>3
<1>5. \A x \in Ids : Reports(ev, x) /\ (C!InList(blacklist, x) => Announces(ev, x)) =>
          x = id /\ elems[id].numid = num /\ ~C!InList(black, id)
  BY <1>4 DEF Reports
<1> HIDE DEF id, num, white, black
<1>6. /\ whitelist' \in Lists /\ blacklist' \in Lists /\ res' \in BOOLEAN /\ (res => res')
      /\ \A x \in Ids : C!InList(whitelist', x) =>
            C!InList(white, x) \/ (x = id /\ elems[id].numid = num /\ elems[id].writable)
      /\ \A x \in Ids : C!InList(blacklist', x) =>
            C!InList(black, x) \/ (x = id /\ elems[id].numid = num /\ ~elems[id].writable)
      /\ elems[id].numid = num /\ elems[id].writable /\ ~C!InList(black, id) => res'
  <2>1. /\ C!AddToList(white, id) \in Lists /\ C!AddToList(black, id) \in Lists
        /\ \A x \in Ids : C!InList(C!AddToList(white, id), x) => C!InList(white, x) \/ x = id
        /\ \A x \in Ids : C!InList(C!AddToList(black, id), x) => C!InList(black, x) \/ x = id
    BY <1>2, <1>3, ListsHold
  <2>2. CASE C!InList(black, id) /\ whitelist' = white /\ blacklist' = black /\ res' = res
    BY <1>2, <1>3, <2>2
  <2>3. CASE whitelist' = white /\ blacklist' = black /\ res' = TRUE
    BY <1>3, <2>3
  <2>4. CASE elems[id].numid # num /\ whitelist' = white /\ blacklist' = black /\ res' = res
    BY <1>2, <1>3, <2>4
  <2>5. CASE /\ elems[id].numid = num /\ elems[id].writable
             /\ whitelist' \in {C!AddToList(white, id), white}
             /\ blacklist' = black /\ res' = TRUE
    BY <1>3, <2>1, <2>5
  <2>6. CASE /\ elems[id].numid = num /\ ~elems[id].writable
             /\ blacklist' \in {C!AddToList(black, id), black}
             /\ whitelist' = white /\ res' = res
    <3>1. CASE blacklist' = C!AddToList(black, id)
      BY <1>2, <1>3, <2>1, <2>6, <3>1
    <3>2. CASE blacklist' = black
      BY <1>2, <1>3, <2>6, <3>2
    <3>3. QED
      BY <2>6, <3>1, <3>2
  <2>7. QED
    BY <1>1, <2>2, <2>3, <2>4, <2>5, <2>6 DEF C!CheckLists
<1>7. Handled
  BY <1>2, <1>4, <1>5, <1>6 DEF Handled, C!InList, C!Writable, C!Exists
<1>8. QED
  BY <1>1, <1>6, <1>7, HandledKeeps

-----------------------------------------------------------------------------
\* The result is given back when the queue is empty, so nothing is left to tell.
LEMMA ReturnTells == ASSUME CardInv, C!Return PROVE CardInv' /\ (res \/ must = {})
<1>1. ~\E x : WillTell(x)
  BY DEF C!Return, WillTell, Reports
<1>2. res \/ must = {}
  BY <1>1 DEF CardInv, Noticed
<1>3. CardTypeOK' /\ Numbered' /\ Ordered' /\ C!CacheIsExplained'
  <2>1. UNCHANGED <<elems, lastnum, queue, whitelist, blacklist, ev>> /\ res' = FALSE /\ must' = {}
    BY DEF C!Return, C!kernel, C!lists
  <2>2. CardTypeOK'
    BY <2>1 DEF CardInv, CardTypeOK
  <2>3. Numbered' /\ Ordered'
    BY <2>1 DEF CardInv, Numbered, Ordered, C!Exists
  <2>4. C!CacheIsExplained'
    BY <2>1 DEF CardInv, C!CacheIsExplained, C!InList, C!Writable, C!Exists, C!Announced
  <2>5. QED
    BY <2>2, <2>3, <2>4
<1>4. Noticed'
  BY DEF C!Return, Noticed
<1>5. QED
  BY <1>2, <1>3, <1>4 DEF CardInv

LEMMA Start == C!Init => CardInv
<1> SUFFICES ASSUME C!Init PROVE CardInv
  OBVIOUS
<1>1. CardTypeOK
  <2>1. elems \in [Ids -> [numid : Nat, writable : BOOLEAN]]
    BY DEF C!Init
  <2>2. queue \in Seq(Event) /\ whitelist \in Lists /\ blacklist \in Lists
    BY DEF C!Init, Lists
  <2>3. QED
    BY <2>1, <2>2 DEF C!Init, CardTypeOK
<1>2. queue = <<>> /\ DOMAIN queue = {} /\ DOMAIN whitelist = {} /\ DOMAIN blacklist = {}
  BY DEF C!Init
<1>3. Numbered /\ Ordered
  BY <1>2 DEF C!Init, Numbered, Ordered, C!Exists
<1>4. C!CacheIsExplained
  BY <1>2 DEF C!CacheIsExplained, C!InList
<1>5. Noticed
  BY DEF C!Init, Noticed
<1>6. QED
  BY <1>1, <1>3, <1>4, <1>5 DEF CardInv

LEMMA Step == ASSUME C!Null \notin Ids, CardInv, [C!Next]_(C!vars) PROVE CardInv'
<1>1. ASSUME NEW id \in Ids, C!AddElement(id) PROVE CardInv'
  BY <1>1, AddKeeps
<1>2. ASSUME NEW id \in Ids, C!RemoveElement(id) PROVE CardInv'
  BY <1>2, RemoveKeeps
<1>3. ASSUME NEW id \in Ids, C!ChangeElement(id) PROVE CardInv'
  <2>1. must' \subseteq IF C!Writable(id) THEN must \cup {id} ELSE must
    BY <1>3 DEF C!ChangeElement
  <2>2. must' \in SUBSET Ids
    BY <1>3 DEF C!ChangeElement, CardInv, CardTypeOK
  <2>3. QED
    BY <1>3, <2>1, <2>2, StayKeeps DEF C!ChangeElement, CardInv, CardTypeOK, C!kernel, C!lists
<1>4. ASSUME NEW id \in Ids, C!ChangeInfo(id) PROVE CardInv'
  <2>1. elems' \in [Ids -> [numid : Nat, writable : BOOLEAN]]
    BY <1>4 DEF C!ChangeInfo, CardInv, CardTypeOK
  <2>2. \A x \in Ids : elems'[x].numid = elems[x].numid /\ (x # id => elems'[x] = elems[x])
    BY <1>4 DEF C!ChangeInfo, CardInv, CardTypeOK
  <2>3. must' = must \ {id} /\ must' \in SUBSET Ids
    BY <1>4 DEF C!ChangeInfo, CardInv, CardTypeOK
  <2>4. QED
    BY <1>4, <2>1, <2>2, <2>3, StayKeeps DEF C!ChangeInfo, C!lists
<1>5. ASSUME UNCHANGED C!vars PROVE CardInv'
  <2>1. UNCHANGED <<elems, lastnum, queue, whitelist, blacklist, ev, res, must>>
    BY <1>5 DEF C!vars, C!kernel, C!lists
  <2>2. CardTypeOK'
    BY <2>1 DEF CardInv, CardTypeOK
  <2>3. Numbered' /\ Ordered'
    BY <2>1 DEF CardInv, Numbered, Ordered, C!Exists
  <2>4. C!CacheIsExplained'
    BY <2>1 DEF CardInv, C!CacheIsExplained, C!InList, C!Writable, C!Exists, C!Announced
  <2>5. Noticed'
    <3>1. \A id \in Ids : WillTell(id)' <=> WillTell(id)
      BY <2>1 DEF WillTell, Reports, Announces, C!InList
    <3>2. QED
      BY <2>1, <3>1 DEF CardInv, CardTypeOK, Noticed, C!Writable, C!Exists
  <2>6. QED
    BY <2>2, <2>3, <2>4, <2>5 DEF CardInv
<1>6. QED
  BY <1>1, <1>2, <1>3, <1>4, <1>5, ReadKeeps, ForgetKeeps, ChangeKeeps, ReturnTells DEF C!Next

\* A remembered answer is right or about to be corrected, with any number of elements
\* and events (daemon.c:219-239, 257-265).
THEOREM CacheStaysExplained == ASSUME C!Null \notin Ids PROVE C!Spec => []C!CacheIsExplained
<1>1. CardInv /\ [C!Next]_(C!vars) => CardInv'
  BY Step
<1>2. CardInv => C!CacheIsExplained
  BY DEF CardInv
<1>3. QED
  BY <1>1, <1>2, Start, PTL DEF C!Spec

\* No change of an element that is and was writable is missed (daemon.c:251-272).
THEOREM NothingIsMissed == ASSUME C!Null \notin Ids PROVE C!Spec => C!NoMissedChange
<1>1. CardInv /\ [C!Next]_(C!vars) => CardInv'
  BY Step
<1>2. CardInv /\ [C!Next]_(C!vars) => [C!Return => res \/ must = {}]_(C!vars)
  BY ReturnTells
<1>3. QED
  BY <1>1, <1>2, Start, PTL DEF C!Spec, C!NoMissedChange
==============================================================================
