------------------------------- MODULE InitRules -------------------------------
(***************************************************************************)
(* alsactl/init_parse.c: "alsactl init" runs the rules files for one card  *)
(* after the other (init, parse, parse_line, elemid_set, run_program).     *)
(*                                                                         *)
(* A file is a series of lines, a line a series of keys that ends at the   *)
(* first match that fails.  What a file says is chosen as it is read: the  *)
(* rules cannot jump back.  Keys that only test or set strings (CARDINFO,  *)
(* ATTR, ENV, CONFIG, ACCESS, RESULT, PRINT, external programs) are one    *)
(* action that goes on or ends the line.                                   *)
(***************************************************************************)
EXTENDS Integers, Sequences

CONSTANTS Cards,        \* number of cards
          Elems, NoElem, \* the controls of a card; the selection names none
          Labels, NoLabel,
          Codes,        \* values of EXIT
          MaxKeys,      \* bound on the keys read for a card
          MaxDepth,     \* bound on included files in included files
          MaxFiles      \* bound on the files of an included directory

ASSUME ElemAssumption  == NoElem \notin Elems /\ NoLabel \notin Labels
ASSUME BoundAssumption == {Cards, MaxKeys, MaxDepth, MaxFiles} \subseteq Nat /\ Codes \subseteq Nat

VARIABLES named,        \* init is for one card that was named
          left, lasterr,
          pc, files,    \* the open files: the GOTO of the file that includes
                        \* this one, and how many are left of the directory
          err, go_to, quit, exit_code,
          ctl_id, changed, ctl_info, ctl_value,
          keys, ret

\* History: the selection was blanked; whether a file could not be opened; what
\* each card ended with.
VARIABLES blank, unread, ends

elem  == <<ctl_id, changed, ctl_info, ctl_value, blank>>
rules == <<files, go_to>>
leave == <<quit, exit_code>>
cards == <<named, left, lasterr, ret, ends>>
vars  == <<cards, pc, rules, err, leave, elem, keys, unread>>

EINVAL == -22
ENOENT == -2
Both == {"info", "value"}

FreshSpace ==
    /\ err = 0 /\ go_to = NoLabel /\ quit = FALSE /\ exit_code = 0
    /\ ctl_id = NoElem /\ changed = Both /\ ctl_info = NoElem /\ ctl_value = NoElem
    /\ blank = FALSE /\ keys = 0 /\ unread = FALSE

Init ==
    /\ named \in BOOLEAN /\ left = (IF named THEN 1 ELSE Cards)
    /\ lasterr = 0 /\ ret = 0 /\ ends = <<>>
    /\ pc = "card" /\ files = <<>>
    /\ FreshSpace

-----------------------------------------------------------------------------
(***************************************************************************)
(* init: the loop over the cards.                                          *)
(***************************************************************************)

\* A file that is opened is read from its first line, with no GOTO.
Entered(frame) ==
    /\ files' = Append(files, frame) /\ go_to' = NoLabel

\* snd_card_clean_cfgdir fails, which is remembered; or the card is left to UCM,
\* or its controls cannot be opened
SkipCard ==
    /\ pc = "card" /\ left > 0 /\ left' = left - 1
    /\ \/ lasterr' = (IF lasterr = 0 THEN ENOENT ELSE lasterr)
          /\ ends' = Append(ends, [quit |-> FALSE, code |-> 0, err |-> ENOENT,
                                   unread |-> TRUE])
       \/ UNCHANGED <<lasterr, ends>>
    /\ UNCHANGED <<named, ret, pc, rules, err, leave, elem, keys, unread>>

\* init_space, and parse of the file given
StartCard ==
    /\ pc = "card" /\ left > 0 /\ left' = left - 1
    /\ pc' = "open" /\ Entered([go_to |-> NoLabel, more |-> 0])
    /\ err' = 0 /\ quit' = FALSE /\ exit_code' = 0
    /\ ctl_id' = NoElem /\ changed' = Both /\ ctl_info' = NoElem
    /\ ctl_value' = NoElem /\ blank' = FALSE /\ keys' = 0 /\ unread' = FALSE
    /\ UNCHANGED <<named, lasterr, ret, ends>>

Finish ==
    /\ pc = "card" /\ left = 0
    /\ pc' = "done" /\ ret' = lasterr
    /\ UNCHANGED <<named, left, lasterr, ends, rules, err, leave, elem, keys, unread>>

LastCardCounts(e) ==              \* mutant: a card without an error clears it
    /\ ends' = Append(ends, [quit |-> quit, code |-> exit_code, err |-> e,
                             unread |-> unread'])
    /\ IF ~named /\ (e = 0 \/ e =< -99)
       THEN lasterr' = e /\ pc' = "card" /\ UNCHANGED ret
       ELSE /\ UNCHANGED lasterr
            /\ IF e < 0 THEN pc' = "done" /\ ret' = e ELSE pc' = "card" /\ UNCHANGED ret

\* Codes from 99 on are no reason to stop, unless the card was named.
CardEnds(e) ==
    /\ ends' = Append(ends, [quit |-> quit, code |-> exit_code, err |-> e,
                             unread |-> unread'])
    /\ IF ~named /\ e =< -99
       THEN lasterr' = (IF lasterr = 0 THEN e ELSE lasterr) /\ pc' = "card" /\ UNCHANGED ret
       ELSE /\ UNCHANGED lasterr
            /\ IF e < 0 THEN pc' = "done" /\ ret' = e ELSE pc' = "card" /\ UNCHANGED ret

-----------------------------------------------------------------------------
(***************************************************************************)
(* parse: the lines of a file.                                             *)
(***************************************************************************)

ReturnGoesOn(e) ==         \* mutant: the line with the INCLUDE forgets the EXIT
    LET f     == files[Len(files)]
        outer == SubSeq(files, 1, Len(files) - 1)
    IN  IF outer = <<>>
        THEN CardEnds(e) /\ files' = outer /\ UNCHANGED <<err, go_to>>
        ELSE /\ UNCHANGED <<lasterr, ret, ends>>
             /\ IF f.more > 0 /\ e = 0
                THEN /\ files' = Append(outer, [f EXCEPT !.more = @ - 1])
                     /\ go_to' = NoLabel /\ pc' = "open" /\ UNCHANGED err
                ELSE /\ files' = outer /\ go_to' = f.go_to /\ err' = e
                     /\ pc' = IF e # 0 THEN "line" ELSE "key"

\* parse returned e: to init, to the next file of the directory, or to the line
\* with the INCLUDE; the GOTO the file left pending is dropped.
Return(e) ==
    LET f     == files[Len(files)]
        outer == SubSeq(files, 1, Len(files) - 1)
    IN  IF outer = <<>>
        THEN CardEnds(e) /\ files' = outer /\ UNCHANGED <<err, go_to>>
        ELSE /\ UNCHANGED <<lasterr, ret, ends>>
             /\ IF f.more > 0 /\ e = 0
                THEN /\ files' = Append(outer, [f EXCEPT !.more = @ - 1])
                     /\ go_to' = NoLabel /\ pc' = "open" /\ UNCHANGED err
                ELSE /\ files' = outer /\ go_to' = f.go_to /\ err' = e
                     /\ pc' = IF quit \/ e # 0 THEN "line" ELSE "key"

\* file_map
Open ==
    /\ pc = "open"
    /\ \/ pc' = "line" /\ err' = 0 /\ UNCHANGED <<cards, rules, unread>>
       \/ unread' = TRUE /\ Return(ENOENT) /\ UNCHANGED <<named, left>>
    /\ UNCHANGED <<leave, elem, keys>>

\* the end of the file, or of the reading; "jump" is EXIT="return"
EndFile ==
    /\ pc \in {"line", "jump"}
    /\ UNCHANGED unread
    /\ Return(IF err # 0 THEN err ELSE -exit_code)
    /\ UNCHANGED <<named, left, leave, elem, keys>>

ReadLine ==
    /\ pc = "line" /\ err = 0 /\ ~quit /\ keys < MaxKeys
    /\ pc' = "key"
    /\ UNCHANGED <<cards, rules, err, leave, elem, keys, unread>>

(***************************************************************************)
(* parse_line: one key after the other.                                    *)
(***************************************************************************)
EndLine ==
    /\ pc = "key" /\ pc' = "line"
    /\ UNCHANGED <<cards, rules, err, leave, elem, keys, unread>>

\* get_key, which resets err
Key == pc = "key" /\ keys < MaxKeys /\ keys' = keys + 1
Run == Key /\ go_to = NoLabel
On  == pc' = "key" /\ err' = 0
Off == pc' = "line" /\ err' = 0

\* a key, an operator or an attribute that is none
Invalid ==
    /\ Key /\ pc' = "line" /\ err' = EINVAL
    /\ UNCHANGED <<cards, rules, leave, elem, unread>>

Label(l) ==
    /\ Key /\ On
    /\ go_to' = (IF go_to = l THEN NoLabel ELSE go_to)
    /\ UNCHANGED <<cards, files, leave, elem, unread>>

\* after a GOTO the first other key ends the line
Skip ==
    /\ Key /\ go_to # NoLabel /\ Off
    /\ UNCHANGED <<cards, rules, leave, elem, unread>>

\* a test that is true or an assignment; a test that is false or CONFIG{}=
Plain ==
    /\ Run /\ (On \/ Off)
    /\ UNCHANGED <<cards, rules, leave, elem, unread>>

Goto(l) ==
    /\ Run /\ On /\ go_to' = l
    /\ UNCHANGED <<cards, files, leave, elem, unread>>

\* a file is a directory's only one
Include ==
    /\ Run /\ Len(files) < MaxDepth
    /\ \E n \in 1 .. MaxFiles : Entered([go_to |-> go_to, more |-> n - 1])
    /\ pc' = "open" /\ err' = 0
    /\ UNCHANGED <<cards, leave, elem, unread>>

Exit(c) ==
    /\ Run /\ Off /\ exit_code' = c /\ quit' = TRUE
    /\ UNCHANGED <<cards, rules, elem, unread>>

ExitReturn ==
    /\ Run /\ pc' = "jump" /\ err' = 0
    /\ UNCHANGED <<cards, rules, leave, elem, unread>>

(***************************************************************************)
(* The selected control, and what is kept of it.                           *)
(***************************************************************************)

SelectForInfo ==                 \* mutant: the value is taken to be still valid
    /\ Run /\ On
    /\ ctl_id' \in Elems \cup {NoElem} /\ changed' = changed \cup {"info"}
    /\ blank' = FALSE
    /\ UNCHANGED <<cards, rules, leave, ctl_info, ctl_value, unread>>

\* elemid_set of a part of the id: afterwards it names some control or none
Select ==
    /\ Run /\ On
    /\ ctl_id' \in Elems \cup {NoElem} /\ changed' = Both /\ blank' = FALSE
    /\ UNCHANGED <<cards, rules, leave, ctl_info, ctl_value, unread>>

\* CTL{search}="" returns before the change is noted
BlankSearch ==
    /\ Run /\ On
    /\ ctl_id' = NoElem /\ blank' = TRUE
    /\ UNCHANGED <<cards, rules, leave, changed, ctl_info, ctl_value, unread>>

\* do_search and __ctl_search copy the id of a control that matches
Search ==
    /\ Run /\ (On \/ Off)
    /\ ctl_id' \in (IF ctl_id \in Elems THEN {ctl_id} ELSE Elems)
    /\ UNCHANGED <<cards, rules, leave, changed, ctl_info, ctl_value, blank, unread>>

\* check_id_changed: of what is asked for, the first that is stale is read, or
\* cannot be read
Refreshed(what) ==
    LET stale == changed \cap what
    IN  CASE "info" \in stale -> /\ ctl_id \in Elems /\ ctl_info' = ctl_id
                                 /\ changed' = changed \ {"info"} /\ UNCHANGED ctl_value
          [] stale = {"value"} -> /\ ctl_id \in Elems /\ ctl_value' = ctl_id
                                  /\ changed' = changed \ {"value"} /\ UNCHANGED ctl_info
          [] OTHER -> UNCHANGED <<changed, ctl_info, ctl_value>>

\* a CTL{} attribute of the info, or the value, is compared
Compare ==
    /\ Run
    /\ \E what \in {{"info"}, Both} :
          \/ Refreshed(what) /\ (On \/ Off)
          \/ changed \cap what # {} /\ Off /\ UNCHANGED <<changed, ctl_info, ctl_value>>
    /\ UNCHANGED <<cards, rules, leave, ctl_id, blank, unread>>

\* elemid_set of the value: the info is read, the value put together and written;
\* each of the three may fail
SetValue(ok) ==
    \/ ~ok /\ "info" \in changed /\ UNCHANGED elem
    \/ /\ "info" \in changed => ctl_id \in Elems
       /\ ctl_info' = (IF "info" \in changed THEN ctl_id ELSE ctl_info)
       /\ \/ /\ ~ok /\ changed' = (changed \ {"info"}) \cup {"value"}
             /\ UNCHANGED ctl_value
          \/ /\ ok => ctl_id \in Elems
             /\ changed' = {} /\ ctl_value' = ctl_id
       /\ UNCHANGED <<ctl_id, blank>>

\* CTL{value}= goes on, RESULT has the error
AssignValue ==
    /\ Run /\ On
    /\ \E ok \in BOOLEAN : SetValue(ok)
    /\ UNCHANGED <<cards, rules, leave, unread>>

\* CTL{write}== and CTL{write}!=: err keeps the error of the write
WriteValue ==
    /\ Run
    /\ \/ SetValue(TRUE) /\ (On \/ Off)
       \/ SetValue(FALSE) /\ pc' \in {"line", "key"} /\ err' = EINVAL
    /\ UNCHANGED <<cards, rules, leave, unread>>

Rule == \/ Invalid \/ Skip \/ Plain \/ Include \/ ExitReturn
        \/ Select \/ BlankSearch \/ Search \/ Compare \/ AssignValue \/ WriteValue
        \/ \E l \in Labels : Label(l) \/ Goto(l)
        \/ \E c \in Codes : Exit(c)

Next == SkipCard \/ StartCard \/ Finish \/ Open \/ EndFile \/ ReadLine \/ EndLine \/ Rule

Spec == Init /\ [][Next]_vars

-----------------------------------------------------------------------------
\* EXIT: "Exit immediately": in a file at any depth, or one of a directory, no
\* key of any file is looked at after it.
ExitIsLast == [][quit /\ pc # "card" => UNCHANGED <<keys, elem>>]_vars

\* init: a card whose rules say EXIT ends with this code, whatever files the key
\* is in, unless the next file of a directory cannot be opened; and the program
\* reports an error exactly when some card had one, and one that it had.
EndsAsTold ==
    /\ \A k \in DOMAIN ends :
          ends[k].quit => ends[k].err = -ends[k].code
                          \/ (ends[k].code = 0 /\ ends[k].unread)
    /\ LET errs == {ends[k].err : k \in DOMAIN ends} \ {0}
       IN  pc = "done" => IF errs = {} THEN ret = 0 /\ left = 0 ELSE ret \in errs

\* check_id_changed, elemid_set: the info and the value that are taken for valid
\* are those of the control that is selected now, however selections, searches and
\* failing reads and writes follow each other; it takes a search for all controls
\* to break that, since it does not note the change.  Whose value it is, not whether
\* the control has it: a write that fails leaves the new value in the cache.
CacheIsOfSelection ==
    /\ "info" \notin changed => ctl_info = ctl_id \/ blank
    /\ "value" \notin changed => ctl_value = ctl_id \/ blank
=============================================================================
