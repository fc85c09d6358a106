------------------------------- MODULE CardEvents -------------------------------
(***************************************************************************)
(* alsactl/daemon.c card_events() and check_lists(): which control events  *)
(* of a card count as a change worth a save.  Whether an element is        *)
(* writable is asked once and remembered in two lists; INFO and REMOVE     *)
(* events make the daemon forget.  The kernel changes the elements and     *)
(* queues events at any moment, also between the read of an event and the  *)
(* question about its element.                                             *)
(***************************************************************************)
EXTENDS Integers, Sequences, SequencesExt

CONSTANT Ids           \* element identities: interface, index, name, device...

VARIABLES elem,        \* elem[id]: the kernel's element, numid 0 when there is none
          lastnum,     \* the last numid given out
          queue,       \* the events queued on the daemon's handle
          whitelist, blacklist,   \* id_list: sequences with NULL slots
          ev,          \* the event read and not handled yet
          res,         \* res of card_events: a change was seen
          must         \* history: writable elements changed since the last call

kernel == <<elem, lastnum>>
lists == <<whitelist, blacklist>>
vars == <<kernel, queue, lists, ev, res, must>>

Null == [null |-> TRUE]      \* a freed slot, or no event
\* CHANGE stands for the bits VALUE, ADD and TLV, REMOVE for all bits.
Masks == {{"CHANGE"}, {"INFO"}, {"CHANGE", "INFO"}, {"REMOVE"}}

Init ==
    /\ elem = [id \in Ids |-> [numid |-> 0, writable |-> FALSE]]
    /\ lastnum = 0
    /\ queue = <<>> /\ whitelist = <<>> /\ blacklist = <<>>
    /\ ev = Null /\ res = FALSE /\ must = {}

--------------------------------------------------------------------------------
\* The kernel merges the mask of an event into a queued one of the same numid.
Merged(m1, m2) == IF "REMOVE" \in m1 \cup m2 THEN {"REMOVE"} ELSE m1 \cup m2

Notify(id, n, mask) ==
    LET queued == {i \in DOMAIN queue : queue[i].numid = n} IN
    IF queued = {}
    THEN queue' = Append(queue, [id |-> id, numid |-> n, mask |-> mask])
    ELSE queue' = [i \in DOMAIN queue |->
                      IF i \in queued THEN [queue[i] EXCEPT !.mask = Merged(@, mask)]
                      ELSE queue[i]]

Exists(id) == elem[id].numid # 0
Writable(id) == Exists(id) /\ elem[id].writable

AddElement(id) ==
    /\ ~Exists(id)
    /\ lastnum' = lastnum + 1
    /\ \E w \in BOOLEAN :
          /\ elem' = [elem EXCEPT ![id] = [numid |-> lastnum + 1, writable |-> w]]
          /\ must' = IF w THEN must \cup {id} ELSE must
    /\ Notify(id, lastnum + 1, {"CHANGE"})
    /\ UNCHANGED <<lists, ev, res>>

RemoveElement(id) ==
    /\ Exists(id)
    /\ elem' = [elem EXCEPT ![id].numid = 0]
    /\ Notify(id, elem[id].numid, {"REMOVE"})
    /\ must' = must \ {id}
    /\ UNCHANGED <<lastnum, lists, ev, res>>

\* A value or a TLV is written.
ChangeElement(id) ==
    /\ Exists(id)
    /\ Notify(id, elem[id].numid, {"CHANGE"})
    /\ must' = IF Writable(id) THEN must \cup {id} ELSE must
    /\ UNCHANGED <<kernel, lists, ev, res>>

\* The access rights of an element change.
ChangeInfo(id) ==
    /\ Exists(id)
    /\ elem' = [elem EXCEPT ![id].writable = ~@]
    /\ Notify(id, elem[id].numid, {"INFO"})
    /\ must' = must \ {id}
    /\ UNCHANGED <<lastnum, lists, ev, res>>

--------------------------------------------------------------------------------
InList(list, id) == \E i \in DOMAIN list : list[i] = id

RemoveFromList(list, id) ==
    [i \in DOMAIN list |-> IF list[i] = id THEN Null ELSE list[i]]

\* The id takes the first freed slot, or one more.
AddToList(list, id) ==
    IF InList(list, Null)
    THEN [list EXCEPT ![SelectInSeq(list, LAMBDA x : x = Null)] = id]
    ELSE Append(list, id)

\* while (snd_ctl_read(card->handle, ev) == 1)
Read ==
    /\ ev = Null /\ queue # <<>>
    /\ ev' = Head(queue)
    /\ queue' = Tail(queue)
    /\ UNCHANGED <<kernel, lists, res, must>>

\* The queue is empty: card_events returns res and the next call starts anew.
Return ==
    /\ ev = Null /\ queue = <<>> /\ (res \/ must # {})
    /\ res' = FALSE /\ must' = {}
    /\ UNCHANGED <<kernel, queue, lists, ev>>

Forget(id) ==
    /\ whitelist' = RemoveFromList(whitelist, id)
    /\ blacklist' = RemoveFromList(blacklist, id)

\* mask == SND_CTL_EVENT_MASK_REMOVE: all bits, whatever was merged into it.
HandleRemove ==
    /\ ev # Null /\ "REMOVE" \in ev.mask
    /\ Forget(ev.id)
    /\ ev' = Null
    /\ UNCHANGED <<kernel, queue, res, must>>

\* An event that only says INFO: the lists forget, nothing has changed yet.
HandleInfo ==
    /\ ev # Null /\ ev.mask = {"INFO"}
    /\ Forget(ev.id)
    /\ ev' = Null
    /\ UNCHANGED <<kernel, queue, res, must>>

\* check_lists(): the lists first, then the kernel, which knows the element by
\* the numid in the event.
CheckLists(white, black, id, num) ==
    \/ /\ InList(black, id)
       /\ whitelist' = white /\ blacklist' = black /\ UNCHANGED res
    \/ /\ ~InList(black, id) /\ InList(white, id)
       /\ whitelist' = white /\ blacklist' = black /\ res' = TRUE
    \/ /\ ~InList(black, id) /\ ~InList(white, id)
       /\ elem[id].numid # num                   \* snd_ctl_elem_info fails
       /\ whitelist' = white /\ blacklist' = black /\ UNCHANGED res
    \/ /\ ~InList(black, id) /\ ~InList(white, id)
       /\ elem[id].numid = num /\ elem[id].writable
       /\ whitelist' \in {AddToList(white, id), white}       \* or no memory
       /\ blacklist' = black /\ res' = TRUE
    \/ /\ ~InList(black, id) /\ ~InList(white, id)
       /\ elem[id].numid = num /\ ~elem[id].writable
       /\ blacklist' \in {AddToList(black, id), black}
       /\ whitelist' = white /\ UNCHANGED res

\* An event with VALUE, ADD or TLV, after INFO in the same event has been obeyed.
HandleChange ==
    /\ ev # Null /\ "CHANGE" \in ev.mask
    /\ IF "INFO" \in ev.mask
       THEN CheckLists(RemoveFromList(whitelist, ev.id), RemoveFromList(blacklist, ev.id),
                       ev.id, ev.numid)
       ELSE CheckLists(whitelist, blacklist, ev.id, ev.numid)
    /\ ev' = Null
    /\ UNCHANGED <<kernel, queue, must>>

--------------------------------------------------------------------------------
Next ==
    \/ \E id \in Ids : \/ AddElement(id) \/ RemoveElement(id)
                       \/ ChangeElement(id) \/ ChangeInfo(id)
    \/ Read \/ HandleRemove \/ HandleInfo \/ HandleChange \/ Return

Spec == Init /\ [][Next]_vars

--------------------------------------------------------------------------------
\* An INFO or REMOVE event for id is still to be obeyed.
Announced(id) ==
    \E e \in {queue[i] : i \in DOMAIN queue} \cup ({ev} \ {Null}) :
        e.id = id /\ e.mask \cap {"INFO", "REMOVE"} # {}

\* A remembered answer is right, or the event that will correct it is already
\* queued: the question is asked at the time of the event, the element may have
\* changed since (daemon.c:219-239, 257-265).
CacheIsExplained ==
    \A id \in Ids :
        /\ InList(whitelist, id) => Writable(id) \/ Announced(id)
        /\ InList(blacklist, id) => (Exists(id) /\ ~Writable(id)) \/ Announced(id)

\* card_events does not return "no change" when an element that is and was
\* writable changed before the queue was found empty (daemon.c:251-272).
NoMissedChange == [][Return => res \/ must = {}]_vars
================================================================================
