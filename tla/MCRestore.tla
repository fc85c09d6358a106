------------------------------ MODULE MCRestore ------------------------------
(***************************************************************************)
(* Two cards: one with a single switch, one with a volume, a source and a  *)
(* user element, which an upgrade of the driver or a reboot has changed.   *)
(***************************************************************************)
EXTENDS Restore, TLC

BothAndOne == [p \in Procs |-> IF p = "boot" THEN <<1, 2>> ELSE <<2>>]
FirstLinksSecond == [c \in Cards |-> IF c = 1 THEN <<2>> ELSE <<>>]

Volume(count, max, lo, hi) == [type |-> "integer", count |-> count, min |-> 0, max |-> max,
                               db |-> <<lo, hi>>, items |-> <<>>]
Choice(items) == [type |-> "enumerated", count |-> 1, min |-> 0, max |-> 0, db |-> <<>>,
                  items |-> items]
Plain(max) == [Volume(1, max, 0, 0) EXCEPT !.db = <<>>]

Elem(num, kind, value) == [num |-> num, kind |-> kind, read |-> TRUE, write |-> TRUE,
                           inactive |-> FALSE, user |-> FALSE, value |-> value]
User(num, value) == [Elem(num, Plain(1), value) EXCEPT !.user = TRUE]

\* a button, which cannot be read
Reset == [Elem(3, Plain(1), <<0>>) EXCEPT !.read = FALSE]

Switch == {<<>>, "switch" :> Elem(1, Plain(1), <<1>>)}

Old == Volume(2, 4, -2, 2)
StoredCards ==
    {("volume" :> Elem(1, Old, v)) @@ ("source" :> Elem(2, Choice(<<10, 20>>), s))
        @@ ("reset" :> Reset) @@ ("user" :> User(4, <<1>>)) :
        v \in {<<1, 3>>}, s \in {<<0>>, <<1>>}}

Now(v, s, n1, n2) ==
    ("volume" :> Elem(n1, v, [i \in 1 .. v.count |-> 0]))
        @@ ("source" :> Elem(n2, Choice(s), <<0>>)) @@ ("reset" :> Reset)
Drivers ==
    {Now(Old, <<10, 20>>, 1, 2),                         \* the same
     Now(Old, <<10, 20>>, 2, 1),                         \* another order
     Now(Volume(2, 8, -2, 2), <<20, 10>>, 1, 2),         \* finer steps, items changed
     Now(Volume(2, 4, -1, 3), <<20>>, 1, 2),             \* other levels, one item less
     Now(Volume(1, 4, -2, 2), <<10, 20>>, 1, 2),         \* one channel
     Now(Old, <<10, 20>>, 1, 2) @@ ("user" :> User(4, <<0>>)),
     Now(Old, <<10, 20>>, 1, 2) @@ ("new" :> Elem(4, Plain(2), <<0>>)),
     [Now(Old, <<10, 20>>, 1, 2) EXCEPT !["source"].write = FALSE,
                                        !["volume"].inactive = TRUE]}

StoredBefore == [c \in Cards |-> IF c = 1 THEN Switch ELSE StoredCards]
FoundAfter   == [c \in Cards |-> IF c = 1 THEN {("switch" :> Elem(1, Plain(1), <<0>>))} ELSE Drivers]
==============================================================================
