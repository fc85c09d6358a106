----------------------------- MODULE MCBootGroup -----------------------------
EXTENDS BootGroup
TwoCards == {0, 1}
ThreeCards == {0, 1, 2}
OldLists == {[primary |-> 2, cards |-> {2, 0}]}
OnlyFirst == {0}
AllCommands == {"udev", "wait", "service"}
================================================================================
