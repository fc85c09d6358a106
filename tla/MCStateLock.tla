------------------------------ MODULE MCStateLock ------------------------------
(***************************************************************************)
(* Small instances of StateLock for TLC.                                   *)
(***************************************************************************)
EXTENDS StateLock

CONSTANTS p1, p2, p3     \* p3 runs with --no-lock
================================================================================
