----------------------------- MODULE MCStateDaemon -----------------------------
(***************************************************************************)
(* Small instances of StateDaemon for TLC.                                 *)
(***************************************************************************)
EXTENDS StateDaemon
================================================================================
