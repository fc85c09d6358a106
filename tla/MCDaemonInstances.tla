--------------------------- MODULE MCDaemonInstances ---------------------------
(***************************************************************************)
(* Small instances of DaemonInstances for TLC.                             *)
(***************************************************************************)
EXTENDS DaemonInstances

CONSTANTS d1, d2, d3, k1
================================================================================
