------------------------------ MODULE MCTransfer ------------------------------
(***************************************************************************)
(* Transfer with two containers; the counts are those of Transfer.cfg.     *)
(***************************************************************************)
EXTENDS Transfer
=============================================================================
