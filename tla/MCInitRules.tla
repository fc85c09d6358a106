------------------------------ MODULE MCInitRules ------------------------------
(* Two cards with two controls; the codes of 00main and an error. *)
EXTENDS InitRules

MCCodes == {0, 1, 99}
=============================================================================
