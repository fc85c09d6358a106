------------------------------ MODULE MCStateFile ------------------------------
(***************************************************************************)
(* A small instance of StateFile for TLC.                                  *)
(***************************************************************************)
EXTENDS StateFile, TLC

CONSTANTS p1, p2

\* The processes run one program.
Symmetry == Permutations(Procs)
================================================================================
