------------------------------ MODULE MCSwamp ------------------------------
(***************************************************************************)
(* Instances of Swamp for TLC.                                             *)
(***************************************************************************)
EXTENDS Swamp, TLC

\* Pids are compared for equality only
Symmetry == Permutations(Pids)

=============================================================================
