---------------------------- MODULE MCRowLocking ----------------------------
(* Small instances of RowLocking for TLC. *)
EXTENDS RowLocking, TLC

CallerSymmetry ==
    Permutations(Grants) \cup Permutations(Inserters) \cup Permutations(Data)
=============================================================================
