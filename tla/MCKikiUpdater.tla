---------------------------- MODULE MCKikiUpdater ----------------------------
(* KikiUpdater for TLC: the identities of staging files are interchangeable. *)
EXTENDS KikiUpdater, TLC

StageSymmetry == Permutations(Stage)
=============================================================================
