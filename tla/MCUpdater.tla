----------------------------- MODULE MCUpdater -----------------------------
(* Updater over a short history of commits; see the cfg files. *)
EXTENDS Updater, TLC

Symmetric == Permutations(Contents)
=============================================================================
