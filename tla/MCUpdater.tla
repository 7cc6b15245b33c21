------------------------------ MODULE MCUpdater ------------------------------
(* An instance of Updater for TLC.                                         *)
EXTENDS Updater, TLC

Symmetry ==
  Permutations(Repo) \cup Permutations(Subscriptions) \cup Permutations(Requests)
=============================================================================
