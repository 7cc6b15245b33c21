---------------------------- MODULE MCController ----------------------------
(* Instances of Controller for TLC. *)
EXTENDS Controller, TLC

\* Servers are interchangeable, and so are the slots of the panel.
Symmetry == Permutations(Nodes) \cup Permutations(Web)
=============================================================================
