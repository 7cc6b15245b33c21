---------------------------- MODULE MCNamedLock ----------------------------
(* Instances of NamedLock for TLC; the processes of MayDie come first. *)
EXTENDS NamedLock, TLC
CONSTANTS p1, p2, p3

\* p1 may be killed; the other two are alike.
Symmetry == Permutations({p2, p3})
=============================================================================
