---------------------------- MODULE MCPathPolicy ----------------------------
(* An instance of PathPolicy for TLC.                                      *)
EXTENDS PathPolicy, TLC

ThreePorts == <<"lan1", "lan2", "wifi">>
Symmetry == Permutations(Devices)
=============================================================================
