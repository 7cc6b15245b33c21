--------------------------- MODULE MCEngineServe ---------------------------
(* Instances of EngineServe for TLC: limit and backlog are small.          *)
EXTENDS EngineServe
=============================================================================
