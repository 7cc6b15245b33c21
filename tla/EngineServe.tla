----------------------------- MODULE EngineServe -----------------------------
(***************************************************************************)
(* serve() of n300vless.c: the engine's listening process.  It accepts a   *)
(* connection, forks a relay for it, and counts the relays in child_count, *)
(* which the SIGCHLD handler counts down while any line of the loop runs.  *)
(*                                                                         *)
(* A relay is running, or has exited and waits to be reaped.  "blocked" is *)
(* the inside of select(): a signal that comes one instruction earlier, at *)
(* "select", does not wake it.                                             *)
(***************************************************************************)
EXTENDS Naturals

CONSTANTS
  MaxClients,   \* configuration->max_clients
  Backlog,      \* connections the kernel keeps for a listener, listen(fd, 16)
  MayFail       \* of {"accept", "fork"}

ASSUME MaxClientsAssumption == MaxClients \in Nat \ {0}
ASSUME BacklogAssumption    == Backlog \in Nat
ASSUME MayFailAssumption    == MayFail \subseteq {"accept", "fork"}

Listeners == {"socks", "redirect"}

VARIABLES
  pc,                \* where the loop is
  waiting,           \* connections the kernel holds for each listener
  child_count,
  loaded,            \* the register of child_count++
  running, exited,   \* relays
  sigchld,           \* a SIGCHLD is pending
  stop_requested

vars == <<pc, waiting, child_count, loaded, running, exited, sigchld, stop_requested>>

relays  == <<running, exited, sigchld>>
counter == <<child_count, loaded>>

Locations == {"test", "select", "blocked", "accept_socks", "accept_redirect",
              "limit", "fork", "load", "store", "drain", "ended"}
Flag == {"no", "yes"}

TypeOK ==
  /\ pc \in Locations
  /\ waiting \in [Listeners -> 0..Backlog]
  /\ child_count \in 0..MaxClients
  /\ loaded \in 0..MaxClients
  /\ running \in Nat /\ exited \in Nat
  /\ sigchld \in Flag /\ stop_requested \in Flag

Init ==
  /\ pc = "test"
  /\ waiting = [l \in Listeners |-> 0]
  /\ child_count = 0 /\ loaded = 0
  /\ running = 0 /\ exited = 0
  /\ sigchld = "no" /\ stop_requested = "no"

-----------------------------------------------------------------------------
(* The loop.                                                               *)

Test ==
  /\ pc = "test"
  /\ pc' = IF stop_requested = "yes" THEN "drain" ELSE "select"
  /\ UNCHANGED <<waiting, counter, relays, stop_requested>>

Select ==
  /\ pc = "select"
  /\ pc' = "blocked"
  /\ UNCHANGED <<waiting, counter, relays, stop_requested>>

\* select() returns; of two ready listeners the SOCKS one is served.
Ready ==
  /\ pc = "blocked"
  /\ \/ waiting["socks"] > 0 /\ pc' = "accept_socks"
     \/ waiting["socks"] = 0 /\ waiting["redirect"] > 0 /\ pc' = "accept_redirect"
  /\ UNCHANGED <<waiting, counter, relays, stop_requested>>

\* accept() may fail and leave the connection with the kernel.
Accept(l) ==
  /\ pc = IF l = "socks" THEN "accept_socks" ELSE "accept_redirect"
  /\ \/ /\ waiting' = [waiting EXCEPT ![l] = @ - 1]
        /\ pc' = "limit"
     \/ "accept" \in MayFail /\ pc' = "test" /\ UNCHANGED waiting
  /\ UNCHANGED <<counter, relays, stop_requested>>

\* At the limit the connection is closed, "client will retry".
Limit_OffByOne ==                                  \* a mutant
  /\ pc = "limit"
  /\ pc' = IF child_count > MaxClients THEN "test" ELSE "fork"
  /\ UNCHANGED <<waiting, counter, relays, stop_requested>>

Limit ==
  /\ pc = "limit"
  /\ pc' = IF child_count >= MaxClients THEN "test" ELSE "fork"
  /\ UNCHANGED <<waiting, counter, relays, stop_requested>>

Fork ==
  /\ pc = "fork"
  /\ \/ running' = running + 1 /\ pc' = "load"
     \/ "fork" \in MayFail /\ pc' = "test" /\ UNCHANGED running
  /\ UNCHANGED <<waiting, counter, exited, sigchld, stop_requested>>

\* child_count++ on a load-and-store machine: the handler may come between.
Load ==
  /\ pc = "load"
  /\ loaded' = child_count
  /\ pc' = "store"
  /\ UNCHANGED <<waiting, child_count, relays, stop_requested>>

Store_Forgotten ==                                 \* a mutant
  /\ pc = "store"
  /\ child_count' = loaded
  /\ pc' = "test"
  /\ UNCHANGED <<waiting, loaded, relays, stop_requested>>

Store ==
  /\ pc = "store"
  /\ child_count' = loaded + 1
  /\ pc' = "test"
  /\ UNCHANGED <<waiting, loaded, relays, stop_requested>>

\* After the loop: while (child_count > 0) wait().  What wait() reaps is not
\* counted down here; without children it fails, and the loop ends.
Drain_NoBreak ==                                   \* a mutant
  /\ pc = "drain"
  /\ \/ child_count = 0 /\ pc' = "ended" /\ UNCHANGED exited
     \/ child_count > 0 /\ exited > 0 /\ exited' = exited - 1 /\ UNCHANGED pc
  /\ UNCHANGED <<waiting, counter, running, sigchld, stop_requested>>

Drain ==
  /\ pc = "drain"
  /\ \/ child_count = 0 /\ pc' = "ended" /\ UNCHANGED exited
     \/ child_count > 0 /\ exited > 0 /\ exited' = exited - 1 /\ UNCHANGED pc
     \/ child_count > 0 /\ running + exited = 0 /\ pc' = "ended" /\ UNCHANGED exited
  /\ UNCHANGED <<waiting, counter, running, sigchld, stop_requested>>

Loop == \/ Test \/ Select \/ Ready \/ Limit \/ Fork \/ Load \/ Store \/ Drain
        \/ \E l \in Listeners : Accept(l)

-----------------------------------------------------------------------------
(* Signals, relays and clients.                                            *)

Wakes == pc' = IF pc = "blocked" THEN "test" ELSE pc     \* EINTR

\* handle_children reaps every relay that has exited.
HandleChildren ==
  /\ pc # "ended"
  /\ sigchld = "yes" /\ sigchld' = "no"
  /\ exited' = 0
  /\ child_count' = IF exited <= child_count THEN child_count - exited ELSE 0
  /\ Wakes
  /\ UNCHANGED <<waiting, loaded, running, stop_requested>>

HandleStop ==
  /\ pc # "ended" /\ stop_requested = "no"
  /\ stop_requested' = "yes"
  /\ Wakes
  /\ UNCHANGED <<waiting, counter, relays>>

\* A relay ends: its client or its server left, it was idle too long, it was
\* killed.  Nothing keeps it from ending before its parent runs again.
RelayExits ==
  /\ pc # "ended" /\ running > 0
  /\ running' = running - 1 /\ exited' = exited + 1
  /\ sigchld' = "yes"
  /\ UNCHANGED <<pc, waiting, counter, stop_requested>>

Connect(l) ==
  /\ pc \notin {"drain", "ended"} /\ waiting[l] < Backlog
  /\ waiting' = [waiting EXCEPT ![l] = @ + 1]
  /\ UNCHANGED <<pc, counter, relays, stop_requested>>

Next == \/ Loop \/ HandleChildren \/ HandleStop \/ RelayExits
        \/ \E l \in Listeners : Connect(l)

Spec == Init /\ [][Next]_vars

\* The process runs, its signals are delivered, every relay ends some day.
FairSpec == Spec /\ WF_vars(Loop) /\ WF_vars(HandleChildren) /\ WF_vars(RelayExits)

-----------------------------------------------------------------------------
\* However the handler interleaves with the loop, no more than max_clients
\* relays exist: child_count may be too large, never too small.
AtMostMaxClients == running + exited <= MaxClients

\* The engine ends only after the last of its relays.
EndsAfterRelays == pc = "ended" => running + exited = 0

\* ... and it does end when it left its loop, though child_count may be wrong.
DrainEnds == pc = "drain" ~> pc = "ended"
=============================================================================
