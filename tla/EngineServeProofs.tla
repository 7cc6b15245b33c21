-------------------------- MODULE EngineServeProofs --------------------------
(* What holds of EngineServe for every limit, backlog and schedule.        *)
EXTENDS EngineServe, TLAPS

\* A relay that was forked is in child_count, or about to be.
Uncounted == IF pc \in {"load", "store"} THEN 1 ELSE 0

\* child_count never falls below the number of relays: the handler counts down
\* no more than it reaps.  At "store" the count to come is loaded + 1, whatever
\* the handler did to child_count after the load.
Covered ==
  /\ running + exited <= child_count + Uncounted
  /\ pc = "store" => running + exited <= loaded + 1

\* The limit was tested before the fork, and only the loop counts up.
Room ==
  /\ pc \in {"fork", "load"} => child_count < MaxClients
  /\ pc = "store" => loaded < MaxClients /\ child_count <= loaded

\* select() named a listener with a connection, and only the loop takes it.
Offered ==
  /\ pc = "accept_socks"    => waiting["socks"] > 0
  /\ pc = "accept_redirect" => waiting["redirect"] > 0

IInv == TypeOK /\ Covered /\ Room /\ Offered /\ EndsAfterRelays

-----------------------------------------------------------------------------
\* The service starts without relays.
LEMMA InitIInv == Init => IInv
  BY MaxClientsAssumption, BacklogAssumption
  DEF Init, IInv, TypeOK, Covered, Room, Offered, EndsAfterRelays, Uncounted, Locations,
      Flag, Listeners

\* Each step of the loop, of a handler, of a relay and of a client keeps the
\* counter at or above the number of relays, and within the limit.
LEMMA IInvStep == IInv /\ [Next]_vars => IInv'
<1> SUFFICES ASSUME IInv, [Next]_vars PROVE IInv'
  OBVIOUS
<1> USE MaxClientsAssumption, BacklogAssumption
    DEF IInv, TypeOK, Covered, Room, Offered, EndsAfterRelays, Uncounted, Locations,
        Flag, relays, counter
<1>1. CASE Test
  BY <1>1 DEF Test
<1>2. CASE Select
  BY <1>2 DEF Select
<1>3. CASE Ready
  BY <1>3 DEF Ready
<1>4. ASSUME NEW l \in Listeners, Accept(l) PROVE IInv'
  <2>1. pc = (IF l = "socks" THEN "accept_socks" ELSE "accept_redirect")
    BY <1>4 DEF Accept
  <2>2. CASE waiting' = [waiting EXCEPT ![l] = @ - 1] /\ pc' = "limit"
    <3>1. l \in {"socks", "redirect"} /\ waiting[l] \in 0..Backlog /\ waiting[l] > 0
      BY <2>1 DEF Listeners
    <3>2. waiting' \in [Listeners -> 0..Backlog]
      BY <2>2, <3>1
    <3>3. QED
      BY <1>4, <2>1, <2>2, <3>2 DEF Accept
  <2>3. CASE UNCHANGED waiting /\ pc' = "test"
    BY <1>4, <2>1, <2>3 DEF Accept
  <2>4. QED
    BY <1>4, <2>2, <2>3 DEF Accept
<1>5. CASE Limit
  BY <1>5 DEF Limit
<1>6. CASE Fork
  BY <1>6 DEF Fork
<1>7. CASE Load
  BY <1>7 DEF Load
<1>8. CASE Store
  BY <1>8 DEF Store
<1>9. CASE Drain
  BY <1>9 DEF Drain
<1>10. CASE HandleChildren
  BY <1>10 DEF HandleChildren, Wakes
<1>11. CASE HandleStop
  BY <1>11 DEF HandleStop, Wakes
<1>12. CASE RelayExits
  BY <1>12 DEF RelayExits
<1>13. ASSUME NEW l \in Listeners, Connect(l) PROVE IInv'
  BY <1>13 DEF Connect, Listeners
<1>14. CASE UNCHANGED vars
  BY <1>14 DEF vars
<1>15. QED
  BY <1>1, <1>2, <1>3, <1>4, <1>5, <1>6, <1>7, <1>8, <1>9, <1>10, <1>11, <1>12,
     <1>13, <1>14 DEF Next, Loop

\* Type correctness, and the facts the counter rests on, in every behaviour.
THEOREM Invariance == Spec => []IInv
  BY InitIInv, IInvStep, PTL DEF Spec

\* The type invariant; it bounds child_count by max_clients.
THEOREM TypeCorrect == Spec => []TypeOK
  BY Invariance, PTL DEF IInv

\* README: at most max_clients connections at a time, however the SIGCHLD
\* handler interleaves with child_count++.
THEOREM ClientLimit == Spec => []AtMostMaxClients
<1>1. IInv => AtMostMaxClients
  BY MaxClientsAssumption
  DEF IInv, TypeOK, Covered, Room, AtMostMaxClients, Uncounted, Locations
<1>2. QED
  BY <1>1, Invariance, PTL

\* The listening process is the last of the engine's processes to end.
THEOREM LastToEnd == Spec => []EndsAfterRelays
  BY Invariance, PTL DEF IInv
=============================================================================
