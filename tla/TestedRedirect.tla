--------------------------- MODULE TestedRedirect ---------------------------
(***************************************************************************)
(* What the supervisor promises about LAN traffic, without the scripts:    *)
(* traffic is redirected only to an engine that passed its test, and a     *)
(* server is put to work only while traffic goes direct.                   *)
(***************************************************************************)
CONSTANTS Nodes, None

VARIABLES engine,   \* the server the engine runs, or None
          tested,   \* the server whose engine passed the local tunnel probe
          routes    \* "on": LAN traffic is redirected to the engine
vars == <<engine, tested, routes>>

Init == engine = None /\ tested = None /\ routes = "off"

\* A server is put to work, unproved, while the internet is direct.
Launch == /\ routes = "off"
          /\ engine' \in Nodes /\ tested' = None
          /\ UNCHANGED routes

Prove == /\ engine # None /\ routes = "off"
         /\ tested' = engine
         /\ UNCHANGED <<engine, routes>>

\* The redirect opens on a proved engine, or on none when it has just died.
Open == /\ engine # None => tested = engine
        /\ routes' = "on"
        /\ UNCHANGED <<engine, tested>>

Close == routes' = "off" /\ UNCHANGED <<engine, tested>>

\* The engine ends: stopped, crashed, or gone with the power.
End == /\ engine' = None /\ tested' = None
       /\ routes' \in {routes, "off"}

Next == Launch \/ Prove \/ Open \/ Close \/ End

Spec == Init /\ [][Next]_vars
=============================================================================
