-------------------------- MODULE ControllerProofs --------------------------
(***************************************************************************)
(* Proofs about the supervisor: type correctness, its safety invariants,   *)
(* and that it implements TestedRedirect, for any servers, panel slots,    *)
(* user commands and failures; ModeIsReal for the commands it is true of.  *)
(*                                                                         *)
(* DirectWhenOff speaks of the moments when nobody holds the lock.  The    *)
(* inductive invariant IInv says what is known of the owner of the lock at *)
(* every step of its script, and that nobody else is in the script.        *)
(***************************************************************************)
EXTENDS Controller, TLAPS

\* The plans that come to a label.
PlansAt(l) ==
  CASE l = "idle"       -> {"none"}
    [] l = "gate"       -> Gated \cup Unlocked
    [] l = "launch"     -> Unlocked
    [] l = "acquire"    -> Commands \ Unlocked
    [] l = "valid_id"   -> {"enable", "start-local"}
    [] l = "rank"       -> {"best-youtube"}
    [] l \in {"confirm", "rollback-pending", "set-paths", "refresh-paths",
              "remove-subscription"} -> {l}
    [] l = "cancel"     -> {"disable", "confirm", "unconfirm"}
    [] l = "routes_remove" -> {"enable", "best-youtube", "unconfirm", "disable",
                               "refresh-paths", "start-local", "stop-local",
                               "failover", "rollback-pending", "giveup"}
    [] l = "stop_engine" -> {"enable", "best-youtube", "unconfirm", "disable",
                             "refresh-paths", "stop-local", "failover",
                             "rollback-pending", "giveup"}
    [] l = "next"       -> {"failover"}
    [] l = "probe_node" -> {"enable", "failover", "start-local"}
    [] l = "start_engine" -> {"enable", "best-youtube", "failover",
                              "start-local"}
    [] l \in {"local_tunnel_probe", "routes_add"} ->
                           {"enable", "best-youtube", "failover"}
    [] l = "active"     -> {"enable", "best-youtube", "failover", "confirm",
                            "start-local"}
    [] l \in {"mode", "autostart"} -> Plans \ {"none"}
    [] l = "arm"        -> Activating
    [] l = "start_watchdog" -> {"confirm"}
    [] l = "stop_watchdog"  -> {"disable", "rollback-pending",
                                "refresh-paths"}
    [] l = "clear"      -> {"rollback-pending"}
    [] OTHER            -> Plans

PlanInv == \A p \in Ctl : plan[p] \in PlansAt(pc[p])

\* Only the owner of the lock is inside the script.
LockInv ==
  \A p \in Ctl : /\ pc[p] \in Steps => lock = p
                 /\ pc[p] \in {"idle", "gate", "launch", "acquire"} => lock # p

\* Where a server is about to be tried or recorded, one is named.
ArgInv ==
  \A p \in Ctl :
    \/ plan[p] \in {"enable", "start-local"}
    \/ plan[p] = "best-youtube" /\ pc[p] \in Steps \ {"rank"}
    \/ plan[p] = "confirm" /\ pc[p] = "cancel"
    \/ pc[p] \in {"probe_node", "start_engine", "local_tunnel_probe",
                  "routes_add", "active"}
    => arg[p] \in Nodes

\* Labels at which nothing has been touched, or all of it is done.
Settled == {"valid_id", "rank", "confirm", "rollback-pending", "set-paths",
            "refresh-paths", "remove-subscription", "autostart", "arm",
            "start_watchdog", "exit", "fail"}

Calm == mode = "off" => Direct

\* What is known at label l of a script with plan c that holds the lock.
Known(l, c) ==
  /\ l \in Settled \cup {"probe_node", "start_engine"} => Calm
  /\ l = "routes_remove" /\ c = "start-local" => Calm
  /\ l \in {"probe_node", "start_engine"} /\ c # "start-local" => Direct
  /\ l \in {"stop_engine", "probe_node", "start_engine",
            "local_tunnel_probe", "routes_add"} => routes = "off"
  /\ l \in {"stop_watchdog", "clear", "next"} => Direct
  /\ l = "cancel" /\ c = "unconfirm" => Direct
  /\ l = "mode" /\ ModeOf(c) = "off" => Direct
  /\ l = "routes_add" /\ Alive => tested = engine
  /\ l = "mode" /\ ModeOf(c) # "off" => active # None
  /\ l = "autostart" /\ c = "failover" => active # None

HolderInv == /\ lock = None => Calm
             /\ lock # None => Known(pc[lock], plan[lock])

\* What is on record fits what runs: local mode redirects nothing, a pending
\* activation that serves the LAN is the one that PENDING and ACTIVE name.
Recorded ==
  /\ mode = "local" => routes = "off"
  /\ mode = "pending" /\ routes = "on" =>
       pending # None /\ pending = active /\ engine \in {None, Orphans, active}

\* How far the record is at label l of a script with plan c and server a.
OnRecord(l, c, a) ==
  /\ l \in Settled \ {"autostart", "arm"} => Recorded
  /\ l \in {"local_tunnel_probe", "routes_add"} => engine \in {None, Orphans, a}
  /\ l \in {"active", "mode", "autostart", "arm"} /\ c \in Activating =>
       engine \in {None, Orphans, a}
  /\ l \in {"mode", "autostart", "arm"} /\ c \in Activating => active = a
  /\ l \in {"autostart", "arm"} => mode = ModeOf(c)
  /\ l \in {"active", "mode", "autostart"} /\ c = "start-local" => routes = "off"

RecordInv == /\ lock = None => Recorded
             /\ lock # None => OnRecord(pc[lock], plan[lock], arg[lock])

FailuresInv == failures = 2 => dog = "recovering"

IInv == /\ TypeOK /\ PlanInv /\ LockInv /\ ArgInv
        /\ HolderInv /\ RecordInv /\ FailuresInv
        /\ OnlyTestedServesLan /\ ModeNamesServer

-----------------------------------------------------------------------------
(* Type correctness and the control flow.                                  *)

\* The operators of the control flow lead to labels.
LEMMA FlowLabels ==
  \A c \in Plans :
    /\ AfterRemove(c) \in Labels /\ AfterStop(c) \in Labels
    /\ AfterCancel(c) \in Labels /\ AfterStart(c) \in Labels
    /\ AfterMode(c) \in Labels /\ AfterAutostart(c) \in Labels
  BY DEF AfterRemove, AfterStop, AfterCancel, AfterStart, AfterMode,
         AfterAutostart, Labels, Steps

\* A started copy of the script has a label, a plan and an argument, and the
\* callers that start one have their slots.
LEMMA SpawnType ==
  /\ \A p \in Ctl, c \in Commands, a \in NodeOrNone :
       TypeOK /\ Spawn(p, c, a) => /\ pc' \in [Ctl -> Labels]
                                   /\ plan' \in [Ctl -> Plans]
                                   /\ arg' \in [Ctl -> NodeOrNone]
  /\ {"dog", "timer", "boot"} \subseteq Ctl /\ Web \subseteq Ctl
  /\ {"failover", "refresh-paths", "refresh", "rollback-pending", "enable",
      "disable"} \subseteq Commands
  BY DEF Spawn, TypeOK, Labels, Plans, Commands, Ctl, Daemons

\* Every step keeps the types; the count of failures needs FailuresInv, the
\* rollback timer needs ArgInv.
LEMMA TypeStep ==
  ASSUME TypeOK, PlanInv, ArgInv, FailuresInv, [Next]_vars
  PROVE  TypeOK'
<1> USE NodesAssumption, WebAssumption, CommandsAssumption
<1> USE DEF TypeOK, Goto, Stay, disk, net, clock, sup, NodeOrNone
<1>1. ASSUME NEW p \in Ctl, Gate(p) PROVE TypeOK'
  BY <1>1 DEF Gate, Labels
<1>2. ASSUME NEW p \in Ctl, LaunchCheck(p) PROVE TypeOK'
  BY <1>2 DEF LaunchCheck, Labels
<1>3. ASSUME NEW p \in Ctl, Acquire(p) PROVE TypeOK'
  BY <1>3 DEF Acquire, Labels, PlanInv, PlansAt, First, Steps, Commands,
     Unlocked
<1>4. ASSUME NEW p \in Ctl, Finish(p) PROVE TypeOK'
  BY <1>4 DEF Finish, Labels, Resume, Plans
<1>5. ASSUME NEW p \in Ctl, ValidId(p) PROVE TypeOK'
  BY <1>5 DEF ValidId, Labels, Steps
<1>6. ASSUME NEW p \in Ctl, RoutesRemove(p) PROVE TypeOK'
  BY <1>6, FlowLabels DEF RoutesRemove
<1>7. ASSUME NEW p \in Ctl, StopEngine(p) PROVE TypeOK'
  BY <1>7, FlowLabels DEF StopEngine
<1>8. ASSUME NEW p \in Ctl, ProbeNode(p) PROVE TypeOK'
  BY <1>8 DEF ProbeNode, Labels, Steps, Recover, Plans, May
<1>9. ASSUME NEW p \in Ctl, StartEngine(p) PROVE TypeOK'
  BY <1>9, FlowLabels DEF StartEngine, Labels, Steps, Recover, Plans, May
<1>10. ASSUME NEW p \in Ctl, LocalTunnelProbe(p) PROVE TypeOK'
  BY <1>10 DEF LocalTunnelProbe, Labels, Steps, Recover, Plans, May, Alive
<1>11. ASSUME NEW p \in Ctl, RoutesAdd(p) PROVE TypeOK'
  BY <1>11 DEF RoutesAdd, Labels, Steps, Recover, Plans, May
<1>12. ASSUME NEW p \in Ctl, NextNode(p) PROVE TypeOK'
  BY <1>12 DEF NextNode, Labels, Steps, Plans
<1>13. ASSUME NEW p \in Ctl, Rank(p) PROVE TypeOK'
  BY <1>13 DEF Rank, Labels, Steps
<1>14. ASSUME NEW p \in Ctl, Cancel(p) PROVE TypeOK'
  BY <1>14, FlowLabels DEF Cancel
<1>15. ASSUME NEW p \in Ctl, Arm(p) PROVE TypeOK'
  <2>1. plan[p] \in Activating /\ arg[p] \in Nodes
    BY <1>15 DEF Arm, PlanInv, PlansAt, ArgInv, Steps, Activating
  <2>2. pc' \in [Ctl -> Labels] /\ plan' \in [Ctl -> Plans]
    BY <1>15, <2>1 DEF Arm, Recover, Labels, Steps, Plans
  <2>3. timers' \subseteq Nodes /\ rollback_pid' \in NodeOrNone
    BY <1>15, <2>1 DEF Arm
  <2>4. pending' \in NodeOrNone
    BY <1>15, <2>1 DEF Arm
  <2> QED BY <1>15, <2>2, <2>3, <2>4 DEF Arm
<1>16. ASSUME NEW p \in Ctl, WriteActive(p) PROVE TypeOK'
  BY <1>16 DEF WriteActive, Labels, Steps
<1>17. ASSUME NEW p \in Ctl, WriteMode(p) PROVE TypeOK'
  BY <1>17, FlowLabels DEF WriteMode, ModeOf
<1>18. ASSUME NEW p \in Ctl, WriteAutostart(p) PROVE TypeOK'
  BY <1>18, FlowLabels DEF WriteAutostart, AutostartOf
<1>19. ASSUME NEW p \in Ctl, StartWatchdog(p) PROVE TypeOK'
  BY <1>19 DEF StartWatchdog, Labels
<1>20. ASSUME NEW p \in Ctl, StopWatchdog(p) PROVE TypeOK'
  BY <1>20 DEF StopWatchdog, Labels, Steps
<1>21. ASSUME NEW p \in Ctl, Confirm(p) PROVE TypeOK'
  BY <1>21 DEF Confirm, Labels, Steps, Plans
<1>22. ASSUME NEW p \in Ctl, RollbackPending(p) PROVE TypeOK'
  BY <1>22 DEF RollbackPending, Labels, Steps
<1>23. ASSUME NEW p \in Ctl, Clear(p) PROVE TypeOK'
  BY <1>23 DEF Clear, Labels, Steps
<1>24. ASSUME NEW p \in Ctl, SetPaths(p) PROVE TypeOK'
  BY <1>24 DEF SetPaths, Labels
<1>25. ASSUME NEW p \in Ctl, RefreshPaths(p) PROVE TypeOK'
  BY <1>25 DEF RefreshPaths, Labels, Steps
<1>26. ASSUME NEW p \in Ctl, RemoveSubscription(p) PROVE TypeOK'
  <2>1. checks' \subseteq {"update", "youtube"}
    BY <1>26 DEF RemoveSubscription
  <2>2. pc' \in [Ctl -> Labels]
    BY <1>26 DEF RemoveSubscription, Labels
  <2> QED BY <1>26, <2>1, <2>2 DEF RemoveSubscription
<1>27. ASSUME NEW p \in Web, Request(p) PROVE TypeOK'
  BY <1>27, SpawnType DEF Request
<1>28. ASSUME NEW n \in Nodes, TimerFires(n) PROVE TypeOK'
  BY <1>28, SpawnType DEF TimerFires, Call
<1>29. ASSUME NEW c \in {"update", "youtube"}, CheckEnds(c) PROVE TypeOK'
  BY <1>29 DEF CheckEnds
<1>30. CASE DogTop
  BY <1>30 DEF DogTop
<1>31. CASE DogWakes
  BY <1>31, SpawnType DEF DogWakes, Call
<1>32. CASE DogHealth
  BY <1>32, SpawnType DEF DogHealth, Threshold, FailuresInv
<1>33. CASE DogUpdate
  BY <1>33, SpawnType DEF DogUpdate, Call
<1>34. CASE DogLeaves
  BY <1>34 DEF DogLeaves
<1>35. CASE BootStart
  BY <1>35, SpawnType DEF BootStart, Call
<1>36. CASE BootDirect
  BY <1>36, SpawnType DEF BootDirect, Call
<1>37. CASE RelaysEnd
  BY <1>37 DEF RelaysEnd
<1>38. CASE EngineCrash
  BY <1>38 DEF EngineCrash
<1>39. CASE Reboot
  BY <1>39 DEF Reboot, Labels, Plans
<1>40. CASE UNCHANGED vars
  BY <1>40 DEF vars
<1> QED
  BY <1>1, <1>2, <1>3, <1>4, <1>5, <1>6, <1>7, <1>8, <1>9, <1>10, <1>11,
     <1>12, <1>13, <1>14, <1>15, <1>16, <1>17, <1>18, <1>19, <1>20, <1>21,
     <1>22, <1>23, <1>24, <1>25, <1>26, <1>27, <1>28, <1>29, <1>30, <1>31,
     <1>32, <1>33, <1>34, <1>35, <1>36, <1>37, <1>38, <1>39, <1>40 DEF Next,
     System, Run, Dog

\* Every label is reached only by the plans that PlansAt allows.
LEMMA PlanStep ==
  ASSUME TypeOK, PlanInv, [Next]_vars
  PROVE  PlanInv'
<1> USE NodesAssumption, WebAssumption, CommandsAssumption
<1> USE DEF TypeOK, Goto, Stay, disk, net, clock, sup, PlanInv, PlansAt,
   Plans, Commands, Gated, Unlocked, Activating
<1>1. ASSUME NEW p \in Ctl, Acquire(p) PROVE PlanInv'
  BY <1>1 DEF Acquire, First
<1>2. ASSUME NEW p \in Ctl, RoutesRemove(p) PROVE PlanInv'
  BY <1>2 DEF RoutesRemove, AfterRemove
<1>3. ASSUME NEW p \in Ctl, StopEngine(p) PROVE PlanInv'
  BY <1>3 DEF StopEngine, AfterStop
<1>4. ASSUME NEW p \in Ctl, ProbeNode(p) PROVE PlanInv'
  BY <1>4 DEF ProbeNode, Recover
<1>5. ASSUME NEW p \in Ctl, StartEngine(p) PROVE PlanInv'
  BY <1>5 DEF StartEngine, Recover, AfterStart
<1>6. ASSUME NEW p \in Ctl, LocalTunnelProbe(p) PROVE PlanInv'
  BY <1>6 DEF LocalTunnelProbe, Recover
<1>7. ASSUME NEW p \in Ctl, RoutesAdd(p) PROVE PlanInv'
  BY <1>7 DEF RoutesAdd, Recover
<1>8. ASSUME NEW p \in Ctl, Cancel(p) PROVE PlanInv'
  BY <1>8 DEF Cancel, AfterCancel
<1>9. ASSUME NEW p \in Ctl, Arm(p) PROVE PlanInv'
  BY <1>9 DEF Arm, Recover
<1>10. ASSUME NEW p \in Ctl, WriteMode(p) PROVE PlanInv'
  BY <1>10 DEF WriteMode, AfterMode
<1>11. ASSUME NEW p \in Ctl, WriteAutostart(p) PROVE PlanInv'
  BY <1>11 DEF WriteAutostart, AfterAutostart
<1>12. ASSUME NEW p \in Web, Request(p) PROVE PlanInv'
  BY <1>12 DEF Request, Spawn, Ctl
<1>13. ASSUME NEW n \in Nodes, TimerFires(n) PROVE PlanInv'
  BY <1>13 DEF TimerFires, Call, Spawn, Ctl, Daemons
<1>14. ASSUME NEW c \in {"update", "youtube"}, CheckEnds(c) PROVE PlanInv'
  BY <1>14 DEF CheckEnds
<1>15. CASE DogTop
  BY <1>15 DEF DogTop
<1>16. CASE DogWakes
  BY <1>16 DEF DogWakes, Call, Spawn, Ctl, Daemons
<1>17. CASE DogHealth
  BY <1>17 DEF DogHealth, Call, Spawn, Ctl, Daemons
<1>18. CASE DogUpdate
  BY <1>18 DEF DogUpdate, Call, Spawn, Ctl, Daemons
<1>19. CASE DogLeaves
  BY <1>19 DEF DogLeaves
<1>20. CASE BootStart
  BY <1>20 DEF BootStart, Call, Spawn, Ctl, Daemons
<1>21. CASE BootDirect
  BY <1>21 DEF BootDirect, Call, Spawn, Ctl, Daemons
<1>22. CASE RelaysEnd
  BY <1>22 DEF RelaysEnd
<1>23. CASE EngineCrash
  BY <1>23 DEF EngineCrash
<1>24. CASE Reboot
  BY <1>24 DEF Reboot
<1>25. ASSUME NEW p \in Ctl, Gate(p) \/ LaunchCheck(p) \/ Finish(p) \/
   ValidId(p) \/ NextNode(p) \/ Rank(p) \/ WriteActive(p) \/ StartWatchdog(p)
   \/ StopWatchdog(p) \/ Confirm(p) \/ RollbackPending(p) \/ Clear(p) \/
   SetPaths(p) \/ RefreshPaths(p) \/ RemoveSubscription(p) PROVE PlanInv'
  BY <1>25 DEF Gate, LaunchCheck, Finish, ValidId, NextNode, Rank,
     WriteActive, StartWatchdog, StopWatchdog, Confirm, RollbackPending,
     Clear, SetPaths, RefreshPaths, RemoveSubscription
<1>26. CASE UNCHANGED vars
  BY <1>26 DEF vars
<1> QED
  BY <1>1, <1>2, <1>3, <1>4, <1>5, <1>6, <1>7, <1>8, <1>9, <1>10, <1>11,
     <1>12, <1>13, <1>14, <1>15, <1>16, <1>17, <1>18, <1>19, <1>20, <1>21,
     <1>22, <1>23, <1>24, <1>25, <1>26 DEF Next, System, Run, Dog

\* The lock excludes: nobody but its owner is at a step of the script.
LEMMA LockStep ==
  ASSUME TypeOK, PlanInv, LockInv, [Next]_vars
  PROVE  LockInv'
<1> USE NodesAssumption, WebAssumption, CommandsAssumption
<1> USE DEF TypeOK, Goto, Stay, disk, net, clock, sup, LockInv, Steps
<1>1. ASSUME NEW p \in Ctl, Gate(p) PROVE LockInv'
  BY <1>1 DEF Gate
<1>2. ASSUME NEW p \in Ctl, LaunchCheck(p) PROVE LockInv'
  BY <1>2 DEF LaunchCheck
<1>3. ASSUME NEW p \in Ctl, Acquire(p) PROVE LockInv'
  BY <1>3 DEF Acquire, First, PlanInv, PlansAt, Commands, Unlocked
<1>4. ASSUME NEW p \in Ctl, Finish(p) PROVE LockInv'
  BY <1>4 DEF Finish
<1>5. ASSUME NEW p \in Ctl, RoutesRemove(p) PROVE LockInv'
  BY <1>5 DEF RoutesRemove, AfterRemove, PlanInv, PlansAt
<1>6. ASSUME NEW p \in Ctl, StopEngine(p) PROVE LockInv'
  BY <1>6 DEF StopEngine, AfterStop
<1>7. ASSUME NEW p \in Ctl, ProbeNode(p) PROVE LockInv'
  BY <1>7 DEF ProbeNode, Recover
<1>8. ASSUME NEW p \in Ctl, StartEngine(p) PROVE LockInv'
  BY <1>8 DEF StartEngine, Recover, AfterStart
<1>9. ASSUME NEW p \in Ctl, LocalTunnelProbe(p) PROVE LockInv'
  BY <1>9 DEF LocalTunnelProbe, Recover
<1>10. ASSUME NEW p \in Ctl, RoutesAdd(p) PROVE LockInv'
  BY <1>10 DEF RoutesAdd, Recover
<1>11. ASSUME NEW p \in Ctl, Cancel(p) PROVE LockInv'
  BY <1>11 DEF Cancel, AfterCancel
<1>12. ASSUME NEW p \in Ctl, Arm(p) PROVE LockInv'
  BY <1>12 DEF Arm, Recover
<1>13. ASSUME NEW p \in Ctl, WriteMode(p) PROVE LockInv'
  BY <1>13 DEF WriteMode, AfterMode
<1>14. ASSUME NEW p \in Ctl, WriteAutostart(p) PROVE LockInv'
  BY <1>14 DEF WriteAutostart, AfterAutostart
<1>15. ASSUME NEW p \in Web, Request(p) PROVE LockInv'
  BY <1>15 DEF Request, Spawn, Ctl
<1>16. ASSUME NEW n \in Nodes, TimerFires(n) PROVE LockInv'
  BY <1>16 DEF TimerFires, Call, Spawn, Ctl, Daemons
<1>17. ASSUME NEW c \in {"update", "youtube"}, CheckEnds(c) PROVE LockInv'
  BY <1>17 DEF CheckEnds
<1>18. CASE DogTop
  BY <1>18 DEF DogTop
<1>19. CASE DogWakes
  BY <1>19 DEF DogWakes, Call, Spawn, Ctl, Daemons
<1>20. CASE DogHealth
  BY <1>20 DEF DogHealth, Call, Spawn, Ctl, Daemons
<1>21. CASE DogUpdate
  BY <1>21 DEF DogUpdate, Call, Spawn, Ctl, Daemons
<1>22. CASE DogLeaves
  BY <1>22 DEF DogLeaves
<1>23. CASE BootStart
  BY <1>23 DEF BootStart, Call, Spawn, Ctl, Daemons
<1>24. CASE BootDirect
  BY <1>24 DEF BootDirect, Call, Spawn, Ctl, Daemons
<1>25. CASE RelaysEnd
  BY <1>25 DEF RelaysEnd
<1>26. CASE EngineCrash
  BY <1>26 DEF EngineCrash
<1>27. CASE Reboot
  BY <1>27 DEF Reboot
<1>28. ASSUME NEW p \in Ctl, ValidId(p) \/ NextNode(p) \/ Rank(p) \/
   WriteActive(p) \/ StartWatchdog(p) \/ StopWatchdog(p) \/ Confirm(p) \/
   RollbackPending(p) \/ Clear(p) \/ SetPaths(p) \/ RefreshPaths(p) \/
   RemoveSubscription(p) PROVE LockInv'
  BY <1>28 DEF ValidId, NextNode, Rank, WriteActive, StartWatchdog,
     StopWatchdog, Confirm, RollbackPending, Clear, SetPaths, RefreshPaths,
     RemoveSubscription
<1>29. CASE UNCHANGED vars
  BY <1>29 DEF vars
<1> QED
  BY <1>1, <1>2, <1>3, <1>4, <1>5, <1>6, <1>7, <1>8, <1>9, <1>10, <1>11,
     <1>12, <1>13, <1>14, <1>15, <1>16, <1>17, <1>18, <1>19, <1>20, <1>21,
     <1>22, <1>23, <1>24, <1>25, <1>26, <1>27, <1>28, <1>29 DEF Next, System,
     Run, Dog

\* The server a script works on is named before it is used.
LEMMA ArgStep ==
  ASSUME TypeOK, PlanInv, ArgInv, [Next]_vars
  PROVE  ArgInv'
<1> USE NodesAssumption, WebAssumption, CommandsAssumption
<1> USE DEF TypeOK, Goto, Stay, disk, net, clock, sup, ArgInv, Steps,
   NodeOrNone, Activating
<1>1. ASSUME NEW p \in Ctl, Acquire(p) PROVE ArgInv'
  BY <1>1 DEF Acquire, First, PlanInv, PlansAt, Commands, Unlocked
<1>2. ASSUME NEW p \in Ctl, RoutesRemove(p) PROVE ArgInv'
  BY <1>2 DEF RoutesRemove, AfterRemove, PlanInv, PlansAt
<1>3. ASSUME NEW p \in Ctl, StopEngine(p) PROVE ArgInv'
  BY <1>3 DEF StopEngine, AfterStop, PlanInv, PlansAt
<1>4. ASSUME NEW p \in Ctl, ProbeNode(p) PROVE ArgInv'
  BY <1>4 DEF ProbeNode, Recover, PlanInv, PlansAt
<1>5. ASSUME NEW p \in Ctl, StartEngine(p) PROVE ArgInv'
  BY <1>5 DEF StartEngine, Recover, AfterStart, PlanInv, PlansAt
<1>6. ASSUME NEW p \in Ctl, LocalTunnelProbe(p) PROVE ArgInv'
  BY <1>6 DEF LocalTunnelProbe, Recover, PlanInv, PlansAt
<1>7. ASSUME NEW p \in Ctl, RoutesAdd(p) PROVE ArgInv'
  BY <1>7 DEF RoutesAdd, Recover, PlanInv, PlansAt
<1>8. ASSUME NEW p \in Ctl, NextNode(p) PROVE ArgInv'
  BY <1>8 DEF NextNode, PlanInv, PlansAt
<1>9. ASSUME NEW p \in Ctl, Rank(p) PROVE ArgInv'
  BY <1>9 DEF Rank, PlanInv, PlansAt
<1>10. ASSUME NEW p \in Ctl, Cancel(p) PROVE ArgInv'
  BY <1>10 DEF Cancel, AfterCancel, PlanInv, PlansAt
<1>11. ASSUME NEW p \in Ctl, Arm(p) PROVE ArgInv'
  BY <1>11 DEF Arm, Recover, PlanInv, PlansAt
<1>12. ASSUME NEW p \in Ctl, WriteMode(p) PROVE ArgInv'
  BY <1>12 DEF WriteMode, AfterMode, PlanInv, PlansAt
<1>13. ASSUME NEW p \in Ctl, WriteAutostart(p) PROVE ArgInv'
  BY <1>13 DEF WriteAutostart, AfterAutostart, PlanInv, PlansAt
<1>14. ASSUME NEW p \in Ctl, Confirm(p) PROVE ArgInv'
  BY <1>14 DEF Confirm, PlanInv, PlansAt
<1>15. ASSUME NEW p \in Ctl, RollbackPending(p) PROVE ArgInv'
  BY <1>15 DEF RollbackPending, PlanInv, PlansAt
<1>16. ASSUME NEW p \in Web, Request(p) PROVE ArgInv'
  BY <1>16 DEF Request, Spawn, Ctl
<1>17. ASSUME NEW n \in Nodes, TimerFires(n) PROVE ArgInv'
  BY <1>17 DEF TimerFires, Call, Spawn, Ctl, Daemons
<1>18. ASSUME NEW c \in {"update", "youtube"}, CheckEnds(c) PROVE ArgInv'
  BY <1>18 DEF CheckEnds
<1>19. CASE DogTop
  BY <1>19 DEF DogTop
<1>20. CASE DogWakes
  BY <1>20 DEF DogWakes, Call, Spawn, Ctl, Daemons
<1>21. CASE DogHealth
  BY <1>21 DEF DogHealth, Call, Spawn, Ctl, Daemons
<1>22. CASE DogUpdate
  BY <1>22 DEF DogUpdate, Call, Spawn, Ctl, Daemons
<1>23. CASE DogLeaves
  BY <1>23 DEF DogLeaves
<1>24. CASE BootStart
  BY <1>24 DEF BootStart, Call, Spawn, Ctl, Daemons
<1>25. CASE BootDirect
  BY <1>25 DEF BootDirect, Call, Spawn, Ctl, Daemons
<1>26. CASE RelaysEnd
  BY <1>26 DEF RelaysEnd
<1>27. CASE EngineCrash
  BY <1>27 DEF EngineCrash
<1>28. CASE Reboot
  BY <1>28 DEF Reboot
<1>29. ASSUME NEW p \in Ctl, Gate(p) \/ LaunchCheck(p) \/ Finish(p) \/
   ValidId(p) \/ WriteActive(p) \/ StartWatchdog(p) \/ StopWatchdog(p) \/
   Clear(p) \/ SetPaths(p) \/ RefreshPaths(p) \/ RemoveSubscription(p) PROVE
   ArgInv'
  BY <1>29 DEF Gate, LaunchCheck, Finish, ValidId, WriteActive, StartWatchdog,
     StopWatchdog, Clear, SetPaths, RefreshPaths, RemoveSubscription
<1>30. CASE UNCHANGED vars
  BY <1>30 DEF vars
<1> QED
  BY <1>1, <1>2, <1>3, <1>4, <1>5, <1>6, <1>7, <1>8, <1>9, <1>10, <1>11,
     <1>12, <1>13, <1>14, <1>15, <1>16, <1>17, <1>18, <1>19, <1>20, <1>21,
     <1>22, <1>23, <1>24, <1>25, <1>26, <1>27, <1>28, <1>29, <1>30 DEF Next,
     System, Run, Dog

\* The count of failed probes reaches two only where a failover resets it.
LEMMA FailuresStep ==
  ASSUME TypeOK, FailuresInv, [Next]_vars
  PROVE  FailuresInv'
<1> USE NodesAssumption, WebAssumption, CommandsAssumption
<1> USE DEF TypeOK, Goto, Stay, disk, net, clock, sup, FailuresInv
<1>1. ASSUME NEW p \in Ctl, Finish(p) PROVE FailuresInv'
  BY <1>1 DEF Finish, Resume
<1>2. ASSUME NEW p \in Ctl, StartWatchdog(p) PROVE FailuresInv'
  BY <1>2 DEF StartWatchdog
<1>3. ASSUME NEW p \in Ctl, StopWatchdog(p) PROVE FailuresInv'
  BY <1>3 DEF StopWatchdog
<1>4. ASSUME NEW p \in Web, Request(p) PROVE FailuresInv'
  BY <1>4 DEF Request
<1>5. ASSUME NEW n \in Nodes, TimerFires(n) PROVE FailuresInv'
  BY <1>5 DEF TimerFires, Call
<1>6. ASSUME NEW c \in {"update", "youtube"}, CheckEnds(c) PROVE FailuresInv'
  BY <1>6 DEF CheckEnds
<1>7. CASE DogTop
  BY <1>7 DEF DogTop
<1>8. CASE DogWakes
  BY <1>8 DEF DogWakes, Call
<1>9. CASE DogHealth
  BY <1>9 DEF DogHealth, Threshold, Call
<1>10. CASE DogUpdate
  BY <1>10 DEF DogUpdate, Call
<1>11. CASE DogLeaves
  BY <1>11 DEF DogLeaves
<1>12. CASE BootStart
  BY <1>12 DEF BootStart, Call
<1>13. CASE BootDirect
  BY <1>13 DEF BootDirect, Call
<1>14. CASE RelaysEnd
  BY <1>14 DEF RelaysEnd
<1>15. CASE EngineCrash
  BY <1>15 DEF EngineCrash
<1>16. CASE Reboot
  BY <1>16 DEF Reboot
<1>17. ASSUME NEW p \in Ctl, Gate(p) \/ LaunchCheck(p) \/ Acquire(p) \/
   ValidId(p) \/ RoutesRemove(p) \/ StopEngine(p) \/ ProbeNode(p) \/
   StartEngine(p) \/ LocalTunnelProbe(p) \/ RoutesAdd(p) \/ NextNode(p) \/
   Rank(p) \/ Cancel(p) \/ Arm(p) \/ WriteActive(p) \/ WriteMode(p) \/
   WriteAutostart(p) \/ Confirm(p) \/ RollbackPending(p) \/ Clear(p) \/
   SetPaths(p) \/ RefreshPaths(p) \/ RemoveSubscription(p) PROVE FailuresInv'
  BY <1>17 DEF Gate, LaunchCheck, Acquire, ValidId, RoutesRemove, StopEngine,
     ProbeNode, StartEngine, LocalTunnelProbe, RoutesAdd, NextNode, Rank,
     Cancel, Arm, WriteActive, WriteMode, WriteAutostart, Confirm,
     RollbackPending, Clear, SetPaths, RefreshPaths, RemoveSubscription
<1>18. CASE UNCHANGED vars
  BY <1>18 DEF vars
<1> QED
  BY <1>1, <1>2, <1>3, <1>4, <1>5, <1>6, <1>7, <1>8, <1>9, <1>10, <1>11,
     <1>12, <1>13, <1>14, <1>15, <1>16, <1>17, <1>18 DEF Next, System, Run,
     Dog

-----------------------------------------------------------------------------
(* What the owner of the lock leaves behind.                               *)

\* What is known of the owner at each label holds step by step, and it leaves
\* a calm system when it releases the lock.
LEMMA HolderStep ==
  ASSUME TypeOK, PlanInv, LockInv, ArgInv, HolderInv, OnlyTestedServesLan,
     [Next]_vars
  PROVE  HolderInv'
<1> USE NodesAssumption, WebAssumption, CommandsAssumption
<1> USE DEF TypeOK, Goto, Stay, disk, net, clock, sup, LockInv, HolderInv,
   Known, Settled, Calm, Direct, ModeOf, Steps, Alive, NodeOrNone, ArgInv,
   OnlyTestedServesLan
<1>1. ASSUME NEW p \in Ctl, Gate(p) PROVE HolderInv'
  BY <1>1 DEF Gate, PlanInv, PlansAt, Activating
<1>2. ASSUME NEW p \in Ctl, LaunchCheck(p) PROVE HolderInv'
  BY <1>2 DEF LaunchCheck, PlanInv, PlansAt, Activating
<1>3. ASSUME NEW p \in Ctl, Acquire(p) PROVE HolderInv'
  BY <1>3 DEF Acquire, First, PlanInv, PlansAt, Activating, Commands, Unlocked
<1>4. ASSUME NEW p \in Ctl, Finish(p) PROVE HolderInv'
  BY <1>4 DEF Finish, PlanInv, PlansAt, Activating
<1>5. ASSUME NEW p \in Ctl, ValidId(p) PROVE HolderInv'
  BY <1>5 DEF ValidId, PlanInv, PlansAt, Activating
<1>6. ASSUME NEW p \in Ctl, RoutesRemove(p) PROVE HolderInv'
  BY <1>6 DEF RoutesRemove, AfterRemove, PlanInv, PlansAt, Activating
<1>7. ASSUME NEW p \in Ctl, StopEngine(p) PROVE HolderInv'
  BY <1>7 DEF StopEngine, AfterStop, PlanInv, PlansAt, Activating
<1>8. ASSUME NEW p \in Ctl, ProbeNode(p) PROVE HolderInv'
  BY <1>8 DEF ProbeNode, Recover, PlanInv, PlansAt, Activating
<1>9. ASSUME NEW p \in Ctl, StartEngine(p) PROVE HolderInv'
  BY <1>9 DEF StartEngine, Recover, AfterStart, PlanInv, PlansAt, Activating
<1>10. ASSUME NEW p \in Ctl, LocalTunnelProbe(p) PROVE HolderInv'
  BY <1>10 DEF LocalTunnelProbe, Recover, PlanInv, PlansAt, Activating
<1>11. ASSUME NEW p \in Ctl, RoutesAdd(p) PROVE HolderInv'
  BY <1>11 DEF RoutesAdd, Recover, PlanInv, PlansAt, Activating
<1>12. ASSUME NEW p \in Ctl, NextNode(p) PROVE HolderInv'
  BY <1>12 DEF NextNode, PlanInv, PlansAt, Activating
<1>13. ASSUME NEW p \in Ctl, Rank(p) PROVE HolderInv'
  BY <1>13 DEF Rank, PlanInv, PlansAt, Activating
<1>14. ASSUME NEW p \in Ctl, Cancel(p) PROVE HolderInv'
  BY <1>14 DEF Cancel, AfterCancel, PlanInv, PlansAt, Activating
<1>15. ASSUME NEW p \in Ctl, Arm(p) PROVE HolderInv'
  BY <1>15 DEF Arm, Recover, PlanInv, PlansAt, Activating
<1>16. ASSUME NEW p \in Ctl, WriteActive(p) PROVE HolderInv'
  BY <1>16 DEF WriteActive, PlanInv, PlansAt, Activating
<1>17. ASSUME NEW p \in Ctl, WriteMode(p) PROVE HolderInv'
  BY <1>17 DEF WriteMode, AfterMode, PlanInv, PlansAt, Activating
<1>18. ASSUME NEW p \in Ctl, WriteAutostart(p) PROVE HolderInv'
  BY <1>18 DEF WriteAutostart, AfterAutostart, PlanInv, PlansAt, Activating
<1>19. ASSUME NEW p \in Ctl, StartWatchdog(p) PROVE HolderInv'
  BY <1>19 DEF StartWatchdog, PlanInv, PlansAt, Activating
<1>20. ASSUME NEW p \in Ctl, StopWatchdog(p) PROVE HolderInv'
  BY <1>20 DEF StopWatchdog, PlanInv, PlansAt, Activating
<1>21. ASSUME NEW p \in Ctl, Confirm(p) PROVE HolderInv'
  BY <1>21 DEF Confirm, PlanInv, PlansAt, Activating
<1>22. ASSUME NEW p \in Ctl, RollbackPending(p) PROVE HolderInv'
  BY <1>22 DEF RollbackPending, PlanInv, PlansAt, Activating
<1>23. ASSUME NEW p \in Ctl, Clear(p) PROVE HolderInv'
  BY <1>23 DEF Clear, PlanInv, PlansAt, Activating
<1>24. ASSUME NEW p \in Ctl, SetPaths(p) PROVE HolderInv'
  BY <1>24 DEF SetPaths, PlanInv, PlansAt, Activating
<1>25. ASSUME NEW p \in Ctl, RefreshPaths(p) PROVE HolderInv'
  BY <1>25 DEF RefreshPaths, PlanInv, PlansAt, Activating
<1>26. ASSUME NEW p \in Ctl, RemoveSubscription(p) PROVE HolderInv'
  BY <1>26 DEF RemoveSubscription, PlanInv, PlansAt, Activating
<1>27. ASSUME NEW p \in Web, Request(p) PROVE HolderInv'
  BY <1>27 DEF Request, Spawn, Ctl
<1>28. ASSUME NEW n \in Nodes, TimerFires(n) PROVE HolderInv'
  BY <1>28 DEF TimerFires, Call, Spawn, Ctl, Daemons
<1>29. ASSUME NEW c \in {"update", "youtube"}, CheckEnds(c) PROVE HolderInv'
  BY <1>29 DEF CheckEnds
<1>30. CASE DogTop
  BY <1>30 DEF DogTop
<1>31. CASE DogWakes
  BY <1>31 DEF DogWakes, Call, Spawn, Ctl, Daemons
<1>32. CASE DogHealth
  BY <1>32 DEF DogHealth, Call, Spawn, Ctl, Daemons
<1>33. CASE DogUpdate
  BY <1>33 DEF DogUpdate, Call, Spawn, Ctl, Daemons
<1>34. CASE DogLeaves
  BY <1>34 DEF DogLeaves
<1>35. CASE BootStart
  BY <1>35 DEF BootStart, Call, Spawn, Ctl, Daemons
<1>36. CASE BootDirect
  BY <1>36 DEF BootDirect, Call, Spawn, Ctl, Daemons
<1>37. CASE RelaysEnd
  BY <1>37 DEF RelaysEnd
<1>38. CASE EngineCrash
  BY <1>38 DEF EngineCrash
<1>39. CASE Reboot
  BY <1>39 DEF Reboot
<1>40. CASE UNCHANGED vars
  BY <1>40 DEF vars
<1> QED
  BY <1>1, <1>2, <1>3, <1>4, <1>5, <1>6, <1>7, <1>8, <1>9, <1>10, <1>11,
     <1>12, <1>13, <1>14, <1>15, <1>16, <1>17, <1>18, <1>19, <1>20, <1>21,
     <1>22, <1>23, <1>24, <1>25, <1>26, <1>27, <1>28, <1>29, <1>30, <1>31,
     <1>32, <1>33, <1>34, <1>35, <1>36, <1>37, <1>38, <1>39, <1>40 DEF Next,
     System, Run, Dog

\* The record is brought up to date before the owner releases the lock.
LEMMA RecordStep ==
  ASSUME TypeOK, PlanInv, LockInv, ArgInv, HolderInv, RecordInv, [Next]_vars
  PROVE  RecordInv'
<1> USE NodesAssumption, WebAssumption, CommandsAssumption
<1> USE DEF TypeOK, Goto, Stay, disk, net, clock, sup, LockInv, HolderInv,
   Known, Settled, Calm, Direct, ModeOf, Steps, Alive, NodeOrNone, ArgInv,
   RecordInv, OnRecord, Recorded
<1>1. ASSUME NEW p \in Ctl, Gate(p) PROVE RecordInv'
  BY <1>1 DEF Gate, PlanInv, PlansAt, Activating
<1>2. ASSUME NEW p \in Ctl, LaunchCheck(p) PROVE RecordInv'
  BY <1>2 DEF LaunchCheck, PlanInv, PlansAt, Activating
<1>3. ASSUME NEW p \in Ctl, Acquire(p) PROVE RecordInv'
  BY <1>3 DEF Acquire, First, PlanInv, PlansAt, Activating, Commands, Unlocked
<1>4. ASSUME NEW p \in Ctl, Finish(p) PROVE RecordInv'
  BY <1>4 DEF Finish, PlanInv, PlansAt, Activating
<1>5. ASSUME NEW p \in Ctl, ValidId(p) PROVE RecordInv'
  BY <1>5 DEF ValidId, PlanInv, PlansAt, Activating
<1>6. ASSUME NEW p \in Ctl, RoutesRemove(p) PROVE RecordInv'
  BY <1>6 DEF RoutesRemove, AfterRemove, PlanInv, PlansAt, Activating
<1>7. ASSUME NEW p \in Ctl, StopEngine(p) PROVE RecordInv'
  BY <1>7 DEF StopEngine, AfterStop, PlanInv, PlansAt, Activating
<1>8. ASSUME NEW p \in Ctl, ProbeNode(p) PROVE RecordInv'
  BY <1>8 DEF ProbeNode, Recover, PlanInv, PlansAt, Activating
<1>9. ASSUME NEW p \in Ctl, StartEngine(p) PROVE RecordInv'
  BY <1>9 DEF StartEngine, Recover, AfterStart, PlanInv, PlansAt, Activating
<1>10. ASSUME NEW p \in Ctl, LocalTunnelProbe(p) PROVE RecordInv'
  BY <1>10 DEF LocalTunnelProbe, Recover, PlanInv, PlansAt, Activating
<1>11. ASSUME NEW p \in Ctl, RoutesAdd(p) PROVE RecordInv'
  BY <1>11 DEF RoutesAdd, Recover, PlanInv, PlansAt, Activating
<1>12. ASSUME NEW p \in Ctl, NextNode(p) PROVE RecordInv'
  BY <1>12 DEF NextNode, PlanInv, PlansAt, Activating
<1>13. ASSUME NEW p \in Ctl, Rank(p) PROVE RecordInv'
  BY <1>13 DEF Rank, PlanInv, PlansAt, Activating
<1>14. ASSUME NEW p \in Ctl, Cancel(p) PROVE RecordInv'
  BY <1>14 DEF Cancel, AfterCancel, PlanInv, PlansAt, Activating
<1>15. ASSUME NEW p \in Ctl, Arm(p) PROVE RecordInv'
  BY <1>15 DEF Arm, Recover, PlanInv, PlansAt, Activating
<1>16. ASSUME NEW p \in Ctl, WriteActive(p) PROVE RecordInv'
  BY <1>16 DEF WriteActive, PlanInv, PlansAt, Activating
<1>17. ASSUME NEW p \in Ctl, WriteMode(p) PROVE RecordInv'
  BY <1>17 DEF WriteMode, AfterMode, PlanInv, PlansAt, Activating
<1>18. ASSUME NEW p \in Ctl, WriteAutostart(p) PROVE RecordInv'
  BY <1>18 DEF WriteAutostart, AfterAutostart, PlanInv, PlansAt, Activating
<1>19. ASSUME NEW p \in Ctl, StartWatchdog(p) PROVE RecordInv'
  BY <1>19 DEF StartWatchdog, PlanInv, PlansAt, Activating
<1>20. ASSUME NEW p \in Ctl, StopWatchdog(p) PROVE RecordInv'
  BY <1>20 DEF StopWatchdog, PlanInv, PlansAt, Activating
<1>21. ASSUME NEW p \in Ctl, Confirm(p) PROVE RecordInv'
  BY <1>21 DEF Confirm, PlanInv, PlansAt, Activating
<1>22. ASSUME NEW p \in Ctl, RollbackPending(p) PROVE RecordInv'
  BY <1>22 DEF RollbackPending, PlanInv, PlansAt, Activating
<1>23. ASSUME NEW p \in Ctl, Clear(p) PROVE RecordInv'
  BY <1>23 DEF Clear, PlanInv, PlansAt, Activating
<1>24. ASSUME NEW p \in Ctl, SetPaths(p) PROVE RecordInv'
  BY <1>24 DEF SetPaths, PlanInv, PlansAt, Activating
<1>25. ASSUME NEW p \in Ctl, RefreshPaths(p) PROVE RecordInv'
  BY <1>25 DEF RefreshPaths, PlanInv, PlansAt, Activating
<1>26. ASSUME NEW p \in Ctl, RemoveSubscription(p) PROVE RecordInv'
  BY <1>26 DEF RemoveSubscription, PlanInv, PlansAt, Activating
<1>27. ASSUME NEW p \in Web, Request(p) PROVE RecordInv'
  BY <1>27 DEF Request, Spawn, Ctl
<1>28. ASSUME NEW n \in Nodes, TimerFires(n) PROVE RecordInv'
  BY <1>28 DEF TimerFires, Call, Spawn, Ctl, Daemons
<1>29. ASSUME NEW c \in {"update", "youtube"}, CheckEnds(c) PROVE RecordInv'
  BY <1>29 DEF CheckEnds
<1>30. CASE DogTop
  BY <1>30 DEF DogTop
<1>31. CASE DogWakes
  BY <1>31 DEF DogWakes, Call, Spawn, Ctl, Daemons
<1>32. CASE DogHealth
  BY <1>32 DEF DogHealth, Call, Spawn, Ctl, Daemons
<1>33. CASE DogUpdate
  BY <1>33 DEF DogUpdate, Call, Spawn, Ctl, Daemons
<1>34. CASE DogLeaves
  BY <1>34 DEF DogLeaves
<1>35. CASE BootStart
  BY <1>35 DEF BootStart, Call, Spawn, Ctl, Daemons
<1>36. CASE BootDirect
  BY <1>36 DEF BootDirect, Call, Spawn, Ctl, Daemons
<1>37. CASE RelaysEnd
  BY <1>37 DEF RelaysEnd
<1>38. CASE EngineCrash
  BY <1>38 DEF EngineCrash
<1>39. CASE Reboot
  BY <1>39 DEF Reboot
<1>40. CASE UNCHANGED vars
  BY <1>40 DEF vars
<1> QED
  BY <1>1, <1>2, <1>3, <1>4, <1>5, <1>6, <1>7, <1>8, <1>9, <1>10, <1>11,
     <1>12, <1>13, <1>14, <1>15, <1>16, <1>17, <1>18, <1>19, <1>20, <1>21,
     <1>22, <1>23, <1>24, <1>25, <1>26, <1>27, <1>28, <1>29, <1>30, <1>31,
     <1>32, <1>33, <1>34, <1>35, <1>36, <1>37, <1>38, <1>39, <1>40 DEF Next,
     System, Run, Dog

\* A redirect opens only on the engine that passed its test.
LEMMA TestedStep ==
  ASSUME TypeOK, LockInv, HolderInv, OnlyTestedServesLan, [Next]_vars
  PROVE  OnlyTestedServesLan'
<1> USE NodesAssumption, WebAssumption, CommandsAssumption
<1> USE DEF TypeOK, Goto, Stay, disk, net, clock, sup, LockInv, HolderInv,
   Known, Alive, NodeOrNone, Steps, OnlyTestedServesLan
<1>1. ASSUME NEW p \in Ctl, StopEngine(p) PROVE OnlyTestedServesLan'
  BY <1>1 DEF StopEngine
<1>2. ASSUME NEW p \in Ctl, StartEngine(p) PROVE OnlyTestedServesLan'
  BY <1>2 DEF StartEngine
<1>3. ASSUME NEW p \in Ctl, LocalTunnelProbe(p) PROVE OnlyTestedServesLan'
  BY <1>3 DEF LocalTunnelProbe
<1>4. ASSUME NEW p \in Ctl, RoutesAdd(p) PROVE OnlyTestedServesLan'
  BY <1>4 DEF RoutesAdd
<1>5. ASSUME NEW p \in Ctl, RoutesRemove(p) PROVE OnlyTestedServesLan'
  BY <1>5 DEF RoutesRemove
<1>6. ASSUME NEW p \in Ctl, SetPaths(p) PROVE OnlyTestedServesLan'
  BY <1>6 DEF SetPaths
<1>7. ASSUME NEW p \in Web, Request(p) PROVE OnlyTestedServesLan'
  BY <1>7 DEF Request
<1>8. ASSUME NEW n \in Nodes, TimerFires(n) PROVE OnlyTestedServesLan'
  BY <1>8 DEF TimerFires, Call
<1>9. ASSUME NEW c \in {"update", "youtube"}, CheckEnds(c) PROVE
   OnlyTestedServesLan'
  BY <1>9 DEF CheckEnds
<1>10. CASE DogTop
  BY <1>10 DEF DogTop
<1>11. CASE DogWakes
  BY <1>11 DEF DogWakes, Call
<1>12. CASE DogHealth
  BY <1>12 DEF DogHealth, Call
<1>13. CASE DogUpdate
  BY <1>13 DEF DogUpdate, Call
<1>14. CASE DogLeaves
  BY <1>14 DEF DogLeaves
<1>15. CASE BootStart
  BY <1>15 DEF BootStart, Call
<1>16. CASE BootDirect
  BY <1>16 DEF BootDirect, Call
<1>17. CASE RelaysEnd
  BY <1>17 DEF RelaysEnd
<1>18. CASE EngineCrash
  BY <1>18 DEF EngineCrash
<1>19. CASE Reboot
  BY <1>19 DEF Reboot
<1>20. ASSUME NEW p \in Ctl, Gate(p) \/ LaunchCheck(p) \/ Acquire(p) \/
   Finish(p) \/ ValidId(p) \/ ProbeNode(p) \/ NextNode(p) \/ Rank(p) \/
   Cancel(p) \/ Arm(p) \/ WriteActive(p) \/ WriteMode(p) \/ WriteAutostart(p)
   \/ StartWatchdog(p) \/ StopWatchdog(p) \/ Confirm(p) \/ RollbackPending(p)
   \/ Clear(p) \/ RefreshPaths(p) \/ RemoveSubscription(p) PROVE
   OnlyTestedServesLan'
  BY <1>20 DEF Gate, LaunchCheck, Acquire, Finish, ValidId, ProbeNode,
     NextNode, Rank, Cancel, Arm, WriteActive, WriteMode, WriteAutostart,
     StartWatchdog, StopWatchdog, Confirm, RollbackPending, Clear,
     RefreshPaths, RemoveSubscription
<1>21. CASE UNCHANGED vars
  BY <1>21 DEF vars
<1> QED
  BY <1>1, <1>2, <1>3, <1>4, <1>5, <1>6, <1>7, <1>8, <1>9, <1>10, <1>11,
     <1>12, <1>13, <1>14, <1>15, <1>16, <1>17, <1>18, <1>19, <1>20, <1>21 DEF
     Next, System, Run, Dog

\* ACTIVE is written before MODE and AUTOSTART.
LEMMA NamesStep ==
  ASSUME TypeOK, LockInv, ArgInv, HolderInv, ModeNamesServer, [Next]_vars
  PROVE  ModeNamesServer'
<1> USE NodesAssumption, WebAssumption, CommandsAssumption
<1> USE DEF TypeOK, Goto, Stay, disk, net, clock, sup, LockInv, HolderInv,
   Known, Alive, NodeOrNone, Steps, ArgInv, ModeNamesServer
<1>1. ASSUME NEW p \in Ctl, WriteActive(p) PROVE ModeNamesServer'
  BY <1>1 DEF WriteActive
<1>2. ASSUME NEW p \in Ctl, WriteMode(p) PROVE ModeNamesServer'
  BY <1>2 DEF WriteMode, ModeOf
<1>3. ASSUME NEW p \in Ctl, WriteAutostart(p) PROVE ModeNamesServer'
  BY <1>3 DEF WriteAutostart, AutostartOf
<1>4. ASSUME NEW p \in Web, Request(p) PROVE ModeNamesServer'
  BY <1>4 DEF Request
<1>5. ASSUME NEW n \in Nodes, TimerFires(n) PROVE ModeNamesServer'
  BY <1>5 DEF TimerFires, Call
<1>6. ASSUME NEW c \in {"update", "youtube"}, CheckEnds(c) PROVE
   ModeNamesServer'
  BY <1>6 DEF CheckEnds
<1>7. CASE DogTop
  BY <1>7 DEF DogTop
<1>8. CASE DogWakes
  BY <1>8 DEF DogWakes, Call
<1>9. CASE DogHealth
  BY <1>9 DEF DogHealth, Call
<1>10. CASE DogUpdate
  BY <1>10 DEF DogUpdate, Call
<1>11. CASE DogLeaves
  BY <1>11 DEF DogLeaves
<1>12. CASE BootStart
  BY <1>12 DEF BootStart, Call
<1>13. CASE BootDirect
  BY <1>13 DEF BootDirect, Call
<1>14. CASE RelaysEnd
  BY <1>14 DEF RelaysEnd
<1>15. CASE EngineCrash
  BY <1>15 DEF EngineCrash
<1>16. CASE Reboot
  BY <1>16 DEF Reboot
<1>17. ASSUME NEW p \in Ctl, Gate(p) \/ LaunchCheck(p) \/ Acquire(p) \/
   Finish(p) \/ ValidId(p) \/ RoutesRemove(p) \/ StopEngine(p) \/ ProbeNode(p)
   \/ StartEngine(p) \/ LocalTunnelProbe(p) \/ RoutesAdd(p) \/ NextNode(p) \/
   Rank(p) \/ Cancel(p) \/ Arm(p) \/ StartWatchdog(p) \/ StopWatchdog(p) \/
   Confirm(p) \/ RollbackPending(p) \/ Clear(p) \/ SetPaths(p) \/
   RefreshPaths(p) \/ RemoveSubscription(p) PROVE ModeNamesServer'
  BY <1>17 DEF Gate, LaunchCheck, Acquire, Finish, ValidId, RoutesRemove,
     StopEngine, ProbeNode, StartEngine, LocalTunnelProbe, RoutesAdd,
     NextNode, Rank, Cancel, Arm, StartWatchdog, StopWatchdog, Confirm,
     RollbackPending, Clear, SetPaths, RefreshPaths, RemoveSubscription
<1>18. CASE UNCHANGED vars
  BY <1>18 DEF vars
<1> QED
  BY <1>1, <1>2, <1>3, <1>4, <1>5, <1>6, <1>7, <1>8, <1>9, <1>10, <1>11,
     <1>12, <1>13, <1>14, <1>15, <1>16, <1>17, <1>18 DEF Next, System, Run,
     Dog

\* Every step is a step of TestedRedirect or leaves its variables alone.
LEMMA PromiseStep ==
  ASSUME TypeOK, LockInv, ArgInv, HolderInv, OnlyTestedServesLan, [Next]_vars
  PROVE  [Promise!Next]_(Promise!vars)
<1> USE NodesAssumption, WebAssumption, CommandsAssumption
<1> USE DEF TypeOK, Goto, Stay, disk, net, clock, sup, LockInv, HolderInv,
   Known, Alive, NodeOrNone, Steps, ArgInv, OnlyTestedServesLan, Promise!Next,
   Promise!Launch, Promise!Prove, Promise!Open, Promise!Close, Promise!End,
   Promise!vars
<1>1. ASSUME NEW p \in Ctl, StopEngine(p) PROVE [Promise!Next]_(Promise!vars)
  BY <1>1 DEF StopEngine
<1>2. ASSUME NEW p \in Ctl, StartEngine(p) PROVE [Promise!Next]_(Promise!vars)
  BY <1>2 DEF StartEngine
<1>3. ASSUME NEW p \in Ctl, LocalTunnelProbe(p) PROVE
   [Promise!Next]_(Promise!vars)
  BY <1>3 DEF LocalTunnelProbe
<1>4. ASSUME NEW p \in Ctl, RoutesAdd(p) PROVE [Promise!Next]_(Promise!vars)
  BY <1>4 DEF RoutesAdd
<1>5. ASSUME NEW p \in Ctl, RoutesRemove(p) PROVE
   [Promise!Next]_(Promise!vars)
  BY <1>5 DEF RoutesRemove
<1>6. ASSUME NEW p \in Ctl, SetPaths(p) PROVE [Promise!Next]_(Promise!vars)
  BY <1>6 DEF SetPaths
<1>7. ASSUME NEW p \in Web, Request(p) PROVE [Promise!Next]_(Promise!vars)
  BY <1>7 DEF Request
<1>8. ASSUME NEW n \in Nodes, TimerFires(n) PROVE
   [Promise!Next]_(Promise!vars)
  BY <1>8 DEF TimerFires, Call
<1>9. ASSUME NEW c \in {"update", "youtube"}, CheckEnds(c) PROVE
   [Promise!Next]_(Promise!vars)
  BY <1>9 DEF CheckEnds
<1>10. CASE DogTop
  BY <1>10 DEF DogTop
<1>11. CASE DogWakes
  BY <1>11 DEF DogWakes, Call
<1>12. CASE DogHealth
  BY <1>12 DEF DogHealth, Call
<1>13. CASE DogUpdate
  BY <1>13 DEF DogUpdate, Call
<1>14. CASE DogLeaves
  BY <1>14 DEF DogLeaves
<1>15. CASE BootStart
  BY <1>15 DEF BootStart, Call
<1>16. CASE BootDirect
  BY <1>16 DEF BootDirect, Call
<1>17. CASE RelaysEnd
  BY <1>17 DEF RelaysEnd
<1>18. CASE EngineCrash
  BY <1>18 DEF EngineCrash
<1>19. CASE Reboot
  BY <1>19 DEF Reboot
<1>20. ASSUME NEW p \in Ctl, Gate(p) \/ LaunchCheck(p) \/ Acquire(p) \/
   Finish(p) \/ ValidId(p) \/ ProbeNode(p) \/ NextNode(p) \/ Rank(p) \/
   Cancel(p) \/ Arm(p) \/ WriteActive(p) \/ WriteMode(p) \/ WriteAutostart(p)
   \/ StartWatchdog(p) \/ StopWatchdog(p) \/ Confirm(p) \/ RollbackPending(p)
   \/ Clear(p) \/ RefreshPaths(p) \/ RemoveSubscription(p) PROVE
   [Promise!Next]_(Promise!vars)
  BY <1>20 DEF Gate, LaunchCheck, Acquire, Finish, ValidId, ProbeNode,
     NextNode, Rank, Cancel, Arm, WriteActive, WriteMode, WriteAutostart,
     StartWatchdog, StopWatchdog, Confirm, RollbackPending, Clear,
     RefreshPaths, RemoveSubscription
<1>21. CASE UNCHANGED vars
  BY <1>21 DEF vars
<1> QED
  BY <1>1, <1>2, <1>3, <1>4, <1>5, <1>6, <1>7, <1>8, <1>9, <1>10, <1>11,
     <1>12, <1>13, <1>14, <1>15, <1>16, <1>17, <1>18, <1>19, <1>20, <1>21 DEF
     Next, System, Run, Dog

-----------------------------------------------------------------------------
(* Modes that promise the VPN.                                             *)

\* The commands that write the mode before they end, or do not take the lock,
\* and what may fail without bringing one of them to an early end.
ModeWriters == {"enable", "best-youtube", "disable", "stop-local", "failover",
                "refresh", "rank-youtube"}
Tolerated   == Faults \ {"valid_id", "rank", "files"}

Real == mode \in {"pending", "on"} => routes = "on"

\* Who runs what, when nobody confirms: no watchdog, and of the scripts only
\* the timer's are a rollback.
RunInv ==
  /\ dog = "none"
  /\ \A p \in Ctl :
       /\ plan[p] \in ModeWriters \cup {"rollback-pending", "giveup", "none"}
       /\ plan[p] = "rollback-pending" => p = "timer"
       /\ pc[p] = "exit" => lock = p \/ plan[p] \in Unlocked
  /\ CASE boot = "enable"  -> plan["boot"] \in {"enable", "giveup"}
       [] boot = "disable" -> plan["boot"] = "disable"
       [] OTHER            -> pc["boot"] = "idle"

\* After a power cut the mode may be wrong until the first script that takes
\* the lock has released it.  This has happened when the boot script is through or
\* its `disable' was refused, and when there is or was a timer.
RealInv ==
  /\ \/ boot = "up"
     \/ boot = "disable" /\ pc["boot"] = "fail"
     \/ timers # {} \/ pc["timer"] # "idle"
     => lock # None \/ Real
  /\ lock # None =>
       /\ pc[lock] \in {"rollback-pending", "autostart", "arm", "exit", "fail"} => Real
       /\ pc[lock] \in {"active", "mode"} /\ ModeOf(plan[lock]) \in {"pending", "on"} =>
            routes = "on"

\* Nothing is promised before the first command.
LEMMA RealInit == Init => RunInv /\ RealInv
  BY WebAssumption DEF Init, RunInv, RealInv, Real, Ctl, Daemons

\* Without a confirmation there is no watchdog, and only the timer rolls back.
LEMMA RunStep ==
  ASSUME UserCommands \subseteq ModeWriters, MayFail \subseteq Tolerated,
         TypeOK, PlanInv, LockInv, RunInv, [Next]_vars
  PROVE  RunInv'
<1> USE NodesAssumption, WebAssumption, CommandsAssumption
<1> USE DEF TypeOK, Goto, Stay, disk, net, clock, sup, LockInv, RunInv,
   ModeWriters, Tolerated, Steps, May, Unlocked, Daemons, Ctl
<1>1. ASSUME NEW p \in Ctl, Gate(p) PROVE RunInv'
  BY <1>1 DEF Gate, PlanInv, PlansAt, Activating
<1>2. ASSUME NEW p \in Ctl, LaunchCheck(p) PROVE RunInv'
  BY <1>2 DEF LaunchCheck, PlanInv, PlansAt, Activating
<1>3. ASSUME NEW p \in Ctl, Acquire(p) PROVE RunInv'
  BY <1>3 DEF Acquire, First, PlanInv, PlansAt, Activating, Commands
<1>4. ASSUME NEW p \in Ctl, Finish(p) PROVE RunInv'
  BY <1>4 DEF Finish, Resume, PlanInv, PlansAt, Activating
<1>5. ASSUME NEW p \in Ctl, ValidId(p) PROVE RunInv'
  BY <1>5 DEF ValidId, PlanInv, PlansAt, Activating
<1>6. ASSUME NEW p \in Ctl, RoutesRemove(p) PROVE RunInv'
  BY <1>6 DEF RoutesRemove, AfterRemove, PlanInv, PlansAt, Activating
<1>7. ASSUME NEW p \in Ctl, StopEngine(p) PROVE RunInv'
  BY <1>7 DEF StopEngine, AfterStop, PlanInv, PlansAt, Activating
<1>8. ASSUME NEW p \in Ctl, ProbeNode(p) PROVE RunInv'
  BY <1>8 DEF ProbeNode, Recover, PlanInv, PlansAt, Activating
<1>9. ASSUME NEW p \in Ctl, StartEngine(p) PROVE RunInv'
  BY <1>9 DEF StartEngine, Recover, AfterStart, PlanInv, PlansAt, Activating
<1>10. ASSUME NEW p \in Ctl, LocalTunnelProbe(p) PROVE RunInv'
  BY <1>10 DEF LocalTunnelProbe, Recover, PlanInv, PlansAt, Activating
<1>11. ASSUME NEW p \in Ctl, RoutesAdd(p) PROVE RunInv'
  BY <1>11 DEF RoutesAdd, Recover, PlanInv, PlansAt, Activating
<1>12. ASSUME NEW p \in Ctl, NextNode(p) PROVE RunInv'
  <2>1. plan[p] = "failover" /\ p # "boot" /\ lock = p
    BY <1>12 DEF NextNode, PlanInv, PlansAt
  <2>2. /\ UNCHANGED <<lock, dog, boot>>
        /\ \/ pc' = [pc EXCEPT ![p] = "probe_node"] /\ plan' = plan
           \/ /\ pc' = [pc EXCEPT ![p] = "routes_remove"]
              /\ plan' = [plan EXCEPT ![p] = "giveup"]
    BY <1>12 DEF NextNode
  <2> QED BY <2>1, <2>2
<1>13. ASSUME NEW p \in Ctl, Rank(p) PROVE RunInv'
  BY <1>13 DEF Rank, PlanInv, PlansAt, Activating
<1>14. ASSUME NEW p \in Ctl, Cancel(p) PROVE RunInv'
  BY <1>14 DEF Cancel, AfterCancel, PlanInv, PlansAt, Activating
<1>15. ASSUME NEW p \in Ctl, Arm(p) PROVE RunInv'
  BY <1>15 DEF Arm, Recover, PlanInv, PlansAt, Activating
<1>16. ASSUME NEW p \in Ctl, WriteActive(p) PROVE RunInv'
  BY <1>16 DEF WriteActive, PlanInv, PlansAt, Activating
<1>17. ASSUME NEW p \in Ctl, WriteMode(p) PROVE RunInv'
  BY <1>17 DEF WriteMode, AfterMode, PlanInv, PlansAt, Activating
<1>18. ASSUME NEW p \in Ctl, WriteAutostart(p) PROVE RunInv'
  BY <1>18 DEF WriteAutostart, AfterAutostart, PlanInv, PlansAt, Activating
<1>19. ASSUME NEW p \in Ctl, StartWatchdog(p) PROVE RunInv'
  BY <1>19 DEF StartWatchdog, PlanInv, PlansAt, Activating
<1>20. ASSUME NEW p \in Ctl, StopWatchdog(p) PROVE RunInv'
  BY <1>20 DEF StopWatchdog, PlanInv, PlansAt, Activating
<1>21. ASSUME NEW p \in Ctl, Confirm(p) PROVE RunInv'
  BY <1>21 DEF Confirm, PlanInv, PlansAt, Activating
<1>22. ASSUME NEW p \in Ctl, RollbackPending(p) PROVE RunInv'
  BY <1>22 DEF RollbackPending, PlanInv, PlansAt, Activating
<1>23. ASSUME NEW p \in Ctl, Clear(p) PROVE RunInv'
  BY <1>23 DEF Clear, PlanInv, PlansAt, Activating
<1>24. ASSUME NEW p \in Ctl, SetPaths(p) PROVE RunInv'
  BY <1>24 DEF SetPaths, PlanInv, PlansAt, Activating
<1>25. ASSUME NEW p \in Ctl, RefreshPaths(p) PROVE RunInv'
  BY <1>25 DEF RefreshPaths, PlanInv, PlansAt, Activating
<1>26. ASSUME NEW p \in Ctl, RemoveSubscription(p) PROVE RunInv'
  BY <1>26 DEF RemoveSubscription, PlanInv, PlansAt, Activating
<1>27. ASSUME NEW p \in Web, Request(p) PROVE RunInv'
  BY <1>27 DEF Request, Spawn
<1>28. ASSUME NEW n \in Nodes, TimerFires(n) PROVE RunInv'
  BY <1>28 DEF TimerFires, Call, Spawn
<1>29. ASSUME NEW c \in {"update", "youtube"}, CheckEnds(c) PROVE RunInv'
  BY <1>29 DEF CheckEnds
<1>30. CASE DogTop
  BY <1>30 DEF DogTop
<1>31. CASE DogWakes
  BY <1>31 DEF DogWakes, Call, Spawn
<1>32. CASE DogHealth
  BY <1>32 DEF DogHealth, Call, Spawn
<1>33. CASE DogUpdate
  BY <1>33 DEF DogUpdate, Call, Spawn
<1>34. CASE DogLeaves
  BY <1>34 DEF DogLeaves
<1>35. CASE BootStart
  BY <1>35 DEF BootStart, Call, Spawn
<1>36. CASE BootDirect
  BY <1>36 DEF BootDirect, Call, Spawn
<1>37. CASE RelaysEnd
  BY <1>37 DEF RelaysEnd
<1>38. CASE EngineCrash
  BY <1>38 DEF EngineCrash
<1>39. CASE Reboot
  BY <1>39 DEF Reboot
<1>40. CASE UNCHANGED vars
  BY <1>40 DEF vars
<1> QED
  BY <1>1, <1>2, <1>3, <1>4, <1>5, <1>6, <1>7, <1>8, <1>9, <1>10, <1>11,
     <1>12, <1>13, <1>14, <1>15, <1>16, <1>17, <1>18, <1>19, <1>20, <1>21,
     <1>22, <1>23, <1>24, <1>25, <1>26, <1>27, <1>28, <1>29, <1>30, <1>31,
     <1>32, <1>33, <1>34, <1>35, <1>36, <1>37, <1>38, <1>39, <1>40 DEF Next,
     System, Run, Dog

\* A script that holds the lock writes the mode it stands for before it ends.
LEMMA RealStep ==
  ASSUME UserCommands \subseteq ModeWriters, MayFail \subseteq Tolerated,
         TypeOK, PlanInv, LockInv, RunInv, RealInv, [Next]_vars
  PROVE  RealInv'
<1> USE NodesAssumption, WebAssumption, CommandsAssumption
<1> USE DEF TypeOK, Goto, Stay, disk, net, clock, sup, LockInv, RunInv, RealInv,
   ModeWriters, Tolerated, Real, ModeOf, Steps, May, Unlocked, Daemons, Ctl
<1>1. ASSUME NEW p \in Ctl, Gate(p) PROVE RealInv'
  BY <1>1 DEF Gate, PlanInv, PlansAt, Gated
<1>2. ASSUME NEW p \in Ctl, LaunchCheck(p) PROVE RealInv'
  BY <1>2 DEF LaunchCheck, PlanInv, PlansAt, Activating
<1>3. ASSUME NEW p \in Ctl, Acquire(p) PROVE RealInv'
  BY <1>3 DEF Acquire, First, PlanInv, PlansAt, Activating, Commands
<1>4. ASSUME NEW p \in Ctl, Finish(p) PROVE RealInv'
  BY <1>4 DEF Finish, Resume, PlanInv, PlansAt, Activating
<1>5. ASSUME NEW p \in Ctl, ValidId(p) PROVE RealInv'
  BY <1>5 DEF ValidId, PlanInv, PlansAt, Activating
<1>6. ASSUME NEW p \in Ctl, RoutesRemove(p) PROVE RealInv'
  BY <1>6 DEF RoutesRemove, AfterRemove, PlanInv, PlansAt, Activating
<1>7. ASSUME NEW p \in Ctl, StopEngine(p) PROVE RealInv'
  BY <1>7 DEF StopEngine, AfterStop, PlanInv, PlansAt, Activating
<1>8. ASSUME NEW p \in Ctl, ProbeNode(p) PROVE RealInv'
  <2>1. lock = p /\ plan[p] \in {"enable", "failover"}
    BY <1>8 DEF ProbeNode, PlanInv, PlansAt
  <2>2. /\ UNCHANGED <<mode, routes, lock, timers, boot>>
        /\ \/ \E l \in {"start_engine", "routes_remove"} : pc' = [pc EXCEPT ![p] = l]
           \/ /\ pc' = [pc EXCEPT ![p] = "mode"]
              /\ plan' = [plan EXCEPT ![p] = "giveup"]
    BY <1>8, <2>1 DEF ProbeNode, Recover, Activating
  <2> QED BY <2>1, <2>2 DEF Activating
<1>9. ASSUME NEW p \in Ctl, StartEngine(p) PROVE RealInv'
  <2>1. lock = p /\ plan[p] \in {"enable", "best-youtube", "failover"}
    BY <1>9 DEF StartEngine, PlanInv, PlansAt
  <2>2. /\ UNCHANGED <<mode, routes, lock, timers, boot>>
        /\ \/ \E l \in {"local_tunnel_probe", "routes_remove"} : pc' = [pc EXCEPT ![p] = l]
           \/ /\ pc' = [pc EXCEPT ![p] = "mode"]
              /\ plan' = [plan EXCEPT ![p] = "giveup"]
    BY <1>9, <2>1 DEF StartEngine, Recover, AfterStart, Activating
  <2> QED BY <2>1, <2>2 DEF Activating
<1>10. ASSUME NEW p \in Ctl, LocalTunnelProbe(p) PROVE RealInv'
  <2>1. lock = p /\ plan[p] \in {"enable", "best-youtube", "failover"}
    BY <1>10 DEF LocalTunnelProbe, PlanInv, PlansAt
  <2>2. /\ UNCHANGED <<mode, routes, lock, timers, boot>>
        /\ \E l \in {"routes_add", "stop_engine", "routes_remove"} : pc' = [pc EXCEPT ![p] = l]
    BY <1>10, <2>1 DEF LocalTunnelProbe, Recover, Activating
  <2> QED BY <2>1, <2>2 DEF Activating
<1>11. ASSUME NEW p \in Ctl, RoutesAdd(p) PROVE RealInv'
  <2>1. lock = p /\ plan[p] \in {"enable", "best-youtube", "failover"}
    BY <1>11 DEF RoutesAdd, PlanInv, PlansAt
  <2>2. /\ UNCHANGED <<mode, lock, timers, boot>>
        /\ \/ pc' = [pc EXCEPT ![p] = "active"] /\ plan' = plan /\ routes' = "on"
           \/ pc' = [pc EXCEPT ![p] = "routes_remove"]
    BY <1>11, <2>1 DEF RoutesAdd, Recover, Activating
  <2> QED BY <2>1, <2>2 DEF Activating
<1>12. ASSUME NEW p \in Ctl, NextNode(p) PROVE RealInv'
  BY <1>12 DEF NextNode, PlanInv, PlansAt, Activating
<1>13. ASSUME NEW p \in Ctl, Rank(p) PROVE RealInv'
  BY <1>13 DEF Rank, PlanInv, PlansAt, Activating
<1>14. ASSUME NEW p \in Ctl, Cancel(p) PROVE RealInv'
  BY <1>14 DEF Cancel, AfterCancel, PlanInv, PlansAt, Activating
<1>15. ASSUME NEW p \in Ctl, Arm(p) PROVE RealInv'
  BY <1>15 DEF Arm, Recover, PlanInv, PlansAt, Activating
<1>16. ASSUME NEW p \in Ctl, WriteActive(p) PROVE RealInv'
  BY <1>16 DEF WriteActive, PlanInv, PlansAt, Activating
<1>17. ASSUME NEW p \in Ctl, WriteMode(p) PROVE RealInv'
  BY <1>17 DEF WriteMode, AfterMode, PlanInv, PlansAt, Activating
<1>18. ASSUME NEW p \in Ctl, WriteAutostart(p) PROVE RealInv'
  BY <1>18 DEF WriteAutostart, AfterAutostart, PlanInv, PlansAt, Activating
<1>19. ASSUME NEW p \in Ctl, StartWatchdog(p) PROVE RealInv'
  BY <1>19 DEF StartWatchdog, PlanInv, PlansAt, Activating
<1>20. ASSUME NEW p \in Ctl, StopWatchdog(p) PROVE RealInv'
  BY <1>20 DEF StopWatchdog, PlanInv, PlansAt, Activating
<1>21. ASSUME NEW p \in Ctl, Confirm(p) PROVE RealInv'
  BY <1>21 DEF Confirm, PlanInv, PlansAt, Activating
<1>22. ASSUME NEW p \in Ctl, RollbackPending(p) PROVE RealInv'
  BY <1>22 DEF RollbackPending, PlanInv, PlansAt, Activating
<1>23. ASSUME NEW p \in Ctl, Clear(p) PROVE RealInv'
  BY <1>23 DEF Clear, PlanInv, PlansAt, Activating
<1>24. ASSUME NEW p \in Ctl, SetPaths(p) PROVE RealInv'
  BY <1>24 DEF SetPaths, PlanInv, PlansAt, Activating
<1>25. ASSUME NEW p \in Ctl, RefreshPaths(p) PROVE RealInv'
  BY <1>25 DEF RefreshPaths, PlanInv, PlansAt, Activating
<1>26. ASSUME NEW p \in Ctl, RemoveSubscription(p) PROVE RealInv'
  BY <1>26 DEF RemoveSubscription, PlanInv, PlansAt, Activating
<1>27. ASSUME NEW p \in Web, Request(p) PROVE RealInv'
  BY <1>27 DEF Request, Spawn
<1>28. ASSUME NEW n \in Nodes, TimerFires(n) PROVE RealInv'
  BY <1>28 DEF TimerFires, Call, Spawn
<1>29. ASSUME NEW c \in {"update", "youtube"}, CheckEnds(c) PROVE RealInv'
  BY <1>29 DEF CheckEnds
<1>30. CASE DogTop
  BY <1>30 DEF DogTop
<1>31. CASE DogWakes
  BY <1>31 DEF DogWakes, Call, Spawn
<1>32. CASE DogHealth
  BY <1>32 DEF DogHealth, Call, Spawn
<1>33. CASE DogUpdate
  BY <1>33 DEF DogUpdate, Call, Spawn
<1>34. CASE DogLeaves
  BY <1>34 DEF DogLeaves
<1>35. CASE BootStart
  BY <1>35 DEF BootStart, Call, Spawn
<1>36. CASE BootDirect
  BY <1>36 DEF BootDirect, Call, Spawn
<1>37. CASE RelaysEnd
  BY <1>37 DEF RelaysEnd
<1>38. CASE EngineCrash
  BY <1>38 DEF EngineCrash
<1>39. CASE Reboot
  BY <1>39 DEF Reboot
<1>40. CASE UNCHANGED vars
  BY <1>40 DEF vars
<1> QED
  BY <1>1, <1>2, <1>3, <1>4, <1>5, <1>6, <1>7, <1>8, <1>9, <1>10, <1>11,
     <1>12, <1>13, <1>14, <1>15, <1>16, <1>17, <1>18, <1>19, <1>20, <1>21,
     <1>22, <1>23, <1>24, <1>25, <1>26, <1>27, <1>28, <1>29, <1>30, <1>31,
     <1>32, <1>33, <1>34, <1>35, <1>36, <1>37, <1>38, <1>39, <1>40 DEF Next,
     System, Run, Dog

-----------------------------------------------------------------------------
(* The theorems.                                                           *)

\* Nothing runs after power-on.
LEMMA InitIInv == Init => IInv
<1> SUFFICES ASSUME Init PROVE IInv
  OBVIOUS
<1> USE NodesAssumption, WebAssumption DEF Init
<1>1. TypeOK
  BY DEF TypeOK, NodeOrNone, Labels, Plans
<1>2. PlanInv /\ LockInv /\ ArgInv
  BY DEF PlanInv, PlansAt, LockInv, ArgInv, Steps
<1>3. HolderInv /\ RecordInv /\ FailuresInv /\ OnlyTestedServesLan
      /\ ModeNamesServer
  BY DEF HolderInv, Calm, Direct, RecordInv, Recorded, FailuresInv, OnlyTestedServesLan,
         ModeNamesServer, Alive
<1> QED
  BY <1>1, <1>2, <1>3 DEF IInv

\* IInv is inductive.
LEMMA IInvStep == IInv /\ [Next]_vars => IInv'
  BY TypeStep, PlanStep, LockStep, ArgStep, FailuresStep, HolderStep,
     RecordStep, TestedStep, NamesStep DEF IInv

\* The invariant holds in every reachable state.
THEOREM Invariance == Spec => []IInv
  BY InitIInv, IInvStep, PTL DEF Spec

\* Type correctness of the supervisor, the bound on the failure count included.
THEOREM TypeCorrect == Spec => []TypeOK
<1>1. IInv => TypeOK
  BY DEF IInv
<1> QED
  BY <1>1, Invariance, PTL

\* With the lock free and the mode off, the internet is direct, no engine and
\* no relay is left: for any servers, users, failures, crashes, power cuts.
THEOREM OffIsDirect == Spec => []DirectWhenOff
<1>1. IInv => DirectWhenOff
  BY DEF IInv, HolderInv, Calm, DirectWhenOff
<1> QED
  BY <1>1, Invariance, PTL

\* With the lock free, LAN traffic is redirected only in the modes "pending" and
\* "on": those that show it to the user, and that a timer or a watchdog ends.
THEOREM RedirectHasMode == Spec => []RedirectOnlyWhenActive
<1>1. IInv => RedirectOnlyWhenActive
  BY DEF IInv, TypeOK, HolderInv, Calm, Direct, RecordInv, Recorded,
         RedirectOnlyWhenActive
<1> QED
  BY <1>1, Invariance, PTL

\* An activation that serves the LAN unconfirmed is on record under the server
\* it runs: the rollback and the confirmation act on that server and no other.
THEOREM PendingOnRecord == Spec => []PendingIsRecorded
<1>1. IInv => PendingIsRecorded
  BY DEF IInv, RecordInv, Recorded, PendingIsRecorded
<1> QED
  BY <1>1, Invariance, PTL

\* If users give only commands that write the mode, and none of these is broken
\* off before it does, then whatever power cut hit whatever step of it: once the
\* boot script is through, a mode that promises the VPN has its redirect.
THEOREM ModeIsTrue ==
  ASSUME UserCommands \subseteq ModeWriters, MayFail \subseteq Tolerated
  PROVE  Spec => []ModeIsReal
<1>1. Init => RunInv /\ RealInv
  BY RealInit
<1>2. IInv /\ RunInv /\ RealInv /\ [Next]_vars => (RunInv /\ RealInv)'
  BY RunStep, RealStep DEF IInv
<1>3. RealInv => ModeIsReal
  BY DEF RealInv, Real, ModeIsReal
<1> QED
  BY <1>1, <1>2, <1>3, Invariance, PTL DEF Spec

\* LAN traffic never reaches a live engine that the tunnel probe did not pass.
THEOREM LanSeesTestedEngine == Spec => []OnlyTestedServesLan
<1>1. IInv => OnlyTestedServesLan
  BY DEF IInv
<1> QED
  BY <1>1, Invariance, PTL

\* A power cut never leaves a mode, or autostart, without its server on disk.
THEOREM ModeIsNeverAnonymous == Spec => []ModeNamesServer
<1>1. IInv => ModeNamesServer
  BY DEF IInv
<1> QED
  BY <1>1, Invariance, PTL

\* Two copies of the script are never inside it at once.
THEOREM OneInside ==
  Spec => [](\A p, q \in Ctl : pc[p] \in Steps /\ pc[q] \in Steps => p = q)
<1>1. IInv => \A p, q \in Ctl : pc[p] \in Steps /\ pc[q] \in Steps => p = q
  BY DEF IInv, LockInv
<1> QED
  BY <1>1, Invariance, PTL

\* The supervisor implements TestedRedirect.
THEOREM Refinement == Spec => ImplementsPromise
<1>1. Init => Promise!Init
  BY NodesAssumption DEF Init, Promise!Init, Alive
<1>2. IInv /\ [Next]_vars => [Promise!Next]_(Promise!vars)
  BY PromiseStep DEF IInv
<1> QED
  BY <1>1, <1>2, Invariance, PTL DEF Spec, Promise!Spec, ImplementsPromise
=============================================================================
