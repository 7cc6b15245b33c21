----------------------------- MODULE Controller -----------------------------
(***************************************************************************)
(* The supervisor of the VPN: the control script n300vpn-control.sh run by *)
(* the web panel, the watchdog, the activation timer and the boot script,  *)
(* with the files it keeps on the USB stick and the engine, the iptables   *)
(* rules and the lock that live in memory.                                 *)
(*                                                                         *)
(* A process of Ctl is one running copy of the control script.  Its label  *)
(* pc is the shell function, or the state file, that it deals with next,   *)
(* under the name the script gives it; `plan' is the command it carries    *)
(* out and `arg' its server.                                               *)
(***************************************************************************)
EXTENDS Naturals

CONSTANTS
  Nodes,         \* the servers of selected.tsv
  None,          \* no server, nobody
  Orphans,       \* "engine" of which only forked relay processes are left
  Web,           \* slots for scripts started by the panel (uhttpd -n 2)
  UserCommands,  \* the commands users give in this instance
  MayFail,       \* the failures of the environment that may happen
  Ticks          \* which counters of the watchdog come due: "health" (every
                 \* 6th round), "update" (every 2160th)

Daemons == {"dog", "timer", "boot"}    \* the other callers of the script
Ctl     == Web \cup Daemons

Commands == {"enable", "best-youtube", "confirm", "disable", "set-paths",
             "refresh-paths", "start-local", "stop-local", "failover",
             "rollback-pending", "remove-subscription", "refresh",
             "rank-youtube"}
Faults == {"valid_id", "probe_node", "start_engine", "local_tunnel_probe",
           "routes_add", "policy_refresh", "arm", "rank", "files",
           "crash", "power"}

ASSUME NodesAssumption    == None \notin Nodes /\ Orphans \notin Nodes \cup {None}
ASSUME WebAssumption      == Web \cap Daemons = {} /\ None \notin Ctl
ASSUME CommandsAssumption == /\ UserCommands \subseteq Commands
                             /\ MayFail \subseteq Faults
                             /\ Ticks \subseteq {"health", "update"}

VARIABLES
  \* state files on the USB stick: they survive a reboot
  mode, active, autostart, pending,
  \* memory: the server of the running engine process, the server whose
  \* running engine passed the local tunnel probe (a history variable), the
  \* redirect in PREROUTING as "status" prints it
  engine, tested, routes,
  \* memory: owner of the control lock; servers of the sleeping rollback
  \* timers and, of these, the one whose pid is in the file ROLLBACK_PID;
  \* background checks that run
  lock, timers, rollback_pid, checks,
  \* running copies of the script; the servers a failover has left to try
  pc, plan, arg, todo,
  \* the watchdog's position in its loop and its count of failed probes, and
  \* the boot script's position
  dog, failures, boot

disk == <<mode, active, autostart, pending>>
net  == <<engine, tested, routes>>
sup  == <<dog, failures, boot>>
clock == <<timers, rollback_pid>>
vars == <<disk, net, lock, clock, checks, pc, plan, arg, todo, sup>>

NodeOrNone == Nodes \cup {None}

-----------------------------------------------------------------------------
(* What each command does, in the order of the script.                     *)

Gated    == {"enable", "best-youtube", "start-local", "remove-subscription",
             "confirm"}                     \* refused during a check
Unlocked == {"refresh", "rank-youtube"}     \* start a check, take no lock
Activating == {"enable", "best-youtube"}

\* A mutant: stop-local and failover stop the engine behind the redirect.
First_KeepsRedirect(c) ==
  CASE c \in {"enable", "start-local"}    -> "valid_id"
    [] c \in {"failover", "stop-local"}   -> "stop_engine"
    [] c = "disable"                      -> "cancel"
    [] c = "best-youtube"                 -> "rank"
    [] OTHER                              -> c

First(c) ==
  CASE c \in {"enable", "start-local"}    -> "valid_id"
    [] c \in {"failover", "stop-local"}   -> "routes_remove"
    [] c = "disable"                      -> "cancel"
    [] c = "best-youtube"                 -> "rank"
    [] OTHER                              -> c

\* A mutant: the tail of a failed activation forgets the engine.
AfterRemove_KeepsEngine(c) ==
  CASE c = "start-local" -> "probe_node"
    [] c = "giveup"      -> "mode"
    [] OTHER             -> "stop_engine"

AfterRemove(c) == IF c = "start-local" THEN "probe_node" ELSE "stop_engine"

\* A mutant: an activation that failed returns to the loop over the servers.
AfterStop_Loops(c) ==
  CASE c = "enable"                                         -> "probe_node"
    [] c = "best-youtube"                                   -> "start_engine"
    [] c \in {"failover", "giveup"}                         -> "next"
    [] c \in {"disable", "rollback-pending", "refresh-paths"} ->
                                                            "stop_watchdog"
    [] c = "unconfirm"                                      -> "cancel"
    [] OTHER                                                -> "mode"

AfterStop(c) ==
  CASE c = "enable"                                         -> "probe_node"
    [] c = "best-youtube"                                   -> "start_engine"
    [] c = "failover"                                       -> "next"
    [] c \in {"disable", "rollback-pending", "refresh-paths"} ->
                                                            "stop_watchdog"
    [] c = "unconfirm"                                      -> "cancel"
    [] OTHER                                                -> "mode"

AfterCancel(c) ==
  CASE c = "disable" -> "routes_remove"
    [] c = "confirm" -> "active"
    [] OTHER         -> "mode"

\* A mutant: the running engine is not tested before the redirect opens.
AfterStart_Untested(c) == IF c = "start-local" THEN "active" ELSE "routes_add"

AfterStart(c) == IF c = "start-local" THEN "active" ELSE "local_tunnel_probe"

ModeOf(c) ==
  CASE c \in Activating               -> "pending"
    [] c \in {"confirm", "failover"}  -> "on"
    [] c = "start-local"              -> "local"
    [] OTHER                          -> "off"

AfterMode(c) ==
  CASE c \in {"start-local", "stop-local"} -> "exit"
    [] c = "unconfirm"                     -> "fail"
    [] OTHER                               -> "autostart"

AutostartOf(c) == IF c = "failover" THEN "on" ELSE "off"

\* A mutant: an activation is not recorded.
AfterAutostart_Unarmed(c) ==
  CASE c \in Activating                  -> "exit"
    [] c = "confirm"                     -> "start_watchdog"
    [] c \in {"giveup", "refresh-paths"} -> "fail"
    [] OTHER                             -> "exit"

AfterAutostart(c) ==
  CASE c \in Activating                  -> "arm"
    [] c = "confirm"                     -> "start_watchdog"
    [] c \in {"giveup", "refresh-paths"} -> "fail"
    [] OTHER                             -> "exit"

\* "giveup" is the tail of an activation that failed (and of a failover that
\* found no server), "unconfirm" the tail of a confirmation that failed; an
\* idle slot has no plan.
Plans == Commands \cup {"giveup", "unconfirm", "none"}

Steps == {"valid_id", "routes_remove", "stop_engine", "probe_node",
          "start_engine", "local_tunnel_probe", "routes_add", "rank",
          "next", "cancel", "active", "mode", "autostart", "arm",
          "start_watchdog", "stop_watchdog", "clear", "confirm",
          "rollback-pending", "set-paths", "refresh-paths",
          "remove-subscription"}
Labels == Steps \cup {"idle", "gate", "launch", "acquire", "exit", "fail"}

Goto(p, l)  == pc' = [pc EXCEPT ![p] = l]
Alive       == engine \in Nodes     \* its pid is in n300vless.pid and alive
May(f)      == f \in MayFail

-----------------------------------------------------------------------------
TypeOK ==
  /\ mode \in {"off", "pending", "on", "local"}
  /\ active \in NodeOrNone
  /\ autostart \in {"off", "on"}
  /\ pending \in NodeOrNone
  /\ engine \in NodeOrNone \cup {Orphans}
  /\ tested \in NodeOrNone
  /\ routes \in {"off", "on"}
  /\ lock \in Ctl \cup {None}
  /\ timers \subseteq Nodes
  /\ rollback_pid \in NodeOrNone
  /\ checks \subseteq {"update", "youtube"}
  /\ pc \in [Ctl -> Labels]
  /\ plan \in [Ctl -> Plans]
  /\ arg \in [Ctl -> NodeOrNone]
  /\ todo \subseteq Nodes
  /\ dog \in {"none", "top", "asleep", "refreshing", "health", "failing",
              "recovering", "update", "updating", "leaving"}
  /\ failures \in 0..2
  /\ boot \in {"start", "enable", "direct", "disable", "up"}

Init ==
  /\ mode = "off" /\ active = None /\ autostart = "off" /\ pending = None
  /\ engine = None /\ tested = None /\ routes = "off"
  /\ lock = None /\ timers = {} /\ rollback_pid = None /\ checks = {}
  /\ pc = [p \in Ctl |-> "idle"]
  /\ plan = [p \in Ctl |-> "none"]
  /\ arg = [p \in Ctl |-> None]
  /\ todo = {}
  /\ dog = "none" /\ failures = 0 /\ boot = "start"

-----------------------------------------------------------------------------
(* The copies of the script: start, gate, lock, end.                       *)

Spawn(p, c, a) ==
  /\ pc[p] = "idle"
  /\ pc' = [pc EXCEPT ![p] = IF c \in Gated \cup Unlocked THEN "gate"
                                                         ELSE "acquire"]
  /\ plan' = [plan EXCEPT ![p] = c]
  /\ arg' = [arg EXCEPT ![p] = a]

\* A command from the panel or from a shell.
Request(p) ==
  /\ \E c \in UserCommands :
       \E a \in IF c \in {"enable", "start-local"} THEN Nodes ELSE {None} :
         Spawn(p, c, a)
  /\ UNCHANGED <<disk, net, lock, clock, checks, todo, sup>>

\* The test of the background checks, before the lock is taken.
Gate(p) ==
  /\ pc[p] = "gate"
  /\ Goto(p, IF checks # {} THEN "fail"
             ELSE IF plan[p] \in Unlocked THEN "launch" ELSE "acquire")
  /\ UNCHANGED <<disk, net, lock, clock, checks, plan, arg, todo, sup>>

LaunchCheck(p) ==
  /\ pc[p] = "launch"
  /\ checks' = checks \cup
                 {IF plan[p] = "refresh" THEN "update" ELSE "youtube"}
  /\ Goto(p, "exit")
  /\ UNCHANGED <<disk, net, lock, clock, plan, arg, todo, sup>>

\* acquire_lock, taken as one step (NamedLock has its parts); exit 20 when busy.
Acquire(p) ==
  /\ pc[p] = "acquire"
  /\ \/ /\ lock = None
        /\ lock' = p
        /\ Goto(p, First(plan[p]))
        /\ todo' = IF plan[p] = "failover" THEN Nodes \ {active} ELSE todo
     \/ /\ lock # None
        /\ Goto(p, "fail")
        /\ UNCHANGED <<lock, todo>>
  /\ UNCHANGED <<disk, net, clock, checks, plan, arg, sup>>

\* The caller that waits for copy p goes on: the watchdog in its loop, the
\* boot script to `disable' when its `enable' failed.
Resume(p) ==
  /\ dog' = CASE p # "dog"                         -> dog
              [] p = "dog" /\ dog = "refreshing"   -> "health"
              [] p = "dog" /\ dog = "recovering"   -> "update"
              [] p = "dog" /\ dog \in {"failing", "updating"} -> "top"
              [] OTHER                             -> dog
  /\ failures' = IF p = "dog" /\ dog \in {"failing", "recovering"}
                 THEN 0 ELSE failures
  /\ boot' = CASE p # "boot"                       -> boot
               [] p = "boot" /\ boot = "enable"    ->
                    IF pc[p] = "fail" THEN "direct" ELSE "up"
               [] OTHER                            -> "up"

\* The script ends, and its EXIT trap releases the lock if it was taken.
Finish(p) ==
  /\ pc[p] \in {"exit", "fail"}
  /\ lock' = IF lock = p THEN None ELSE lock
  /\ Goto(p, "idle")
  /\ arg' = [arg EXCEPT ![p] = None]
  /\ plan' = [plan EXCEPT ![p] = "none"]
  /\ todo' = IF lock = p THEN {} ELSE todo
  /\ Resume(p)
  /\ UNCHANGED <<disk, net, clock, checks>>

-----------------------------------------------------------------------------
(* The steps of a script that holds the lock.                              *)

Stay == UNCHANGED <<lock, todo, sup>>      \* what most steps leave alone

\* A failed step of the script: an activation gives up at step `at', a
\* failover cleans up for the next server, start-local just ends.
Recover(p, at) ==
  CASE plan[p] \in Activating -> /\ plan' = [plan EXCEPT ![p] = "giveup"]
                                 /\ Goto(p, at)
    [] plan[p] = "failover"   -> Goto(p, "routes_remove") /\ UNCHANGED plan
    [] OTHER                  -> Goto(p, "fail") /\ UNCHANGED plan

ValidId(p) ==
  /\ pc[p] = "valid_id"
  /\ \/ Goto(p, "routes_remove")
     \/ May("valid_id") /\ Goto(p, "fail")
  /\ UNCHANGED <<disk, net, clock, checks, plan, arg>> /\ Stay

RoutesRemove(p) ==
  /\ pc[p] = "routes_remove"
  /\ routes' = "off"
  /\ Goto(p, AfterRemove(plan[p]))
  /\ UNCHANGED <<disk, engine, tested, clock, checks, plan, arg>>
  /\ Stay

\* Every process of the engine is killed, relays of a dead one included.
StopEngine(p) ==
  /\ pc[p] = "stop_engine"
  /\ engine' = None /\ tested' = None
  /\ Goto(p, AfterStop(plan[p]))
  /\ UNCHANGED <<disk, routes, clock, checks, plan, arg>> /\ Stay

\* The real probe of a server, by a process of its own.
ProbeNode(p) ==
  /\ pc[p] = "probe_node"
  /\ \/ Goto(p, "start_engine") /\ UNCHANGED plan
     \/ May("valid_id") /\ Recover(p, "mode")
     \/ May("probe_node") /\ Recover(p, "mode")
  /\ UNCHANGED <<disk, net, clock, checks, arg>> /\ Stay

\* start_engine stops what runs, launches the engine and looks at it after a
\* second; the server is validated once more before anything is touched.
StartEngine(p) ==
  /\ pc[p] = "start_engine"
  /\ \/ /\ engine' = arg[p] /\ tested' = None
        /\ Goto(p, AfterStart(plan[p]))
        /\ UNCHANGED plan
     \/ /\ May("start_engine")
        /\ engine' = None /\ tested' = None
        /\ Recover(p, "mode")
     \/ /\ May("valid_id")
        /\ UNCHANGED <<engine, tested>>
        /\ Recover(p, "mode")
  /\ UNCHANGED <<disk, routes, clock, checks, arg>> /\ Stay

LocalTunnelProbe(p) ==
  /\ pc[p] = "local_tunnel_probe"
  /\ \/ /\ Alive
        /\ tested' = engine
        /\ Goto(p, "routes_add")
        /\ UNCHANGED plan
     \/ /\ ~Alive \/ May("local_tunnel_probe")
        /\ Recover(p, "stop_engine")
        /\ UNCHANGED tested
  /\ UNCHANGED <<disk, engine, routes, clock, checks, arg>> /\ Stay

\* A mutant: the mode is written without its server.
RoutesAdd_Anonymous(p) ==
  /\ pc[p] = "routes_add"
  /\ \/ routes' = "on" /\ Goto(p, "mode") /\ UNCHANGED plan
     \/ /\ May("routes_add")
        /\ routes' \in {"off", "on"}
        /\ Recover(p, "routes_remove")
  /\ UNCHANGED <<disk, engine, tested, clock, checks, arg>> /\ Stay

\* A failure may come before or after the rule of PREROUTING is inserted.
RoutesAdd(p) ==
  /\ pc[p] = "routes_add"
  /\ \/ routes' = "on" /\ Goto(p, "active") /\ UNCHANGED plan
     \/ /\ May("routes_add")
        /\ routes' \in {"off", "on"}
        /\ Recover(p, "routes_remove")
  /\ UNCHANGED <<disk, engine, tested, clock, checks, arg>> /\ Stay

\* failover: the next server of selected.tsv, but never the one that was
\* active; none left means direct internet.
NextNode(p) ==
  /\ pc[p] = "next"
  /\ \/ \E n \in todo : /\ todo' = todo \ {n}
                       /\ arg' = [arg EXCEPT ![p] = n]
                       /\ Goto(p, "probe_node")
                       /\ UNCHANGED plan
     \/ /\ todo = {}
        /\ plan' = [plan EXCEPT ![p] = "giveup"]
        /\ Goto(p, "routes_remove")
        /\ UNCHANGED <<todo, arg>>
  /\ UNCHANGED <<disk, net, lock, clock, checks, sup>>

\* best-youtube: rank_youtube_nodes names the winner.
Rank(p) ==
  /\ pc[p] = "rank"
  /\ \/ \E n \in Nodes : arg' = [arg EXCEPT ![p] = n] /\ Goto(p, "routes_remove")
     \/ May("rank") /\ Goto(p, "fail") /\ UNCHANGED arg
  /\ UNCHANGED <<disk, net, clock, checks, plan>> /\ Stay

\* cancel_activation_rollback kills the timer that ROLLBACK_PID names.
Cancel(p) ==
  /\ pc[p] = "cancel"
  /\ timers' = timers \ {rollback_pid} /\ rollback_pid' = None
  /\ pending' = None
  /\ Goto(p, AfterCancel(plan[p]))
  /\ UNCHANGED <<mode, active, autostart, net, checks, plan, arg>> /\ Stay

\* arm_activation_rollback: cancel, record the activation, start its timer.
Arm(p) ==
  /\ pc[p] = "arm"
  /\ \/ /\ pending' = arg[p] /\ rollback_pid' = arg[p]
        /\ timers' = (timers \ {rollback_pid}) \cup {arg[p]}
        /\ Goto(p, "exit")
        /\ UNCHANGED plan
     \/ /\ May("arm")
        /\ pending' = None /\ rollback_pid' = None
        /\ timers' = timers \ {rollback_pid}
        /\ Recover(p, "routes_remove")
  /\ UNCHANGED <<mode, active, autostart, net, checks, arg>> /\ Stay

WriteActive(p) ==
  /\ pc[p] = "active"
  /\ active' = arg[p]
  /\ Goto(p, "mode")
  /\ UNCHANGED <<mode, autostart, pending, net, clock, checks, plan, arg>>
  /\ Stay

WriteMode(p) ==
  /\ pc[p] = "mode"
  /\ mode' = ModeOf(plan[p])
  /\ Goto(p, AfterMode(plan[p]))
  /\ UNCHANGED <<active, autostart, pending, net, clock, checks, plan, arg>>
  /\ Stay

WriteAutostart(p) ==
  /\ pc[p] = "autostart"
  /\ autostart' = AutostartOf(plan[p])
  /\ Goto(p, AfterAutostart(plan[p]))
  /\ UNCHANGED <<mode, active, pending, net, clock, checks, plan, arg>>
  /\ Stay

\* Nothing is started while the pid of a watchdog is on record and alive,
\* one that is about to end included.
StartWatchdog(p) ==
  /\ pc[p] = "start_watchdog"
  /\ dog' = IF dog = "none" THEN "top" ELSE dog
  /\ Goto(p, "exit")
  /\ UNCHANGED <<disk, net, lock, clock, checks, plan, arg, todo,
                 failures, boot>>

\* The watchdog is killed; a copy of the script it waits for goes on.
StopWatchdog(p) ==
  /\ pc[p] = "stop_watchdog"
  /\ dog' = "none" /\ failures' = 0
  /\ Goto(p, IF plan[p] = "rollback-pending" THEN "clear" ELSE "mode")
  /\ UNCHANGED <<disk, net, lock, clock, checks, plan, arg, todo, boot>>

Confirm(p) ==
  /\ pc[p] = "confirm"
  /\ \/ pending = None /\ Goto(p, "fail") /\ UNCHANGED <<plan, arg>>
     \/ /\ pending # None
        /\ arg' = [arg EXCEPT ![p] = pending]
        /\ IF engine # None /\ routes = "on"
             THEN Goto(p, "cancel") /\ UNCHANGED plan
             ELSE /\ plan' = [plan EXCEPT ![p] = "unconfirm"]
                  /\ Goto(p, "routes_remove")
  /\ UNCHANGED <<disk, net, clock, checks>> /\ Stay

\* A mutant: the rollback is refused when it is the right one.
RollbackPending_Inverted(p) ==
  /\ pc[p] = "rollback-pending"
  /\ Goto(p, IF pending # None /\ pending # arg[p] THEN "routes_remove"
                                                   ELSE "exit")
  /\ UNCHANGED <<disk, net, clock, checks, plan, arg>> /\ Stay

RollbackPending(p) ==
  /\ pc[p] = "rollback-pending"
  /\ Goto(p, IF pending # None /\ pending = arg[p] THEN "routes_remove"
                                                   ELSE "exit")
  /\ UNCHANGED <<disk, net, clock, checks, plan, arg>> /\ Stay

\* rollback-pending removes both files; no timer is killed.
Clear(p) ==
  /\ pc[p] = "clear"
  /\ pending' = None /\ rollback_pid' = None
  /\ Goto(p, "mode")
  /\ UNCHANGED <<mode, active, autostart, net, timers, checks, plan, arg>>
  /\ Stay

\* set_paths: the old policy comes back when the new one cannot be applied,
\* and the redirect goes when that fails too.
SetPaths(p) ==
  /\ pc[p] = "set-paths"
  /\ \/ Goto(p, "exit") /\ UNCHANGED routes
     \/ /\ routes = "on" /\ May("policy_refresh")
        /\ routes' \in {"off", "on"}
        /\ Goto(p, "fail")
  /\ UNCHANGED <<disk, engine, tested, clock, checks, plan, arg>>
  /\ Stay

RefreshPaths(p) ==
  /\ pc[p] = "refresh-paths"
  /\ \/ Goto(p, "exit")
     \/ routes = "on" /\ May("policy_refresh") /\ Goto(p, "routes_remove")
  /\ UNCHANGED <<disk, net, clock, checks, plan, arg>> /\ Stay

RemoveSubscription(p) ==
  /\ pc[p] = "remove-subscription"
  /\ IF mode # "off" THEN Goto(p, "fail") /\ UNCHANGED checks
                     ELSE Goto(p, "exit") /\ checks' = checks \cup {"update"}
  /\ UNCHANGED <<disk, net, clock, plan, arg>> /\ Stay

Run(p) ==
  \/ Gate(p) \/ LaunchCheck(p) \/ Acquire(p) \/ Finish(p)
  \/ ValidId(p) \/ RoutesRemove(p) \/ StopEngine(p) \/ ProbeNode(p)
  \/ StartEngine(p) \/ LocalTunnelProbe(p) \/ RoutesAdd(p) \/ NextNode(p)
  \/ Rank(p) \/ Cancel(p) \/ Arm(p)
  \/ WriteActive(p) \/ WriteMode(p) \/ WriteAutostart(p)
  \/ StartWatchdog(p) \/ StopWatchdog(p)
  \/ Confirm(p) \/ RollbackPending(p) \/ Clear(p)
  \/ SetPaths(p) \/ RefreshPaths(p) \/ RemoveSubscription(p)

-----------------------------------------------------------------------------
(* The watchdog, the timer, the boot script, the checks, the environment.  *)

Call(p, c, a) == Spawn(p, c, a) /\ UNCHANGED <<disk, net, lock, checks, todo>>

DogTop ==
  /\ dog = "top"
  /\ dog' = IF mode = "on" THEN "asleep" ELSE "leaving"
  /\ UNCHANGED <<disk, net, lock, clock, checks, pc, plan, arg, todo,
                 failures, boot>>

\* A mutant: a dead engine behind a redirect that stands goes unnoticed.
DogWakes_RedirectOnly ==
  /\ dog = "asleep"
  /\ IF routes = "off"
       THEN Call("dog", "failover", None) /\ dog' = "failing"
       ELSE Call("dog", "refresh-paths", None) /\ dog' = "refreshing"
  /\ UNCHANGED <<clock, failures, boot>>

\* After its sleep the watchdog looks at the engine and at the redirect; the
\* mode it read is ten seconds old.
DogWakes ==
  /\ dog = "asleep"
  /\ IF ~Alive \/ routes = "off"
       THEN Call("dog", "failover", None) /\ dog' = "failing"
       ELSE Call("dog", "refresh-paths", None) /\ dog' = "refreshing"
  /\ UNCHANGED <<clock, failures, boot>>

\* So many failed probes in a row mean a failover.
Threshold_Late == 3    \* a mutant
Threshold == 2

\* Every sixth round it probes the active server; a probe refused because a
\* background check runs (exit 30) counts as failed.
DogHealth ==
  /\ dog = "health"
  /\ \/ dog' = "update" /\ UNCHANGED <<pc, plan, arg, failures>>
     \/ /\ "health" \in Ticks /\ checks = {}
        /\ dog' = "update" /\ failures' = 0
        /\ UNCHANGED <<pc, plan, arg>>
     \/ /\ "health" \in Ticks
        /\ checks # {} \/ May("probe_node") \/ May("valid_id")
        /\ failures' = failures + 1
        /\ IF failures' >= Threshold
             THEN Spawn("dog", "failover", None) /\ dog' = "recovering"
             ELSE dog' = "update" /\ UNCHANGED <<pc, plan, arg>>
  /\ UNCHANGED <<disk, net, lock, clock, checks, todo, boot>>

\* Every 2160th round it starts an update of the subscriptions.
DogUpdate ==
  /\ dog = "update"
  /\ \/ dog' = "top" /\ UNCHANGED <<disk, net, lock, checks, pc, plan, arg, todo>>
     \/ "update" \in Ticks /\ dog' = "updating" /\ Call("dog", "refresh", None)
  /\ UNCHANGED <<clock, failures, boot>>

DogLeaves ==
  /\ dog = "leaving"
  /\ dog' = "none" /\ failures' = 0
  /\ UNCHANGED <<disk, net, lock, clock, checks, pc, plan, arg, todo, boot>>

Dog == DogTop \/ DogWakes \/ DogHealth \/ DogUpdate \/ DogLeaves

\* The subshell of arm_activation_rollback wakes after 25 seconds: not before
\* the script that started it has printed its result and ended.
TimerFires(n) ==
  /\ n \in timers
  /\ ~\E p \in Ctl : plan[p] \in Activating /\ pc[p] = "exit"
  /\ timers' = timers \ {n}
  /\ rollback_pid' = IF rollback_pid = n THEN None ELSE rollback_pid
  /\ IF pending = n
       THEN Call("timer", "rollback-pending", n)
       ELSE UNCHANGED <<disk, net, lock, checks, pc, plan, arg, todo>>
  /\ UNCHANGED sup

\* A mutant: without autostart the boot script has nothing to do.
BootStart_Trusting ==
  /\ boot = "start"
  /\ IF autostart = "on" /\ active # None
       THEN Call("boot", "enable", active) /\ boot' = "enable"
       ELSE boot' = "up" /\ UNCHANGED <<disk, net, lock, checks, pc, plan, arg, todo>>
  /\ UNCHANGED <<clock, dog, failures>>

BootStart ==
  /\ boot = "start"
  /\ \/ /\ May("files")
        /\ boot' = "up"
        /\ UNCHANGED <<disk, net, lock, checks, pc, plan, arg, todo>>
     \/ IF autostart = "on" /\ active # None
          THEN Call("boot", "enable", active) /\ boot' = "enable"
          ELSE boot' = "direct" /\ UNCHANGED <<disk, net, lock, checks, pc, plan, arg, todo>>
  /\ UNCHANGED <<clock, dog, failures>>

BootDirect ==
  /\ boot = "direct"
  /\ Call("boot", "disable", None)
  /\ boot' = "disable"
  /\ UNCHANGED <<clock, dog, failures>>

CheckEnds(c) ==
  /\ c \in checks
  /\ checks' = checks \ {c}
  /\ UNCHANGED <<disk, net, lock, clock, pc, plan, arg, todo, sup>>

\* The engine dies; the relays it forked may live on.
EngineCrash ==
  /\ May("crash") /\ Alive
  /\ engine' \in {None, Orphans} /\ tested' = None
  /\ UNCHANGED <<disk, routes, lock, clock, checks, pc, plan, arg, todo, sup>>

RelaysEnd ==
  /\ engine = Orphans /\ engine' = None
  /\ UNCHANGED <<disk, tested, routes, lock, clock, checks, pc, plan,
                 arg, todo, sup>>

\* Power is lost: processes, rules, and the locks of /tmp are gone.
Reboot ==
  /\ May("power")
  /\ engine' = None /\ tested' = None /\ routes' = "off"
  /\ lock' = None /\ timers' = {} /\ rollback_pid' = None /\ checks' = {}
  /\ pc' = [p \in Ctl |-> "idle"]
  /\ plan' = [p \in Ctl |-> "none"]
  /\ arg' = [p \in Ctl |-> None]
  /\ todo' = {}
  /\ dog' = "none" /\ failures' = 0 /\ boot' = "start"
  /\ UNCHANGED disk

System == \/ \E p \in Ctl : Run(p)
          \/ Dog
          \/ \E n \in Nodes : TimerFires(n)
          \/ BootStart \/ BootDirect
          \/ \E c \in {"update", "youtube"} : CheckEnds(c)
          \/ RelaysEnd

Next == System \/ EngineCrash \/ Reboot \/ \E p \in Web : Request(p)

Spec == Init /\ [][Next]_vars

\* What runs goes on running; users, crashes and power cuts owe nothing.
Fairness ==
  /\ \A p \in Ctl : WF_vars(Run(p))
  /\ WF_vars(Dog)
  /\ \A n \in Nodes : WF_vars(TimerFires(n))
  /\ WF_vars(BootStart) /\ WF_vars(BootDirect)
  /\ \A c \in {"update", "youtube"} : WF_vars(CheckEnds(c))

FairSpec == Spec /\ Fairness

-----------------------------------------------------------------------------
(* Safety.  Between two operations no script holds the lock.               *)

Direct == routes = "off" /\ engine = None

\* When no operation runs and the mode says off, nothing of the VPN is left:
\* no redirect in iptables, no engine, no relay of a dead engine.  Every error
\* path of every command has to clean up for this.
DirectWhenOff == lock = None /\ mode = "off" => Direct

\* LAN traffic stays redirected between operations only in the modes that
\* show it to the user and have someone to take it back.
RedirectOnlyWhenActive == lock = None /\ routes = "on" => mode \in {"pending", "on"}

\* LAN traffic reaches a live engine only after the local tunnel probe went
\* through that very engine.
OnlyTestedServesLan == routes = "on" /\ Alive => tested = engine

\* The supervisor implements TestedRedirect: an engine is launched and tested
\* only while the LAN is direct, and the redirect opens on a tested one.
Promise == INSTANCE TestedRedirect WITH
             engine <- IF Alive THEN engine ELSE None
ImplementsPromise == Promise!Spec

\* A pending activation that serves the LAN is on record, under the server
\* that the engine runs, so that a rollback or a confirmation finds it.
PendingIsRecorded ==
  lock = None /\ mode = "pending" /\ routes = "on" =>
    pending # None /\ pending = active /\ engine \in {None, Orphans, active}

\* Whatever power cut hit whatever step of an activation: once the boot script
\* is through, a mode that promises the VPN is true, the redirect is there.
\* (Not so for a confirmed VPN: a command that has the lock when the boot script
\* disables, and that ends without touching the mode, leaves "on" behind.)
ModeIsReal ==
  lock = None /\ boot = "up" /\ mode \in {"pending", "on"} => routes = "on"

\* A mode other than off, read at any moment, after a power cut too, comes
\* with the server it is about, and so does autostart.
ModeNamesServer == mode # "off" \/ autostart = "on" => active # None

-----------------------------------------------------------------------------
(* What documents, comments and messages of the repository say of the      *)
(* supervisor, and the code does not keep (see "findings").                *)

\* "Without a confirmation the direct connection is restored automatically":
\* an unconfirmed redirect always has a timer, or a rollback under way.
RollbackIsArmed ==
  lock = None /\ mode = "pending" /\ routes = "on" =>
    timers # {} \/ pc["timer"] # "idle"

-----------------------------------------------------------------------------
(* Liveness, under Fairness.                                               *)

\* Every copy of the script ends: no command loops or waits for ever, and so
\* the lock it holds comes free.
OperationsEnd == \A p \in Ctl : pc[p] # "idle" ~> pc[p] = "idle"

\* LAN traffic is not left redirected to a dead engine: somebody stops the
\* redirect or starts another engine.
RedirectIsServed == (routes = "on" /\ ~Alive) ~> (routes = "off" \/ Alive)

\* A confirmed VPN whose engine died is repaired or given up by a watchdog
\* that is still in its loop, once users leave the lock to it.
WatchdogServes ==
  <>[](\A p \in Web : pc[p] = "idle") =>
    ((mode = "on" /\ routes = "on" /\ ~Alive /\ dog \notin {"none", "leaving"})
       ~> (mode # "on" \/ routes = "off" \/ Alive))

\* An activation nobody confirms does not stay: the timer takes it back.
PendingEnds ==
  (mode = "pending" /\ routes = "on") ~> (mode # "pending" \/ routes = "off")

=============================================================================
