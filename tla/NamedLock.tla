------------------------------ MODULE NamedLock ------------------------------
(***************************************************************************)
(* acquire_named_lock and release_named_lock of n300vpn-control.sh, the    *)
(* lock of the control script and of the YouTube check (the update of the  *)
(* subscriptions has one of the same form): a directory made by mkdir and  *)
(* a file in it with the pid of the owner, taken over when that pid is     *)
(* dead.  Controller takes its Acquire as one step; here are the parts.    *)
(*                                                                         *)
(* The file is missing, empty, or holds a pid.  `linked' are the processes *)
(* whose open descriptor is on the file that is in the directory now.      *)
(***************************************************************************)
CONSTANTS Procs, None, Empty, MayDie

ASSUME ProcsAssumption == None \notin Procs /\ Empty \notin Procs /\ None # Empty
ASSUME MayDieAssumption == MayDie \subseteq Procs

VARIABLES
  dir, pidfile, linked,
  pc,
  rivals,      \* history: since its start, p was not the only live process
  taken_over   \* history: a lock was taken from somebody

vars == <<dir, pidfile, linked, pc, rivals, taken_over>>

Locations == {"idle", "mkdir", "nonempty", "alive", "rm", "rmdir", "mkdir2",
              "open", "write", "critical", "release_rm", "release_rmdir",
              "busy", "dead"}

Live(p)  == pc[p] \notin {"idle", "dead"}
Holds(p) == pc[p] \in {"critical", "release_rm"}
Goto(p, l) == pc' = [pc EXCEPT ![p] = l]
Quiet == UNCHANGED <<rivals, taken_over>>

TypeOK ==
  /\ dir \in {"absent", "present"}
  /\ pidfile \in Procs \cup {None, Empty}
  /\ pidfile # None => dir = "present"
  /\ linked \subseteq Procs
  /\ pc \in [Procs -> Locations]
  /\ rivals \subseteq Procs
  /\ taken_over \in {"no", "yes"}

Init ==
  /\ dir = "absent" /\ pidfile = None /\ linked = {}
  /\ pc = [p \in Procs |-> "idle"]
  /\ rivals = {} /\ taken_over = "no"

-----------------------------------------------------------------------------
(* acquire_named_lock.                                                     *)

Start(p) ==
  /\ pc[p] = "idle"
  /\ Goto(p, "mkdir")
  /\ LET others == {q \in Procs \ {p} : Live(q)}
     IN rivals' = IF others = {} THEN rivals \ {p} ELSE rivals \cup others \cup {p}
  /\ UNCHANGED <<dir, pidfile, linked, taken_over>>

Mkdir_Lax(p) ==                                    \* a mutant: mkdir -p
  /\ pc[p] \in {"mkdir", "mkdir2"}
  /\ dir' = "present" /\ Goto(p, "open")
  /\ UNCHANGED <<pidfile, linked>> /\ Quiet

Mkdir(p) ==
  /\ pc[p] \in {"mkdir", "mkdir2"}
  /\ dir' = "present"
  /\ Goto(p, IF dir = "absent" THEN "open"
             ELSE IF pc[p] = "mkdir" THEN "nonempty" ELSE "busy")
  /\ UNCHANGED <<pidfile, linked>> /\ Quiet

\* pid_lock_active: [ -s pid ], then the pid is read and looked up.
NonEmpty(p) ==
  /\ pc[p] = "nonempty"
  /\ Goto(p, IF pidfile \in Procs THEN "alive" ELSE "rm")
  /\ UNCHANGED <<dir, pidfile, linked>> /\ Quiet

Alive(p) ==
  /\ pc[p] = "alive"
  /\ Goto(p, IF pidfile \in Procs /\ Live(pidfile) THEN "busy" ELSE "rm")
  /\ UNCHANGED <<dir, pidfile, linked>> /\ Quiet

\* The pid file is removed, in a takeover or in a release.
Rm_Skipped(p) ==                                   \* a mutant
  /\ pc[p] \in {"rm", "release_rm"}
  /\ Goto(p, IF pc[p] = "rm" THEN "rmdir" ELSE "release_rmdir")
  /\ UNCHANGED <<dir, pidfile, linked>> /\ Quiet

Rm(p) ==
  /\ pc[p] \in {"rm", "release_rm"}
  /\ pidfile' = None /\ linked' = {}
  /\ Goto(p, IF pc[p] = "rm" THEN "rmdir" ELSE "release_rmdir")
  /\ UNCHANGED dir /\ Quiet

\* rmdir fails on a directory that is gone or has a file.
Rmdir(p) ==
  /\ pc[p] \in {"rmdir", "release_rmdir"}
  /\ LET removed == dir = "present" /\ pidfile = None
     IN /\ dir' = IF removed THEN "absent" ELSE dir
        /\ Goto(p, CASE pc[p] = "release_rmdir" -> "idle"
                     [] pc[p] = "rmdir"         -> IF removed THEN "mkdir2" ELSE "busy")
        /\ taken_over' = IF removed /\ pc[p] = "rmdir" THEN "yes" ELSE taken_over
  /\ UNCHANGED <<pidfile, linked, rivals>>

\* echo $$ >pid: the shell creates or empties the file, then echo writes to it;
\* without the directory it fails, and so does the function.
Open(p) ==
  /\ pc[p] = "open"
  /\ IF dir = "present"
       THEN pidfile' = Empty /\ linked' = linked \cup {p} /\ Goto(p, "write")
       ELSE UNCHANGED <<pidfile, linked>> /\ Goto(p, "busy")
  /\ UNCHANGED dir /\ Quiet

Write(p) ==
  /\ pc[p] = "write"
  /\ pidfile' = IF p \in linked THEN p ELSE pidfile
  /\ linked' = linked \ {p}
  /\ Goto(p, "critical")
  /\ UNCHANGED dir /\ Quiet

-----------------------------------------------------------------------------
(* The critical section, the EXIT trap, and the death of a process.        *)

Leave(p) ==
  /\ pc[p] = "critical"
  /\ Goto(p, "release_rm")
  /\ UNCHANGED <<dir, pidfile, linked>> /\ Quiet

Refused(p) ==
  /\ pc[p] = "busy"
  /\ Goto(p, "idle")
  /\ UNCHANGED <<dir, pidfile, linked>> /\ Quiet

\* Killed: no trap runs.  (Its pid is not given to another program.)
Die(p) ==
  /\ p \in MayDie /\ Live(p)
  /\ Goto(p, "dead")
  /\ linked' = linked \ {p}
  /\ UNCHANGED <<dir, pidfile>> /\ Quiet

Step(p) == \/ Mkdir(p) \/ NonEmpty(p) \/ Alive(p) \/ Rm(p) \/ Rmdir(p)
           \/ Open(p) \/ Write(p) \/ Leave(p) \/ Refused(p)

Next == \E p \in Procs : Start(p) \/ Step(p) \/ Die(p)

Spec == Init /\ [][Next]_vars

-----------------------------------------------------------------------------
\* Whatever a killed process left behind, at whatever step, it does not keep
\* the lock: a process that meets no other live one gets it.
SurvivorEnters == \A p \in Procs : pc[p] = "busy" => p \in rivals

\* "Control operation already running": the second operation is refused.  A
\* lock whose owner has not written its pid yet looks stale, and is taken over.
Exclusive == \A p, q \in Procs : Holds(p) /\ Holds(q) => p = q

\* mkdir lets one process in: two are inside only after a takeover.
ExclusiveUnlessTaken == taken_over = "no" => Exclusive
=============================================================================
