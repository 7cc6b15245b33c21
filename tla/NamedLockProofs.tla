--------------------------- MODULE NamedLockProofs ---------------------------
(* What holds of NamedLock for any set of processes, killed or not.        *)
EXTENDS NamedLock, TLAPS

\* From the mkdir that succeeded to the rmdir of the release.
Owns(p) == pc[p] \in {"open", "write", "critical", "release_rm", "release_rmdir"}

\* A descriptor on the file of the directory is one on a file.
LinkedInv == linked # {} => pidfile # None

\* Before the first takeover the directory stands for its one owner.
OwnerInv ==
  taken_over = "no" =>
    /\ \A p \in Procs : pc[p] # "mkdir2"
    /\ \A p, q \in Procs : Owns(p) /\ Owns(q) => p = q
    /\ \A p \in Procs : Owns(p) => dir = "present"

\* The owner that removes the directory has removed the file, and nobody else
\* makes one.
ReleasedInv ==
  taken_over = "no" => \A p \in Procs : pc[p] = "release_rmdir" => pidfile = None

\* A process that met no other live one since its start is alone now.
AloneInv == \A p, q \in Procs : Live(p) /\ p \notin rivals /\ Live(q) => q = p

\* A pid stays in the file only while its process holds the lock or when it died.
PidInv == pidfile \in Procs => pc[pidfile] \in {"critical", "release_rm", "dead"}

\* What a process that is alone finds at each step: what it looks at stays as
\* it was, and what it removes is gone.
FoundInv ==
  \A p \in Procs \ rivals :
    /\ pc[p] \in {"nonempty", "alive", "rm", "rmdir", "open"} => dir = "present"
    /\ pc[p] = "rmdir" => pidfile = None
    /\ pc[p] = "mkdir2" => dir = "absent"
    /\ pc[p] # "busy"

IInv ==
  /\ TypeOK /\ LinkedInv /\ OwnerInv /\ ReleasedInv
  /\ AloneInv /\ PidInv /\ FoundInv

\* The lock as Controller takes it, with mkdir for all of acquire_named_lock and
\* rmdir for all of release_named_lock.
Owners      == {p \in Procs : Owns(p)}
lock        == <<dir, Owners>>
Acquired(p) == dir = "absent" /\ Owners = {} /\ dir' = "present" /\ Owners' = {p}
Released(p) == dir = "present" /\ Owners = {p} /\ dir' = "absent" /\ Owners' = {}
Lost(p)     == Owners = {p} /\ pc'[p] = "dead" /\ Owners' = {} /\ UNCHANGED dir
OneStep     == UNCHANGED lock \/ \E p \in Procs : Acquired(p) \/ Released(p) \/ Lost(p)

-----------------------------------------------------------------------------
\* No lock exists at first, and nobody holds one.
LEMMA InitIInv == Init => IInv
  BY ProcsAssumption
  DEF Init, IInv, TypeOK, LinkedInv, OwnerInv, Owns, ReleasedInv, AloneInv, Live, PidInv, FoundInv,
      Locations

\* The types: a pid file never survives its directory.
LEMMA TypeStep == TypeOK /\ LinkedInv /\ [Next]_vars => TypeOK' /\ LinkedInv'
<1> SUFFICES ASSUME TypeOK, LinkedInv, [Next]_vars PROVE TypeOK' /\ LinkedInv'
  OBVIOUS
<1> USE ProcsAssumption DEF TypeOK, LinkedInv, Goto, Quiet
<1>1. ASSUME NEW p \in Procs, NEW l \in Locations, Goto(p, l)
      PROVE  pc' \in [Procs -> Locations]
  BY <1>1
<1>2. ASSUME NEW p \in Procs, Start(p) PROVE TypeOK' /\ LinkedInv'
  BY <1>2, <1>1 DEF Start, Locations
<1>3. ASSUME NEW p \in Procs, Mkdir(p) PROVE TypeOK' /\ LinkedInv'
  BY <1>3, <1>1 DEF Mkdir, Locations
<1>4. ASSUME NEW p \in Procs, NonEmpty(p) PROVE TypeOK' /\ LinkedInv'
  BY <1>4, <1>1 DEF NonEmpty, Locations
<1>5. ASSUME NEW p \in Procs, Alive(p) PROVE TypeOK' /\ LinkedInv'
  BY <1>5, <1>1 DEF Alive, Locations
<1>6. ASSUME NEW p \in Procs, Rm(p) PROVE TypeOK' /\ LinkedInv'
  BY <1>6, <1>1 DEF Rm, Locations
<1>7. ASSUME NEW p \in Procs, Rmdir(p) PROVE TypeOK' /\ LinkedInv'
  BY <1>7, <1>1 DEF Rmdir, Locations
<1>8. ASSUME NEW p \in Procs, Open(p) PROVE TypeOK' /\ LinkedInv'
  BY <1>8, <1>1 DEF Open, Locations
<1>9. ASSUME NEW p \in Procs, Write(p) PROVE TypeOK' /\ LinkedInv'
  BY <1>9, <1>1 DEF Write, Locations
<1>10. ASSUME NEW p \in Procs, Leave(p) PROVE TypeOK' /\ LinkedInv'
  BY <1>10, <1>1 DEF Leave, Locations
<1>11. ASSUME NEW p \in Procs, Refused(p) PROVE TypeOK' /\ LinkedInv'
  BY <1>11, <1>1 DEF Refused, Locations
<1>12. ASSUME NEW p \in Procs, Die(p) PROVE TypeOK' /\ LinkedInv'
  BY <1>12, <1>1 DEF Die, Locations
<1>13. CASE UNCHANGED vars
  BY <1>13 DEF vars
<1>14. QED
  BY <1>2, <1>3, <1>4, <1>5, <1>6, <1>7, <1>8, <1>9, <1>10, <1>11, <1>12, <1>13
  DEF Next, Step

\* mkdir makes an owner only where there is none, and only the owner's release
\* removes the directory as long as nothing was taken over.
LEMMA OwnerStep == TypeOK /\ OwnerInv /\ [Next]_vars => OwnerInv'
<1> SUFFICES ASSUME TypeOK, OwnerInv, [Next]_vars PROVE OwnerInv'
  OBVIOUS
<1> USE DEF TypeOK, OwnerInv, Owns, Goto, Quiet
<1>1. ASSUME NEW p \in Procs, Start(p) PROVE OwnerInv'
  BY <1>1 DEF Start
<1>2. ASSUME NEW p \in Procs, Mkdir(p) PROVE OwnerInv'
  BY <1>2 DEF Mkdir
<1>3. ASSUME NEW p \in Procs, NonEmpty(p) PROVE OwnerInv'
  BY <1>3 DEF NonEmpty
<1>4. ASSUME NEW p \in Procs, Alive(p) PROVE OwnerInv'
  BY <1>4 DEF Alive
<1>5. ASSUME NEW p \in Procs, Rm(p) PROVE OwnerInv'
  BY <1>5 DEF Rm
<1>6. ASSUME NEW p \in Procs, Rmdir(p) PROVE OwnerInv'
  BY <1>6 DEF Rmdir
<1>7. ASSUME NEW p \in Procs, Open(p) PROVE OwnerInv'
  BY <1>7 DEF Open
<1>8. ASSUME NEW p \in Procs, Write(p) PROVE OwnerInv'
  BY <1>8 DEF Write
<1>9. ASSUME NEW p \in Procs, Leave(p) PROVE OwnerInv'
  BY <1>9 DEF Leave
<1>10. ASSUME NEW p \in Procs, Refused(p) PROVE OwnerInv'
  BY <1>10 DEF Refused
<1>11. ASSUME NEW p \in Procs, Die(p) PROVE OwnerInv'
  BY <1>11 DEF Die
<1>12. CASE UNCHANGED vars
  BY <1>12 DEF vars
<1>13. QED
  BY <1>1, <1>2, <1>3, <1>4, <1>5, <1>6, <1>7, <1>8, <1>9, <1>10, <1>11, <1>12
  DEF Next, Step

\* Only an owner makes the file, and there is no other.
LEMMA ReleasedStep == TypeOK /\ OwnerInv /\ ReleasedInv /\ [Next]_vars => ReleasedInv'
<1> SUFFICES ASSUME TypeOK, OwnerInv, ReleasedInv, [Next]_vars PROVE ReleasedInv'
  OBVIOUS
<1> USE DEF TypeOK, OwnerInv, ReleasedInv, Owns, Goto, Quiet
<1>1. ASSUME NEW p \in Procs, Start(p) PROVE ReleasedInv'
  BY <1>1 DEF Start
<1>2. ASSUME NEW p \in Procs, Mkdir(p) PROVE ReleasedInv'
  BY <1>2 DEF Mkdir
<1>3. ASSUME NEW p \in Procs, NonEmpty(p) PROVE ReleasedInv'
  BY <1>3 DEF NonEmpty
<1>4. ASSUME NEW p \in Procs, Alive(p) PROVE ReleasedInv'
  BY <1>4 DEF Alive
<1>5. ASSUME NEW p \in Procs, Rm(p) PROVE ReleasedInv'
  BY <1>5 DEF Rm
<1>6. ASSUME NEW p \in Procs, Rmdir(p) PROVE ReleasedInv'
  BY <1>6 DEF Rmdir
<1>7. ASSUME NEW p \in Procs, Open(p) PROVE ReleasedInv'
  BY <1>7 DEF Open
<1>8. ASSUME NEW p \in Procs, Write(p) PROVE ReleasedInv'
  BY <1>8 DEF Write
<1>9. ASSUME NEW p \in Procs, Leave(p) PROVE ReleasedInv'
  BY <1>9 DEF Leave
<1>10. ASSUME NEW p \in Procs, Refused(p) PROVE ReleasedInv'
  BY <1>10 DEF Refused
<1>11. ASSUME NEW p \in Procs, Die(p) PROVE ReleasedInv'
  BY <1>11 DEF Die
<1>12. CASE UNCHANGED vars
  BY <1>12 DEF vars
<1>13. QED
  BY <1>1, <1>2, <1>3, <1>4, <1>5, <1>6, <1>7, <1>8, <1>9, <1>10, <1>11, <1>12
  DEF Next, Step

\* A process that starts notes those it meets, on both sides.
LEMMA AloneStep == TypeOK /\ AloneInv /\ [Next]_vars => AloneInv'
<1> SUFFICES ASSUME TypeOK, AloneInv, [Next]_vars PROVE AloneInv'
  OBVIOUS
<1> USE ProcsAssumption DEF TypeOK, AloneInv, Live, Goto, Quiet
<1>1. ASSUME NEW p \in Procs, Start(p) PROVE AloneInv'
  BY <1>1 DEF Start
<1>2. ASSUME NEW p \in Procs, Mkdir(p) PROVE AloneInv'
  BY <1>2 DEF Mkdir
<1>3. ASSUME NEW p \in Procs, NonEmpty(p) PROVE AloneInv'
  BY <1>3 DEF NonEmpty
<1>4. ASSUME NEW p \in Procs, Alive(p) PROVE AloneInv'
  BY <1>4 DEF Alive
<1>5. ASSUME NEW p \in Procs, Rm(p) PROVE AloneInv'
  BY <1>5 DEF Rm
<1>6. ASSUME NEW p \in Procs, Rmdir(p) PROVE AloneInv'
  BY <1>6 DEF Rmdir
<1>7. ASSUME NEW p \in Procs, Open(p) PROVE AloneInv'
  BY <1>7 DEF Open
<1>8. ASSUME NEW p \in Procs, Write(p) PROVE AloneInv'
  BY <1>8 DEF Write
<1>9. ASSUME NEW p \in Procs, Leave(p) PROVE AloneInv'
  BY <1>9 DEF Leave
<1>10. ASSUME NEW p \in Procs, Refused(p) PROVE AloneInv'
  BY <1>10 DEF Refused
<1>11. ASSUME NEW p \in Procs, Die(p) PROVE AloneInv'
  BY <1>11 DEF Die
<1>12. CASE UNCHANGED vars
  BY <1>12 DEF vars
<1>13. QED
  BY <1>1, <1>2, <1>3, <1>4, <1>5, <1>6, <1>7, <1>8, <1>9, <1>10, <1>11, <1>12
  DEF Next, Step

\* The file loses the pid before its process ends; only a killed one leaves it.
LEMMA PidStep == TypeOK /\ PidInv /\ [Next]_vars => PidInv'
<1> SUFFICES ASSUME TypeOK, PidInv, [Next]_vars PROVE PidInv'
  OBVIOUS
<1> USE ProcsAssumption DEF TypeOK, PidInv, Live, Goto, Quiet
<1>1. ASSUME NEW p \in Procs, Start(p) PROVE PidInv'
  BY <1>1 DEF Start
<1>2. ASSUME NEW p \in Procs, Mkdir(p) PROVE PidInv'
  BY <1>2 DEF Mkdir
<1>3. ASSUME NEW p \in Procs, NonEmpty(p) PROVE PidInv'
  BY <1>3 DEF NonEmpty
<1>4. ASSUME NEW p \in Procs, Alive(p) PROVE PidInv'
  BY <1>4 DEF Alive
<1>5. ASSUME NEW p \in Procs, Rm(p) PROVE PidInv'
  BY <1>5 DEF Rm
<1>6. ASSUME NEW p \in Procs, Rmdir(p) PROVE PidInv'
  BY <1>6 DEF Rmdir
<1>7. ASSUME NEW p \in Procs, Open(p) PROVE PidInv'
  BY <1>7 DEF Open
<1>8. ASSUME NEW p \in Procs, Write(p) PROVE PidInv'
  BY <1>8 DEF Write
<1>9. ASSUME NEW p \in Procs, Leave(p) PROVE PidInv'
  BY <1>9 DEF Leave
<1>10. ASSUME NEW p \in Procs, Refused(p) PROVE PidInv'
  BY <1>10 DEF Refused
<1>11. ASSUME NEW p \in Procs, Die(p) PROVE PidInv'
  BY <1>11 DEF Die
<1>12. CASE UNCHANGED vars
  BY <1>12 DEF vars
<1>13. QED
  BY <1>1, <1>2, <1>3, <1>4, <1>5, <1>6, <1>7, <1>8, <1>9, <1>10, <1>11, <1>12
  DEF Next, Step

\* A process that is alone finds a stale lock stale, removes it, and gets in.
LEMMA FoundStep == TypeOK /\ AloneInv /\ PidInv /\ FoundInv /\ [Next]_vars => FoundInv'
<1> SUFFICES ASSUME TypeOK, AloneInv, PidInv, FoundInv, [Next]_vars PROVE FoundInv'
  OBVIOUS
<1> USE ProcsAssumption DEF TypeOK, AloneInv, PidInv, FoundInv, Live, Goto, Quiet
<1>1. ASSUME NEW p \in Procs, Start(p) PROVE FoundInv'
  BY <1>1 DEF Start
<1>2. ASSUME NEW p \in Procs, Mkdir(p) PROVE FoundInv'
  BY <1>2 DEF Mkdir
<1>3. ASSUME NEW p \in Procs, NonEmpty(p) PROVE FoundInv'
  BY <1>3 DEF NonEmpty
<1>4. ASSUME NEW p \in Procs, Alive(p) PROVE FoundInv'
  BY <1>4 DEF Alive
<1>5. ASSUME NEW p \in Procs, Rm(p) PROVE FoundInv'
  BY <1>5 DEF Rm
<1>6. ASSUME NEW p \in Procs, Rmdir(p) PROVE FoundInv'
  BY <1>6 DEF Rmdir
<1>7. ASSUME NEW p \in Procs, Open(p) PROVE FoundInv'
  BY <1>7 DEF Open
<1>8. ASSUME NEW p \in Procs, Write(p) PROVE FoundInv'
  BY <1>8 DEF Write
<1>9. ASSUME NEW p \in Procs, Leave(p) PROVE FoundInv'
  BY <1>9 DEF Leave
<1>10. ASSUME NEW p \in Procs, Refused(p) PROVE FoundInv'
  BY <1>10 DEF Refused
<1>11. ASSUME NEW p \in Procs, Die(p) PROVE FoundInv'
  BY <1>11 DEF Die
<1>12. CASE UNCHANGED vars
  BY <1>12 DEF vars
<1>13. QED
  BY <1>1, <1>2, <1>3, <1>4, <1>5, <1>6, <1>7, <1>8, <1>9, <1>10, <1>11, <1>12
  DEF Next, Step

-----------------------------------------------------------------------------
\* The facts about the directory and its owner, in every behaviour.
THEOREM Invariance == Spec => []IInv
<1>1. IInv /\ [Next]_vars => IInv'
  BY TypeStep, OwnerStep, ReleasedStep, AloneStep, PidStep, FoundStep DEF IInv
<1>2. QED
  BY <1>1, InitIInv, PTL DEF Spec

\* Type correctness, and no pid file without its directory.
THEOREM TypeCorrect == Spec => []TypeOK
  BY Invariance, PTL DEF IInv

\* Any number of processes, killed at any step: two are inside only after one
\* took the lock over.
THEOREM ExclusiveBeforeTakeover == Spec => []ExclusiveUnlessTaken
<1>1. IInv => ExclusiveUnlessTaken
  BY DEF IInv, OwnerInv, Owns, ExclusiveUnlessTaken, Exclusive, Holds
<1>2. QED
  BY <1>1, Invariance, PTL

\* Any number of processes, killed at any step: one that meets no other live
\* process is never refused, so what a killed one left behind keeps nobody out.
THEOREM SurvivorGetsIn == Spec => []SurvivorEnters
<1>1. IInv => SurvivorEnters
  BY DEF IInv, FoundInv, SurvivorEnters
<1>2. QED
  BY <1>1, Invariance, PTL

\* Every step of a script, seen from the lock.
LEMMA LockStep ==
  ASSUME TypeOK, OwnerInv, ReleasedInv, OwnerInv', [Next]_vars, taken_over' = "no"
  PROVE  OneStep
<1> USE DEF TypeOK, Goto, Quiet
<1>1. taken_over = "no"
  BY DEF Next, Step, Start, Mkdir, NonEmpty, Alive, Rm, Rmdir, Open, Write, Leave, Refused,
         Die, vars
<1>2. ASSUME UNCHANGED dir, \A q \in Procs : Owns(q)' <=> Owns(q) PROVE OneStep
  BY <1>2 DEF OneStep, lock, Owners
<1>3. ASSUME NEW p \in Procs, Owns(p) PROVE Owners = {p} /\ dir = "present"
  BY <1>1, <1>3 DEF OwnerInv, Owners
<1>4. ASSUME NEW p \in Procs, Start(p) \/ NonEmpty(p) \/ Alive(p) \/ Rm(p) \/ Write(p)
                              \/ Leave(p) \/ Refused(p)
      PROVE  OneStep
  BY <1>2, <1>4 DEF Start, NonEmpty, Alive, Rm, Write, Leave, Refused, Owns
<1>5. ASSUME NEW p \in Procs, Mkdir(p) PROVE OneStep
  <2>1. CASE dir = "absent"
    <3>1. \A q \in Procs : ~Owns(q) BY <1>1, <2>1 DEF OwnerInv
    <3>2. \A q \in Procs : Owns(q)' <=> q = p BY <1>5, <2>1, <3>1 DEF Mkdir, Owns
    <3>3. Owners = {} /\ Owners' = {p} BY <3>1, <3>2 DEF Owners
    <3> QED BY <1>5, <2>1, <3>3 DEF Mkdir, OneStep, Acquired
  <2>2. CASE dir # "absent" BY <1>2, <1>5, <2>2 DEF Mkdir, Owns
  <2> QED BY <2>1, <2>2
<1>6. ASSUME NEW p \in Procs, Rmdir(p) PROVE OneStep
  <2>1. CASE pc[p] = "release_rmdir"
    <3>1. Owners = {p} /\ dir = "present" BY <1>3, <2>1 DEF Owns
    <3>2. pidfile = None BY <1>1, <2>1 DEF ReleasedInv
    <3>3. dir' = "absent" /\ pc' = [pc EXCEPT ![p] = "idle"]
      BY <1>6, <2>1, <3>1, <3>2 DEF Rmdir
    <3>4. Owners' = {} BY <3>3 DEF OwnerInv, Owners
    <3> QED BY <3>1, <3>3, <3>4 DEF OneStep, Released
  <2>2. CASE pc[p] = "rmdir"
    <3>1. ~(dir = "present" /\ pidfile = None) BY <1>6, <2>2 DEF Rmdir
    <3> QED BY <1>2, <1>6, <2>2, <3>1 DEF Rmdir, Owns
  <2> QED BY <1>6, <2>1, <2>2 DEF Rmdir
<1>7. ASSUME NEW p \in Procs, Open(p) PROVE OneStep
  <2>1. dir = "present" BY <1>3, <1>7 DEF Open, Owns
  <2> QED BY <1>2, <1>7, <2>1 DEF Open, Owns
<1>8. ASSUME NEW p \in Procs, Die(p) PROVE OneStep
  <2>1. dir' = dir /\ pc' = [pc EXCEPT ![p] = "dead"] BY <1>8 DEF Die
  <2>2. CASE Owns(p)
    <3>1. Owners = {p} BY <1>3, <2>2
    <3>2. Owners' = {} BY <2>1, <3>1 DEF Owners, Owns
    <3> QED BY <2>1, <3>1, <3>2 DEF OneStep, Lost
  <2>3. CASE ~Owns(p) BY <1>2, <2>1, <2>3 DEF Owns
  <2> QED BY <2>2, <2>3
<1>9. CASE UNCHANGED vars BY <1>2, <1>9 DEF vars, Owns
<1> QED BY <1>4, <1>5, <1>6, <1>7, <1>8, <1>9 DEF Next, Step

\* Until a lock is taken over, the eleven steps of the scripts are those of a
\* lock that one step gives to one script while nobody has it (Acquire of
\* Controller), that its owner's release frees, and that nobody gets any more
\* when its owner was killed.
THEOREM OneStepLock == Spec => [][taken_over' = "no" => OneStep]_vars
<1>1. IInv /\ IInv' /\ [Next]_vars => [taken_over' = "no" => OneStep]_vars
  BY LockStep DEF IInv
<1>2. QED
  BY <1>1, Invariance, PTL DEF Spec
=============================================================================
