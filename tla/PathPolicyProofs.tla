-------------------------- MODULE PathPolicyProofs --------------------------
(***************************************************************************)
(* Theorems about PathPolicy: between commands exactly the devices on the  *)
(* chosen paths are redirected, and QUIC is rejected for just these, for   *)
(* any devices and paths.                                                  *)
(***************************************************************************)
EXTENDS PathPolicy, TLAPS

\* Where policy_refresh() is at work, and where set_paths() is about to call
\* it again; both find the routes in place.
Loop == {"refresh", "flush", "all", "path", "tcp", "quic"}
Undoing == {"undo", "restore"}

TypeOK ==
  /\ file \in (SUBSET Paths) \cup {NoFile}
  /\ jump \in BOOLEAN /\ quicJump \in BOOLEAN
  /\ tcp \subseteq Devices \cup {"all"} /\ quic \subseteq Devices \cup {"all"}
  /\ where \in [Devices -> Paths \cup {"away"}]
  /\ pc \in {"idle", "replace", "write", "jump", "quicJump"} \cup Loop \cup Undoing
  /\ command \in {"none", "set", "undo", "refresh", "add"}
  /\ old \subseteq Paths /\ new \subseteq Paths
  /\ index \in 0..Len(Ports)
  /\ macs \subseteq Devices \cup {"all"}
  /\ status \in {"idle", "default"}
  /\ chosen \subseteq Paths
  /\ lost \in BOOLEAN /\ moved \in BOOLEAN

\* The two jumps are set and removed together, but for the moment between.
JumpInv ==
  /\ pc # "quicJump" => quicJump = jump
  /\ pc \in Loop \cup Undoing \cup {"quicJump"} => jump
  /\ ~jump => tcp = {}

\* Which command is where.
CommandInv ==
  /\ pc \in {"replace", "write"} \cup Undoing => command = "set"
  /\ pc \in Loop => command # "none"
  /\ pc \in {"jump", "quicJump"} => command = "add"

\* A device has its rule for QUIC right after the one for TCP.
QuicInv ==
  /\ pc \in {"idle", "replace", "write", "all", "path", "tcp"} => tcp = quic
  /\ pc \in {"jump", "quicJump"} => tcp = {} /\ quic = {}
  /\ pc = "flush" => tcp = {}
  /\ pc = "all" => quic = {}
  /\ pc = "tcp" => macs \cap tcp = {}
  /\ pc = "quic" => \E mac \in macs : macs \cap tcp = {mac} /\ tcp = quic \cup {mac}

\* The policy that the rules are made of: the one that was requested, or the
\* one the user chose.
Target == IF pc \in Loop /\ command = "set" THEN new ELSE chosen

\* Rules of these devices are rules of that policy.
Allowed(set) ==
  /\ "all" \in set => Target = Paths
  /\ \A d \in set \cap Devices : where[d] \in Target

ChosenInv ==
  /\ pc \in Loop \cup {"idle", "replace", "jump", "quicJump"} => Policy(file) \subseteq Target
  /\ pc = "write" => Policy(file) = {}
  /\ command = "set" => old \subseteq chosen
  /\ ~moved /\ pc \in {"idle", "replace", "write", "path", "tcp", "quic"} => Allowed(tcp)
  /\ ~moved /\ pc \in {"tcp", "quic"} => Allowed(macs)

\* The policy of the target is still in the file.
Kept == IF pc \in Loop /\ command = "set" THEN file = new ELSE ~lost

\* The devices on the first n paths have rules, if the target has those paths.
Covered(n, set) ==
  \/ "all" \in set
  \/ \A d \in Devices, i \in 1..n : where[d] = Ports[i] /\ Ports[i] \in Target => d \in set

ServedInv ==
  /\ pc \in Loop /\ command = "set" => file \in {new, {}}
  /\ Kept /\ pc \in Loop \cup {"idle", "replace", "jump", "quicJump"} => Policy(file) = Target
  /\ ~lost /\ command = "set" => old = chosen
  /\ Kept /\ ~moved =>
       /\ pc = "idle" /\ jump => Covered(Len(Ports), tcp)
       /\ pc = "path" => Covered(index, tcp)
       /\ pc \in {"tcp", "quic"} => Covered(index, tcp \cup macs)

IInv == TypeOK /\ JumpInv /\ CommandInv /\ QuicInv /\ ChosenInv /\ ServedInv

-----------------------------------------------------------------------------
\* What the assumptions say of the paths.
LEMMA PathFacts ==
  /\ Len(Ports) \in Nat /\ Len(Ports) > 0
  /\ \A i \in 1..Len(Ports) : Ports[i] \in Paths
  /\ \A path \in Paths : \E i \in 1..Len(Ports) : path = Ports[i]
  /\ "away" \notin Paths /\ Paths # {} /\ "all" \notin Devices
  /\ NoFile \notin SUBSET Paths
<1>1. Ports \in Seq(STRING) /\ Ports # <<>>
  BY PathAssumption
<1>2. Len(Ports) \in Nat /\ Len(Ports) > 0 /\ DOMAIN Ports = 1..Len(Ports)
  BY <1>1
<1>3. {"away", "none"} \cap Paths = {}
  BY PathAssumption DEF Paths
<1>4. /\ \A i \in 1..Len(Ports) : Ports[i] \in Paths
      /\ \A path \in Paths : \E i \in 1..Len(Ports) : path = Ports[i]
  BY <1>2 DEF Paths
<1> QED
  BY <1>2, <1>3, <1>4, PathAssumption DEF NoFile

\* Two sets that contain each other are one.
LEMMA SetEquality ==
  ASSUME NEW S, NEW T, S \subseteq T, T \subseteq S
  PROVE  S = T
  OBVIOUS

\* The policy of a file is a set of paths, and its own policy.
LEMMA PolicyFacts ==
  /\ \A f \in (SUBSET Paths) \cup {NoFile} : Policy(f) \in SUBSET Paths
  /\ \A f \in SUBSET Paths : Policy(f) = f
  /\ Policy(NoFile) = {}
  BY PathFacts DEF Policy

\* The routes are gone and the script has ended: what that leaves has its type.
LEMMA RestType ==
  ASSUME RoutesRemove, Idle
  PROVE  /\ jump' = FALSE /\ quicJump' = FALSE /\ tcp' = {} /\ quic' = {}
         /\ command' = "none" /\ old' \subseteq Paths /\ new' \subseteq Paths
         /\ index' \in 0..Len(Ports) /\ macs' = {}
<1>1. index' \in 0..Len(Ports)
  BY PathFacts DEF Idle
<1> QED
  BY <1>1 DEF RoutesRemove, Idle

\* The types.
LEMMA TypeStep ==
  ASSUME TypeOK, [Next]_vars
  PROVE  TypeOK'
<1> USE PathFacts, PolicyFacts
  DEF TypeOK, Goto, chains, request, loop, history, Idle, RoutesRemove, Loop, Undoing
<1>1. CASE FlushTcp
  BY <1>1 DEF FlushTcp
<1>2. CASE FlushQuic
  BY <1>2 DEF FlushQuic
<1>3. CASE AllEnabled
  BY <1>3 DEF AllEnabled
<1>4. CASE NextPath
  BY <1>4 DEF NextPath, On
<1>5. CASE AddTcp
  BY <1>5 DEF AddTcp
<1>6. CASE AddQuic
  BY <1>6 DEF AddQuic
<1>7. CASE PathDone
  BY <1>7 DEF PathDone
<1>8. CASE Refreshed
  <2>1. CASE command = "set"
    <3>1. lost' \in BOOLEAN
      BY <1>8, <2>1 DEF Refreshed
    <3> QED BY <1>8, <2>1, <3>1 DEF Refreshed
  <2>2. CASE command # "set"
    BY <1>8, <2>2 DEF Refreshed
  <2> QED BY <2>1, <2>2
<1>9. CASE RefreshFails
  <2>1. CASE command = "set"
    BY <1>9, <2>1 DEF RefreshFails
  <2>2. CASE command # "set"
    <3>1. RoutesRemove /\ Idle /\ pc' = "idle" /\ UNCHANGED <<file, where, status, history>>
      BY <1>9, <2>2 DEF RefreshFails
    <3> HIDE DEF RoutesRemove, Idle
    <3> QED BY <3>1, RestType
  <2> QED BY <2>1, <2>2
<1>10. CASE SetPaths
  BY <1>10 DEF SetPaths
<1>11. CASE Unlink
  BY <1>11 DEF Unlink
<1>12. CASE Write
  BY <1>12 DEF Write
<1>13. CASE WriteFails
  BY <1>13 DEF WriteFails
<1>14. CASE Restore
  <2>1. lost' \in BOOLEAN
    BY <1>14 DEF Restore
  <2>2. CASE file' = old
    BY <1>14, <2>1, <2>2 DEF Restore
  <2>3. CASE file' = NoFile
    BY <1>14, <2>1, <2>3 DEF Restore
  <2> QED BY <1>14, <2>2, <2>3 DEF Restore
<1>15. CASE RefreshPaths
  BY <1>15 DEF RefreshPaths
<1>16. CASE RoutesAdd
  BY <1>16 DEF RoutesAdd
<1>17. CASE AddJump
  <2>1. CASE pc = "jump" /\ pc' = "quicJump"
    BY <1>17, <2>1 DEF AddJump
  <2>2. CASE pc = "quicJump" /\ pc' = "refresh"
    BY <1>17, <2>2 DEF AddJump
  <2>3. CASE RoutesRemove /\ pc' = "idle" /\ Idle
    <3>1. UNCHANGED <<file, where, status, history>>
      BY <1>17 DEF AddJump
    <3> HIDE DEF RoutesRemove, Idle
    <3> QED BY <2>3, <3>1, RestType
  <2> QED BY <1>17, <2>1, <2>2, <2>3 DEF AddJump
<1>18. CASE Off
  BY <1>18 DEF Off
<1>19. CASE Status
  BY <1>19 DEF Status
<1>20. CASE Move
  BY <1>20 DEF Move
<1>21. CASE PowerCut
  <2>1. RoutesRemove /\ Idle /\ pc' = "idle" /\ status' = "idle" /\ lost' = FALSE
    BY <1>21 DEF PowerCut
  <2>2. chosen' \subseteq Paths /\ UNCHANGED <<file, where, moved>>
    BY <1>21 DEF PowerCut
  <2> HIDE DEF RoutesRemove, Idle
  <2> QED BY <2>1, <2>2, RestType
<1>22. CASE UNCHANGED vars
  BY <1>22 DEF vars
<1> QED
  BY <1>1, <1>2, <1>3, <1>4, <1>5, <1>6, <1>7, <1>8, <1>9, <1>10, <1>11, <1>12, <1>13, <1>14,
       <1>15, <1>16, <1>17, <1>18, <1>19, <1>20, <1>21, <1>22
  DEF Next, PolicyRefresh, Commands

\* Both jumps are there while the policy is refreshed.
LEMMA JumpStep ==
  ASSUME TypeOK, JumpInv, CommandInv, [Next]_vars
  PROVE  JumpInv' /\ CommandInv'
<1> USE PathFacts, PolicyFacts
  DEF TypeOK, JumpInv, CommandInv, Goto, chains, request, loop, history, Idle, RoutesRemove,
      Loop, Undoing
<1>1. CASE FlushTcp
  BY <1>1 DEF FlushTcp
<1>2. CASE FlushQuic
  BY <1>2 DEF FlushQuic
<1>3. CASE AllEnabled
  BY <1>3 DEF AllEnabled
<1>4. CASE NextPath
  BY <1>4 DEF NextPath
<1>5. CASE AddTcp
  BY <1>5 DEF AddTcp
<1>6. CASE AddQuic
  BY <1>6 DEF AddQuic
<1>7. CASE PathDone
  BY <1>7 DEF PathDone
<1>8. CASE Refreshed
  BY <1>8 DEF Refreshed
<1>9. CASE RefreshFails
  <2>1. CASE command = "set"
    BY <1>9, <2>1 DEF RefreshFails
  <2>2. CASE command # "set"
    BY <1>9, <2>2 DEF RefreshFails
  <2> QED BY <2>1, <2>2
<1>10. CASE SetPaths
  BY <1>10 DEF SetPaths
<1>11. CASE Unlink
  BY <1>11 DEF Unlink
<1>12. CASE Write
  BY <1>12 DEF Write
<1>13. CASE WriteFails
  BY <1>13 DEF WriteFails
<1>14. CASE Restore
  BY <1>14 DEF Restore
<1>15. CASE RefreshPaths
  BY <1>15 DEF RefreshPaths
<1>16. CASE RoutesAdd
  BY <1>16 DEF RoutesAdd
<1>17. CASE AddJump
  <2>1. CASE pc = "jump" /\ pc' = "quicJump"
    BY <1>17, <2>1 DEF AddJump
  <2>2. CASE pc = "quicJump" /\ pc' = "refresh"
    <3>1. quicJump' = TRUE /\ jump' = jump /\ jump = TRUE
      BY <1>17, <2>2 DEF AddJump
    <3>2. UNCHANGED <<file, tcp, quic, where, command, old, new, index, macs, status, chosen,
         lost, moved>>
      BY <1>17, <2>2 DEF AddJump
    <3> QED BY <2>2, <3>1, <3>2
  <2>3. CASE RoutesRemove /\ pc' = "idle" /\ Idle
    BY <1>17, <2>3 DEF AddJump
  <2> QED BY <1>17, <2>1, <2>2, <2>3 DEF AddJump
<1>18. CASE Off
  BY <1>18 DEF Off
<1>19. CASE Status
  BY <1>19 DEF Status
<1>20. CASE Move
  BY <1>20 DEF Move
<1>21. CASE PowerCut
  BY <1>21 DEF PowerCut
<1>22. CASE UNCHANGED vars
  BY <1>22 DEF vars
<1> QED
  BY <1>1, <1>2, <1>3, <1>4, <1>5, <1>6, <1>7, <1>8, <1>9, <1>10, <1>11, <1>12, <1>13, <1>14,
       <1>15, <1>16, <1>17, <1>18, <1>19, <1>20, <1>21, <1>22
  DEF Next, PolicyRefresh, Commands

\* A rule for QUIC follows every rule for TCP before anything else is done.
LEMMA QuicStep ==
  ASSUME TypeOK, JumpInv, QuicInv, [Next]_vars
  PROVE  QuicInv'
<1> USE PathFacts, PolicyFacts
  DEF TypeOK, JumpInv, QuicInv, Goto, chains, request, loop, history, Idle, RoutesRemove, Loop,
      Undoing
<1>1. CASE FlushTcp
  BY <1>1 DEF FlushTcp
<1>2. CASE FlushQuic
  BY <1>2 DEF FlushQuic
<1>3. CASE AllEnabled
  BY <1>3 DEF AllEnabled
<1>4. CASE NextPath
  BY <1>4 DEF NextPath
<1>5. CASE AddTcp
  BY <1>5 DEF AddTcp
<1>6. CASE AddQuic
  BY <1>6 DEF AddQuic
<1>7. CASE PathDone
  BY <1>7 DEF PathDone
<1>8. CASE Refreshed
  BY <1>8 DEF Refreshed
<1>9. CASE RefreshFails
  <2>1. CASE command = "set"
    BY <1>9, <2>1 DEF RefreshFails
  <2>2. CASE command # "set"
    BY <1>9, <2>2 DEF RefreshFails
  <2> QED BY <2>1, <2>2
<1>10. CASE SetPaths
  BY <1>10 DEF SetPaths
<1>11. CASE Unlink
  BY <1>11 DEF Unlink
<1>12. CASE Write
  BY <1>12 DEF Write
<1>13. CASE WriteFails
  BY <1>13 DEF WriteFails
<1>14. CASE Restore
  BY <1>14 DEF Restore
<1>15. CASE RefreshPaths
  BY <1>15 DEF RefreshPaths
<1>16. CASE RoutesAdd
  BY <1>16 DEF RoutesAdd
<1>17. CASE AddJump
  <2>1. CASE pc = "jump" /\ pc' = "quicJump"
    BY <1>17, <2>1 DEF AddJump
  <2>2. CASE pc = "quicJump" /\ pc' = "refresh"
    BY <1>17, <2>2 DEF AddJump
  <2>3. CASE RoutesRemove /\ pc' = "idle" /\ Idle
    BY <1>17, <2>3 DEF AddJump
  <2> QED BY <1>17, <2>1, <2>2, <2>3 DEF AddJump
<1>18. CASE Off
  BY <1>18 DEF Off
<1>19. CASE Status
  BY <1>19 DEF Status
<1>20. CASE Move
  BY <1>20 DEF Move
<1>21. CASE PowerCut
  BY <1>21 DEF PowerCut
<1>22. CASE UNCHANGED vars
  BY <1>22 DEF vars
<1> QED
  BY <1>1, <1>2, <1>3, <1>4, <1>5, <1>6, <1>7, <1>8, <1>9, <1>10, <1>11, <1>12, <1>13, <1>14,
       <1>15, <1>16, <1>17, <1>18, <1>19, <1>20, <1>21, <1>22
  DEF Next, PolicyRefresh, Commands

\* Rules are made of the policy in the file, which is never more than the target.
LEMMA ChosenStep ==
  ASSUME TypeOK, JumpInv, CommandInv, QuicInv, ChosenInv, [Next]_vars
  PROVE  ChosenInv'
<1> USE PathFacts, PolicyFacts
  DEF TypeOK, JumpInv, CommandInv, QuicInv, ChosenInv, Target, Allowed, Goto, chains, request,
      loop, history, Idle, RoutesRemove, Loop, Undoing
<1>1. CASE FlushTcp
  BY <1>1 DEF FlushTcp
<1>2. CASE FlushQuic
  BY <1>2 DEF FlushQuic
<1>3. CASE AllEnabled
  <2>1. file' = Policy(file) /\ tcp = {} /\ Target' = Target /\ Target \subseteq Paths
    BY <1>3 DEF AllEnabled
  <2>2. CASE file' = Paths
    <3>1. Policy(file) \subseteq Target /\ Policy(file) = Paths
      BY <1>3, <2>1, <2>2 DEF AllEnabled
    <3>2. Target = Paths
      <4> HIDE DEF Target
      <4>1. Paths \subseteq Target
        BY <3>1
      <4>2. Target \subseteq Paths
        BY <2>1
      <4> QED BY <4>1, <4>2, SetEquality
    <3>3. Target' = Paths /\ macs' = {"all"} /\ pc' = "tcp"
      BY <1>3, <2>1, <2>2, <3>2 DEF AllEnabled
    <3> QED BY <1>3, <2>1, <2>2, <3>3 DEF AllEnabled
  <2>3. CASE file' # Paths
    BY <1>3, <2>1, <2>3 DEF AllEnabled
  <2> QED BY <2>2, <2>3
<1>4. CASE NextPath
  BY <1>4 DEF NextPath, On
<1>5. CASE AddTcp
  BY <1>5 DEF AddTcp
<1>6. CASE AddQuic
  BY <1>6 DEF AddQuic
<1>7. CASE PathDone
  BY <1>7 DEF PathDone
<1>8. CASE Refreshed
  BY <1>8 DEF Refreshed
<1>9. CASE RefreshFails
  <2>1. CASE command = "set"
    <3>1. pc \in Loop /\ pc' = "undo" /\ UNCHANGED <<file, jump, quicJump, tcp, quic, where,
         command, old, new, index, macs, status, chosen, lost, moved>>
      BY <1>9, <2>1 DEF RefreshFails
    <3> QED BY <2>1, <3>1
  <2>2. CASE command # "set"
    BY <1>9, <2>2 DEF RefreshFails
  <2> QED BY <2>1, <2>2
<1>10. CASE SetPaths
  BY <1>10 DEF SetPaths
<1>11. CASE Unlink
  BY <1>11 DEF Unlink
<1>12. CASE Write
  <2>1. CASE jump
    BY <1>12, <2>1 DEF Write
  <2>2. CASE ~jump
    BY <1>12, <2>2 DEF Write
  <2> QED BY <2>1, <2>2
<1>13. CASE WriteFails
  BY <1>13 DEF WriteFails
<1>14. CASE Restore
  <2>1. lost' \in BOOLEAN
    BY <1>14 DEF Restore
  <2>2. CASE file' = old
    BY <1>14, <2>1, <2>2 DEF Restore
  <2>3. CASE file' = NoFile
    BY <1>14, <2>1, <2>3 DEF Restore
  <2> QED BY <1>14, <2>2, <2>3 DEF Restore
<1>15. CASE RefreshPaths
  BY <1>15 DEF RefreshPaths
<1>16. CASE RoutesAdd
  BY <1>16 DEF RoutesAdd
<1>17. CASE AddJump
  <2>1. CASE pc = "jump" /\ pc' = "quicJump"
    BY <1>17, <2>1 DEF AddJump
  <2>2. CASE pc = "quicJump" /\ pc' = "refresh"
    <3>1. quicJump' = TRUE /\ jump' = jump /\ jump = TRUE
      BY <1>17, <2>2 DEF AddJump
    <3>2. UNCHANGED <<file, tcp, quic, where, command, old, new, index, macs, status, chosen,
         lost, moved>>
      BY <1>17, <2>2 DEF AddJump
    <3> QED BY <2>2, <3>1, <3>2
  <2>3. CASE RoutesRemove /\ pc' = "idle" /\ Idle
    BY <1>17, <2>3 DEF AddJump
  <2> QED BY <1>17, <2>1, <2>2, <2>3 DEF AddJump
<1>18. CASE Off
  BY <1>18 DEF Off
<1>19. CASE Status
  BY <1>19 DEF Status
<1>20. CASE Move
  BY <1>20 DEF Move
<1>21. CASE PowerCut
  <2>1. chosen' \subseteq Paths /\ file' = file /\ lost' = FALSE
    BY <1>21 DEF PowerCut
  <2> QED BY <1>21, <2>1 DEF PowerCut
<1>22. CASE UNCHANGED vars
  BY <1>22 DEF vars
<1> QED
  BY <1>1, <1>2, <1>3, <1>4, <1>5, <1>6, <1>7, <1>8, <1>9, <1>10, <1>11, <1>12, <1>13, <1>14,
       <1>15, <1>16, <1>17, <1>18, <1>19, <1>20, <1>21, <1>22
  DEF Next, PolicyRefresh, Commands

\* The loop over the paths leaves out no device on a path it has passed.
LEMMA ServedStep ==
  ASSUME TypeOK, JumpInv, CommandInv, QuicInv, ChosenInv, ServedInv, [Next]_vars
  PROVE  ServedInv'
<1> USE PathFacts, PolicyFacts
  DEF TypeOK, JumpInv, CommandInv, QuicInv, ChosenInv, ServedInv, Target, Kept, Covered, Goto,
      chains, request, loop, history, Idle, RoutesRemove, Loop, Undoing
<1>1. CASE FlushTcp
  BY <1>1 DEF FlushTcp
<1>2. CASE FlushQuic
  BY <1>2 DEF FlushQuic
<1>3. CASE AllEnabled
  BY <1>3 DEF AllEnabled
<1>4. CASE NextPath
  BY <1>4 DEF NextPath, On
<1>5. CASE AddTcp
  BY <1>5 DEF AddTcp
<1>6. CASE AddQuic
  BY <1>6 DEF AddQuic
<1>7. CASE PathDone
  BY <1>7 DEF PathDone
<1>8. CASE Refreshed
  <2>1. CASE command = "set"
    <3>1. lost' \in BOOLEAN
      BY <1>8, <2>1 DEF Refreshed
    <3> QED BY <1>8, <2>1, <3>1 DEF Refreshed
  <2>2. CASE command # "set"
    BY <1>8, <2>2 DEF Refreshed
  <2> QED BY <2>1, <2>2
<1>9. CASE RefreshFails
  <2>1. CASE command = "set"
    <3>1. pc \in Loop /\ pc' = "undo" /\ UNCHANGED <<file, jump, quicJump, tcp, quic, where,
         command, old, new, index, macs, status, chosen, lost, moved>>
      BY <1>9, <2>1 DEF RefreshFails
    <3> QED BY <2>1, <3>1
  <2>2. CASE command # "set"
    BY <1>9, <2>2 DEF RefreshFails
  <2> QED BY <2>1, <2>2
<1>10. CASE SetPaths
  BY <1>10 DEF SetPaths
<1>11. CASE Unlink
  BY <1>11 DEF Unlink
<1>12. CASE Write
  BY <1>12 DEF Write
<1>13. CASE WriteFails
  BY <1>13 DEF WriteFails
<1>14. CASE Restore
  <2>1. lost' \in BOOLEAN
    BY <1>14 DEF Restore
  <2>2. CASE file' = old
    BY <1>14, <2>1, <2>2 DEF Restore
  <2>3. CASE file' = NoFile
    BY <1>14, <2>1, <2>3 DEF Restore
  <2> QED BY <1>14, <2>2, <2>3 DEF Restore
<1>15. CASE RefreshPaths
  BY <1>15 DEF RefreshPaths
<1>16. CASE RoutesAdd
  BY <1>16 DEF RoutesAdd
<1>17. CASE AddJump
  <2>1. CASE pc = "jump" /\ pc' = "quicJump"
    BY <1>17, <2>1 DEF AddJump
  <2>2. CASE pc = "quicJump" /\ pc' = "refresh"
    <3>1. quicJump' = TRUE /\ jump' = jump /\ jump = TRUE
      BY <1>17, <2>2 DEF AddJump
    <3>2. UNCHANGED <<file, tcp, quic, where, command, old, new, index, macs, status, chosen,
         lost, moved>>
      BY <1>17, <2>2 DEF AddJump
    <3> QED BY <2>2, <3>1, <3>2
  <2>3. CASE RoutesRemove /\ pc' = "idle" /\ Idle
    BY <1>17, <2>3 DEF AddJump
  <2> QED BY <1>17, <2>1, <2>2, <2>3 DEF AddJump
<1>18. CASE Off
  BY <1>18 DEF Off
<1>19. CASE Status
  BY <1>19 DEF Status
<1>20. CASE Move
  BY <1>20 DEF Move
<1>21. CASE PowerCut
  <2>1. chosen' \subseteq Paths /\ file' = file /\ lost' = FALSE
    BY <1>21 DEF PowerCut
  <2> QED BY <1>21, <2>1 DEF PowerCut
<1>22. CASE UNCHANGED vars
  BY <1>22 DEF vars
<1> QED
  BY <1>1, <1>2, <1>3, <1>4, <1>5, <1>6, <1>7, <1>8, <1>9, <1>10, <1>11, <1>12, <1>13, <1>14,
       <1>15, <1>16, <1>17, <1>18, <1>19, <1>20, <1>21, <1>22
  DEF Next, PolicyRefresh, Commands

-----------------------------------------------------------------------------
\* At first there is no file, and nothing is redirected.
LEMMA InitIInv == Init => IInv
<1> SUFFICES ASSUME Init PROVE IInv
  OBVIOUS
<1> USE PathFacts, PolicyFacts DEF Init
<1>1. TypeOK
  <2>1. where \in [Devices -> Paths \cup {"away"}] /\ index \in 0..Len(Ports)
    OBVIOUS
  <2> QED
    BY <2>1 DEF TypeOK
<1>2. JumpInv /\ CommandInv /\ QuicInv
  BY DEF JumpInv, CommandInv, QuicInv, Loop, Undoing
<1>3. ChosenInv
  BY DEF ChosenInv, Allowed, Target, Loop
<1>4. ServedInv
  BY DEF ServedInv, Kept, Target, Loop
<1> QED
  BY <1>1, <1>2, <1>3, <1>4 DEF IInv

\* IInv is inductive.
LEMMA IInvStep == IInv /\ [Next]_vars => IInv'
  BY TypeStep, JumpStep, QuicStep, ChosenStep, ServedStep DEF IInv

\* The invariant, in every behaviour.
THEOREM Invariance == Spec => []IInv
  BY InitIInv, IInvStep, PTL DEF Spec

\* The types: the files hold paths, the chains devices or "all".
THEOREM TypeCorrect == Spec => []TypeOK
  BY Invariance, PTL DEF IInv

\* Whatever step of set-paths failed and whatever `status' wrote meanwhile, no
\* device is redirected whose path the user did not choose.
THEOREM NobodyElse == Spec => []OnlyChosen
<1>1. IInv => OnlyChosen
  BY DEF IInv, TypeOK, ChosenInv, Allowed, Target, OnlyChosen, AtRest, Redirected, Loop
<1> QED
  BY <1>1, Invariance, PTL

\* Unless the file was lost, every device on a chosen path is redirected.
THEOREM EveryoneChosen == Spec => []ChosenServed
<1>1. IInv => ChosenServed
  <2> SUFFICES ASSUME IInv, AtRest, jump, ~lost
               PROVE  {d \in Devices : where[d] \in chosen} \subseteq Redirected
    BY DEF ChosenServed
  <2>1. Covered(Len(Ports), tcp) /\ Target = chosen /\ chosen \subseteq Paths
    BY DEF IInv, TypeOK, ServedInv, Kept, AtRest, Target, Loop
  <2> QED
    BY <2>1, PathFacts DEF Covered, Redirected
<1> QED
  BY <1>1, Invariance, PTL

\* QUIC is rejected for the devices that are redirected, and for no other.
THEOREM NoQuicAside == Spec => []QuicFollows
<1>1. IInv => QuicFollows
  BY DEF IInv, JumpInv, QuicInv, QuicFollows
<1> QED
  BY <1>1, Invariance, PTL
=============================================================================
