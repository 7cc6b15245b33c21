----------------------------- MODULE PathPolicy -----------------------------
(***************************************************************************)
(* Which devices the VPN serves: n300vpn-control.sh turns the LAN ports    *)
(* and the Wi-Fi the user chose into rules for the devices seen on them.   *)
(* The commands hold the control lock and are one script here; `status'    *)
(* takes no lock.  Each iptables call may fail, devices move, and the      *)
(* power may go.                                                           *)
(*                                                                         *)
(* A chain is the set of devices it has a rule for; a rule without a       *)
(* device is a rule for "all".  paths.conf is the set of the paths that    *)
(* are on, or NoFile; mv brings it from /tmp to the stick, so the old file *)
(* goes before the new one is there.                                       *)
(***************************************************************************)
EXTENDS Naturals, Sequences

CONSTANTS
  Devices,  \* by their MAC addresses
  Ports     \* the paths, in the order of the script

ASSUME PathAssumption ==
  /\ Ports # <<>> /\ Ports \in Seq(STRING) /\ {"away", "none"} \cap {Ports[i] : i \in DOMAIN Ports} = {}
  /\ "all" \notin Devices

VARIABLES
  file,      \* paths.conf
  jump,      \* PREROUTING jumps to N300VPNP
  quicJump,  \* FORWARD jumps to N300VPNQP
  tcp,       \* N300VPNP: the devices that are redirected
  quic,      \* N300VPNQP: the devices whose QUIC is rejected
  where,     \* the path of each device in the switch's table or the Wi-Fi's
  pc,        \* where the script is, "idle" without one
  command,   \* what policy_refresh() returns to
  old, new,  \* set_paths: the policy that was there, and the one requested
  index,     \* policy_refresh: of the path in hand
  macs,      \* policy_refresh: devices on that path that have no rules yet
  status,    \* "idle", or "default": ensure_paths() found no file
  chosen,    \* history: the policy of the last set-paths that succeeded
  lost,      \* history: something else has taken its place in the file
  moved      \* history: a device has moved since the last policy_refresh

chains == <<jump, quicJump, tcp, quic>>
request == <<command, old, new>>
loop == <<index, macs>>
history == <<chosen, lost, moved>>
vars == <<file, chains, where, pc, request, loop, status, history>>

Paths == {Ports[i] : i \in DOMAIN Ports}
NoFile == {"none"}
\* path_enabled() of a file that is not there makes it, with every path off.
Policy(f) == IF f = NoFile THEN {} ELSE f
On(path) == {d \in Devices : where[d] = path}
Redirected == IF ~jump THEN {} ELSE IF "all" \in tcp THEN Devices ELSE tcp

Init ==
  /\ file = NoFile
  /\ jump = FALSE /\ quicJump = FALSE /\ tcp = {} /\ quic = {}
  /\ where = [d \in Devices |-> "away"]
  /\ pc = "idle" /\ command = "none" /\ old = {} /\ new = {} /\ index = 0 /\ macs = {}
  /\ status = "idle"
  /\ chosen = {} /\ lost = FALSE /\ moved = FALSE

Goto(from, to) == pc = from /\ pc' = to

-----------------------------------------------------------------------------
(* policy_refresh()                                                        *)

\* A mutant: the rules of the old policy stay.
FlushTcp_Kept ==
  /\ Goto("refresh", "flush")
  /\ moved' = FALSE
  /\ UNCHANGED <<file, chains, where, request, loop, status, chosen, lost>>

FlushTcp ==
  /\ Goto("refresh", "flush")
  /\ tcp' = {} /\ moved' = FALSE
  /\ UNCHANGED <<file, jump, quicJump, quic, where, request, loop, status, chosen, lost>>

\* A mutant: so do those for QUIC.
FlushQuic_Kept ==
  /\ Goto("flush", "all")
  /\ UNCHANGED <<file, chains, where, request, loop, status, history>>

FlushQuic ==
  /\ Goto("flush", "all")
  /\ quic' = {}
  /\ UNCHANGED <<file, jump, quicJump, tcp, where, request, loop, status, history>>

\* all_paths_enabled()
AllEnabled ==
  /\ file' = Policy(file)
  /\ IF file' = Paths
       THEN Goto("all", "tcp") /\ macs' = {"all"} /\ index' = Len(Ports)
       ELSE Goto("all", "path") /\ macs' = {} /\ index' = 0
  /\ UNCHANGED <<chains, where, request, status, history>>

\* The next path: the devices on it now, if it is on.
NextPath ==
  /\ index < Len(Ports)
  /\ Goto("path", "tcp")
  /\ index' = index + 1
  /\ file' = Policy(file)
  /\ macs' = (IF Ports[index'] \in file' THEN On(Ports[index']) \ tcp ELSE {})
  /\ UNCHANGED <<chains, where, request, status, history>>

AddTcp ==
  /\ Goto("tcp", "quic")
  /\ \E mac \in macs : tcp' = tcp \cup {mac}
  /\ UNCHANGED <<file, jump, quicJump, quic, where, request, loop, status, history>>

AddQuic ==
  /\ Goto("quic", "tcp")
  /\ \E mac \in macs \cap tcp : quic' = quic \cup {mac} /\ macs' = macs \ {mac}
  /\ UNCHANGED <<file, jump, quicJump, tcp, where, request, index, status, history>>

PathDone ==
  /\ macs = {}
  /\ Goto("tcp", "path")
  /\ UNCHANGED <<file, chains, where, request, loop, status, history>>

RoutesRemove == jump' = FALSE /\ quicJump' = FALSE /\ tcp' = {} /\ quic' = {}

Idle == command' = "none" /\ old' = {} /\ new' = {} /\ index' = 0 /\ macs' = {}

\* It returns 0: a policy that was set is kept, one that was restored is not
\* the one requested.
Refreshed ==
  /\ index = Len(Ports)
  /\ Goto("path", "idle")
  /\ IF command = "set" THEN chosen' = new /\ lost' = (file # new) ELSE UNCHANGED <<chosen, lost>>
  /\ Idle
  /\ UNCHANGED <<file, chains, where, status, moved>>

\* A call of iptables fails: set_paths() puts the old file back and tries
\* again; everyone else removes the routes.
RefreshFails ==
  /\ pc \in {"refresh", "flush", "tcp", "quic"} /\ (pc \in {"tcp", "quic"} => macs # {})
  /\ IF command = "set"
       THEN pc' = "undo" /\ UNCHANGED <<chains, request, loop>>
       ELSE pc' = "idle" /\ RoutesRemove /\ Idle
  /\ UNCHANGED <<file, where, status, history>>

PolicyRefresh ==
  FlushTcp \/ FlushQuic \/ AllEnabled \/ NextPath \/ AddTcp \/ AddQuic \/ PathDone
    \/ Refreshed \/ RefreshFails

-----------------------------------------------------------------------------
(* The commands.                                                           *)

\* set_paths(): what it saves is what it may put back.
SetPaths ==
  /\ Goto("idle", "replace")
  /\ command' = "set"
  /\ file' = Policy(file) /\ old' = file'
  /\ new' \in SUBSET Paths
  /\ UNCHANGED <<chains, where, loop, status, history>>

\* mv "$new" "$PATHS": the old file is unlinked, the new one written.
Unlink ==
  /\ \/ Goto("replace", "write") \/ Goto("undo", "restore")
  /\ file' = NoFile
  /\ UNCHANGED <<chains, where, request, loop, status, history>>

\* Without routes set_paths() is done.
Write ==
  /\ pc = "write" /\ file' = new
  /\ IF jump THEN pc' = "refresh" /\ UNCHANGED <<request, chosen, lost>>
             ELSE pc' = "idle" /\ chosen' = new /\ lost' = FALSE /\ Idle
  /\ UNCHANGED <<chains, where, index, macs, status, moved>>

\* The copy failed; the answer of the panel is "previous safe policy restored".
WriteFails ==
  /\ Goto("write", "idle")
  /\ lost' = TRUE /\ Idle
  /\ UNCHANGED <<file, chains, where, status, chosen, moved>>

\* A mutant: the old file is back, and its rules are not.
Restore_FileOnly ==
  /\ Goto("restore", "idle")
  /\ file' = old /\ Idle
  /\ UNCHANGED <<chains, where, status, history>>

\* mv "$old" "$PATHS", whatever comes of it, and policy_refresh.
Restore ==
  /\ Goto("restore", "refresh")
  /\ file' \in {old, NoFile}
  /\ lost' = (lost \/ file' = NoFile)
  /\ command' = "undo"
  /\ UNCHANGED <<chains, where, old, new, loop, status, chosen, moved>>

\* refresh-paths of the watchdog; without routes there is nothing to do.
RefreshPaths ==
  /\ jump /\ Goto("idle", "refresh")
  /\ command' = "refresh"
  /\ UNCHANGED <<file, chains, where, old, new, loop, status, history>>

\* routes_add(), by a command that turns the VPN on.
RoutesAdd ==
  /\ Goto("idle", "jump")
  /\ RoutesRemove
  /\ command' = "add"
  /\ UNCHANGED <<file, where, old, new, loop, status, history>>

AddJump ==
  /\ pc \in {"jump", "quicJump"}
  /\ \/ pc = "jump" /\ jump' = TRUE /\ pc' = "quicJump" /\ UNCHANGED <<quicJump, tcp, quic>>
                    /\ UNCHANGED <<request, loop>>
     \/ pc = "quicJump" /\ quicJump' = TRUE /\ pc' = "refresh" /\ UNCHANGED <<jump, tcp, quic>>
                    /\ UNCHANGED <<request, loop>>
     \/ RoutesRemove /\ pc' = "idle" /\ Idle
  /\ UNCHANGED <<file, where, status, history>>

\* By a command that turns it off.
Off ==
  /\ pc = "idle" /\ RoutesRemove
  /\ UNCHANGED <<file, where, pc, request, loop, status, history>>

Commands ==
  \/ SetPaths \/ Unlink \/ Write \/ WriteFails \/ Restore
  \/ RefreshPaths \/ RoutesAdd \/ AddJump \/ Off

\* path_status(), by the panel, at any time.
Status ==
  /\ \/ status = "idle" /\ file = NoFile /\ status' = "default" /\ UNCHANGED <<file, lost>>
     \/ /\ status = "default" /\ status' = "idle"
        /\ file' = {}
        /\ lost' = TRUE
  /\ UNCHANGED <<chains, where, pc, request, loop, chosen, moved>>

Move ==
  /\ \E d \in Devices, path \in Paths \cup {"away"} :
       path # where[d] /\ where' = [where EXCEPT ![d] = path]
  /\ moved' = TRUE
  /\ UNCHANGED <<file, chains, pc, request, loop, status, chosen, lost>>

\* The stick keeps the file.
PowerCut ==
  /\ RoutesRemove /\ Idle /\ pc' = "idle" /\ status' = "idle"
  /\ chosen' = Policy(file) /\ lost' = FALSE
  /\ UNCHANGED <<file, where, moved>>

Next == PolicyRefresh \/ Commands \/ Status \/ Move \/ PowerCut

Spec == Init /\ [][Next]_vars

-----------------------------------------------------------------------------
(* Properties.                                                             *)

AtRest == pc = "idle" /\ ~moved

\* No device is redirected whose path the user did not choose, whichever step
\* of set-paths failed and whatever status wrote meanwhile.
OnlyChosen ==
  AtRest /\ jump =>
    IF "all" \in tcp THEN chosen = Paths ELSE \A d \in Redirected : where[d] \in chosen

\* Every device on a chosen path is redirected, unless the file was lost.
ChosenServed ==
  AtRest /\ jump /\ ~lost => {d \in Devices : where[d] \in chosen} \subseteq Redirected

\* QUIC is rejected for the devices that are redirected, and for no other, so
\* that no page bypasses the tunnel and no other device loses HTTP/3.
QuicFollows == pc = "idle" => jump = quicJump /\ tcp = quic
=============================================================================
