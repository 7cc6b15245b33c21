-------------------------------- MODULE Main --------------------------------
(***************************************************************************)
(* main() of n300vless.c: one process that carries out one command and     *)
(* exits.  The commands about a server load its file first (ConfigFile)    *)
(* and then check, probe (Probe) or serve it (EngineServe, Relay); the     *)
(* other two download (Fetch).                                             *)
(***************************************************************************)
EXTENDS ConfigFile, Probe, Fetch

CONSTANTS
  Argv,       \* the commands of this instance
  PlainLinks  \* the links whose servers are probed, one of a kind

ASSUME MainAssumption ==
  /\ Argv \subseteq {"--check-config", "--probe-config", "--probe-endpoint-config",
                     "--probe-youtube-config", "--serve", "--resolve-a", "--fetch-crunch"}
  /\ PlainLinks \subseteq Links /\ PlainLinks # {}
  /\ {"tcp"} \cup {l.transport : l \in {k \in Links : Accepts(k)}} \subseteq Transports

VARIABLES argv

probing == <<upstream, server, reader, probe>>
vars == <<argv, file, probing, fetch>>

Downloads == {"--resolve-a", "--fetch-crunch"}
Hosts == [c \in Argv |->
            CASE c = "--probe-config" -> "204"
              [] c = "--probe-youtube-config" -> "page"
              [] OTHER -> "none"]

Loaded(c) == [transport |-> c.transport, tls |-> c.use_tls, vision |-> c.use_vision]

\* Choices that a command does not look at are made for it: a download reads
\* no file, a probe is made of an ordinary server and of a whole file.
Init ==
  /\ argv \in Argv
  /\ LET any == argv \in {"--check-config", "--serve"}
         get == argv \in Downloads
         One(S) == {CHOOSE x \in S : TRUE}
     IN  /\ LoadInit(IF any THEN Links ELSE IF get THEN One(PlainLinks) ELSE PlainLinks)
         /\ size \in (IF any THEN 0..Len(Lines(link)) ELSE {Len(Lines(link))})
         /\ FetchInit(IF get THEN Replies ELSE One(Replies))
  /\ config = Loaded(Defaults) /\ use_reality = FALSE
  /\ sock = <<>> /\ closed = "open" /\ conn = NewConn /\ up = <<>> /\ window = Window
  /\ host = Hosts[argv]
  /\ IF host = "none" THEN sent = 0 /\ controls = 0 /\ framing = "first" /\ addons = 0
                      ELSE ServerInit
  /\ response_pending = TRUE /\ buffer = <<>> /\ end = "no"
  /\ upgraded = FALSE /\ response = <<>> /\ result = "none"
  /\ peer \in (IF host # "none" /\ link.security # "none" THEN Peers ELSE {"server"})
  /\ host_peer \in (IF host = "page" THEN Peers ELSE {"server"})
  /\ answer \in CASE host = "none" -> {"good"} [] host = "204" -> {"good", "bad"}
                   [] OTHER -> Answers
  /\ pc = "main"
  /\ step = CASE argv = "--resolve-a" -> "resolve" [] argv = "--fetch-crunch" -> "open"
              [] OTHER -> "none"

Load ==
  /\ argv \notin Downloads /\ pc = "main"
  /\ LoadConfig
  /\ UNCHANGED <<argv, probing, fetch>>

\* The error path of every command, and the success of "--check-config".
Exits ==
  /\ pc = "main" /\ load \in {"ok", "bad"}
  /\ load = "bad" \/ argv = "--check-config"
  /\ pc' = "ended" /\ result' = (IF load = "ok" THEN "ok" ELSE "failed")
  /\ UNCHANGED <<argv, file, upstream, server, response_pending, buffer, end, host, peers,
                 upgraded, response, fetch>>

\* probe_config(), probe_endpoint_config(), probe_youtube_config(), serve()
Starts ==
  /\ pc = "main" /\ load = "ok" /\ argv # "--check-config"
  /\ config' = Loaded(conf) /\ use_reality' = conf.use_reality
  /\ pc' = CASE argv = "--serve" -> "serve" [] argv = "--probe-endpoint-config" -> "connect"
             [] OTHER -> "context"
  /\ UNCHANGED <<argv, file, sock, closed, conn, up, window, server, response_pending, buffer,
                 end, host, peer, host_peer, answer, upgraded, response, result, fetch>>

Fetches == argv \in Downloads /\ FetchNext /\ UNCHANGED <<argv, file, probing>>

Process ==
  \/ Load \/ Exits \/ Starts \/ Fetches
  \/ Probing /\ UNCHANGED <<argv, file, fetch>>

Next == Process \/ (ServerSide /\ UNCHANGED <<argv, file, fetch>>)

Spec == Init /\ [][Next]_vars

\* A process that can go on does.
FairSpec == Spec /\ WF_vars(Process)

-----------------------------------------------------------------------------
(* Properties.                                                             *)

\* What the relay and the probes assume of a configuration (Configs) is what
\* load_config() lets through, cut files included.
LoadedIsConfig == load = "ok" => Loaded(conf) \in Configs

\* A probe, over a tunnel without TLS, ends: no call it makes waits for ever.
\* (Over TLS one may: upstream_raw_read() repeats a read that timed out.)
PlainProbeEnds ==
  argv \notin Downloads \cup {"--serve"} /\ link.security = "none" ~> result # "none"
=============================================================================
