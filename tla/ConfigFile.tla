----------------------------- MODULE ConfigFile -----------------------------
(***************************************************************************)
(* A server's configuration on its way from a vless:// link to struct      *)
(* config: parse_subscription.lua accepts the link and writes a file of    *)
(* key=value lines, load_config() of n300vless.c reads it line by line and *)
(* then looks at the whole.  The importer ignores write errors and the     *)
(* stick may lose power, so a file may be cut short.                       *)
(*                                                                         *)
(* A text is "blank" if trim() leaves nothing of it; `host' is the host of *)
(* a WebSocket and the authority of gRPC.  A REALITY key and a short ID    *)
(* are their lengths in characters.                                        *)
(***************************************************************************)
EXTENDS Naturals, Sequences

CONSTANTS
  Links,    \* vless links as parse_query() splits them
  KeyMin, KeyMax, KeyLength   \* lengths of a key: let through by the importer, and right

ASSUME LinksAssumption ==
  Links \subseteq [transport : {"tcp", "ws", "grpc", "xhttp"},
                   security  : {"none", "tls", "reality"},
                   vision    : BOOLEAN,
                   sni       : {"sni", "server", "blank"},
                   host      : {"host", "blank"},
                   path      : {"/path", "path"},
                   service   : {"service", "a/b"},
                   key       : Nat,
                   sid       : Nat]
ASSUME KeyAssumption == {KeyMin, KeyMax, KeyLength} \subseteq Nat

VARIABLES
  link,    \* what the file was written from
  size,    \* of its lines, those that reached the file
  line,    \* lines load_config() has read
  conf,    \* struct config
  load     \* "reading", "ok", "bad"

file == <<link, size, line, conf, load>>

-----------------------------------------------------------------------------
(* The importer.                                                           *)

\* parse_vless() returns a node.
Accepts(l) ==
  /\ l.transport \in {"tcp", "ws", "grpc"}
  /\ l.security = "reality" =>
       /\ l.transport # "ws"
       /\ l.key \in KeyMin..KeyMax
       /\ l.sid <= 16 /\ l.sid % 2 = 0
  /\ l.vision => l.transport = "tcp" /\ l.security # "none"
  /\ l.transport = "ws" => l.path = "/path"
  /\ l.transport = "grpc" => l.service = "service" /\ l.security # "none"

\* A mutant: the short ID is written before the key.
Lines_IdFirst(l) ==
  LET Part(test, keys) == IF test THEN keys ELSE <<>>
      tls == l.security # "none"
  IN  <<"server", "port", "uuid", "transport", "security", "flow", "tls">>
      \o Part(tls, <<"sni">>)
      \o Part(l.security = "reality", <<"reality_short_id", "reality_public_key">>)
      \o Part(l.transport = "ws", <<"ws_host", "ws_path">>)
      \o Part(l.transport = "grpc", <<"grpc_service", "grpc_authority">>)
      \o <<"ca_file">>

\* The keys of a file, in order; those without a choice are left out.
Lines(l) ==
  LET Part(test, keys) == IF test THEN keys ELSE <<>>
      tls == l.security # "none"
  IN  <<"server", "port", "uuid", "transport", "security", "flow", "tls">>
      \o Part(tls, <<"sni">>)
      \o Part(l.security = "reality", <<"reality_public_key", "reality_short_id">>)
      \o Part(l.transport = "ws", <<"ws_host", "ws_path">>)
      \o Part(l.transport = "grpc", <<"grpc_service", "grpc_authority">>)
      \o <<"ca_file">>

-----------------------------------------------------------------------------
(* load_config().                                                          *)

Defaults ==
  [saw |-> {}, transport |-> "tcp", use_tls |-> FALSE, use_reality |-> FALSE,
   use_vision |-> FALSE, reality_key_set |-> FALSE, reality_short_id |-> "none",
   sni |-> "none", ws_path |-> "/", grpc_service |-> "GunService"]

\* parse_base64url_32(), parse_hex_bytes(), copy_config_string() say no.
Invalid(key) ==
  \/ key = "reality_public_key" /\ link.key # KeyLength
  \/ key = "reality_short_id" /\ (link.sid > 16 \/ link.sid % 2 = 1)
  \/ key = "sni" /\ link.sni = "blank"
  \/ key \in {"ws_host", "grpc_authority"} /\ link.host = "blank"

\* apply_config_value().  EVP_DecodeBlock() writes 33 bytes into the 32 of the
\* key: the last, a zero, is the first byte of the short ID.
Apply(key) ==
  CASE key \in {"server", "port", "uuid"} -> [conf EXCEPT !.saw = @ \cup {key}]
    [] key = "transport" -> [conf EXCEPT !.transport = link.transport]
    [] key = "security"  -> [conf EXCEPT !.use_tls = link.security # "none",
                                         !.use_reality = link.security = "reality"]
    [] key = "flow"      -> [conf EXCEPT !.use_vision = link.vision]
    [] key = "tls"       -> [conf EXCEPT !.use_tls = link.security # "none"]
    [] key = "sni"       -> [conf EXCEPT !.sni = link.sni]
    [] key = "reality_public_key" ->
         [conf EXCEPT !.reality_key_set = TRUE,
                      !.reality_short_id = IF @ = "none" THEN @ ELSE "spoiled"]
    [] key = "reality_short_id" ->
         [conf EXCEPT !.reality_short_id = IF link.sid = 0 THEN "none" ELSE "id"]
    [] key = "ws_path"      -> [conf EXCEPT !.ws_path = link.path]
    [] key = "grpc_service" -> [conf EXCEPT !.grpc_service = link.service]
    [] OTHER                -> conf

\* A file of one of these links, if the importer accepts it.
LoadInit(links) ==
  /\ link \in {l \in links : Accepts(l)}
  /\ line = 0 /\ conf = Defaults /\ load = "reading"

ReadLine ==
  /\ load = "reading" /\ line < size
  /\ LET key == Lines(link)[line + 1] IN
       IF Invalid(key)
         THEN load' = "bad" /\ UNCHANGED conf
         ELSE conf' = Apply(key) /\ UNCHANGED load
  /\ line' = line + 1
  /\ UNCHANGED <<link, size>>

\* Mutants: REALITY without its key; gRPC without TLS.
Consistent_Keyless(c) ==
  /\ c.saw = {"server", "port", "uuid"}
  /\ c.use_reality => c.transport \in {"tcp", "grpc"}
  /\ c.use_vision => c.transport = "tcp" /\ c.use_tls
  /\ c.transport = "grpc" => c.use_tls /\ c.grpc_service # "a/b"

Consistent_PlainGrpc(c) ==
  /\ c.saw = {"server", "port", "uuid"}
  /\ c.use_reality => c.reality_key_set /\ c.transport \in {"tcp", "grpc"}
  /\ c.use_vision => c.transport = "tcp" /\ c.use_tls
  /\ c.transport = "grpc" => c.grpc_service # "a/b"

\* What load_config() asks of a file as a whole.
Consistent(c) ==
  /\ c.saw = {"server", "port", "uuid"}
  /\ c.ws_path \in {"/", "/path"}
  /\ c.use_reality => c.reality_key_set /\ c.transport \in {"tcp", "grpc"}
  /\ c.use_vision => c.transport = "tcp" /\ c.use_tls
  /\ c.transport = "grpc" => c.use_tls /\ c.grpc_service # "a/b"

LoadEnds ==
  /\ load = "reading" /\ line = size
  /\ load' = IF Consistent(conf) THEN "ok" ELSE "bad"
  /\ conf' = IF conf.use_tls /\ conf.sni = "none" THEN [conf EXCEPT !.sni = "server"] ELSE conf
  /\ UNCHANGED <<link, size, line>>

LoadConfig == ReadLine \/ LoadEnds

-----------------------------------------------------------------------------
(* Properties.                                                             *)

Whole == size = Len(Lines(link))

\* What the engine gets out of a whole file is what the link says, whatever
\* one line does to the fields of another (apply_config_value).
LoadedAsLinked ==
  load = "ok" /\ Whole =>
    LET tls == link.security # "none" IN
      /\ conf.transport = link.transport
      /\ conf.use_tls = tls /\ conf.use_reality = (link.security = "reality")
      /\ conf.use_vision = link.vision
      /\ tls => conf.sni = link.sni
      /\ conf.use_reality => (conf.reality_short_id = "id") = (link.sid > 0)
      /\ link.transport = "ws" => conf.ws_path = link.path
      /\ link.transport = "grpc" => conf.grpc_service = link.service

\* A file cut short after its security= line, if it loads at all, loads with
\* the security of the link, and REALITY with its key.  Cut before that line
\* it loads as plain TCP.
CutKeepsSecurity ==
  load = "ok" /\ size >= 5 =>
    /\ conf.use_tls = (link.security # "none")
    /\ conf.use_reality = (link.security = "reality")
    /\ conf.use_reality => conf.reality_key_set
=============================================================================
