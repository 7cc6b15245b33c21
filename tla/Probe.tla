------------------------------- MODULE Probe -------------------------------
(***************************************************************************)
(* The probes of n300vless.c: open_upstream() step by step, then one       *)
(* request through the tunnel and as much of the answer as the probe wants *)
(* to see.  "--probe-config" asks a plain HTTP host for a 204; the YouTube *)
(* probe asks two hosts, one after the other, over a second TLS session    *)
(* inside the tunnel (tunnel_bio_write, tunnel_bio_read), each over a      *)
(* tunnel of its own; the endpoint probe only connects.                    *)
(*                                                                         *)
(* The first data unit of an HTTPS host is its part of the TLS handshake;  *)
(* then, as for the plain host, the status line, the end of the headers,   *)
(* and body.                                                               *)
(***************************************************************************)
EXTENDS Reader

CONSTANTS ResponseMax   \* the response[] of a probe, in units

ASSUME ResponseAssumption == ResponseMax \in Nat \ {0}

VARIABLES
  host,         \* whom the probe asks: "204", "page", "media", or "none"
  use_reality,  \* of struct config
  peer,         \* who answers at the server's address: "server", "other" (a
                \* certificate for another name), "forger" (no valid one)
  host_peer,    \* who answers the inner TLS session
  answer,       \* of the host: "good", "bad" (another status), "short" (body)
  upgraded,     \* the server has answered the WebSocket upgrade
  response,     \* what the probe has read of the answer
  result        \* exit status: "none", "ok", "failed"

peers == <<use_reality, peer, host_peer, answer>>
probe == <<host, peers, upgraded, response, result>>

Peers   == {"server", "other", "forger"}
Answers == {"good", "bad", "short"}
Https == host \in {"page", "media"}

\* Nothing to close: the probe has failed.
GivesUp == pc' = "ended" /\ result' = "failed"

-----------------------------------------------------------------------------
(* open_upstream().                                                        *)

\* create_tls_context(): the CA file may not load.
CreateTlsContext ==
  /\ pc = "context"
  /\ \/ pc' = "connect" /\ UNCHANGED result
     \/ (config.tls \/ Https) /\ GivesUp
  /\ UNCHANGED <<upstream, server, response_pending, buffer, end, host, peers, upgraded,
                 response>>

\* connect_with_timeout(): no address of the server answers, or one does.
ConnectWithTimeout ==
  /\ pc = "connect"
  /\ \/ GivesUp
     \/ host = "none" /\ pc' = "ended" /\ result' = "ok"
     \/ host # "none" /\ pc' = (IF config.tls THEN "handshake" ELSE "upgrade") /\ UNCHANGED result
  /\ UNCHANGED <<upstream, server, response_pending, buffer, end, host, peers, upgraded,
                 response>>

\* SSL_connect() under SSL_VERIFY_PEER, or none for REALITY.
TlsHandshake ==
  /\ pc = "handshake"
  /\ \/ GivesUp
     \/ /\ use_reality \/ peer # "forger"
        /\ pc' = "verify" /\ UNCHANGED result
  /\ UNCHANGED <<upstream, server, response_pending, buffer, end, host, peers, upgraded,
                 response>>

\* A mutant: the name in the certificate is not looked at.
Verified_AnyName(who) == who # "forger"

\* verify_tls_peer(), SSL_reality_verify_peer()
Verified(who) == who = "server"

VerifyPeer ==
  /\ pc = "verify"
  /\ IF Verified(peer) THEN pc' = "upgrade" /\ UNCHANGED result ELSE GivesUp
  /\ UNCHANGED <<upstream, server, response_pending, buffer, end, host, peers, upgraded,
                 response>>

\* websocket_handshake() and grpc_handshake() write what they have to say.
Hello == [layer |-> "hello", command |-> "none", data |-> <<>>]

Upgrade ==
  /\ pc = "upgrade"
  /\ pc' = CASE config.transport = "ws" -> "switch" [] OTHER -> "request"
  /\ up' = IF config.transport = "tcp" THEN up ELSE Append(up, Hello)
  /\ UNCHANGED <<config, sock, closed, conn, window, server, response_pending, buffer, end,
                 host, peers, upgraded, response, result>>

\* The answer to the upgrade is read byte by byte up to its blank line: the
\* frames that come with it stay for websocket_begin_data_frame().
SwitchProtocols ==
  /\ pc = "switch"
  /\ \/ SkipRecord /\ UNCHANGED <<pc, result>>
     \/ /\ Raw # <<>> /\ Head(Raw).k = "http"
        /\ conn' = RawTook(1) /\ sock' = RawTookSock(1)
        /\ IF Head(Raw).ok THEN pc' = "request" /\ UNCHANGED result ELSE GivesUp
        /\ UNCHANGED <<config, closed, up, window>>
     \/ (RawEof \/ RawBroken \/ RawTimeout) /\ GivesUp /\ UNCHANGED upstream
  /\ UNCHANGED <<server, response_pending, buffer, end, host, peers, upgraded, response>>

-----------------------------------------------------------------------------
(* The request and the answer.                                             *)

\* The request, or the first message of the inner handshake with the VLESS
\* header before it (tunnel_bio_write); then consume_vless_response().
SendRequest ==
  /\ pc = "request"
  /\ \/ /\ up' = up \o InitialFrames(<<"first">>)
        /\ conn' = InitialWrote
        /\ pc' = "response" /\ UNCHANGED end
     \/ /\ closed # "open"                       \* the write may fail
        /\ Ends("error")
        /\ UNCHANGED <<up, conn>>
  /\ UNCHANGED <<config, sock, closed, window, server, response_pending, buffer, host, peers,
                 upgraded, response, result>>

\* OpenSSL reads the inner records one header or body at a time.
Length == IF Https THEN 1 ELSE ResponseMax - Len(response)

Status    == IF Https THEN 2 ELSE 1
HeaderEnd == Status + 1

\* A mutant: the headers alone will do.
Enough_NoBody(read) == Len(read) >= HeaderEnd

\* The loop of the probe has read what it asks for: the media host owes some
\* body after its headers.
Enough(read) == Len(read) >= HeaderEnd /\ (host = "media" => answer # "short")

InnerHandshake(read) == Https /\ Len(read) = 1

\* What was read joins the answer.  When the inner handshake is complete its
\* peer is verified and the request written (SSL_connect, SSL_write).
Deliver ==
  /\ pc = "deliver"
  /\ LET read == response \o buffer IN
       /\ response' = read
       /\ IF InnerHandshake(read) /\ Verified(host_peer)
            THEN up' = up \o BodyFrames(<<"get">>) /\ conn' = BodyWrote
            ELSE UNCHANGED <<up, conn>>
       /\ CASE InnerHandshake(read) /\ ~Verified(host_peer) -> Ends("error")
            [] Enough(read) \/ Len(read) >= ResponseMax      -> Ends("done")
            [] OTHER                                         -> pc' = "body" /\ UNCHANGED end
  /\ buffer' = <<>>
  /\ UNCHANGED <<config, sock, closed, window, server, response_pending, host, peers, upgraded,
                 result>>

\* The plain probe asks for a status line and no more.
Good == answer # "bad" /\ IF Https THEN Enough(response) ELSE Len(response) >= Status

\* The result of probe_config() or probe_https_target(); the second host of
\* the YouTube probe is asked when the first has answered.
Verdict ==
  /\ pc = "ended" /\ result = "none"
  /\ IF Good /\ host = "page"
       THEN /\ host' = "media" /\ pc' = "context"
            /\ sock' = <<>> /\ closed' = "open" /\ conn' = NewConn /\ up' = <<>>
            /\ window' = Window
            /\ addons' \in 0..1 /\ sent' = 0 /\ controls' = 0 /\ framing' = "first"
            /\ response_pending' = TRUE /\ buffer' = <<>> /\ end' = "no"
            /\ upgraded' = FALSE /\ response' = <<>>
            /\ answer' \in Answers /\ host_peer' \in Peers
            /\ UNCHANGED <<config, use_reality, peer, result>>
       ELSE /\ result' = (IF Good THEN "ok" ELSE "failed")
            /\ UNCHANGED <<upstream, server, reader, host, peers, upgraded, response>>

Probing ==
  \/ CreateTlsContext \/ ConnectWithTimeout \/ TlsHandshake \/ VerifyPeer
  \/ Upgrade \/ SwitchProtocols \/ SendRequest \/ Deliver \/ Verdict
  \/ (Reads(Length) \/ Close) /\ UNCHANGED probe

\* The server answers an upgrade, well or not, with or without frames behind
\* it, and then the request.
ServerAnswers ==
  \/ /\ pc = "switch" /\ ~upgraded /\ closed = "open"
     /\ \E ok \in BOOLEAN : Arrives(<<[k |-> "http", ok |-> ok]>>, config.tls)
     /\ upgraded' = TRUE
     /\ UNCHANGED <<config, closed, conn, up, window, server>>
  \/ /\ pc = "switch" /\ ~upgraded /\ closed = "open"
     /\ closed' \in {"clean", "reset"}
     /\ UNCHANGED <<config, sock, conn, up, window, server, upgraded>>
  \/ /\ pc = "request" /\ ServerCloses /\ UNCHANGED upgraded
  \/ /\ Reading \/ pc = "deliver"
     /\ ServerNext
     /\ UNCHANGED upgraded

ServerSide == ServerAnswers /\ UNCHANGED <<reader, host, peers, response, result>>

-----------------------------------------------------------------------------
(* Properties.                                                             *)

\* Over TLS the VLESS request, which holds the UUID, goes to nobody but the
\* server of the configuration (open_upstream), and an HTTPS request to
\* nobody but its host.
RequestToVerified ==
  LET said == {up[i].layer : i \in 1..Len(up)}
      data == UNION {{up[i].data[j] : j \in 1..Len(up[i].data)} : i \in 1..Len(up)}
  IN  /\ config.tls /\ "request" \in said => peer = "server"
      /\ Https /\ "get" \in data => host_peer = "server"

\* A probe that reports success has had the answer of the host it asks for,
\* and of the right host: for YouTube that of both, the second with body.
ProbeOkIsReal ==
  result = "ok" /\ host # "none" =>
    /\ DataSent >= Status
    /\ \/ host = "204" /\ answer # "bad"
       \/ host = "media" /\ answer = "good" /\ host_peer = "server"

\* A tunnel that was opened and brings a good answer passes the probe,
\* through every transport, framing and cut into records: it takes a bad
\* answer, a wrong peer, or an end or reset before the answer to fail it.  (A
\* GOAWAY counts as the end of the tunnel, see grpc_next_data_frame.)
ProbeFailsForCause ==
  result = "failed" /\ end # "no" =>
    \/ answer # "good"
    \/ Https /\ host_peer # "server"
    \/ DataSent < (IF Https THEN HeaderEnd ELSE Status)
    \/ closed = "reset" \/ framing = "leaving"
=============================================================================
