---------------------------- MODULE VlessServer ----------------------------
(***************************************************************************)
(* The other end of the tunnel: a VLESS server that follows the protocol,  *)
(* as far as n300vless.c relies on it.  It sends a response, then data,    *)
(* framed for the transport, and closes.  What it writes reaches the       *)
(* engine in TLS records it fills as it likes: several frames in one, a    *)
(* frame with or without what follows it.                                  *)
(***************************************************************************)
EXTENDS Upstream

CONSTANTS
  DataMax,      \* bound: units of data the server sends
  ControlMax,   \* bound: pings, settings, empty frames, session tickets
  SendMax,      \* bound: payload tokens the server writes at once
  FlightMax     \* bound: records in the engine's socket

ASSUME ServerAssumption == {DataMax, ControlMax, SendMax, FlightMax} \subseteq Nat

VARIABLES
  addons,     \* length of the response's addons
  sent,       \* payload tokens sent
  controls,   \* control frames sent
  framing     \* Vision: "first", "framed", then "end" or "direct"; gRPC: "first",
              \* "leaving" after GOAWAY

server == <<addons, sent, controls, framing>>

Response == <<[k |-> "resp", n |-> addons]>> \o [i \in 1..addons |-> [k |-> "addon"]]
Data     == [i \in 1..DataMax |-> [k |-> "data", v |-> i]]
Payload  == Response \o Data

ServerInit ==
  /\ addons \in 0..1
  /\ sent = 0 /\ controls = 0
  /\ framing = "first"

\* Payload tokens of the data part among the first n.
DataSent == IF sent > Len(Response) THEN sent - Len(Response) ELSE 0

-----------------------------------------------------------------------------
\* A write of tokens, below TLS when direct: a new record, or, if there is
\* room, the end of one that is still on its way.
Arrives(tokens, tls) ==
  \/ /\ Len(sock) < FlightMax
     /\ sock' = Append(sock, [tls |-> tls, tokens |-> tokens])
  \/ /\ sock # <<>> /\ tokens # <<>>
     /\ LET last == sock[Len(sock)] IN
          /\ last.tls = tls /\ last.tokens # <<>>
          /\ Len(last.tokens) + Len(tokens) <= BufferSize
          /\ sock' = [sock EXCEPT ![Len(sock)].tokens = @ \o tokens]

ArriveApart(first, second) ==
  /\ sock = <<>>
  /\ sock' = sock \o <<[tls |-> TRUE, tokens |-> first], [tls |-> TRUE, tokens |-> second]>>

Fits(tokens) == Len(tokens) \in 1..BufferSize

H2(type, n, last) == [k |-> "h2", type |-> type, n |-> n, last |-> last]

\* A gRPC message, in one DATA frame or in two.
MessageWrites(tokens, last) ==
  LET msg == <<[k |-> "msg", n |-> Len(tokens)]>> \o tokens IN
    {<<H2("data", Len(msg), last)>> \o msg} \cup
    {<<H2("data", cut, FALSE)>> \o Prefix(msg, cut)
       \o <<H2("data", Len(msg) - cut, last)>> \o Drop(msg, cut) : cut \in 1..Len(tokens)}

SendPlain(tokens) ==
  /\ ~config.vision \/ sent < Len(Response) \/ framing \in {"end", "direct"}
  /\ Fits(tokens)
  /\ Arrives(tokens, config.tls /\ framing # "direct")
  /\ UNCHANGED <<framing, window>>

SendVision(tokens) ==
  /\ sent >= Len(Response) /\ framing \in {"first", "framed"}
  /\ \E command \in Commands, padding \in 0..1 :
       LET frame == <<[k |-> "vis", uuid |-> framing = "first", command |-> command,
                       content |-> Len(tokens), padding |-> padding]>> \o tokens
           pads  == [i \in 1..padding |-> [k |-> "pad"]]
       IN  /\ Fits(frame \o pads)
           /\ Arrives(frame \o pads, TRUE) \/ (pads # <<>> /\ ArriveApart(frame, pads))
           /\ framing' = IF command = "continue" THEN "framed" ELSE command
  /\ UNCHANGED window

SendMessage(tokens, last) ==
  /\ tokens # <<>>
  /\ window >= Len(tokens) + 1
  /\ \E bytes \in MessageWrites(tokens, last) : Fits(bytes) /\ Arrives(bytes, TRUE)
  /\ window' = window - Len(tokens) - 1
  /\ UNCHANGED framing

SendWebSocket(tokens) ==
  LET frame == <<[k |-> "ws", op |-> "data", n |-> Len(tokens)]>> \o tokens IN
    /\ tokens # <<>>
    /\ Fits(frame)
    /\ Arrives(frame, config.tls)
    /\ UNCHANGED <<framing, window>>

\* The next n payload tokens, in one frame of the transport.  Only a Vision
\* frame may be empty; the response is sent outside of Vision frames.
ServerSends ==
  /\ closed = "open"
  /\ \E n \in 0..Least(SendMax, Len(Payload) - sent) :
       LET tokens == SubSeq(Payload, sent + 1, sent + n) IN
         /\ \/ config.transport = "tcp" /\ SendPlain(tokens)
            \/ config.vision /\ SendVision(tokens)
            \/ config.transport = "grpc" /\ SendMessage(tokens, FALSE)
            \/ config.transport = "ws" /\ SendWebSocket(tokens)
         /\ config.vision /\ sent < Len(Response) => sent + n <= Len(Response)
         /\ sent' = sent + n
         /\ controls' = controls + (IF n = 0 THEN 1 ELSE 0) /\ controls' <= ControlMax
  /\ UNCHANGED <<config, closed, conn, up, addons>>

ServerControls ==
  /\ closed = "open" /\ controls < ControlMax
  /\ \/ config.tls /\ framing # "direct" /\ Arrives(<<>>, TRUE)
     \/ /\ config.transport = "ws"
        /\ \E op \in {"ping", "data"} : Arrives(<<[k |-> "ws", op |-> op, n |-> 0]>>, config.tls)
     \/ /\ config.transport = "grpc"
        /\ \E type \in {"settings", "ping", "data"} : Arrives(<<H2(type, 0, FALSE)>>, TRUE)
  /\ controls' = controls + 1
  /\ UNCHANGED <<config, closed, conn, up, window, addons, sent, framing>>

\* GOAWAY: no new streams; the tunnel's own goes on.
ServerLeaves ==
  /\ closed = "open" /\ config.transport = "grpc" /\ framing # "leaving"
  /\ Arrives(<<H2("goaway", 0, FALSE)>>, TRUE)
  /\ framing' = "leaving"
  /\ UNCHANGED <<config, closed, conn, up, window, addons, sent, controls>>

\* The end of a stream: close_notify or FIN, with the transport's own
\* goodbye before it or not; or a reset, which may overtake a record.
ServerCloses ==
  /\ closed = "open"
  /\ \/ /\ closed' = "clean"
        /\ UNCHANGED <<sock, window, framing, sent>>
     \/ /\ closed' = "reset"
        /\ sock' \in {sock, Prefix(sock, Len(sock) - 1)}
        /\ UNCHANGED <<window, framing, sent>>
     \/ /\ config.transport = "ws"
        /\ Arrives(<<[k |-> "ws", op |-> "close", n |-> 0]>>, config.tls)
        /\ closed' = "clean"
        /\ UNCHANGED <<window, framing, sent>>
     \/ /\ config.transport = "grpc"
        /\ \/ /\ Arrives(<<H2("data", 0, TRUE)>>, TRUE)
              /\ UNCHANGED <<window, framing, sent>>
           \/ /\ sent < Len(Payload)
              /\ SendMessage(<<Payload[sent + 1]>>, TRUE)
              /\ sent' = sent + 1
        /\ closed' = "clean"
  /\ UNCHANGED <<config, conn, up, addons, controls>>

ServerNext == ServerSends \/ ServerControls \/ ServerLeaves \/ ServerCloses
=============================================================================
