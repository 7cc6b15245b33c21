------------------------------ MODULE Upstream ------------------------------
(***************************************************************************)
(* struct upstream of n300vless.c: the engine's connection to a VLESS      *)
(* server, and the read and write functions layered over it.  From the     *)
(* bottom up: the socket; TLS records; WebSocket frames, or HTTP/2 frames  *)
(* that carry gRPC messages; on top the VLESS response and body.           *)
(*                                                                         *)
(* A wire is a sequence of tokens.  A token is what one read_exact() of a  *)
(* header takes, or a unit of payload:                                     *)
(*   ws    a WebSocket frame header: opcode, payload length                *)
(*   h2    an HTTP/2 frame header: type, length, END_STREAM                *)
(*   msg   a gRPC envelope with the protobuf head: length of the data      *)
(*   vis   a Vision frame header: command, content and padding lengths     *)
(*   resp  the two bytes of a VLESS response: length of the addons         *)
(*   addon, pad, data                                                      *)
(***************************************************************************)
EXTENDS Naturals, Sequences

CONSTANTS
  Transports,   \* of {"tcp", "ws", "grpc"}
  BufferSize,   \* IO_BUFFER_SIZE, also the plaintext limit of a TLS record
  ChunkSize,    \* VISION_FRAME_SIZE - VISION_FRAME_OVERHEAD
  MessageMax,   \* GRPC_MESSAGE_CAPACITY
  Window        \* flow-control window an HTTP/2 client starts with

ASSUME TransportsAssumption == Transports \subseteq {"tcp", "ws", "grpc"}
ASSUME SizesAssumption ==
  /\ BufferSize \in Nat \ {0} /\ ChunkSize \in Nat \ {0} /\ MessageMax \in Nat \ {0}
  /\ Window \in Nat

\* What load_config() accepts.  REALITY is TLS to everything modelled here.
Configs ==
  {c \in [transport : Transports, tls : BOOLEAN, vision : BOOLEAN] :
     /\ c.vision => c.transport = "tcp" /\ c.tls
     /\ c.transport = "grpc" => c.tls}

VARIABLES
  config,
  sock,     \* arrived at connection->fd, in units: one TLS record, or bytes below TLS
  closed,   \* how the server ended its side: "open", "clean", "reset"
  conn,     \* struct upstream
  up,       \* what the engine has written, in order
  window    \* DATA the server may still send

Least(a, b) == IF a <= b THEN a ELSE b
Prefix(s, n) == SubSeq(s, 1, n)
Drop(s, n)  == SubSeq(s, n + 1, Len(s))

Commands == {"continue", "end", "direct"}

\* open_upstream(): memset(connection, 0), whatever follows.
NewConn ==
  [ssl_pending |-> <<>>,
   ws_remaining |-> 0,
   grpc_data_remaining |-> 0, grpc_data_end_stream |-> FALSE, grpc_eof |-> FALSE,
   grpc_message |-> <<>>, loading |-> <<>>, wanted |-> 0,
   vision_write_started |-> FALSE, vision_write_finished |-> FALSE,
   vision_write_direct |-> FALSE, vision_write_peer_command |-> "continue",
   vision_read_started |-> FALSE, vision_read_have_frame |-> FALSE,
   vision_read_finished |-> FALSE, vision_read_direct |-> FALSE,
   vision_read_command |-> "continue", vision_read_content |-> 0, vision_read_padding |-> 0]

-----------------------------------------------------------------------------
(* upstream_raw_read().  SSL_read() hands out the rest of a record before  *)
(* it takes the next one from the socket.                                  *)

Arrived == IF sock = <<>> THEN <<>> ELSE Head(sock).tokens

Raw ==
  CASE ~config.tls                         -> Arrived
    [] config.tls /\ conn.ssl_pending # <<>> -> conn.ssl_pending
    [] OTHER -> IF sock # <<>> /\ Head(sock).tls THEN Arrived ELSE <<>>

\* The socket after n tokens of its first unit were received.
Received(n) ==
  IF n = Len(Arrived) THEN Tail(sock)
  ELSE <<[Head(sock) EXCEPT !.tokens = Drop(@, n)]>> \o Tail(sock)

\* connection and socket after a raw read of n > 0 tokens.
RawTook(n)     == IF config.tls THEN [conn EXCEPT !.ssl_pending = Drop(Raw, n)] ELSE conn
RawTookSock(n) ==
  CASE ~config.tls                         -> Received(n)
    [] config.tls /\ conn.ssl_pending # <<>> -> sock
    [] OTHER                               -> Tail(sock)

\* SSL_read() passes over a record without application data (a session
\* ticket) and goes on reading.
SkipRecord ==
  /\ config.tls /\ conn.ssl_pending = <<>>
  /\ sock # <<>> /\ Head(sock) = [tls |-> TRUE, tokens |-> <<>>]
  /\ sock' = Tail(sock)
  /\ UNCHANGED <<config, closed, conn, up, window>>

RawEof    == Raw = <<>> /\ sock = <<>> /\ closed = "clean"
RawBroken == \/ Raw = <<>> /\ sock = <<>> /\ closed = "reset"
             \/ config.tls /\ Raw = <<>> /\ sock # <<>> /\ ~Head(sock).tls

\* recv() gives up after SO_RCVTIMEO.  Over TLS the timeout is
\* SSL_ERROR_WANT_READ, upon which upstream_raw_read() reads again.
RawTimeout_Never == FALSE                          \* a mutant

RawTimeout == ~config.tls /\ sock = <<>> /\ closed = "open"

-----------------------------------------------------------------------------
(* upstream_stream_read(): raw, or the payload of WebSocket data frames.   *)

Stream ==
  IF config.transport = "ws" THEN Prefix(Raw, Least(conn.ws_remaining, Len(Raw))) ELSE Raw

Took(n) ==
  IF config.transport = "ws" THEN [RawTook(n) EXCEPT !.ws_remaining = @ - n] ELSE RawTook(n)

Pong == [layer |-> "control", command |-> "none", data |-> <<>>]

\* websocket_begin_data_frame(): a ping is answered, an empty frame passed over.
BeginDataFrame ==
  /\ config.transport = "ws" /\ conn.ws_remaining = 0 /\ Raw # <<>>
  /\ LET h == Head(Raw) IN
       /\ h.k = "ws" /\ h.op \in {"data", "ping"}
       /\ conn' = [RawTook(1) EXCEPT !.ws_remaining = IF h.op = "data" THEN h.n ELSE 0]
       /\ up' = IF h.op = "ping" THEN Append(up, Pong) ELSE up
  /\ sock' = RawTookSock(1)
  /\ UNCHANGED <<config, closed, window>>

\* A close frame: the read returns 0.
CloseFrame ==
  /\ config.transport = "ws" /\ conn.ws_remaining = 0 /\ Raw # <<>>
  /\ Head(Raw).k = "ws" /\ Head(Raw).op = "close"

-----------------------------------------------------------------------------
(* grpc_body_read(): while no message is in memory, load one.              *)

Loading == config.transport = "grpc" /\ conn.grpc_message = <<>>

NextDataFrame_EndFirst ==                          \* a mutant
  /\ Loading /\ conn.grpc_data_remaining = 0 /\ ~conn.grpc_eof /\ Raw # <<>>
  /\ LET h == Head(Raw) IN
       /\ h.k = "h2"
       /\ \/ /\ h.type = "data"
             /\ conn' = [RawTook(1) EXCEPT !.grpc_data_remaining = IF h.last THEN 0 ELSE h.n,
                                           !.grpc_eof = h.last]
             /\ UNCHANGED up
          \/ /\ h.type \in {"settings", "ping"}
             /\ conn' = RawTook(1)
             /\ up' = Append(up, Pong)
  /\ sock' = RawTookSock(1)
  /\ UNCHANGED <<config, closed, window>>

\* grpc_next_data_frame()
NextDataFrame ==
  /\ Loading /\ conn.grpc_data_remaining = 0 /\ ~conn.grpc_eof /\ Raw # <<>>
  /\ LET h == Head(Raw) IN
       /\ h.k = "h2"
       /\ \/ /\ h.type = "data"
             /\ conn' = [RawTook(1) EXCEPT !.grpc_data_remaining = h.n,
                                           !.grpc_data_end_stream = h.last,
                                           !.grpc_eof = h.n = 0 /\ h.last]
             /\ UNCHANGED up
          \/ /\ h.type \in {"settings", "ping"}
             /\ conn' = RawTook(1)
             /\ up' = Append(up, Pong)
          \/ /\ h.type = "goaway"
             /\ conn' = [RawTook(1) EXCEPT !.grpc_eof = TRUE]
             /\ UNCHANGED up
  /\ sock' = RawTookSock(1)
  /\ UNCHANGED <<config, closed, window>>

\* The connection after grpc_data_read() of n tokens; the same n are
\* returned to the server in two WINDOW_UPDATE frames.
DataTook(n) ==
  LET left == conn.grpc_data_remaining - n IN
    [RawTook(n) EXCEPT !.grpc_data_remaining = left,
                       !.grpc_eof = @ \/ (left = 0 /\ conn.grpc_data_end_stream)]

Credit_NotAtEnd(n) ==                              \* a mutant
  IF n = conn.grpc_data_remaining THEN window ELSE window + n

Credit(n) == window + n

\* grpc_load_message(): the envelope, then the message.
LoadEnvelope ==
  /\ Loading /\ conn.grpc_data_remaining > 0 /\ conn.wanted = 0 /\ Raw # <<>>
  /\ Head(Raw).k = "msg" /\ Head(Raw).n \in 1..MessageMax
  /\ conn' = [DataTook(1) EXCEPT !.wanted = Head(Raw).n]
  /\ sock' = RawTookSock(1)
  /\ window' = Credit(1)
  /\ UNCHANGED <<config, closed, up>>

LoadMessage ==
  /\ Loading /\ conn.grpc_data_remaining > 0 /\ conn.wanted > 0 /\ Raw # <<>>
  /\ LET n    == Least(conn.wanted, Least(conn.grpc_data_remaining, Len(Raw)))
         read == conn.loading \o Prefix(Raw, n)
         done == n = conn.wanted
     IN  /\ conn' = [DataTook(n) EXCEPT !.wanted = @ - n,
                                        !.loading = IF done THEN <<>> ELSE read,
                                        !.grpc_message = IF done THEN read ELSE <<>>]
         /\ sock' = RawTookSock(n)
         /\ window' = Credit(n)
  /\ UNCHANGED <<config, closed, up>>

\* Nothing more will come: a message cut short counts as the end too.
GrpcEnd == Loading /\ conn.grpc_data_remaining = 0 /\ conn.grpc_eof

-----------------------------------------------------------------------------
(* vless_transport_read() of n tokens.                                     *)

Transport == IF config.transport = "grpc" THEN conn.grpc_message ELSE Stream

TransportRead(n) ==
  /\ IF config.transport = "grpc"
       THEN /\ conn' = [conn EXCEPT !.grpc_message = Drop(@, n)]
            /\ UNCHANGED sock
       ELSE /\ conn' = Took(n)
            /\ sock' = RawTookSock(n)
  /\ UNCHANGED <<config, closed, up, window>>

-----------------------------------------------------------------------------
(* vision_body_write() of a nonempty buffer: frames until one carries a    *)
(* command that ends framing, and then bare bytes, below TLS if it was     *)
(* "direct".  Without Vision, the transport's own frame.                   *)

Bare(data) ==
  [layer   |-> IF conn.vision_write_direct THEN "direct" ELSE "stream",
   command |-> "none",
   data    |-> data]

Chunks_CommandFirst(data) ==                       \* a mutant
  LET last == (Len(data) + ChunkSize - 1) \div ChunkSize IN
    [i \in 1..last |->
       [layer   |-> "stream",
        command |-> IF i = 1 THEN conn.vision_write_peer_command ELSE "continue",
        data    |-> SubSeq(data, (i - 1) * ChunkSize + 1, Least(i * ChunkSize, Len(data)))]]

Chunks(data) ==
  LET last == (Len(data) + ChunkSize - 1) \div ChunkSize IN
    [i \in 1..last |->
       [layer   |-> "stream",
        command |-> IF i = last THEN conn.vision_write_peer_command ELSE "continue",
        data    |-> SubSeq(data, (i - 1) * ChunkSize + 1, Least(i * ChunkSize, Len(data)))]]

Framing == config.vision /\ ~conn.vision_write_finished

BodyFrames(data) == IF Framing THEN Chunks(data) ELSE <<Bare(data)>>

BodyWrote_EndIsDirect ==                           \* a mutant
  IF Framing
    THEN [conn EXCEPT !.vision_write_started  = TRUE,
                      !.vision_write_finished = conn.vision_write_peer_command # "continue",
                      !.vision_write_direct   = conn.vision_write_peer_command # "continue"]
    ELSE conn

BodyWrote ==
  IF Framing
    THEN [conn EXCEPT !.vision_write_started  = TRUE,
                      !.vision_write_finished = conn.vision_write_peer_command # "continue",
                      !.vision_write_direct   = conn.vision_write_peer_command = "direct"]
    ELSE conn

\* vision_initial_write(): the VLESS request and the first frame together;
\* what does not fit the frame follows as body.
InitialFrames(data) ==
  LET first == IF config.vision THEN Least(Len(data), ChunkSize) ELSE Len(data)
      rest  == Drop(data, first)
  IN  <<[layer   |-> "request",
         command |-> IF config.vision THEN "continue" ELSE "none",
         data    |-> Prefix(data, first)]>>
      \o (IF rest = <<>> THEN <<>> ELSE Chunks(rest))

InitialWrote == [conn EXCEPT !.vision_write_started = config.vision]
=============================================================================
