---------------------------- MODULE ReaderProofs ----------------------------
(***************************************************************************)
(* Proofs about the engine's reading of a VLESS server (Reader) and the    *)
(* server's writing (VlessServer), for the relay and the probes alike.     *)
(*                                                                         *)
(* The types of this module depend on `framing', which is what the server  *)
(* has said so far: on its way are only tokens the server may have sent,   *)
(* and the connection has only the flags that they can have set.           *)
(*                                                                         *)
(* A stream is read from place to place (Points): Leads says that a run    *)
(* of tokens leads from one to another, Reaches that all that is under     *)
(* way does, Ahead that it leads to where the server is.  Whoever calls    *)
(* the reader is at a place (PlaceInv): the server's writes lengthen what  *)
(* is under way (ServerPlace), each read takes its beginning (ReadsPlace), *)
(* and a read that fails or returns 0 has left nothing behind (StopIsEnd). *)
(***************************************************************************)
EXTENDS Reader, SequenceTheorems, TLAPS

Framings == {"first", "framed", "end", "direct", "leaving"}

\* The commands of the Vision frames that a server with framing f has sent.
Said(f) == {"continue"} \cup ({f} \cap {"end", "direct"})

\* GOAWAY only from a server that is leaving.
H2Types(f) == {"data", "settings", "ping"} \cup (IF f = "leaving" THEN {"goaway"} ELSE {})

Tokens(f) ==
  [k : {"ws"}, op : {"data", "ping", "close"}, n : Int]
  \cup [k : {"h2"}, type : H2Types(f), n : Int, last : BOOLEAN]
  \cup [k : {"msg"}, n : Int]
  \cup [k : {"vis"}, uuid : BOOLEAN, command : Said(f), content : Int, padding : Int]
  \cup [k : {"resp"}, n : Int]
  \cup [k : {"data"}, v : Int]
  \cup [k : {"http"}, ok : BOOLEAN]
  \cup [k : {"addon", "pad"}]

\* What a read may return: recv() under TLS may see a record of it.
Bytes(f) == Tokens(f) \cup [k : {"ciphertext"}]

Records(f) == [tls : BOOLEAN, tokens : Seq(Tokens(f))]

Conns(f) ==
  [ssl_pending : Seq(Tokens(f)),
   ws_remaining : Int,
   grpc_data_remaining : Int, grpc_data_end_stream : BOOLEAN, grpc_eof : BOOLEAN,
   grpc_message : Seq(Tokens(f)), loading : Seq(Tokens(f)), wanted : Int,
   vision_write_started : BOOLEAN,
   vision_write_finished : IF f \in {"end", "direct"} THEN BOOLEAN ELSE {FALSE},
   vision_write_direct : IF f = "direct" THEN BOOLEAN ELSE {FALSE},
   vision_write_peer_command : Said(f),
   vision_read_started : BOOLEAN, vision_read_have_frame : BOOLEAN,
   vision_read_finished : BOOLEAN,
   vision_read_direct : IF f = "direct" THEN BOOLEAN ELSE {FALSE},
   vision_read_command : Said(f), vision_read_content : Int, vision_read_padding : Int]

TunnelInv ==
  /\ config \in Configs
  /\ framing \in Framings
  /\ framing \in {"framed", "end", "direct"} => config.vision
  /\ framing = "leaving" => ~config.vision
  /\ sock \in Seq(Records(framing))
  /\ conn \in Conns(framing)
  /\ buffer \in Seq(Bytes(framing))
  /\ addons \in Nat /\ sent \in Nat

-----------------------------------------------------------------------------
(* Sequences.                                                              *)

\* A sequence over a set is one over any larger set.
LEMMA SeqMono ==
  ASSUME NEW S, NEW T, S \subseteq T, NEW s \in Seq(S)
  PROVE  s \in Seq(T)
OBVIOUS

\* What is left of a sequence after n of it.
LEMMA DropType ==
  ASSUME NEW S, NEW s \in Seq(S), NEW n \in Nat
  PROVE  Drop(s, n) \in Seq(S)
<1>1. \A i \in (n + 1)..Len(s) : s[i] \in S
  <2> TAKE i \in (n + 1)..Len(s)
  <2>1. i \in 1..Len(s) OBVIOUS
  <2> QED BY <2>1, LenProperties
<1>2. n + 1 \in Int /\ Len(s) \in Int BY LenProperties
<1> QED BY <1>1, <1>2, SubSeqProperties DEF Drop

\* The first n of a sequence.
LEMMA PrefixType ==
  ASSUME NEW S, NEW s \in Seq(S), NEW n \in Int, n <= Len(s)
  PROVE  /\ Prefix(s, n) \in Seq(S)
         /\ Len(Prefix(s, n)) = IF n >= 1 THEN n ELSE 0
<1>1. \A i \in 1..n : s[i] \in S
  <2> TAKE i \in 1..n
  <2>1. i \in 1..Len(s) BY LenProperties
  <2> QED BY <2>1, LenProperties
<1>2. 1 \in Int /\ n \in Int OBVIOUS
<1>3. SubSeq(s, 1, n) \in Seq(S) /\ Len(SubSeq(s, 1, n)) = IF 1 <= n THEN n - 1 + 1 ELSE 0
  BY <1>1, <1>2, SubSeqProperties
<1> QED BY <1>3 DEF Prefix

\* Two sequences in one.
LEMMA ConcatType ==
  ASSUME NEW S, NEW s \in Seq(S), NEW t \in Seq(S)
  PROVE  s \o t \in Seq(S)
BY ConcatProperties

-----------------------------------------------------------------------------
(* What the server says next leaves what it has said before.               *)

\* Types of what was sent before the server's next frame are types after it.
LEMMA Widen ==
  ASSUME NEW f \in Framings, NEW g \in Framings,
         f = g \/ f \in {"first", "framed"}
  PROVE  /\ Tokens(f) \subseteq Tokens(g)
         /\ \A s \in Seq(Tokens(f)) : s \in Seq(Tokens(g))
         /\ \A s \in Seq(Bytes(f)) : s \in Seq(Bytes(g))
         /\ \A s \in Seq(Records(f)) : s \in Seq(Records(g))
         /\ \A c \in Conns(f) : c \in Conns(g)
<1>1. Said(f) \subseteq Said(g) BY DEF Said, Framings
<1>2. Tokens(f) \subseteq Tokens(g) BY <1>1 DEF Tokens, H2Types
<1>3. \A s \in Seq(Tokens(f)) : s \in Seq(Tokens(g)) BY <1>2, SeqMono
<1>4. Records(f) \subseteq Records(g) BY <1>3 DEF Records
<1>5. \A s \in Seq(Records(f)) : s \in Seq(Records(g)) BY <1>4, SeqMono
<1>6. \A c \in Conns(f) : c \in Conns(g)
  BY <1>1, <1>3 DEF Conns, Framings
<1>7. Bytes(f) \subseteq Bytes(g) BY <1>2 DEF Bytes
<1>8. \A s \in Seq(Bytes(f)) : s \in Seq(Bytes(g)) BY <1>7, SeqMono
<1> QED BY <1>2, <1>3, <1>5, <1>6, <1>8

-----------------------------------------------------------------------------
(* The layers of a read.                                                   *)

\* What the header of each layer holds.
LEMMA TokenKinds ==
  ASSUME NEW f, NEW t \in Tokens(f)
  PROVE  /\ t.k \in {"ws", "h2", "msg", "resp"} => t.n \in Int
         /\ t.k = "h2" => t.last \in BOOLEAN /\ (t.type = "goaway" => f = "leaving")
         /\ t.k = "vis" => t.command \in Said(f) /\ t.content \in Int /\ t.padding \in Int
BY DEF Tokens, H2Types

\* What the layers could hand out now is of tokens, and comes from the socket.
LEMMA LayersType ==
  ASSUME TunnelInv
  PROVE  /\ Arrived \in Seq(Tokens(framing))
         /\ Raw \in Seq(Tokens(framing))
         /\ Raw # <<>> => conn.ssl_pending # <<>> \/ sock # <<>>
         /\ Raw # <<>> /\ ~config.tls => sock # <<>>
         /\ Stream \in Seq(Tokens(framing))
         /\ Transport \in Seq(Tokens(framing))
         /\ Stream # <<>> => Raw # <<>>
<1>1. Arrived \in Seq(Tokens(framing)) /\ (Arrived # <<>> => sock # <<>>)
  <2>1. CASE sock = <<>> BY <2>1 DEF Arrived
  <2>2. CASE sock # <<>>
    <3>1. Head(sock) \in Records(framing) BY <2>2, HeadTailProperties DEF TunnelInv
    <3> QED BY <2>2, <3>1 DEF Arrived, Records
  <2> QED BY <2>1, <2>2
<1>2. conn.ssl_pending \in Seq(Tokens(framing)) /\ conn.ws_remaining \in Int
      /\ conn.grpc_message \in Seq(Tokens(framing)) /\ config.tls \in BOOLEAN
  BY DEF TunnelInv, Conns, Configs
<1>3. /\ Raw \in Seq(Tokens(framing))
      /\ Raw # <<>> => conn.ssl_pending # <<>> \/ sock # <<>>
      /\ Raw # <<>> /\ ~config.tls => sock # <<>>
  <2>1. CASE ~config.tls BY <1>1, <2>1 DEF Raw
  <2>2. CASE config.tls /\ conn.ssl_pending # <<>> BY <1>2, <2>2 DEF Raw
  <2>3. CASE config.tls /\ conn.ssl_pending = <<>> BY <1>1, <1>2, <2>3 DEF Raw
  <2> QED BY <1>2, <2>1, <2>2, <2>3
<1>4. Len(Raw) \in Nat BY <1>3, LenProperties
<1>5. Stream \in Seq(Tokens(framing)) /\ (Stream # <<>> => Raw # <<>>)
  <2>1. CASE config.transport = "ws"
    <3> DEFINE n == Least(conn.ws_remaining, Len(Raw))
    <3>1. n \in Int /\ n <= Len(Raw) BY <1>2, <1>4 DEF Least
    <3>2. Stream = Prefix(Raw, n) BY <2>1 DEF Stream
    <3> HIDE DEF n
    <3>3. Stream \in Seq(Tokens(framing)) /\ Len(Stream) = IF n >= 1 THEN n ELSE 0
      BY <1>3, <3>1, <3>2, PrefixType
    <3>4. Raw = <<>> => Len(Stream) = 0 BY <3>1, <3>3
    <3> QED BY <3>3, <3>4
  <2>2. CASE config.transport # "ws" BY <1>3, <2>2 DEF Stream
  <2> QED BY <2>1, <2>2
<1>6. Transport \in Seq(Tokens(framing)) BY <1>2, <1>5 DEF Transport
<1> QED BY <1>1, <1>3, <1>5, <1>6

\* recv() leaves records.
LEMMA ReceivedType ==
  ASSUME TunnelInv, sock # <<>>, NEW n \in Nat
  PROVE  /\ Tail(sock) \in Seq(Records(framing))
         /\ Received(n) \in Seq(Records(framing))
<1>1. Tail(sock) \in Seq(Records(framing)) /\ Head(sock) \in Records(framing)
  BY HeadTailProperties DEF TunnelInv
<1>2. CASE n = Len(Arrived) BY <1>1, <1>2 DEF Received
<1>3. CASE n # Len(Arrived)
  <2> DEFINE first == [Head(sock) EXCEPT !.tokens = Drop(@, n)]
  <2>1. Head(sock).tokens \in Seq(Tokens(framing)) BY <1>1 DEF Records
  <2>2. Drop(Head(sock).tokens, n) \in Seq(Tokens(framing)) BY <2>1, DropType
  <2>3. first \in Records(framing) BY <1>1, <2>2 DEF Records
  <2>4. Received(n) = <<first>> \o Tail(sock) BY <1>3 DEF Received
  <2> HIDE DEF first
  <2>5. <<first>> \in Seq(Records(framing)) BY <2>3
  <2> QED BY <1>1, <2>4, <2>5, ConcatType
<1> QED BY <1>1, <1>2, <1>3

\* upstream_raw_read() keeps the types.
LEMMA RawTookType ==
  ASSUME TunnelInv, Raw # <<>>, NEW n \in Nat
  PROVE  /\ RawTook(n) \in Conns(framing)
         /\ RawTookSock(n) \in Seq(Records(framing))
<1>1. conn \in Conns(framing) /\ Raw \in Seq(Tokens(framing)) /\ config.tls \in BOOLEAN
  BY LayersType DEF TunnelInv, Configs
<1>2. RawTook(n) \in Conns(framing)
  <2>1. Drop(Raw, n) \in Seq(Tokens(framing)) BY <1>1, DropType
  <2>2. CASE config.tls BY <1>1, <2>1, <2>2 DEF RawTook, Conns
  <2>3. CASE ~config.tls BY <1>1, <2>3 DEF RawTook
  <2> QED BY <2>2, <2>3
<1>3. sock # <<>> => /\ Tail(sock) \in Seq(Records(framing))
                     /\ Received(n) \in Seq(Records(framing))
  BY ReceivedType
<1>5. RawTookSock(n) \in Seq(Records(framing))
  <2>1. CASE ~config.tls BY <1>3, <2>1, LayersType DEF RawTookSock
  <2>2. CASE config.tls /\ conn.ssl_pending # <<>>
    BY <2>2 DEF RawTookSock, TunnelInv
  <2>3. CASE config.tls /\ conn.ssl_pending = <<>>
    BY <1>3, <2>3, LayersType DEF RawTookSock
  <2> QED BY <1>1, <2>1, <2>2, <2>3
<1> QED BY <1>2, <1>5

\* upstream_stream_read() keeps the types.
LEMMA TookType ==
  ASSUME TunnelInv, Raw # <<>>, NEW n \in Nat
  PROVE  Took(n) \in Conns(framing)
<1>1. RawTook(n) \in Conns(framing) BY RawTookType
<1>2. CASE config.transport = "ws"
  <2> DEFINE c == RawTook(n)
  <2>1. c \in Conns(framing) BY <1>1
  <2>2. Took(n) = [c EXCEPT !.ws_remaining = c.ws_remaining - n] BY <1>2 DEF Took
  <2> HIDE DEF c
  <2>3. c.ws_remaining - n \in Int BY <2>1 DEF Conns
  <2> QED BY <2>1, <2>2, <2>3 DEF Conns
<1>3. CASE config.transport # "ws" BY <1>1, <1>3 DEF Took
<1> QED BY <1>2, <1>3

\* vless_transport_read() keeps the types.
LEMMA TransportReadType ==
  ASSUME TunnelInv, Transport # <<>>, NEW n \in Nat, TransportRead(n)
  PROVE  conn' \in Conns(framing) /\ sock' \in Seq(Records(framing))
<1>1. CASE config.transport = "grpc"
  <2>1. conn.grpc_message \in Seq(Tokens(framing)) BY DEF TunnelInv, Conns
  <2>2. Drop(conn.grpc_message, n) \in Seq(Tokens(framing)) BY <2>1, DropType
  <2>3. conn' = [conn EXCEPT !.grpc_message = Drop(conn.grpc_message, n)] /\ sock' = sock
    BY <1>1 DEF TransportRead
  <2>4. conn \in Conns(framing) /\ sock \in Seq(Records(framing)) BY DEF TunnelInv
  <2> QED BY <2>2, <2>3, <2>4 DEF Conns
<1>2. CASE config.transport # "grpc"
  <2>1. Raw # <<>> BY <1>2, LayersType DEF Transport
  <2> QED BY <1>2, <2>1, RawTookType, TookType DEF TransportRead
<1> QED BY <1>1, <1>2

\* grpc_data_read() keeps the types.
LEMMA DataTookType ==
  ASSUME TunnelInv, Raw # <<>>, NEW n \in Nat
  PROVE  DataTook(n) \in Conns(framing)
<1> DEFINE c == RawTook(n)
           left == conn.grpc_data_remaining - n
           ends == c.grpc_eof \/ (left = 0 /\ conn.grpc_data_end_stream)
<1>1. c \in Conns(framing) BY RawTookType
<1>2. left \in Int BY DEF TunnelInv, Conns
<1>3. DataTook(n) = [c EXCEPT !.grpc_data_remaining = left, !.grpc_eof = ends]
  BY DEF DataTook
<1>4. ends \in BOOLEAN BY <1>1 DEF Conns, TunnelInv
<1> HIDE DEF c, left, ends
<1> QED BY <1>1, <1>2, <1>3, <1>4 DEF Conns

-----------------------------------------------------------------------------
(* The steps of a read.                                                    *)

\* The types hold after a step if those of what it changed do.
LEMMA Kept ==
  ASSUME TunnelInv, config' = config, framing' = framing, addons' = addons, sent' = sent,
         conn' \in Conns(framing), sock' \in Seq(Records(framing)),
         buffer' = buffer \/ buffer' \in Seq(Tokens(framing)) \/ buffer' \in Seq(Bytes(framing))
  PROVE  TunnelInv'
<1>1. Tokens(framing) \subseteq Bytes(framing) BY DEF Bytes
<1>2. buffer' \in Seq(Tokens(framing)) => buffer' \in Seq(Bytes(framing)) BY <1>1, SeqMono
<1> QED BY <1>2 DEF TunnelInv

\* Below the payload: websocket_begin_data_frame(), grpc_load_message().
LEMMA BelowStep ==
  ASSUME TunnelInv, Below
  PROVE  TunnelInv'
<1>0. addons' = addons /\ sent' = sent /\ framing' = framing /\ buffer' = buffer
  BY DEF Below, server
<1>1. conn \in Conns(framing) /\ sock \in Seq(Records(framing)) BY DEF TunnelInv
<1> DEFINE h == Head(Raw)
<1>2. Raw # <<>> => /\ h \in Tokens(framing)
                    /\ RawTook(1) \in Conns(framing)
                    /\ RawTookSock(1) \in Seq(Records(framing))
                    /\ DataTook(1) \in Conns(framing)
  <2> SUFFICES ASSUME Raw # <<>>
               PROVE  /\ h \in Tokens(framing)
                      /\ RawTook(1) \in Conns(framing)
                      /\ RawTookSock(1) \in Seq(Records(framing))
                      /\ DataTook(1) \in Conns(framing)
    OBVIOUS
  <2>1. h \in Tokens(framing) BY LayersType, HeadTailProperties
  <2> QED BY <2>1, RawTookType, DataTookType
<1>3. CASE SkipRecord
  <2>1. sock # <<>> /\ sock' = Tail(sock) /\ conn' = conn /\ config' = config
    BY <1>3 DEF SkipRecord
  <2>2. sock' \in Seq(Records(framing)) BY <1>1, <2>1, HeadTailProperties
  <2> QED BY <1>0, <1>1, <2>1, <2>2, Kept
<1>4. CASE BeginDataFrame
  <2>1. /\ Raw # <<>> /\ h.k = "ws" /\ sock' = RawTookSock(1) /\ config' = config
        /\ conn' = [RawTook(1) EXCEPT !.ws_remaining = IF h.op = "data" THEN h.n ELSE 0]
    BY <1>4 DEF BeginDataFrame
  <2>2. (IF h.op = "data" THEN h.n ELSE 0) \in Int BY <1>2, <2>1, TokenKinds
  <2> DEFINE v == IF h.op = "data" THEN h.n ELSE 0
  <2>3. v \in Int /\ conn' = [RawTook(1) EXCEPT !.ws_remaining = v] BY <2>1, <2>2
  <2> HIDE DEF v
  <2>4. conn' \in Conns(framing) BY <1>2, <2>1, <2>3 DEF Conns
  <2> QED BY <1>0, <1>2, <2>1, <2>4, Kept
<1>5. CASE NextDataFrame
  <2>1. /\ Raw # <<>> /\ h.k = "h2" /\ sock' = RawTookSock(1) /\ config' = config
        /\ \/ conn' = [RawTook(1) EXCEPT !.grpc_data_remaining = h.n,
                                         !.grpc_data_end_stream = h.last,
                                         !.grpc_eof = h.n = 0 /\ h.last]
           \/ conn' = RawTook(1)
           \/ conn' = [RawTook(1) EXCEPT !.grpc_eof = TRUE]
    BY <1>5 DEF NextDataFrame
  <2>2. h.n \in Int /\ h.last \in BOOLEAN BY <1>2, <2>1, TokenKinds
  <2> HIDE DEF h
  <2>3. conn' \in Conns(framing)
    <3>1. (h.n = 0 /\ h.last) \in BOOLEAN BY <2>2
    <3> QED BY <1>2, <2>1, <2>2, <3>1 DEF Conns
  <2> QED BY <1>0, <1>2, <2>1, <2>3, Kept
<1>6. CASE LoadEnvelope
  <2>1. /\ Raw # <<>> /\ h.k = "msg" /\ sock' = RawTookSock(1) /\ config' = config
        /\ conn' = [DataTook(1) EXCEPT !.wanted = h.n]
    BY <1>6 DEF LoadEnvelope
  <2>2. h.n \in Int BY <1>2, <2>1, TokenKinds
  <2> HIDE DEF h
  <2>3. conn' \in Conns(framing) BY <1>2, <2>1, <2>2 DEF Conns
  <2> QED BY <1>0, <1>2, <2>1, <2>3, Kept
<1>7. CASE LoadMessage
  <2> DEFINE n    == Least(conn.wanted, Least(conn.grpc_data_remaining, Len(Raw)))
             read == conn.loading \o Prefix(Raw, n)
             done == n = conn.wanted
             c    == DataTook(n)
             tail == IF done THEN <<>> ELSE read
             msg  == IF done THEN read ELSE <<>>
  <2>1. /\ Raw # <<>> /\ sock' = RawTookSock(n) /\ config' = config
        /\ conn' = [c EXCEPT !.wanted = c.wanted - n, !.loading = tail, !.grpc_message = msg]
        /\ conn.wanted > 0 /\ conn.grpc_data_remaining > 0
    BY <1>7 DEF LoadMessage
  <2>2. Raw \in Seq(Tokens(framing)) /\ conn.loading \in Seq(Tokens(framing))
        /\ Len(Raw) \in Nat /\ conn.wanted \in Int /\ conn.grpc_data_remaining \in Int
    BY <1>1, LayersType, LenProperties DEF Conns
  <2>3. n \in Nat /\ n <= Len(Raw)
    BY <2>1, <2>2 DEF Least
  <2>4. c \in Conns(framing) /\ RawTookSock(n) \in Seq(Records(framing))
    BY <2>1, <2>3, DataTookType, RawTookType
  <2> HIDE DEF c, n
  <2>5. Prefix(Raw, n) \in Seq(Tokens(framing))
    <3>1. n \in Int BY <2>3
    <3> QED BY <2>2, <2>3, <3>1, PrefixType
  <2>6. read \in Seq(Tokens(framing)) BY <2>2, <2>5, ConcatType
  <2> HIDE DEF read
  <2>7. tail \in Seq(Tokens(framing)) /\ msg \in Seq(Tokens(framing)) BY <2>6
  <2> HIDE DEF tail, msg
  <2>8. c.wanted - n \in Int BY <2>3, <2>4 DEF Conns
  <2>9. conn' \in Conns(framing) BY <2>1, <2>4, <2>7, <2>8 DEF Conns
  <2> QED BY <1>0, <2>1, <2>4, <2>9, Kept
<1> QED BY <1>3, <1>4, <1>5, <1>6, <1>7 DEF Below

\* consume_vless_response()
LEMMA ConsumeStep ==
  ASSUME TunnelInv, ConsumeResponse \/ ConsumeAddons
  PROVE  TunnelInv'
<1>1. /\ Transport # <<>> /\ TransportRead(1) /\ config' = config
      /\ addons' = addons /\ sent' = sent /\ framing' = framing /\ buffer' = buffer
  BY DEF ConsumeResponse, ConsumeAddons, TransportRead, server
<1>2. conn' \in Conns(framing) /\ sock' \in Seq(Records(framing))
  BY <1>1, TransportReadType
<1> QED BY <1>1, <1>2, Kept

\* vision_body_read() without framing
LEMMA ReadBodyStep ==
  ASSUME TunnelInv, NEW length \in Nat, ReadBody(length)
  PROVE  TunnelInv'
<1> DEFINE n == Least(length, Len(Transport))
<1>1. /\ Transport # <<>> /\ TransportRead(n) /\ config' = config
      /\ buffer' = Prefix(Transport, n)
      /\ addons' = addons /\ sent' = sent /\ framing' = framing
  BY DEF ReadBody, TransportRead, server
<1>2. Transport \in Seq(Tokens(framing)) /\ Len(Transport) \in Nat BY LayersType, LenProperties
<1>3. n \in Nat /\ n \in Int /\ n <= Len(Transport) BY <1>2 DEF Least
<1> HIDE DEF n
<1>4. conn' \in Conns(framing) /\ sock' \in Seq(Records(framing))
  BY <1>1, <1>3, TransportReadType
<1>5. buffer' \in Seq(Tokens(framing)) BY <1>1, <1>2, <1>3, PrefixType
<1> QED BY <1>1, <1>4, <1>5, Kept

\* upstream_direct_read()
LEMMA ReadDirectStep ==
  ASSUME TunnelInv, NEW length \in Nat, ReadDirect(length)
  PROVE  TunnelInv'
<1> DEFINE n == Least(length, Len(Arrived))
<1>1. /\ sock # <<>> /\ sock' = Received(n) /\ config' = config /\ conn' = conn
      /\ buffer' \in {<<[k |-> "ciphertext"]>>, Prefix(Arrived, n)}
      /\ addons' = addons /\ sent' = sent /\ framing' = framing
  BY DEF ReadDirect, server
<1>2. Arrived \in Seq(Tokens(framing)) /\ Len(Arrived) \in Nat BY LayersType, LenProperties
<1>3. n \in Nat /\ n \in Int /\ n <= Len(Arrived) BY <1>2 DEF Least
<1> HIDE DEF n
<1>4. sock' \in Seq(Records(framing)) BY <1>1, <1>3, ReceivedType
<1>5. Prefix(Arrived, n) \in Seq(Tokens(framing)) BY <1>2, <1>3, PrefixType
<1>6. <<[k |-> "ciphertext"]>> \in Seq(Bytes(framing)) BY DEF Bytes
<1>7. conn' \in Conns(framing) BY <1>1 DEF TunnelInv
<1> QED BY <1>1, <1>4, <1>5, <1>6, <1>7, Kept

\* vision_read_frame_header()
LEMMA ReadHeaderStep ==
  ASSUME TunnelInv, ReadHeader
  PROVE  TunnelInv'
<1> DEFINE h == Head(Stream)
           c == Took(1)
<1>1. /\ Stream # <<>> /\ h.k = "vis" /\ sock' = RawTookSock(1) /\ config' = config
      /\ conn' = [c EXCEPT !.vision_read_started = TRUE,
                           !.vision_read_command = h.command,
                           !.vision_read_content = h.content,
                           !.vision_read_padding = h.padding,
                           !.vision_read_have_frame = TRUE]
      /\ addons' = addons /\ sent' = sent /\ framing' = framing /\ buffer' = buffer
  BY DEF ReadHeader, server
<1>2. Stream \in Seq(Tokens(framing)) /\ Raw # <<>> BY <1>1, LayersType
<1>3. h \in Tokens(framing) BY <1>1, <1>2, HeadTailProperties
<1>4. h.command \in Said(framing) /\ h.content \in Int /\ h.padding \in Int
  BY <1>1, <1>3, TokenKinds
<1>5. c \in Conns(framing) /\ sock' \in Seq(Records(framing))
  BY <1>1, <1>2, TookType, RawTookType
<1> HIDE DEF h, c
<1>6. conn' \in Conns(framing) BY <1>1, <1>4, <1>5 DEF Conns
<1> QED BY <1>1, <1>5, <1>6, Kept

\* The content of a Vision frame.
LEMMA ReadContentStep ==
  ASSUME TunnelInv, NEW length \in Nat, ReadContent(length)
  PROVE  TunnelInv'
<1> DEFINE n    == Least(Least(conn.vision_read_content, length), Len(Stream))
           left == conn.vision_read_content - n
           c    == Took(n)
<1>1. /\ Stream # <<>> /\ sock' = RawTookSock(n) /\ config' = config
      /\ conn' = [c EXCEPT !.vision_read_content = left]
      /\ buffer' = Prefix(Stream, n) /\ conn.vision_read_content > 0
      /\ addons' = addons /\ sent' = sent /\ framing' = framing
  BY DEF ReadContent, server
<1>2. Stream \in Seq(Tokens(framing)) /\ Raw # <<>> /\ Len(Stream) \in Nat
  BY <1>1, LayersType, LenProperties
<1>3. conn.vision_read_content \in Int BY DEF TunnelInv, Conns
<1>4. n \in Nat /\ n \in Int /\ n <= Len(Stream) BY <1>1, <1>2, <1>3 DEF Least
<1>5. left \in Int BY <1>3, <1>4
<1>6. c \in Conns(framing) /\ sock' \in Seq(Records(framing))
  BY <1>1, <1>2, <1>4, TookType, RawTookType
<1> HIDE DEF c, left, n
<1>7. conn' \in Conns(framing) BY <1>1, <1>5, <1>6 DEF Conns
<1>8. buffer' \in Seq(Tokens(framing)) BY <1>1, <1>2, <1>4, PrefixType
<1> QED BY <1>1, <1>6, <1>7, <1>8, Kept

\* Its padding.
LEMMA ReadPaddingStep ==
  ASSUME TunnelInv, ReadPadding
  PROVE  TunnelInv'
<1> DEFINE n == Least(conn.vision_read_padding, Len(Stream))
           c == Took(n)
<1>1. /\ Stream # <<>> /\ sock' = RawTookSock(n) /\ config' = config
      /\ conn' = [c EXCEPT !.vision_read_padding = c.vision_read_padding - n]
      /\ conn.vision_read_padding > 0
      /\ addons' = addons /\ sent' = sent /\ framing' = framing /\ buffer' = buffer
  BY DEF ReadPadding, server
<1>2. Stream \in Seq(Tokens(framing)) /\ Raw # <<>> /\ Len(Stream) \in Nat
  BY <1>1, LayersType, LenProperties
<1>3. conn.vision_read_padding \in Int BY DEF TunnelInv, Conns
<1>4. n \in Nat BY <1>1, <1>2, <1>3 DEF Least
<1>5. c \in Conns(framing) /\ sock' \in Seq(Records(framing))
  BY <1>1, <1>2, <1>4, TookType, RawTookType
<1> HIDE DEF c, n
<1>6. c.vision_read_padding - n \in Int BY <1>4, <1>5 DEF Conns
<1>7. conn' \in Conns(framing) BY <1>1, <1>5, <1>6 DEF Conns
<1> QED BY <1>1, <1>5, <1>7, Kept

\* The heart of the matter: a command is obeyed that the server has said.
LEMMA CompleteFrameStep ==
  ASSUME TunnelInv, CompleteFrame
  PROVE  TunnelInv'
<1> DEFINE command == conn.vision_read_command
           last    == command # "continue"
           direct  == command = "direct"
           peer   == IF last /\ ~conn.vision_write_finished THEN command
                      ELSE conn.vision_write_peer_command
<1>1. /\ conn' = [conn EXCEPT !.vision_read_finished = last,
                              !.vision_read_direct = direct,
                              !.vision_write_peer_command = peer,
                              !.vision_read_have_frame = FALSE]
      /\ sock' = sock /\ config' = config
      /\ addons' = addons /\ sent' = sent /\ framing' = framing /\ buffer' = buffer
  BY DEF CompleteFrame, server
<1>2. conn \in Conns(framing) /\ sock' \in Seq(Records(framing)) BY <1>1 DEF TunnelInv
<1>3. command \in Said(framing) /\ peer \in Said(framing) BY <1>2 DEF Conns
<1>4. last \in BOOLEAN /\ direct \in IF framing = "direct" THEN BOOLEAN ELSE {FALSE}
  BY <1>3 DEF Said
<1> HIDE DEF command, last, direct, peer
<1>5. conn' \in Conns(framing) BY <1>1, <1>2, <1>3, <1>4 DEF Conns
<1> QED BY <1>1, <1>2, <1>5, Kept

\* A read keeps to what the server has said, whatever of it was read how.
LEMMA ReadsStep ==
  ASSUME TunnelInv, NEW length \in Nat, Reads(length)
  PROVE  TunnelInv'
<1>1. CASE ReadFails \/ ReadEnds
  <2>1. UNCHANGED <<config, sock, conn, addons, sent, framing, buffer>>
    BY <1>1 DEF ReadFails, ReadEnds, upstream, server
  <2> QED BY <2>1 DEF TunnelInv
<1> QED BY <1>1, BelowStep, ConsumeStep, ReadBodyStep, ReadDirectStep, ReadHeaderStep,
           ReadContentStep, ReadPaddingStep, CompleteFrameStep DEF Reads

\* A read answers pings, and leaves alone what the writing goes by.
Keeps(c) ==
  /\ c.vision_write_finished = conn.vision_write_finished
  /\ c.vision_write_direct = conn.vision_write_direct

\* The reads of the layers leave the writing flags.
LEMMA TookKeeps ==
  ASSUME TunnelInv, Raw # <<>>, NEW n \in Nat
  PROVE  Keeps(RawTook(n)) /\ Keeps(Took(n)) /\ Keeps(DataTook(n))
<1>1. conn \in Conns(framing) /\ RawTook(n) \in Conns(framing) BY RawTookType DEF TunnelInv
<1>2. Keeps(RawTook(n)) BY <1>1 DEF RawTook, Keeps, Conns
<1>3. Keeps(Took(n))
  <2> DEFINE c == RawTook(n)
  <2>1. c \in Conns(framing) /\ Keeps(c) BY <1>1, <1>2
  <2>2. Took(n) = c \/ Took(n) = [c EXCEPT !.ws_remaining = @ - n] BY DEF Took
  <2> HIDE DEF c
  <2> QED BY <2>1, <2>2 DEF Keeps, Conns
<1>4. Keeps(DataTook(n))
  <2> DEFINE c == RawTook(n)
             left == conn.grpc_data_remaining - n
             ends == c.grpc_eof \/ (left = 0 /\ conn.grpc_data_end_stream)
  <2>1. c \in Conns(framing) /\ Keeps(c) BY <1>1, <1>2
  <2>2. DataTook(n) = [c EXCEPT !.grpc_data_remaining = left, !.grpc_eof = ends]
    BY DEF DataTook
  <2> HIDE DEF c, left, ends
  <2> QED BY <2>1, <2>2 DEF Keeps, Conns
<1> QED BY <1>2, <1>3, <1>4

\* So does every step of a read, which may answer one ping.
LEMMA ReadsKeep ==
  ASSUME TunnelInv, NEW length \in Nat, Reads(length)
  PROVE  Keeps(conn') /\ up' \in {up, Append(up, Pong)}
<1>0. conn \in Conns(framing) /\ Keeps(conn) BY DEF TunnelInv, Keeps
<1>1. CASE SkipRecord \/ ReadDirect(length) \/ ReadFails \/ ReadEnds
  <2>1. conn' = conn /\ up' = up
    BY <1>1 DEF SkipRecord, ReadDirect, ReadFails, ReadEnds, upstream
  <2> QED BY <1>0, <2>1
<1>2. Raw # <<>> => /\ RawTook(1) \in Conns(framing) /\ Keeps(RawTook(1))
                    /\ DataTook(1) \in Conns(framing) /\ Keeps(DataTook(1))
                    /\ Took(1) \in Conns(framing) /\ Keeps(Took(1))
  BY RawTookType, TookType, DataTookType, TookKeeps
<1>3. CASE BeginDataFrame
  <2> DEFINE v == IF Head(Raw).op = "data" THEN Head(Raw).n ELSE 0
  <2>1. Raw # <<>> /\ conn' = [RawTook(1) EXCEPT !.ws_remaining = v]
    BY <1>3 DEF BeginDataFrame
  <2>2. up' \in {up, Append(up, Pong)} BY <1>3 DEF BeginDataFrame
  <2> HIDE DEF v
  <2> QED BY <1>2, <2>1, <2>2 DEF Keeps, Conns
<1>4. CASE NextDataFrame
  <2> DEFINE h == Head(Raw)
             e == h.n = 0 /\ h.last
  <2>1. /\ Raw # <<>> /\ up' \in {up, Append(up, Pong)}
        /\ \/ conn' = [RawTook(1) EXCEPT !.grpc_data_remaining = h.n,
                                         !.grpc_data_end_stream = h.last,
                                         !.grpc_eof = e]
           \/ conn' = RawTook(1)
           \/ conn' = [RawTook(1) EXCEPT !.grpc_eof = TRUE]
    BY <1>4 DEF NextDataFrame
  <2> HIDE DEF h, e
  <2> QED BY <1>2, <2>1 DEF Keeps, Conns
<1>5. CASE LoadEnvelope
  <2>1. Raw # <<>> /\ conn' = [DataTook(1) EXCEPT !.wanted = Head(Raw).n] /\ up' = up
    BY <1>5 DEF LoadEnvelope
  <2> QED BY <1>2, <2>1 DEF Keeps, Conns
<1>6. CASE LoadMessage
  <2> DEFINE n    == Least(conn.wanted, Least(conn.grpc_data_remaining, Len(Raw)))
             read == conn.loading \o Prefix(Raw, n)
             done == n = conn.wanted
             c    == DataTook(n)
             tail == IF done THEN <<>> ELSE read
             msg  == IF done THEN read ELSE <<>>
  <2>1. /\ Raw # <<>> /\ up' = up
        /\ conn' = [c EXCEPT !.wanted = @ - n, !.loading = tail, !.grpc_message = msg]
        /\ conn.wanted > 0 /\ conn.grpc_data_remaining > 0
    BY <1>6 DEF LoadMessage
  <2>2. Len(Raw) \in Nat /\ conn.wanted \in Int /\ conn.grpc_data_remaining \in Int
    BY <1>0, LayersType, LenProperties DEF Conns
  <2>3. n \in Nat BY <2>1, <2>2 DEF Least
  <2>4. c \in Conns(framing) /\ Keeps(c) BY <2>1, <2>3, DataTookType, TookKeeps
  <2> HIDE DEF c, n, tail, msg
  <2> QED BY <2>1, <2>4 DEF Keeps, Conns
<1>7. ASSUME NEW n \in Nat, TransportRead(n), Transport # <<>>
      PROVE  Keeps(conn') /\ up' = up
  <2>1. up' = up BY <1>7 DEF TransportRead
  <2>2. CASE config.transport = "grpc"
    BY <1>0, <1>7, <2>1, <2>2 DEF TransportRead, Keeps, Conns
  <2>3. CASE config.transport # "grpc"
    <3>1. Raw # <<>> BY <1>7, <2>3, LayersType DEF Transport
    <3>2. conn' = Took(n) BY <1>7, <2>3 DEF TransportRead
    <3> QED BY <1>7, <2>1, <3>1, <3>2, TookKeeps
  <2> QED BY <2>2, <2>3
<1>8. CASE ConsumeResponse \/ ConsumeAddons
  BY <1>7, <1>8 DEF ConsumeResponse, ConsumeAddons
<1>9. CASE ReadBody(length)
  <2> DEFINE n == Least(length, Len(Transport))
  <2>1. TransportRead(n) /\ Transport # <<>> BY <1>9 DEF ReadBody
  <2>2. Len(Transport) \in Nat BY LayersType, LenProperties
  <2>3. n \in Nat BY <2>2 DEF Least
  <2> HIDE DEF n
  <2> QED BY <1>7, <2>1, <2>3
<1>10. CASE ReadHeader
  <2> DEFINE h == Head(Stream)
             c == Took(1)
  <2>1. /\ Stream # <<>> /\ up' = up
        /\ conn' = [c EXCEPT !.vision_read_started = TRUE,
                             !.vision_read_command = h.command,
                             !.vision_read_content = h.content,
                             !.vision_read_padding = h.padding,
                             !.vision_read_have_frame = TRUE]
    BY <1>10 DEF ReadHeader
  <2>2. c \in Conns(framing) /\ Keeps(c) BY <1>2, <2>1, LayersType
  <2> HIDE DEF h, c
  <2> QED BY <2>1, <2>2 DEF Keeps, Conns
<1>11. CASE ReadContent(length) \/ ReadPadding
  <2>1. PICK n \in Nat, field \in {"vision_read_content", "vision_read_padding"}, v \in Int :
          /\ Stream # <<>> /\ up' = up
          /\ conn' = [Took(n) EXCEPT ![field] = v]
    <3>1. /\ Stream # <<>> /\ up' = up
          /\ Len(Stream) \in Nat
          /\ conn.vision_read_content \in Int /\ conn.vision_read_padding \in Int
      BY <1>0, <1>11, LayersType, LenProperties DEF ReadContent, ReadPadding, Conns
    <3>2. CASE ReadContent(length)
      <4> DEFINE n == Least(Least(conn.vision_read_content, length), Len(Stream))
                 left == conn.vision_read_content - n
      <4>1. conn' = [Took(n) EXCEPT !.vision_read_content = left] /\ conn.vision_read_content > 0
        BY <3>2 DEF ReadContent
      <4>2. n \in Nat /\ left \in Int BY <3>1, <4>1 DEF Least
      <4> HIDE DEF n, left
      <4> QED BY <3>1, <4>1, <4>2
    <3>3. CASE ReadPadding
      <4> DEFINE n == Least(conn.vision_read_padding, Len(Stream))
                 left == Took(n).vision_read_padding - n
      <4>1. conn' = [Took(n) EXCEPT !.vision_read_padding = left] /\ conn.vision_read_padding > 0
        BY <3>3 DEF ReadPadding
      <4>2. n \in Nat BY <3>1, <4>1 DEF Least
      <4>3. Took(n) \in Conns(framing) BY <3>1, <4>2, LayersType, TookType
      <4>4. left \in Int BY <4>2, <4>3 DEF Conns
      <4> HIDE DEF n, left
      <4> QED BY <3>1, <4>1, <4>2, <4>4
    <3> QED BY <1>11, <3>2, <3>3
  <2>2. Took(n) \in Conns(framing) /\ Keeps(Took(n)) BY <2>1, LayersType, TookType, TookKeeps
  <2> QED BY <2>1, <2>2 DEF Keeps, Conns
<1>12. CASE CompleteFrame
  BY <1>0, <1>12 DEF CompleteFrame, Keeps, Conns
<1> QED BY <1>1, <1>3, <1>4, <1>5, <1>6, <1>8, <1>9, <1>10, <1>11, <1>12 DEF Reads, Below

\* A read goes on, delivers, or closes.
LEMMA ReadsWhere ==
  ASSUME NEW length, Reads(length)
  PROVE  /\ pc \in {"response", "addons", "body"}
         /\ pc' \in {"response", "addons", "body", "deliver", "close"}
<1>1. CASE Below BY <1>1 DEF Below, Reading
<1>2. CASE ConsumeResponse \/ ConsumeAddons BY <1>2 DEF ConsumeResponse, ConsumeAddons
<1>3. CASE ReadBody(length) \/ ReadDirect(length) BY <1>3 DEF ReadBody, ReadDirect
<1>4. CASE ReadHeader \/ ReadContent(length) \/ ReadPadding \/ CompleteFrame
  BY <1>4 DEF ReadHeader, ReadContent, ReadPadding, CompleteFrame, FrameRead, Unframing
<1>5. CASE ReadFails \/ ReadEnds
  BY <1>5 DEF ReadFails, ReadEnds, WantsRaw, Reading, Fails, Ends
<1> QED BY <1>1, <1>2, <1>3, <1>4, <1>5 DEF Reads

\* It leaves the configuration alone ...
LEMMA ReadsConfig ==
  ASSUME NEW length, Reads(length)
  PROVE  config' = config
BY DEF Reads, Below, SkipRecord, BeginDataFrame, NextDataFrame, LoadEnvelope, LoadMessage,
       ConsumeResponse, ConsumeAddons, TransportRead, ReadBody, ReadDirect, ReadHeader,
       ReadContent, ReadPadding, CompleteFrame, ReadFails, ReadEnds, upstream

\* ... and ends only by closing.
LEMMA ReadsEnd ==
  ASSUME NEW length, Reads(length)
  PROVE  end' = end \/ (pc' = "close" /\ end' \in {"error", "eof"})
<1>1. CASE ReadFails \/ ReadEnds BY <1>1 DEF ReadFails, ReadEnds, Fails, Ends
<1>2. CASE ~(ReadFails \/ ReadEnds)
  BY <1>2 DEF Reads, Below, ConsumeResponse, ConsumeAddons, ReadBody, ReadDirect, ReadHeader,
              ReadContent, ReadPadding, CompleteFrame
<1> QED BY <1>1, <1>2

-----------------------------------------------------------------------------
(* What a write makes of the connection.                                   *)

\* vision_body_write() and vision_initial_write() keep the types.
LEMMA WrittenType ==
  ASSUME TunnelInv
  PROVE  BodyWrote \in Conns(framing) /\ InitialWrote \in Conns(framing)
<1> DEFINE command == conn.vision_write_peer_command
           ends    == command # "continue"
           bare    == command = "direct"
<1>1. conn \in Conns(framing) /\ config.vision \in BOOLEAN BY DEF TunnelInv, Configs
<1>2. command \in Said(framing) BY <1>1 DEF Conns
<1>3. /\ ends \in IF framing \in {"end", "direct"} THEN BOOLEAN ELSE {FALSE}
      /\ bare \in IF framing = "direct" THEN BOOLEAN ELSE {FALSE}
  BY <1>2 DEF Said
<1>4. BodyWrote \in {conn, [conn EXCEPT !.vision_write_started = TRUE,
                                        !.vision_write_finished = ends,
                                        !.vision_write_direct = bare]}
  BY DEF BodyWrote
<1> HIDE DEF command, ends, bare
<1>5. BodyWrote \in Conns(framing) BY <1>1, <1>3, <1>4 DEF Conns
<1>6. InitialWrote \in Conns(framing) BY <1>1 DEF InitialWrote, Conns
<1> QED BY <1>5, <1>6

-----------------------------------------------------------------------------
(* The server.                                                             *)

\* A write of the server arrives as records.
LEMMA ArrivesType ==
  ASSUME NEW f, sock \in Seq(Records(f)), NEW tokens \in Seq(Tokens(f)), NEW tls \in BOOLEAN,
         Arrives(tokens, tls)
  PROVE  sock' \in Seq(Records(f))
<1>1. CASE sock' = Append(sock, [tls |-> tls, tokens |-> tokens])
  <2>1. [tls |-> tls, tokens |-> tokens] \in Records(f) BY DEF Records
  <2> QED BY <1>1, <2>1, AppendProperties
<1>2. CASE /\ sock # <<>>
           /\ sock' = [sock EXCEPT ![Len(sock)].tokens = @ \o tokens]
  <2> DEFINE last == sock[Len(sock)]
             full == [last EXCEPT !.tokens = last.tokens \o tokens]
  <2>1. Len(sock) \in 1..Len(sock) BY <1>2, LenProperties, EmptySeq
  <2>2. last \in Records(f) BY <2>1, LenProperties
  <2>3. last.tokens \o tokens \in Seq(Tokens(f)) BY <2>2, ConcatType DEF Records
  <2>4. full \in Records(f) BY <2>2, <2>3 DEF Records
  <2>5. sock' = [sock EXCEPT ![Len(sock)] = full] BY <1>2
  <2> HIDE DEF full, last
  <2> QED BY <2>1, <2>4, <2>5, ExceptSeq
<1> QED BY <1>1, <1>2 DEF Arrives

\* So does one in two records.
LEMMA ArriveApartType ==
  ASSUME NEW f, sock \in Seq(Records(f)), NEW first \in Seq(Tokens(f)),
         NEW second \in Seq(Tokens(f)), ArriveApart(first, second)
  PROVE  sock' \in Seq(Records(f))
<1> DEFINE pair == <<[tls |-> TRUE, tokens |-> first], [tls |-> TRUE, tokens |-> second]>>
<1>1. [tls |-> TRUE, tokens |-> first] \in Records(f)
      /\ [tls |-> TRUE, tokens |-> second] \in Records(f)
  BY DEF Records
<1>2. pair \in Seq(Records(f)) BY <1>1
<1>3. sock' = sock \o pair BY DEF ArriveApart
<1> HIDE DEF pair
<1> QED BY <1>2, <1>3, ConcatType

\* The payload is of tokens, in any framing.
LEMMA PayloadType ==
  ASSUME NEW f, addons \in Nat
  PROVE  Payload \in Seq(Tokens(f))
<1> DEFINE resp == <<[k |-> "resp", n |-> addons]>>
           rest == [i \in 1..addons |-> [k |-> "addon"]]
<1>1. [k |-> "resp", n |-> addons] \in Tokens(f) BY DEF Tokens
<1>2. resp \in Seq(Tokens(f)) BY <1>1
<1>3. [k |-> "addon"] \in Tokens(f) BY DEF Tokens
<1>4. rest \in Seq(Tokens(f)) BY <1>3
<1>5. Data \in Seq(Tokens(f))
  <2>1. \A i \in 1..DataMax : [k |-> "data", v |-> i] \in Tokens(f) BY DEF Tokens
  <2>2. DataMax \in Nat BY ServerAssumption
  <2> QED BY <2>1, <2>2 DEF Data
<1>6. Response = resp \o rest BY DEF Response
<1> HIDE DEF resp, rest
<1> QED BY <1>2, <1>4, <1>5, <1>6, ConcatType DEF Payload

\* So are the frames of WebSocket and gRPC ...
LEMMA ControlType ==
  ASSUME NEW f, NEW n \in Int
  PROVE  /\ \A type \in {"data", "settings", "ping"}, last \in BOOLEAN :
              H2(type, n, last) \in Tokens(f) /\ <<H2(type, n, last)>> \in Seq(Tokens(f))
         /\ \A op \in {"data", "ping", "close"} :
              /\ [k |-> "ws", op |-> op, n |-> n] \in Tokens(f)
              /\ <<[k |-> "ws", op |-> op, n |-> n]>> \in Seq(Tokens(f))
         /\ [k |-> "msg", n |-> n] \in Tokens(f)
         /\ <<[k |-> "msg", n |-> n]>> \in Seq(Tokens(f))
<1>1. /\ \A type \in {"data", "settings", "ping"}, last \in BOOLEAN :
           H2(type, n, last) \in Tokens(f)
      /\ \A op \in {"data", "ping", "close"} : [k |-> "ws", op |-> op, n |-> n] \in Tokens(f)
      /\ [k |-> "msg", n |-> n] \in Tokens(f)
  BY DEF H2, Tokens, H2Types
<1> QED BY <1>1

\* ... those without data ...
LEMMA EmptyType ==
  ASSUME NEW f
  PROVE  /\ \A type \in {"data", "settings", "ping"}, last \in BOOLEAN :
              <<H2(type, 0, last)>> \in Seq(Tokens(f))
         /\ \A op \in {"data", "ping", "close"} :
              <<[k |-> "ws", op |-> op, n |-> 0]>> \in Seq(Tokens(f))
         /\ f = "leaving" => <<H2("goaway", 0, FALSE)>> \in Seq(Tokens(f))
<1>1. /\ \A type \in {"data", "settings", "ping"}, last \in BOOLEAN :
           H2(type, 0, last) \in Tokens(f)
      /\ \A op \in {"data", "ping", "close"} : [k |-> "ws", op |-> op, n |-> 0] \in Tokens(f)
      /\ f = "leaving" => H2("goaway", 0, FALSE) \in Tokens(f)
  BY DEF H2, Tokens, H2Types
<1> DEFINE T == Tokens(f)
<1>2. \A type \in {"data", "settings", "ping"}, last \in BOOLEAN :
        <<H2(type, 0, last)>> \in Seq(T)
  BY <1>1
<1>3. \A op \in {"data", "ping", "close"} : <<[k |-> "ws", op |-> op, n |-> 0]>> \in Seq(T)
  BY <1>1
<1>4. ASSUME f = "leaving" PROVE <<H2("goaway", 0, FALSE)>> \in Seq(T)
  <2> DEFINE t == H2("goaway", 0, FALSE)
  <2>1. t \in T BY <1>1, <1>4
  <2> HIDE DEF t, T
  <2>2. <<t>> \in Seq(T) BY <2>1
  <2> QED BY <2>2 DEF t
<1> QED BY <1>2, <1>3, <1>4

\* ... and gRPC messages in one DATA frame or two.
LEMMA MessageType ==
  ASSUME NEW f, NEW tokens \in Seq(Tokens(f)), NEW last \in BOOLEAN,
         NEW bytes \in MessageWrites(tokens, last)
  PROVE  bytes \in Seq(Tokens(f))
<1> DEFINE head == <<[k |-> "msg", n |-> Len(tokens)]>>
           msg  == head \o tokens
<1>1. Len(tokens) \in Nat BY LenProperties
<1>2. head \in Seq(Tokens(f))
  <2>1. Len(tokens) \in Int BY <1>1
  <2> QED BY <2>1, ControlType
<1>3. /\ msg \in Seq(Tokens(f)) /\ Len(msg) = Len(head) + Len(tokens) BY <1>2, ConcatProperties
<1>4. Len(head) = 1 OBVIOUS
<1>5. \/ bytes = <<H2("data", Len(msg), last)>> \o msg
      \/ \E cut \in 1..Len(tokens) :
           bytes = <<H2("data", cut, FALSE)>> \o Prefix(msg, cut)
                     \o <<H2("data", Len(msg) - cut, last)>> \o Drop(msg, cut)
  BY DEF MessageWrites
<1> HIDE DEF head, msg
<1>6. CASE bytes = <<H2("data", Len(msg), last)>> \o msg
  <2>1. Len(msg) \in Int BY <1>1, <1>3, <1>4
  <2>2. <<H2("data", Len(msg), last)>> \in Seq(Tokens(f)) BY <2>1, ControlType
  <2> QED BY <1>3, <1>6, <2>2, ConcatType
<1>7. ASSUME NEW cut \in 1..Len(tokens),
             bytes = <<H2("data", cut, FALSE)>> \o Prefix(msg, cut)
                       \o <<H2("data", Len(msg) - cut, last)>> \o Drop(msg, cut)
      PROVE  bytes \in Seq(Tokens(f))
  <2>1. cut \in Int /\ cut \in Nat /\ cut <= Len(msg) /\ Len(msg) - cut \in Int
    BY <1>1, <1>3, <1>4
  <2>2. Prefix(msg, cut) \in Seq(Tokens(f)) BY <1>3, <2>1, PrefixType
  <2>3. Drop(msg, cut) \in Seq(Tokens(f)) BY <1>3, <2>1, DropType
  <2>4. <<H2("data", cut, FALSE)>> \in Seq(Tokens(f)) BY <2>1, ControlType
  <2>5. <<H2("data", Len(msg) - cut, last)>> \in Seq(Tokens(f)) BY <2>1, ControlType
  <2>6. <<H2("data", cut, FALSE)>> \o Prefix(msg, cut) \in Seq(Tokens(f))
    BY <2>2, <2>4, ConcatType
  <2>7. <<H2("data", cut, FALSE)>> \o Prefix(msg, cut)
          \o <<H2("data", Len(msg) - cut, last)>> \in Seq(Tokens(f))
    BY <2>5, <2>6, ConcatType
  <2> QED BY <1>7, <2>3, <2>7, ConcatType
<1> QED BY <1>5, <1>6, <1>7

\* The write of a gRPC message.
LEMMA SendMessageType ==
  ASSUME TunnelInv, NEW tokens \in Seq(Tokens(framing)), NEW last \in BOOLEAN,
         SendMessage(tokens, last)
  PROVE  sock' \in Seq(Records(framing)) /\ framing' = framing
<1>1. PICK bytes \in MessageWrites(tokens, last) : Arrives(bytes, TRUE) BY DEF SendMessage
<1>2. bytes \in Seq(Tokens(framing)) BY MessageType
<1>3. sock \in Seq(Records(framing)) BY DEF TunnelInv
<1> QED BY <1>1, <1>2, <1>3, ArrivesType DEF SendMessage

\* The write of a Vision frame, which says what it says.
LEMMA SendVisionType ==
  ASSUME TunnelInv, config.vision, NEW tokens, \A f \in Framings : tokens \in Seq(Tokens(f)),
         SendVision(tokens)
  PROVE  /\ framing' \in {"framed", "end", "direct"}
         /\ framing \in {"first", "framed"}
         /\ sock' \in Seq(Records(framing'))
<1>1. PICK command \in Commands, padding \in 0..1 :
        LET frame == <<[k |-> "vis", uuid |-> framing = "first", command |-> command,
                        content |-> Len(tokens), padding |-> padding]>> \o tokens
            pads  == [i \in 1..padding |-> [k |-> "pad"]]
        IN  /\ Arrives(frame \o pads, TRUE) \/ ArriveApart(frame, pads)
            /\ framing' = IF command = "continue" THEN "framed" ELSE command
  BY DEF SendVision
<1> DEFINE h     == [k |-> "vis", uuid |-> framing = "first", command |-> command,
                     content |-> Len(tokens), padding |-> padding]
           frame == <<h>> \o tokens
           pads  == [i \in 1..padding |-> [k |-> "pad"]]
<1>2. framing \in {"first", "framed"} BY DEF SendVision
<1>3. /\ framing' = (IF command = "continue" THEN "framed" ELSE command)
      /\ framing' \in {"framed", "end", "direct"} /\ command \in Said(framing')
  BY <1>1 DEF Commands, Said
<1>4. framing' \in Framings /\ framing \in Framings BY <1>2, <1>3 DEF Framings
<1>5. tokens \in Seq(Tokens(framing')) /\ Len(tokens) \in Nat BY <1>4, LenProperties
<1>6. h \in Tokens(framing') BY <1>3, <1>5 DEF Tokens
<1>7. frame \in Seq(Tokens(framing'))
  <2>1. <<h>> \in Seq(Tokens(framing')) BY <1>6
  <2> HIDE DEF h
  <2> QED BY <1>5, <2>1, ConcatType
<1>8. pads \in Seq(Tokens(framing'))
  <2>1. [k |-> "pad"] \in Tokens(framing') BY DEF Tokens
  <2>2. padding \in Nat OBVIOUS
  <2> QED BY <2>1, <2>2
<1>9. frame \o pads \in Seq(Tokens(framing')) BY <1>7, <1>8, ConcatType
<1>10. sock \in Seq(Records(framing')) BY <1>2, <1>4, Widen DEF TunnelInv
<1>11. Arrives(frame \o pads, TRUE) \/ ArriveApart(frame, pads) BY <1>1
<1> HIDE DEF frame, pads
<1>12. sock' \in Seq(Records(framing'))
  BY <1>7, <1>8, <1>9, <1>10, <1>11, ArrivesType, ArriveApartType
<1> QED BY <1>2, <1>3, <1>12

\* The server's writes of payload.
LEMMA SendsType ==
  ASSUME TunnelInv, ServerSends
  PROVE  /\ framing' \in Framings
         /\ framing' = framing \/ framing \in {"first", "framed"}
         /\ framing' \in {"framed", "end", "direct"} => config.vision
         /\ framing' = "leaving" => ~config.vision
         /\ sock' \in Seq(Records(framing')) /\ sent' \in Nat
<1>1. PICK n \in 0..Least(SendMax, Len(Payload) - sent) :
        LET tokens == SubSeq(Payload, sent + 1, sent + n) IN
          /\ \/ config.transport = "tcp" /\ SendPlain(tokens)
             \/ config.vision /\ SendVision(tokens)
             \/ config.transport = "grpc" /\ SendMessage(tokens, FALSE)
             \/ config.transport = "ws" /\ SendWebSocket(tokens)
          /\ sent' = sent + n
  BY DEF ServerSends
<1> DEFINE tokens == SubSeq(Payload, sent + 1, sent + n)
<1>2. addons \in Nat /\ sent \in Nat /\ SendMax \in Nat /\ config.tls \in BOOLEAN
  BY ServerAssumption DEF TunnelInv, Configs
<1>3. Len(Payload) \in Nat /\ n \in Nat /\ n <= Len(Payload) - sent
  <2>1. Len(Payload) \in Nat BY <1>2, PayloadType, LenProperties
  <2> QED BY <1>2, <2>1 DEF Least
<1>4. \A f \in Framings : tokens \in Seq(Tokens(f))
  <2> TAKE f \in Framings
  <2>1. Payload \in Seq(Tokens(f)) BY <1>2, PayloadType
  <2>2. \A i \in (sent + 1)..(sent + n) : Payload[i] \in Tokens(f)
    <3> TAKE i \in (sent + 1)..(sent + n)
    <3>1. i \in 1..Len(Payload) BY <1>2, <1>3
    <3> QED BY <2>1, <3>1, LenProperties
  <2>3. sent + 1 \in Int /\ sent + n \in Int BY <1>2, <1>3
  <2> QED BY <2>2, <2>3, SubSeqProperties
<1>5. sent' \in Nat BY <1>1, <1>2, <1>3
<1>6. /\ \/ config.transport = "tcp" /\ SendPlain(tokens)
         \/ config.vision /\ SendVision(tokens)
         \/ config.transport = "grpc" /\ SendMessage(tokens, FALSE)
         \/ config.transport = "ws" /\ SendWebSocket(tokens)
  BY <1>1
<1>7. framing \in Framings /\ sock \in Seq(Records(framing)) BY DEF TunnelInv
<1>8. tokens \in Seq(Tokens(framing)) BY <1>4, <1>7
<1> HIDE DEF tokens
<1>9. CASE SendPlain(tokens)
  <2>1. framing' = framing /\ Arrives(tokens, config.tls /\ framing # "direct")
    BY <1>9 DEF SendPlain
  <2>2. (config.tls /\ framing # "direct") \in BOOLEAN BY <1>2
  <2>3. sock' \in Seq(Records(framing)) BY <1>7, <1>8, <2>1, <2>2, ArrivesType
  <2> QED BY <1>5, <1>7, <2>1, <2>3 DEF TunnelInv
<1>10. CASE config.vision /\ SendVision(tokens)
  <2>1. /\ framing' \in {"framed", "end", "direct"} /\ framing \in {"first", "framed"}
        /\ sock' \in Seq(Records(framing'))
    BY <1>4, <1>10, SendVisionType
  <2> QED BY <1>5, <1>10, <2>1 DEF Framings
<1>11. CASE SendMessage(tokens, FALSE)
  <2>1. framing' = framing /\ sock' \in Seq(Records(framing))
    BY <1>8, <1>11, SendMessageType
  <2> QED BY <1>5, <1>7, <2>1 DEF TunnelInv
<1>12. CASE SendWebSocket(tokens)
  <2> DEFINE head  == <<[k |-> "ws", op |-> "data", n |-> Len(tokens)]>>
             frame == head \o tokens
  <2>1. framing' = framing /\ Arrives(frame, config.tls) BY <1>12 DEF SendWebSocket
  <2>2. Len(tokens) \in Int BY <1>8, LenProperties
  <2>3. head \in Seq(Tokens(framing)) BY <2>2, ControlType
  <2> HIDE DEF head
  <2>4. frame \in Seq(Tokens(framing)) BY <1>8, <2>3, ConcatType
  <2> HIDE DEF frame
  <2>5. sock' \in Seq(Records(framing)) BY <1>2, <1>7, <2>1, <2>4, ArrivesType
  <2> QED BY <1>5, <1>7, <2>1, <2>5 DEF TunnelInv
<1> QED BY <1>6, <1>9, <1>10, <1>11, <1>12

\* The end of the server's stream.
LEMMA ClosesType ==
  ASSUME TunnelInv, ServerCloses
  PROVE  framing' = framing /\ sock' \in Seq(Records(framing)) /\ sent' \in Nat
<1>1. /\ sock \in Seq(Records(framing)) /\ sent \in Nat /\ addons \in Nat
      /\ config.tls \in BOOLEAN /\ framing \in Framings
  BY DEF TunnelInv, Configs
<1>2. CASE UNCHANGED <<sock, framing, sent>>
  BY <1>1, <1>2
<1>3. CASE sock' = Prefix(sock, Len(sock) - 1) /\ UNCHANGED <<framing, sent>>
  <2>1. Len(sock) - 1 \in Int /\ Len(sock) - 1 <= Len(sock) BY <1>1, LenProperties
  <2> QED BY <1>1, <1>3, <2>1, PrefixType
<1>4. CASE /\ Arrives(<<[k |-> "ws", op |-> "close", n |-> 0]>>, config.tls)
           /\ UNCHANGED <<framing, sent>>
  <2>1. <<[k |-> "ws", op |-> "close", n |-> 0]>> \in Seq(Tokens(framing)) BY EmptyType
  <2> QED BY <1>1, <1>4, <2>1, ArrivesType
<1>5. CASE Arrives(<<H2("data", 0, TRUE)>>, TRUE) /\ UNCHANGED <<framing, sent>>
  <2>1. <<H2("data", 0, TRUE)>> \in Seq(Tokens(framing)) BY EmptyType
  <2> QED BY <1>1, <1>5, <2>1, ArrivesType
<1>6. CASE /\ sent < Len(Payload)
           /\ SendMessage(<<Payload[sent + 1]>>, TRUE)
           /\ sent' = sent + 1
  <2>1. Payload \in Seq(Tokens(framing)) /\ Len(Payload) \in Nat
    BY <1>1, PayloadType, LenProperties
  <2>2. sent + 1 \in 1..Len(Payload) BY <1>1, <1>6, <2>1
  <2>3. Payload[sent + 1] \in Tokens(framing) BY <2>1, <2>2, LenProperties
  <2>4. <<Payload[sent + 1]>> \in Seq(Tokens(framing)) BY <2>3
  <2> DEFINE tokens == <<Payload[sent + 1]>>
  <2>5. tokens \in Seq(Tokens(framing)) /\ SendMessage(tokens, TRUE) BY <1>6, <2>4
  <2> HIDE DEF tokens
  <2>6. sock' \in Seq(Records(framing)) /\ framing' = framing BY <2>5, SendMessageType
  <2> QED BY <1>1, <1>6, <2>6
<1> QED BY <1>2, <1>3, <1>4, <1>5, <1>6 DEF ServerCloses

\* The server's next write: what it has said before stays said.
LEMMA ServerStep ==
  ASSUME TunnelInv, ServerNext, buffer' = buffer
  PROVE  TunnelInv'
<1>1. config' = config /\ conn' = conn /\ addons' = addons
  BY DEF ServerNext, ServerSends, ServerControls, ServerLeaves, ServerCloses
<1>2. framing' \in Framings /\ (framing' = framing \/ framing \in {"first", "framed"})
      /\ (framing' \in {"framed", "end", "direct"} => config.vision)
      /\ (framing' = "leaving" => ~config.vision)
      /\ sock' \in Seq(Records(framing')) /\ sent' \in Nat
  <2>0. /\ sock \in Seq(Records(framing)) /\ sent \in Nat /\ config.tls \in BOOLEAN
        /\ framing \in Framings
    BY DEF TunnelInv, Configs
  <2>1. CASE ServerSends BY <2>1, SendsType
  <2>2. CASE ServerControls
    <3>1. framing' = framing /\ sent' = sent BY <2>2 DEF ServerControls
    <3>2. \/ Arrives(<<>>, TRUE)
          \/ \E op \in {"ping", "data"} :
               Arrives(<<[k |-> "ws", op |-> op, n |-> 0]>>, config.tls)
          \/ \E type \in {"settings", "ping", "data"} : Arrives(<<H2(type, 0, FALSE)>>, TRUE)
      BY <2>2 DEF ServerControls
    <3>3. /\ <<>> \in Seq(Tokens(framing))
          /\ \A op \in {"ping", "data"} :
               <<[k |-> "ws", op |-> op, n |-> 0]>> \in Seq(Tokens(framing))
          /\ \A type \in {"settings", "ping", "data"} :
               <<H2(type, 0, FALSE)>> \in Seq(Tokens(framing))
      <4>1. <<>> \in Seq(Tokens(framing)) OBVIOUS
      <4>2. \A op \in {"ping", "data"} :
              <<[k |-> "ws", op |-> op, n |-> 0]>> \in Seq(Tokens(framing))
        BY EmptyType
      <4>3. \A type \in {"settings", "ping", "data"} :
              <<H2(type, 0, FALSE)>> \in Seq(Tokens(framing))
        BY EmptyType
      <4> QED BY <4>1, <4>2, <4>3
    <3>4. sock' \in Seq(Records(framing)) BY <2>0, <3>2, <3>3, ArrivesType
    <3> QED BY <2>0, <3>1, <3>4 DEF TunnelInv
  <2>3. CASE ServerLeaves
    <3>1. /\ framing' = "leaving" /\ sent' = sent /\ config.transport = "grpc"
          /\ Arrives(<<H2("goaway", 0, FALSE)>>, TRUE)
      BY <2>3 DEF ServerLeaves
    <3>2. ~config.vision BY <3>1 DEF TunnelInv, Configs
    <3>3. framing \in {"first", "leaving"} BY <2>0, <3>2 DEF TunnelInv, Framings
    <3>4. framing' \in Framings BY <3>1 DEF Framings
    <3>5. sock \in Seq(Records(framing')) BY <2>0, <3>1, <3>3, <3>4, Widen
    <3>6. <<H2("goaway", 0, FALSE)>> \in Seq(Tokens(framing')) BY <3>1, EmptyType
    <3>7. sock' \in Seq(Records(framing')) BY <3>1, <3>5, <3>6, ArrivesType
    <3> QED BY <2>0, <3>1, <3>2, <3>3, <3>4, <3>7
  <2>4. CASE ServerCloses BY <2>0, <2>4, ClosesType DEF TunnelInv
  <2> QED BY <2>1, <2>2, <2>3, <2>4 DEF ServerNext
<1>3. /\ conn' \in Conns(framing') /\ buffer' \in Seq(Bytes(framing'))
  BY <1>1, <1>2, Widen DEF TunnelInv
<1> QED BY <1>1, <1>2, <1>3 DEF TunnelInv

-----------------------------------------------------------------------------
(* Points in the stream, and how tokens lead from one to another.          *)

\* What a reader of the stream knows at a place of it: the units of the payload
\* before it; the units that the last header still announces (WebSocket, HTTP/2,
\* content of a Vision frame); those of a gRPC message, or of padding; and what
\* follows then: more frames, bare payload within TLS or below it, or nothing.
Points == [taken : Nat, body : Nat, rest : Nat, mode : {"framed", "end", "direct", "closed"}]

\* Payload without frames, of any length.
Free(e, x) ==
  /\ e.transport = "tcp" /\ x.mode # "closed"
  /\ ~e.vision \/ (x.mode # "framed" /\ x.body = 0 /\ x.rest = 0)

\* The next k units are payload ...
Can(e, x, k) ==
  CASE e.transport = "tcp" -> Free(e, x) \/ k <= x.body
    [] e.transport = "ws"  -> k <= x.body
    [] OTHER               -> k <= x.body /\ k <= x.rest

\* ... and the place behind them.
After(e, x, k) ==
  [taken |-> x.taken + k,
   body  |-> IF Free(e, x) THEN x.body ELSE x.body - k,
   rest  |-> IF e.transport = "grpc" THEN x.rest - k ELSE x.rest,
   mode  |-> x.mode]

\* The place behind k units of padding.
Padded(x, k) == [x EXCEPT !.rest = x.rest - k]

\* Below TLS.
Outside(x) == x.mode = "direct" /\ x.body = 0 /\ x.rest = 0

\* At place x a record comes within TLS (tls), or below it.
Fitting(e, x, tls) ==
  /\ Outside(x) => ~tls
  /\ e.tls /\ ~tls => e.vision /\ e.transport = "tcp" /\ Outside(x)

\* What follows a Vision frame with a command.
ModeAfter(command) == IF command = "continue" THEN "framed" ELSE command

\* The token t leads from place x to place y.
Token(e, x, t, y) ==
  /\ y \in Points
  /\ \/ /\ Can(e, x, 1)
        /\ t = e.payload[x.taken + 1]
        /\ y = After(e, x, 1)
     \/ /\ t.k = "vis" /\ e.vision /\ x.mode = "framed" /\ x.body = 0 /\ x.rest = 0
        /\ y = [taken |-> x.taken, body |-> t.content, rest |-> t.padding,
                mode |-> ModeAfter(t.command)]
     \/ /\ t.k = "pad" /\ e.vision /\ x.mode # "closed" /\ x.body = 0 /\ x.rest > 0
        /\ y = Padded(x, 1)
     \/ /\ t.k = "ws" /\ e.transport = "ws" /\ x.mode # "closed" /\ x.body = 0
        /\ y = [x EXCEPT !.body = IF t.op = "data" THEN t.n ELSE 0,
                         !.mode = IF t.op = "close" THEN "closed" ELSE x.mode]
     \/ /\ t.k = "h2" /\ e.transport = "grpc" /\ x.mode # "closed" /\ x.body = 0
        /\ y = IF t.type = "data"
                 THEN [x EXCEPT !.body = t.n,
                                !.mode = IF t.last THEN "closed" ELSE x.mode]
                 ELSE x
     \/ /\ t.k = "msg" /\ e.transport = "grpc" /\ x.body > 0 /\ x.rest = 0 /\ t.n > 0
        /\ y = [x EXCEPT !.body = x.body - 1, !.rest = t.n]

\* y is x or a place after it: nothing comes after a stream that is closed and
\* read to the end.
Onward(x, y) ==
  /\ x.taken <= y.taken
  /\ x.mode = "closed" => y.mode = "closed" /\ (x.body = 0 => y = x)

\* p has the places between the tokens of s.
Passes(e, s, tls, p) ==
  /\ p \in [1..(Len(s) + 1) -> Points]
  /\ \A a \in 1..Len(s) : Token(e, p[a], s[a], p[a + 1]) /\ (Outside(p[a]) => ~tls)
  /\ \A a, b \in 1..(Len(s) + 1) : a <= b /\ Can(e, p[a], b - a) =>
       p[b] = After(e, p[a], b - a)
  /\ \A a, b \in 1..(Len(s) + 1) :
       a <= b /\ e.vision /\ p[a].body = 0 /\ b - a <= p[a].rest =>
         p[b] = Padded(p[a], b - a)
  /\ \A a, b \in 1..(Len(s) + 1) : a <= b => Onward(p[a], p[b])

\* The tokens s lead from place x to place y.
Leads(e, s, tls, x, y) == \E p : Passes(e, s, tls, p) /\ p[1] = x /\ p[Len(s) + 1] = y

\* What a setting of the layers is: Vision is over TCP only.
IsSetting(e) ==
  /\ e.transport \in {"tcp", "ws", "grpc"} /\ e.vision \in BOOLEAN
  /\ e.vision => e.transport = "tcp"

\* A run of payload is a run and another.
LEMMA AfterAdd ==
  ASSUME NEW e, NEW x \in Points, NEW j \in Nat, NEW k \in Nat, Can(e, x, j + k)
  PROVE  /\ Can(e, x, j) /\ After(e, x, j) \in Points /\ Can(e, After(e, x, j), k)
         /\ After(e, x, j + k) = After(e, After(e, x, j), k)
<1> DEFINE y == After(e, x, j)
<1>1. x.taken \in Nat /\ x.body \in Nat /\ x.rest \in Nat BY DEF Points
<1>2. Can(e, x, j) BY <1>1 DEF Can
<1>3. y \in Points BY <1>1, <1>2 DEF Can, Free, After, Points
<1>4. CASE Free(e, x)
  <2>1. e.transport = "tcp" BY <1>4 DEF Free
  <2>2. y.body = x.body /\ y.rest = x.rest /\ y.mode = x.mode /\ y.taken = x.taken + j
    BY <1>4, <2>1 DEF After
  <2>3. Free(e, y) BY <1>4, <2>2 DEF Free
  <2>4. After(e, x, j + k) = After(e, y, k)
    <3> HIDE DEF y
    <3> QED BY <1>1, <1>4, <2>1, <2>2, <2>3 DEF After
  <2> QED BY <1>2, <1>3, <2>1, <2>3, <2>4 DEF Can
<1>5. CASE ~Free(e, x)
  <2>1. y.body = x.body - j /\ y.mode = x.mode /\ y.taken = x.taken + j
        /\ y.rest = IF e.transport = "grpc" THEN x.rest - j ELSE x.rest
    BY <1>5 DEF After
  <2>2. Can(e, y, k)
    <3> HIDE DEF y
    <3> QED BY <1>1, <1>5, <2>1 DEF Can
  <2>3. Free(e, y) => k = 0
    <3>1. Free(e, y) => y.body = 0 BY <1>5, <2>1 DEF Free
    <3>2. k <= x.body - j \/ e.transport # "tcp" BY <1>1, <1>5 DEF Can
    <3> QED BY <1>1, <2>1, <3>1, <3>2 DEF Free
  <2>4. After(e, x, j + k) = After(e, y, k)
    <3> HIDE DEF y
    <3>1. y.taken + k = x.taken + (j + k) BY <1>1, <2>1
    <3>2. (IF Free(e, y) THEN y.body ELSE y.body - k) = x.body - (j + k)
      BY <1>1, <2>1, <2>3
    <3>3. (IF e.transport = "grpc" THEN y.rest - k ELSE y.rest)
            = IF e.transport = "grpc" THEN x.rest - (j + k) ELSE x.rest
      BY <1>1, <2>1
    <3> QED BY <1>5, <2>1, <3>1, <3>2, <3>3 DEF After
  <2> QED BY <1>2, <1>3, <2>2, <2>4
<1> QED BY <1>4, <1>5

\* No step at all.
LEMMA AfterNone ==
  ASSUME NEW e, NEW x \in Points
  PROVE  After(e, x, 0) = x /\ Padded(x, 0) = x
BY DEF Points, After, Padded

\* Padding after padding.
LEMMA PaddedAdd ==
  ASSUME NEW x \in Points, NEW j \in Nat, NEW k \in Nat, j + k <= x.rest
  PROVE  /\ Padded(x, j) \in Points /\ Padded(x, j).body = x.body
         /\ Padded(x, j).mode = x.mode /\ Padded(x, j).taken = x.taken
         /\ Padded(x, j).rest = x.rest - j
         /\ Padded(x, j + k) = Padded(Padded(x, j), k)
<1>1. x.rest \in Nat /\ x.rest - j \in Nat BY DEF Points
<1>2. x.rest - (j + k) = (x.rest - j) - k BY <1>1
<1> QED BY <1>1, <1>2 DEF Points, Padded

\* Onward, by any number of steps.
LEMMA OnwardAdd ==
  ASSUME NEW x \in Points, NEW y \in Points, NEW z \in Points
  PROVE  Onward(x, x) /\ (Onward(x, y) /\ Onward(y, z) => Onward(x, z))
BY DEF Onward, Points

\* A run of payload leads onward ...
LEMMA AfterOnward ==
  ASSUME NEW e, IsSetting(e), NEW x \in Points, NEW k \in Nat, Can(e, x, k)
  PROVE  Onward(x, After(e, x, k))
<1>1. x.taken \in Nat /\ x.body \in Nat BY DEF Points
<1>2. x.mode = "closed" /\ x.body = 0 => k = 0
  BY <1>1 DEF Can, Free, IsSetting
<1>3. After(e, x, k).taken = x.taken + k /\ After(e, x, k).mode = x.mode BY DEF After
<1> QED BY <1>1, <1>2, <1>3, AfterNone DEF Onward

\* ... and so does any token.
LEMMA TokenOnward ==
  ASSUME NEW e, IsSetting(e), NEW x \in Points, NEW t, NEW y, Token(e, x, t, y)
  PROVE  Onward(x, y)
<1>1. x.taken \in Nat /\ x.body \in Nat /\ x.taken <= x.taken BY DEF Points
<1>2. CASE Can(e, x, 1) /\ y = After(e, x, 1) BY <1>2, AfterOnward
<1>3. CASE /\ x.mode = "framed"
           /\ y = [taken |-> x.taken, body |-> t.content, rest |-> t.padding,
                   mode |-> ModeAfter(t.command)]
  <2>1. y.taken = x.taken BY <1>3
  <2> QED BY <1>1, <1>3, <2>1 DEF Onward
<1>4. CASE x.mode # "closed" /\ y = Padded(x, 1)
  <2>1. y.taken = x.taken BY <1>4 DEF Padded, Points
  <2> QED BY <1>1, <1>4, <2>1 DEF Onward
<1>5. CASE /\ x.mode # "closed"
           /\ y = [x EXCEPT !.body = IF t.op = "data" THEN t.n ELSE 0,
                            !.mode = IF t.op = "close" THEN "closed" ELSE x.mode]
  <2>1. y.taken = x.taken BY <1>5 DEF Points
  <2> QED BY <1>1, <1>5, <2>1 DEF Onward
<1>6. CASE /\ x.mode # "closed"
           /\ y \in {[x EXCEPT !.body = t.n, !.mode = IF t.last THEN "closed" ELSE x.mode], x}
  <2>1. y.taken = x.taken BY <1>6 DEF Points
  <2> QED BY <1>1, <1>6, <2>1 DEF Onward
<1>7. CASE x.body > 0 /\ y = [x EXCEPT !.body = x.body - 1, !.rest = t.n]
  <2>1. y.taken = x.taken /\ y.mode = x.mode BY <1>7 DEF Points
  <2> QED BY <1>1, <1>7, <2>1 DEF Onward
<1> QED BY <1>2, <1>3, <1>4, <1>5, <1>6, <1>7 DEF Token

\* No token leads nowhere.
LEMMA LeadsNone ==
  ASSUME NEW e, NEW tls, NEW x \in Points, NEW s, Len(s) = 0
  PROVE  /\ Leads(e, s, tls, x, x)
         /\ \A y : Leads(e, s, tls, x, y) => y = x
<1> DEFINE p == [i \in 1..(Len(s) + 1) |-> x]
<1>1. Passes(e, s, tls, p)
  <2>1. ~\E a : a \in 1..Len(s) OBVIOUS
  <2>2. \A a \in 1..(Len(s) + 1) : a = 1 /\ p[a] = x OBVIOUS
  <2>3. Onward(x, x) BY OnwardAdd
  <2> QED BY <2>1, <2>2, <2>3, AfterNone DEF Passes
<1>2. p[1] = x /\ p[Len(s) + 1] = x OBVIOUS
<1>3. Leads(e, s, tls, x, x) BY <1>1, <1>2 DEF Leads
<1>4. ASSUME NEW y, Leads(e, s, tls, x, y) PROVE y = x BY <1>4 DEF Leads
<1> QED BY <1>3, <1>4

\* One token leads where it does.
LEMMA LeadsOne ==
  ASSUME NEW e, IsSetting(e), NEW tls, NEW x \in Points, NEW y, NEW t, NEW s,
         s = <<t>>, Token(e, x, t, y), Outside(x) => ~tls
  PROVE  Leads(e, s, tls, x, y)
<1>1. Len(s) = 1 /\ s[1] = t OBVIOUS
<1> DEFINE p == [i \in 1..2 |-> IF i = 1 THEN x ELSE y]
<1>2. p[1] = x /\ p[2] = y OBVIOUS
<1>3. y \in Points BY DEF Token
<1>4. Can(e, x, 1) => y = After(e, x, 1)
  <2>1. x.body \in Nat /\ x.rest \in Nat BY DEF Points
  <2> QED BY <2>1 DEF Token, Can, Free, IsSetting
<1>5. e.vision /\ x.body = 0 /\ 1 <= x.rest => y = Padded(x, 1)
  <2>1. x.body \in Nat /\ x.rest \in Nat BY DEF Points
  <2> QED BY <2>1 DEF Token, Can, Free, IsSetting
<1>6. Passes(e, s, tls, p)
  <2>1. p \in [1..(Len(s) + 1) -> Points] BY <1>1, <1>3
  <2>2. \A a \in 1..Len(s) : Token(e, p[a], s[a], p[a + 1]) /\ (Outside(p[a]) => ~tls)
    <3> TAKE a \in 1..Len(s)
    <3>1. a = 1 /\ a + 1 = 2 BY <1>1
    <3> HIDE DEF p
    <3> QED BY <1>1, <1>2, <3>1
  <2>3. ASSUME NEW a \in 1..(Len(s) + 1), NEW b \in 1..(Len(s) + 1), a <= b
        PROVE  (a = b /\ b - a = 0) \/ (a = 1 /\ b = 2 /\ b - a = 1)
    BY <1>1, <2>3
  <2>4. \A a \in 1..(Len(s) + 1) : p[a] \in Points BY <2>1
  <2> HIDE DEF p
  <2>5. \A a, b \in 1..(Len(s) + 1) : a <= b /\ Can(e, p[a], b - a) =>
          p[b] = After(e, p[a], b - a)
    BY <1>2, <1>4, <2>3, <2>4, AfterNone
  <2>6. \A a, b \in 1..(Len(s) + 1) :
          a <= b /\ e.vision /\ p[a].body = 0 /\ b - a <= p[a].rest =>
            p[b] = Padded(p[a], b - a)
    BY <1>2, <1>5, <2>3, <2>4, AfterNone
  <2>7. Onward(x, y) BY TokenOnward
  <2>8. \A a, b \in 1..(Len(s) + 1) : a <= b => Onward(p[a], p[b])
    BY <1>2, <2>3, <2>4, <2>7, OnwardAdd
  <2> QED BY <2>1, <2>2, <2>5, <2>6, <2>8 DEF Passes
<1> QED BY <1>1, <1>2, <1>6 DEF Leads

\* A run of payload leads behind it.
LEMMA LeadsRun ==
  ASSUME NEW e, IsSetting(e), NEW tls, NEW x \in Points, NEW T, NEW s \in Seq(T),
         Can(e, x, Len(s)), \A i \in 1..Len(s) : s[i] = e.payload[x.taken + i],
         Len(s) > 0 /\ Outside(x) => ~tls
  PROVE  Leads(e, s, tls, x, After(e, x, Len(s)))
<1> DEFINE k == Len(s)
           p == [i \in 1..(k + 1) |-> After(e, x, i - 1)]
<1>1. k \in Nat BY LenProperties
<1>2. x.taken \in Nat /\ x.body \in Nat /\ x.rest \in Nat BY DEF Points
<1>3. ASSUME NEW a \in 1..(k + 1), NEW b \in 1..(k + 1), a <= b
      PROVE  /\ p[a] = After(e, x, a - 1) /\ p[b] = After(e, x, b - 1)
             /\ Can(e, x, a - 1) /\ p[a] \in Points
             /\ p[b] = After(e, p[a], b - a) /\ Can(e, p[a], b - a)
  <2>1. a - 1 \in Nat /\ b - a \in Nat /\ (a - 1) + (b - a) = b - 1 /\ b - 1 \in Nat
        /\ k - (b - 1) \in Nat /\ (b - 1) + (k - (b - 1)) = k
    BY <1>1, <1>3
  <2>2. Can(e, x, b - 1)
    <3>1. Can(e, x, (b - 1) + (k - (b - 1))) BY <2>1
    <3> QED BY <2>1, <3>1, AfterAdd
  <2>3. p[a] = After(e, x, a - 1) /\ p[b] = After(e, x, b - 1) OBVIOUS
  <2> HIDE DEF p
  <2>4. Can(e, x, (a - 1) + (b - a)) BY <2>1, <2>2
  <2>5. /\ Can(e, x, a - 1) /\ After(e, x, a - 1) \in Points
        /\ Can(e, After(e, x, a - 1), b - a)
        /\ After(e, x, (a - 1) + (b - a)) = After(e, After(e, x, a - 1), b - a)
    BY <2>1, <2>4, AfterAdd
  <2> QED BY <2>1, <2>3, <2>5
<1>4. ASSUME NEW a \in 1..k
      PROVE  Token(e, p[a], s[a], p[a + 1]) /\ (Outside(p[a]) => ~tls)
  <2>1. a \in 1..(k + 1) /\ a + 1 \in 1..(k + 1) /\ a <= a + 1 /\ (a + 1) - a = 1
    BY <1>1, <1>4
  <2>2. /\ p[a] = After(e, x, a - 1) /\ p[a] \in Points /\ p[a + 1] \in Points
        /\ p[a + 1] = After(e, p[a], 1) /\ Can(e, p[a], 1)
    <3>1. a + 1 <= a + 1 BY <2>1
    <3>2. p[a + 1] \in Points BY <1>3, <2>1, <3>1
    <3>3. /\ p[a] = After(e, x, a - 1) /\ p[a] \in Points
          /\ p[a + 1] = After(e, p[a], (a + 1) - a) /\ Can(e, p[a], (a + 1) - a)
      BY <1>3, <2>1
    <3> HIDE DEF p
    <3> QED BY <2>1, <3>2, <3>3
  <2>3. p[a].taken = x.taken + (a - 1) BY <2>2 DEF After
  <2>4. s[a] = e.payload[p[a].taken + 1]
    <3>1. p[a].taken + 1 = x.taken + a BY <1>2, <2>1, <2>3
    <3> QED BY <3>1
  <2>5. Outside(p[a]) => Outside(x)
    <3>1. Free(e, x) => p[a].body = x.body /\ p[a].rest = x.rest /\ p[a].mode = x.mode
      BY <2>2 DEF After, Free
    <3>2. ~Free(e, x) /\ Outside(p[a]) => FALSE
      <4>1. ~Free(e, x) => p[a].body = x.body - (a - 1) /\ k <= x.body
        BY <2>2, <1>1, <1>2 DEF After, Can, IsSetting
      <4> QED BY <1>1, <1>2, <2>1, <4>1 DEF Outside
    <3> QED BY <3>1, <3>2 DEF Outside
  <2>6. k > 0 BY <1>1, <1>4
  <2> HIDE DEF p
  <2> QED BY <2>2, <2>4, <2>5, <2>6 DEF Token
<1>5. Passes(e, s, tls, p)
  <2>1. p \in [1..(Len(s) + 1) -> Points]
    <3>1. \A a \in 1..(k + 1) : After(e, x, a - 1) \in Points
      <4> TAKE a \in 1..(k + 1)
      <4>1. p[a] \in Points /\ p[a] = After(e, x, a - 1) BY <1>1, <1>3
      <4> QED BY <4>1
    <3> QED BY <3>1
  <2>2. ASSUME NEW a \in 1..(Len(s) + 1), NEW b \in 1..(Len(s) + 1),
               a <= b, e.vision, p[a].body = 0, b - a <= p[a].rest
        PROVE  p[b] = Padded(p[a], b - a)
    <3>1. CASE a = b
      <4>1. b - a = 0 /\ p[a] \in Points BY <2>1, <3>1
      <4> QED BY <3>1, <4>1, AfterNone
    <3>2. CASE a < b
      <4>1. p[a] \in Points /\ Can(e, p[a], b - a) /\ b - a >= 1 BY <1>1, <1>3, <2>2, <3>2
      <4>2. p[a].rest >= 1 /\ p[a].body = 0 BY <2>2, <4>1 DEF Points
      <4> HIDE DEF p
      <4>3. FALSE BY <2>2, <4>1, <4>2 DEF Can, Free, IsSetting
      <4> QED BY <4>3
    <3> QED BY <2>2, <3>1, <3>2
  <2> HIDE DEF p
  <2>3. ASSUME NEW a \in 1..(k + 1), NEW b \in 1..(k + 1), a <= b
        PROVE  Onward(p[a], p[b])
    <3>1. b - a \in Nat BY <1>1, <2>3
    <3>2. p[a] \in Points /\ p[b] = After(e, p[a], b - a) /\ Can(e, p[a], b - a)
      BY <1>3, <2>3
    <3> QED BY <3>1, <3>2, AfterOnward
  <2> QED BY <1>3, <1>4, <2>1, <2>2, <2>3 DEF Passes
<1>6. p[1] = x /\ p[Len(s) + 1] = After(e, x, Len(s))
  <2>1. p[1] = After(e, x, 1 - 1) /\ p[k + 1] = After(e, x, (k + 1) - 1) BY <1>1
  <2>2. 1 - 1 = 0 /\ (k + 1) - 1 = k BY <1>1
  <2> HIDE DEF p
  <2> QED BY <2>1, <2>2, AfterNone
<1> QED BY <1>5, <1>6 DEF Leads

\* So does padding.
LEMMA LeadsPads ==
  ASSUME NEW e, IsSetting(e), e.vision, NEW tls, NEW x \in Points, NEW T, NEW s \in Seq(T),
         x.mode # "closed", x.body = 0, Len(s) <= x.rest, \A i \in 1..Len(s) : s[i].k = "pad"
  PROVE  Leads(e, s, tls, x, Padded(x, Len(s)))
<1> DEFINE k == Len(s)
           p == [i \in 1..(k + 1) |-> Padded(x, i - 1)]
<1>1. k \in Nat /\ x.rest \in Nat BY LenProperties DEF Points
<1>2. ASSUME NEW a \in 1..(k + 1), NEW b \in 1..(k + 1), a <= b
      PROVE  /\ p[a] \in Points /\ p[a].body = 0 /\ p[a].rest = x.rest - (a - 1)
             /\ p[a].mode = x.mode /\ p[a].taken = x.taken
             /\ p[b] = Padded(p[a], b - a)
  <2>1. a - 1 \in Nat /\ b - a \in Nat /\ (a - 1) + (b - a) = b - 1 /\ b - 1 <= x.rest
    BY <1>1, <1>2
  <2>2. p[a] = Padded(x, a - 1) /\ p[b] = Padded(x, b - 1) OBVIOUS
  <2> HIDE DEF p
  <2>3. (a - 1) + (b - a) <= x.rest BY <2>1
  <2>4. /\ Padded(x, a - 1) \in Points /\ Padded(x, a - 1).body = x.body
        /\ Padded(x, a - 1).rest = x.rest - (a - 1)
        /\ Padded(x, a - 1).mode = x.mode /\ Padded(x, a - 1).taken = x.taken
        /\ Padded(x, (a - 1) + (b - a)) = Padded(Padded(x, a - 1), b - a)
    BY <2>1, <2>3, PaddedAdd
  <2> QED BY <2>1, <2>2, <2>4
<1>3. ASSUME NEW a \in 1..k
      PROVE  Token(e, p[a], s[a], p[a + 1]) /\ (Outside(p[a]) => ~tls)
  <2>1. a \in 1..(k + 1) /\ a + 1 \in 1..(k + 1) /\ a <= a + 1 /\ (a + 1) - a = 1
    BY <1>1, <1>3
  <2>2. /\ p[a] \in Points /\ p[a + 1] \in Points /\ p[a].body = 0
        /\ p[a].rest = x.rest - (a - 1) /\ p[a].mode = x.mode /\ p[a + 1] = Padded(p[a], 1)
    <3>1. /\ p[a] \in Points /\ p[a].body = 0 /\ p[a].rest = x.rest - (a - 1)
          /\ p[a].mode = x.mode /\ p[a + 1] = Padded(p[a], (a + 1) - a)
      BY <1>2, <2>1
    <3>2. a + 1 <= a + 1 BY <2>1
    <3>3. p[a + 1] \in Points BY <1>2, <2>1, <3>2
    <3> HIDE DEF p
    <3> QED BY <2>1, <3>1, <3>3
  <2> HIDE DEF p
  <2>3. p[a].rest > 0
    <3>1. a <= x.rest /\ a \in Nat BY <1>1, <1>3
    <3> QED BY <1>1, <2>2, <3>1
  <2> QED BY <2>2, <2>3 DEF Token, Outside
<1>4. Passes(e, s, tls, p)
  <2>1. p \in [1..(Len(s) + 1) -> Points]
    <3>1. \A a \in 1..(k + 1) : Padded(x, a - 1) \in Points
      <4> TAKE a \in 1..(k + 1)
      <4>1. p[a] \in Points /\ p[a] = Padded(x, a - 1) BY <1>1, <1>2
      <4> QED BY <4>1
    <3> QED BY <3>1
  <2>2. ASSUME NEW a \in 1..(Len(s) + 1), NEW b \in 1..(Len(s) + 1),
               a <= b, Can(e, p[a], b - a)
        PROVE  p[b] = After(e, p[a], b - a)
    <3>1. CASE a = b
      <4>1. b - a = 0 /\ p[a] \in Points BY <2>1, <3>1
      <4> QED BY <3>1, <4>1, AfterNone
    <3>2. CASE a < b
      <4>1. p[a].body = 0 /\ p[a].rest = x.rest - (a - 1) BY <1>1, <1>2
      <4>2. p[a].rest > 0 /\ b - a >= 1 BY <1>1, <3>2, <4>1
      <4> HIDE DEF p
      <4>3. FALSE BY <2>2, <4>1, <4>2 DEF Can, Free, IsSetting
      <4> QED BY <4>3
    <3> QED BY <2>2, <3>1, <3>2
  <2> HIDE DEF p
  <2>3. ASSUME NEW a \in 1..(k + 1), NEW b \in 1..(k + 1), a <= b
        PROVE  Onward(p[a], p[b])
    <3>1. /\ p[a].mode = x.mode /\ p[a].taken = x.taken BY <1>2, <2>3
    <3>2. b <= b BY <1>1
    <3>3. p[b].taken = x.taken BY <1>2, <2>3, <3>2
    <3>4. x.taken <= x.taken BY DEF Points
    <3> QED BY <3>1, <3>3, <3>4 DEF Onward
  <2> QED BY <1>2, <1>3, <2>1, <2>2, <2>3 DEF Passes
<1>5. p[1] = x /\ p[Len(s) + 1] = Padded(x, Len(s))
  <2>1. p[1] = Padded(x, 1 - 1) /\ p[k + 1] = Padded(x, (k + 1) - 1) BY <1>1
  <2>2. 1 - 1 = 0 /\ (k + 1) - 1 = k BY <1>1
  <2> HIDE DEF p
  <2> QED BY <2>1, <2>2, AfterNone
<1> QED BY <1>4, <1>5 DEF Leads

\* Tokens that lead from x to y, and others that lead from y to z.
LEMMA LeadsConcat ==
  ASSUME NEW e, IsSetting(e), NEW tls, NEW x, NEW y, NEW z,
         NEW T, NEW s \in Seq(T), NEW t \in Seq(T),
         Leads(e, s, tls, x, y), Leads(e, t, tls, y, z)
  PROVE  Leads(e, s \o t, tls, x, z)
<1> DEFINE m == Len(s)
           n == Len(t)
           u == s \o t
<1>1. /\ m \in Nat /\ n \in Nat /\ Len(u) = m + n
      /\ \A i \in 1..m : u[i] = s[i]
      /\ \A i \in 1..n : u[m + i] = t[i]
  BY LenProperties, ConcatProperties
<1>2. PICK p : Passes(e, s, tls, p) /\ p[1] = x /\ p[m + 1] = y BY DEF Leads
<1>3. PICK q : Passes(e, t, tls, q) /\ q[1] = y /\ q[n + 1] = z BY DEF Leads
<1>4. /\ \A i \in 1..(m + 1) : p[i] \in Points
      /\ \A i \in 1..(n + 1) : q[i] \in Points
  BY <1>2, <1>3 DEF Passes
<1> DEFINE r == [i \in 1..(m + n + 1) |-> IF i <= m THEN p[i] ELSE q[i - m]]
<1>5. /\ \A i \in 1..(m + 1) : r[i] = p[i]
      /\ \A i \in (m + 1)..(m + n + 1) : i - m \in 1..(n + 1) /\ r[i] = q[i - m]
  <2>1. \A i \in 1..(m + n + 1) : i <= m => r[i] = p[i] OBVIOUS
  <2>2. \A i \in 1..(m + n + 1) : i > m => r[i] = q[i - m] BY <1>1
  <2>3. m + 1 \in 1..(m + n + 1) /\ m + 1 > m /\ (m + 1) - m = 1 BY <1>1
  <2> HIDE DEF r
  <2>4. r[m + 1] = p[m + 1] BY <1>2, <1>3, <2>2, <2>3
  <2>5. \A i \in 1..(m + 1) : i \in 1..(m + n + 1) /\ (i <= m \/ i = m + 1) BY <1>1
  <2>6. \A i \in (m + 1)..(m + n + 1) : i \in 1..(m + n + 1) /\ i > m /\ i - m \in 1..(n + 1)
    BY <1>1
  <2> QED BY <2>1, <2>2, <2>4, <2>5, <2>6
<1>6. r \in [1..(m + n + 1) -> Points]
  <2>1. \A i \in 1..(m + n + 1) : (IF i <= m THEN p[i] ELSE q[i - m]) \in Points
    <3> TAKE i \in 1..(m + n + 1)
    <3>1. CASE i <= m
      <4>1. i \in 1..(m + 1) BY <1>1, <3>1
      <4> QED BY <1>4, <3>1, <4>1
    <3>2. CASE i > m
      <4>1. i - m \in 1..(n + 1) BY <1>1, <3>2
      <4> QED BY <1>1, <1>4, <3>2, <4>1
    <3> QED BY <1>1, <3>1, <3>2
  <2> QED BY <2>1
<1> HIDE DEF r
<1>7. ASSUME NEW a \in 1..(m + n)
      PROVE  Token(e, r[a], u[a], r[a + 1]) /\ (Outside(r[a]) => ~tls)
  <2>1. CASE a <= m
    <3>1. a \in 1..m /\ a \in 1..(m + 1) /\ a + 1 \in 1..(m + 1) BY <1>1, <2>1
    <3>2. Token(e, p[a], s[a], p[a + 1]) /\ (Outside(p[a]) => ~tls)
      BY <1>2, <3>1 DEF Passes
    <3> HIDE DEF u
    <3> QED BY <1>1, <1>5, <3>1, <3>2
  <2>2. CASE a > m
    <3> DEFINE b == a - m
    <3>1. /\ b \in 1..n /\ a \in (m + 1)..(m + n + 1) /\ a + 1 \in (m + 1)..(m + n + 1)
          /\ (a + 1) - m = b + 1 /\ a = m + b
      BY <1>1, <2>2
    <3>2. Token(e, q[b], t[b], q[b + 1]) /\ (Outside(q[b]) => ~tls)
      BY <1>3, <3>1 DEF Passes
    <3>3. u[a] = t[b] BY <1>1, <3>1
    <3>4. r[a] = q[b] /\ r[a + 1] = q[b + 1] BY <1>5, <3>1
    <3> HIDE DEF u, b
    <3> QED BY <3>2, <3>3, <3>4
  <2> QED BY <1>1, <2>1, <2>2
<1>8. ASSUME NEW a \in 1..(m + n + 1), NEW b \in 1..(m + n + 1), a <= b
      PROVE  \/ a \in 1..(m + 1) /\ b \in 1..(m + 1)
             \/ a \in (m + 1)..(m + n + 1) /\ b \in (m + 1)..(m + n + 1)
             \/ a \in 1..(m + 1) /\ b \in (m + 1)..(m + n + 1)
  BY <1>1, <1>8
<1>9. ASSUME NEW a \in 1..(m + n + 1), NEW b \in 1..(m + n + 1), a <= b, Can(e, r[a], b - a)
      PROVE  r[b] = After(e, r[a], b - a)
  <2>1. CASE a \in 1..(m + 1) /\ b \in 1..(m + 1)
    <3>1. r[a] = p[a] /\ r[b] = p[b] BY <1>5, <2>1
    <3> QED BY <1>2, <1>9, <2>1, <3>1 DEF Passes
  <2>2. CASE a \in (m + 1)..(m + n + 1) /\ b \in (m + 1)..(m + n + 1)
    <3>1. /\ r[a] = q[a - m] /\ r[b] = q[b - m]
          /\ a - m \in 1..(n + 1) /\ b - m \in 1..(n + 1)
      BY <1>5, <2>2
    <3>2. a - m <= b - m /\ (b - m) - (a - m) = b - a BY <1>1, <1>9
    <3>3. Can(e, q[a - m], (b - m) - (a - m)) BY <1>9, <3>1, <3>2
    <3>4. q[b - m] = After(e, q[a - m], (b - m) - (a - m))
      BY <1>3, <3>1, <3>2, <3>3 DEF Passes
    <3> QED BY <3>1, <3>2, <3>4
  <2>3. CASE a \in 1..(m + 1) /\ b \in (m + 1)..(m + n + 1)
    <3> DEFINE i == m + 1 - a
               j == b - m - 1
    <3>1. i \in Nat /\ j \in Nat /\ b - a = i + j /\ m + 1 - a = i /\ (b - m) - 1 = j
      BY <1>1, <2>3
    <3>2. r[a] = p[a] /\ p[a] \in Points /\ r[b] = q[b - m] /\ b - m \in 1..(n + 1)
      BY <1>4, <1>5, <2>3
    <3> HIDE DEF i, j
    <3>3. Can(e, p[a], i + j) BY <1>9, <3>1, <3>2
    <3>4. /\ Can(e, p[a], i) /\ Can(e, After(e, p[a], i), j)
          /\ After(e, p[a], i + j) = After(e, After(e, p[a], i), j)
      BY <3>1, <3>2, <3>3, AfterAdd
    <3>5. y = After(e, p[a], i)
      <4>1. m + 1 \in 1..(m + 1) /\ a <= m + 1 BY <1>1, <2>3
      <4>2. Can(e, p[a], m + 1 - a) BY <3>1, <3>4
      <4> QED BY <1>2, <2>3, <3>1, <4>1, <4>2 DEF Passes
    <3>6. q[b - m] = After(e, y, j)
      <4>1. 1 \in 1..(n + 1) /\ 1 <= b - m BY <1>1, <3>2
      <4>2. Can(e, q[1], (b - m) - 1) BY <1>3, <3>1, <3>4, <3>5
      <4> QED BY <1>3, <3>1, <3>2, <4>1, <4>2 DEF Passes
    <3> QED BY <3>1, <3>2, <3>4, <3>5, <3>6
  <2> QED BY <1>8, <1>9, <2>1, <2>2, <2>3
<1>10. ASSUME NEW a \in 1..(m + n + 1), NEW b \in 1..(m + n + 1),
              a <= b, e.vision, r[a].body = 0, b - a <= r[a].rest
       PROVE  r[b] = Padded(r[a], b - a)
  <2>1. CASE a \in 1..(m + 1) /\ b \in 1..(m + 1)
    <3>1. r[a] = p[a] /\ r[b] = p[b] BY <1>5, <2>1
    <3> QED BY <1>2, <1>10, <2>1, <3>1 DEF Passes
  <2>2. CASE a \in (m + 1)..(m + n + 1) /\ b \in (m + 1)..(m + n + 1)
    <3>1. /\ r[a] = q[a - m] /\ r[b] = q[b - m]
          /\ a - m \in 1..(n + 1) /\ b - m \in 1..(n + 1)
      BY <1>5, <2>2
    <3>2. a - m <= b - m /\ (b - m) - (a - m) = b - a BY <1>1, <1>10
    <3>3. q[a - m].body = 0 /\ (b - m) - (a - m) <= q[a - m].rest BY <1>10, <3>1, <3>2
    <3>4. q[b - m] = Padded(q[a - m], (b - m) - (a - m))
      BY <1>3, <1>10, <3>1, <3>2, <3>3 DEF Passes
    <3> QED BY <3>1, <3>2, <3>4
  <2>3. CASE a \in 1..(m + 1) /\ b \in (m + 1)..(m + n + 1)
    <3> DEFINE i == m + 1 - a
               j == b - m - 1
    <3>1. i \in Nat /\ j \in Nat /\ b - a = i + j /\ m + 1 - a = i /\ (b - m) - 1 = j
      BY <1>1, <2>3
    <3>2. r[a] = p[a] /\ p[a] \in Points /\ r[b] = q[b - m] /\ b - m \in 1..(n + 1)
      BY <1>4, <1>5, <2>3
    <3> HIDE DEF i, j
    <3>3. p[a].body = 0 /\ i + j <= p[a].rest /\ p[a].rest \in Nat
      BY <1>10, <3>1, <3>2 DEF Points
    <3>4. /\ Padded(p[a], i).body = 0 /\ Padded(p[a], i).rest = p[a].rest - i
          /\ Padded(p[a], i + j) = Padded(Padded(p[a], i), j)
      BY <3>1, <3>2, <3>3, PaddedAdd
    <3>5. y = Padded(p[a], i)
      <4>1. m + 1 \in 1..(m + 1) /\ a <= m + 1 BY <1>1, <2>3
      <4>2. m + 1 - a <= p[a].rest BY <3>1, <3>3
      <4> QED BY <1>2, <1>10, <2>3, <3>1, <3>3, <4>1, <4>2 DEF Passes
    <3>6. q[b - m] = Padded(y, j)
      <4>1. 1 \in 1..(n + 1) /\ 1 <= b - m BY <1>1, <3>2
      <4>2. q[1].body = 0 /\ (b - m) - 1 <= q[1].rest BY <1>3, <3>1, <3>3, <3>4, <3>5
      <4> QED BY <1>3, <1>10, <3>1, <3>2, <4>1, <4>2 DEF Passes
    <3> QED BY <3>1, <3>2, <3>4, <3>5, <3>6
  <2> QED BY <1>8, <1>10, <2>1, <2>2, <2>3
<1>11. ASSUME NEW a \in 1..(m + n + 1), NEW b \in 1..(m + n + 1), a <= b
       PROVE  Onward(r[a], r[b])
  <2>1. CASE a \in 1..(m + 1) /\ b \in 1..(m + 1)
    <3>1. r[a] = p[a] /\ r[b] = p[b] BY <1>5, <2>1
    <3> QED BY <1>2, <1>11, <2>1, <3>1 DEF Passes
  <2>2. CASE a \in (m + 1)..(m + n + 1) /\ b \in (m + 1)..(m + n + 1)
    <3>1. /\ r[a] = q[a - m] /\ r[b] = q[b - m]
          /\ a - m \in 1..(n + 1) /\ b - m \in 1..(n + 1)
      BY <1>5, <2>2
    <3>2. a - m <= b - m BY <1>1, <1>11
    <3>3. Onward(q[a - m], q[b - m]) BY <1>3, <3>1, <3>2 DEF Passes
    <3> QED BY <3>1, <3>3
  <2>3. CASE a \in 1..(m + 1) /\ b \in (m + 1)..(m + n + 1)
    <3>1. r[a] = p[a] /\ r[b] = q[b - m] /\ b - m \in 1..(n + 1) BY <1>5, <2>3
    <3>2. m + 1 \in 1..(m + 1) /\ a <= m + 1 /\ 1 \in 1..(n + 1) /\ 1 <= b - m
      BY <1>1, <2>3, <3>1
    <3>3. Onward(p[a], y) BY <1>2, <2>3, <3>2 DEF Passes
    <3>4. Onward(y, q[b - m]) BY <1>3, <3>1, <3>2 DEF Passes
    <3>5. p[a] \in Points /\ q[b - m] \in Points /\ y \in Points
      BY <1>2, <1>4, <2>3, <3>1, <3>2
    <3>6. Onward(p[a], q[b - m]) BY <3>3, <3>4, <3>5, OnwardAdd
    <3> QED BY <3>1, <3>6
  <2> QED BY <1>8, <1>11, <2>1, <2>2, <2>3
<1>12. Passes(e, u, tls, r)
  <2>1. Len(u) + 1 = m + n + 1 /\ Len(u) = m + n BY <1>1
  <2> HIDE DEF u
  <2> QED BY <1>6, <1>7, <1>9, <1>10, <1>11, <2>1 DEF Passes
<1>13. r[1] = x /\ r[Len(u) + 1] = z
  <2>1. /\ 1 \in 1..(m + 1) /\ m + n + 1 \in (m + 1)..(m + n + 1)
        /\ (m + n + 1) - m = n + 1 /\ Len(u) + 1 = m + n + 1
    BY <1>1
  <2> QED BY <1>2, <1>3, <1>5, <2>1
<1> QED BY <1>12, <1>13 DEF Leads

\* The first n tokens lead somewhere, and the others from there.
LEMMA LeadsSplit ==
  ASSUME NEW e, NEW tls, NEW x, NEW z, NEW T, NEW s \in Seq(T), NEW n \in 0..Len(s),
         Leads(e, s, tls, x, z)
  PROVE  \E y \in Points :
           /\ Leads(e, Prefix(s, n), tls, x, y) /\ Leads(e, Drop(s, n), tls, y, z)
           /\ n < Len(s) /\ Outside(y) => ~tls
<1> DEFINE m == Len(s)
           u == Prefix(s, n)
           v == Drop(s, n)
<1>1. PICK p : Passes(e, s, tls, p) /\ p[1] = x /\ p[m + 1] = z BY DEF Leads
<1>2. m \in Nat /\ n \in Nat /\ m - n \in Nat BY LenProperties
<1>3. Len(u) = n /\ \A i \in 1..n : u[i] = s[i]
  <2>1. \A i \in 1..n : s[i] \in T BY <1>2, LenProperties
  <2>2. /\ Len(SubSeq(s, 1, n)) = IF 1 <= n THEN n - 1 + 1 ELSE 0
        /\ \A i \in 1..(n - 1 + 1) : SubSeq(s, 1, n)[i] = s[1 + i - 1]
    BY <1>2, <2>1, SubSeqProperties
  <2>3. n - 1 + 1 = n /\ \A i \in 1..n : 1 + i - 1 = i BY <1>2
  <2> QED BY <1>2, <2>2, <2>3 DEF Prefix
<1>4. Len(v) = m - n /\ \A i \in 1..(m - n) : v[i] = s[n + i]
  <2>1. \A i \in (n + 1)..m : s[i] \in T BY <1>2, LenProperties
  <2>2. /\ Len(SubSeq(s, n + 1, m)) = IF n + 1 <= m THEN m - (n + 1) + 1 ELSE 0
        /\ \A i \in 1..(m - (n + 1) + 1) : SubSeq(s, n + 1, m)[i] = s[n + 1 + i - 1]
    BY <1>2, <2>1, SubSeqProperties
  <2>3. m - (n + 1) + 1 = m - n BY <1>2
  <2>4. v = SubSeq(s, n + 1, m) BY DEF Drop
  <2> HIDE DEF v, m
  <2>5. Len(v) = m - n
    <3>1. CASE n + 1 <= m BY <2>2, <2>3, <2>4, <3>1
    <3>2. CASE ~(n + 1 <= m)
      <4>1. m - n = 0 BY <1>2, <3>2
      <4> QED BY <2>2, <2>4, <3>2, <4>1
    <3> QED BY <3>1, <3>2
  <2>6. ASSUME NEW i \in 1..(m - n) PROVE v[i] = s[n + i]
    <3>1. i \in 1..(m - (n + 1) + 1) /\ n + 1 + i - 1 = n + i BY <1>2, <2>3
    <3>2. SubSeq(s, n + 1, m)[i] = s[n + 1 + i - 1] BY <2>2, <3>1
    <3> QED BY <2>4, <3>1, <3>2
  <2> QED BY <2>5, <2>6
<1> DEFINE p1 == [i \in 1..(n + 1) |-> p[i]]
           p2 == [i \in 1..(m - n + 1) |-> p[n + i]]
<1>5. /\ p \in [1..(m + 1) -> Points]
      /\ \A a \in 1..m : Token(e, p[a], s[a], p[a + 1]) /\ (Outside(p[a]) => ~tls)
      /\ \A a, b \in 1..(m + 1) : a <= b /\ Can(e, p[a], b - a) => p[b] = After(e, p[a], b - a)
      /\ \A a, b \in 1..(m + 1) :
           a <= b /\ e.vision /\ p[a].body = 0 /\ b - a <= p[a].rest =>
             p[b] = Padded(p[a], b - a)
      /\ \A a, b \in 1..(m + 1) : a <= b => Onward(p[a], p[b])
  BY <1>1 DEF Passes
<1>6. Leads(e, u, tls, x, p[n + 1])
  <2>1. \A i \in 1..(n + 1) : i \in 1..(m + 1) /\ p1[i] = p[i] /\ p[i] \in Points
    BY <1>2, <1>5
  <2>2. p1 \in [1..(n + 1) -> Points] BY <2>1
  <2> HIDE DEF p1, u
  <2>3. ASSUME NEW a \in 1..n
        PROVE  Token(e, p1[a], u[a], p1[a + 1]) /\ (Outside(p1[a]) => ~tls)
    <3>1. a \in 1..m /\ a \in 1..(n + 1) /\ a + 1 \in 1..(n + 1) BY <1>2
    <3> QED BY <1>3, <1>5, <2>1, <3>1
  <2>4. Passes(e, u, tls, p1) BY <1>3, <1>5, <2>1, <2>2, <2>3 DEF Passes
  <2>5. 1 \in 1..(n + 1) /\ n + 1 \in 1..(n + 1) BY <1>2
  <2>6. p1[1] = x /\ p1[Len(u) + 1] = p[n + 1] BY <1>1, <1>3, <2>1, <2>5
  <2> QED BY <2>4, <2>6 DEF Leads
<1>7. Leads(e, v, tls, p[n + 1], z)
  <2>1. \A i \in 1..(m - n + 1) : n + i \in 1..(m + 1) /\ p2[i] = p[n + i] /\ p[n + i] \in Points
    BY <1>2, <1>5
  <2>2. p2 \in [1..(m - n + 1) -> Points] BY <2>1
  <2> HIDE DEF p2, v
  <2>3. ASSUME NEW a \in 1..(m - n)
        PROVE  Token(e, p2[a], v[a], p2[a + 1]) /\ (Outside(p2[a]) => ~tls)
    <3>1. n + a \in 1..m /\ a \in 1..(m - n + 1) /\ a + 1 \in 1..(m - n + 1)
          /\ (n + a) + 1 = n + (a + 1)
      BY <1>2
    <3>2. Token(e, p[n + a], s[n + a], p[(n + a) + 1]) /\ (Outside(p[n + a]) => ~tls)
      BY <1>5, <3>1
    <3>3. v[a] = s[n + a] BY <1>4
    <3>4. p2[a] = p[n + a] /\ p2[a + 1] = p[n + (a + 1)] BY <2>1, <3>1
    <3> QED BY <3>1, <3>2, <3>3, <3>4
  <2>4. ASSUME NEW a \in 1..(m - n + 1), NEW b \in 1..(m - n + 1), a <= b
        PROVE  /\ n + a \in 1..(m + 1) /\ n + b \in 1..(m + 1) /\ n + a <= n + b
               /\ (n + b) - (n + a) = b - a /\ p2[a] = p[n + a] /\ p2[b] = p[n + b]
    BY <1>2, <2>1, <2>4
  <2>5. ASSUME NEW a \in 1..(m - n + 1), NEW b \in 1..(m - n + 1), a <= b,
               Can(e, p2[a], b - a)
        PROVE  p2[b] = After(e, p2[a], b - a)
    <3>1. Can(e, p[n + a], (n + b) - (n + a)) BY <2>4, <2>5
    <3>2. p[n + b] = After(e, p[n + a], (n + b) - (n + a)) BY <1>5, <2>4, <2>5, <3>1
    <3> QED BY <2>4, <2>5, <3>2
  <2>6. ASSUME NEW a \in 1..(m - n + 1), NEW b \in 1..(m - n + 1), a <= b,
               e.vision, p2[a].body = 0, b - a <= p2[a].rest
        PROVE  p2[b] = Padded(p2[a], b - a)
    <3>1. p[n + a].body = 0 /\ (n + b) - (n + a) <= p[n + a].rest BY <2>4, <2>6
    <3>2. p[n + b] = Padded(p[n + a], (n + b) - (n + a)) BY <1>5, <2>4, <2>6, <3>1
    <3> QED BY <2>4, <2>6, <3>2
  <2>10. ASSUME NEW a \in 1..(m - n + 1), NEW b \in 1..(m - n + 1), a <= b
         PROVE  Onward(p2[a], p2[b])
    <3>1. Onward(p[n + a], p[n + b]) BY <1>5, <2>4, <2>10
    <3> QED BY <2>4, <2>10, <3>1
  <2>7. Passes(e, v, tls, p2) BY <1>4, <2>2, <2>3, <2>5, <2>6, <2>10 DEF Passes
  <2>8. 1 \in 1..(m - n + 1) /\ m - n + 1 \in 1..(m - n + 1) /\ n + (m - n + 1) = m + 1
    BY <1>2
  <2>9. p2[1] = p[n + 1] /\ p2[Len(v) + 1] = z BY <1>1, <1>4, <2>1, <2>8
  <2> QED BY <2>7, <2>9 DEF Leads
<1>8. p[n + 1] \in Points /\ (n < m /\ Outside(p[n + 1]) => ~tls)
  <2>1. n + 1 \in 1..(m + 1) /\ (n < m => n + 1 \in 1..m) BY <1>2
  <2> QED BY <1>5, <2>1
<1> QED BY <1>6, <1>7, <1>8

\* What a run of tokens is, if the place before it says that it is payload ...
LEMMA RunLeads ==
  ASSUME NEW e, IsSetting(e), NEW tls, NEW x \in Points, NEW y, NEW T, NEW s \in Seq(T),
         Leads(e, s, tls, x, y), Can(e, x, Len(s))
  PROVE  /\ y = After(e, x, Len(s))
         /\ \A i \in 1..Len(s) : s[i] = e.payload[x.taken + i]
<1> DEFINE m == Len(s)
<1>1. PICK p : Passes(e, s, tls, p) /\ p[1] = x /\ p[m + 1] = y BY DEF Leads
<1>2. m \in Nat /\ x.taken \in Nat /\ x.body \in Nat /\ x.rest \in Nat
  BY LenProperties DEF Points
<1>3. ASSUME NEW b \in 1..(m + 1)
      PROVE  p[b] = After(e, x, b - 1) /\ Can(e, x, b - 1)
  <2>1. b - 1 \in Nat /\ m - (b - 1) \in Nat /\ (b - 1) + (m - (b - 1)) = m
        /\ 1 \in 1..(m + 1) /\ 1 <= b
    BY <1>2
  <2>2. Can(e, x, (b - 1) + (m - (b - 1))) BY <2>1
  <2>3. Can(e, x, b - 1) BY <2>1, <2>2, AfterAdd
  <2> QED BY <1>1, <2>1, <2>3 DEF Passes
<1>4. y = After(e, x, m)
  <2>1. m + 1 \in 1..(m + 1) /\ (m + 1) - 1 = m BY <1>2
  <2> QED BY <1>1, <1>3, <2>1
<1>5. ASSUME NEW i \in 1..m PROVE s[i] = e.payload[x.taken + i]
  <2>1. i \in 1..(m + 1) /\ i - 1 \in Nat /\ (i - 1) + 1 = i /\ i + 1 \in 1..(m + 1)
        /\ (i + 1) - 1 = i
    BY <1>2
  <2>2. Token(e, p[i], s[i], p[i + 1]) BY <1>1 DEF Passes
  <2>3. p[i] = After(e, x, i - 1) /\ Can(e, x, (i - 1) + 1) BY <1>3, <2>1
  <2>4. p[i] \in Points /\ Can(e, p[i], 1) BY <2>1, <2>3, AfterAdd
  <2>5. p[i].taken + 1 = x.taken + i BY <1>2, <2>1, <2>3 DEF After
  <2>6. p[i].body \in Nat /\ p[i].rest \in Nat BY <2>4 DEF Points
  <2>7. s[i] = e.payload[p[i].taken + 1] BY <2>2, <2>4, <2>6 DEF Token, Can, Free, IsSetting
  <2> QED BY <2>5, <2>7
<1> QED BY <1>4, <1>5

\* ... or padding.
LEMMA PadsLead ==
  ASSUME NEW e, e.vision, NEW tls, NEW x, NEW y, NEW T, NEW s \in Seq(T),
         Leads(e, s, tls, x, y), x.body = 0, Len(s) <= x.rest
  PROVE  y = Padded(x, Len(s))
<1> DEFINE m == Len(s)
<1>1. PICK p : Passes(e, s, tls, p) /\ p[1] = x /\ p[m + 1] = y BY DEF Leads
<1>2. m \in Nat /\ 1 \in 1..(m + 1) /\ m + 1 \in 1..(m + 1) /\ 1 <= m + 1 /\ (m + 1) - 1 = m
  BY LenProperties
<1> QED BY <1>1, <1>2 DEF Passes

\* All that comes below TLS is payload.
LEMMA OutsideLeads ==
  ASSUME NEW e, e.vision, e.transport = "tcp", NEW tls, NEW x, NEW y, NEW T, NEW s \in Seq(T),
         Leads(e, s, tls, x, y), Outside(x)
  PROVE  Outside(y)
<1> DEFINE m == Len(s)
<1>1. PICK p : Passes(e, s, tls, p) /\ p[1] = x /\ p[m + 1] = y BY DEF Leads
<1>2. m \in Nat /\ 1 \in 1..(m + 1) /\ m + 1 \in 1..(m + 1) /\ 1 <= m + 1 /\ (m + 1) - 1 = m
  BY LenProperties
<1>3. Free(e, x) /\ Can(e, x, m) BY DEF Free, Can, Outside
<1>4. y = After(e, x, m) BY <1>1, <1>2, <1>3 DEF Passes
<1>5. y.mode = x.mode /\ y.body = x.body /\ y.rest = x.rest BY <1>3, <1>4 DEF After
<1> QED BY <1>5 DEF Outside

\* What a single token is.
LEMMA OneLeads ==
  ASSUME NEW e, NEW tls, NEW x, NEW y, NEW s, Len(s) = 1, Leads(e, s, tls, x, y)
  PROVE  Token(e, x, s[1], y)
<1>1. PICK p : Passes(e, s, tls, p) /\ p[1] = x /\ p[Len(s) + 1] = y BY DEF Leads
<1>2. 1 \in 1..Len(s) /\ p[1 + 1] = y BY <1>1
<1> QED BY <1>1, <1>2 DEF Passes

-----------------------------------------------------------------------------
(* What is under way: the rest of a record, and the records in the socket. *)

\* c has the places before, between and behind the records q in the socket, when
\* pend, of the record that is being read, is read from place x.
Way(e, x, pend, q, c) ==
  /\ c \in [1..(Len(q) + 1) -> Points]
  /\ Leads(e, pend, TRUE, x, c[1])
  /\ \A j \in 1..Len(q) : /\ Leads(e, q[j].tokens, q[j].tls, c[j], c[j + 1])
                          /\ Fitting(e, c[j], q[j].tls)
  /\ \A i, j \in 1..(Len(q) + 1) : i <= j => Onward(c[i], c[j])

\* What is under way leads from place x to place y.
Reaches(e, x, pend, q, y) == \E c : Way(e, x, pend, q, c) /\ c[Len(q) + 1] = y

\* Tokens lead onward.
LEMMA LeadsOnward ==
  ASSUME NEW e, NEW s, Len(s) \in Nat, NEW tls, NEW x, NEW y, Leads(e, s, tls, x, y)
  PROVE  x \in Points /\ y \in Points /\ Onward(x, y)
<1>1. PICK p : Passes(e, s, tls, p) /\ p[1] = x /\ p[Len(s) + 1] = y BY DEF Leads
<1>2. 1 \in 1..(Len(s) + 1) /\ Len(s) + 1 \in 1..(Len(s) + 1) /\ 1 <= Len(s) + 1 OBVIOUS
<1> QED BY <1>1, <1>2 DEF Passes

\* So does all that is under way.
LEMMA ReachesOnward ==
  ASSUME NEW e, NEW pend, Len(pend) \in Nat, NEW q, Len(q) \in Nat, NEW x, NEW y,
         Reaches(e, x, pend, q, y)
  PROVE  x \in Points /\ y \in Points /\ Onward(x, y)
<1>1. PICK c : Way(e, x, pend, q, c) /\ c[Len(q) + 1] = y BY DEF Reaches
<1>2. 1 \in 1..(Len(q) + 1) /\ Len(q) + 1 \in 1..(Len(q) + 1) /\ 1 <= Len(q) + 1 OBVIOUS
<1>3. c[1] \in Points /\ y \in Points /\ Onward(c[1], y) BY <1>1, <1>2 DEF Way
<1>4. x \in Points /\ Onward(x, c[1]) BY <1>1, LeadsOnward DEF Way
<1> QED BY <1>3, <1>4, OnwardAdd

\* Nothing under way leads nowhere.
LEMMA ReachesNone ==
  ASSUME NEW e, NEW pend, Len(pend) = 0, NEW q, Len(q) = 0, NEW x
  PROVE  /\ x \in Points => Reaches(e, x, pend, q, x)
         /\ \A y : Reaches(e, x, pend, q, y) => x = y
<1>1. ASSUME x \in Points PROVE Reaches(e, x, pend, q, x)
  <2> DEFINE c == [i \in 1..(Len(q) + 1) |-> x]
  <2>1. c[1] = x /\ c[Len(q) + 1] = x OBVIOUS
  <2>2. c \in [1..(Len(q) + 1) -> Points] BY <1>1
  <2>3. \A i \in 1..(Len(q) + 1) : c[i] = x OBVIOUS
  <2>4. Leads(e, pend, TRUE, x, x) /\ Onward(x, x) BY <1>1, LeadsNone, OnwardAdd
  <2>5. ~\E j : j \in 1..Len(q) OBVIOUS
  <2> HIDE DEF c
  <2>6. Way(e, x, pend, q, c) BY <2>1, <2>2, <2>3, <2>4, <2>5 DEF Way
  <2> QED BY <2>1, <2>6 DEF Reaches
<1>2. ASSUME NEW y, Reaches(e, x, pend, q, y) PROVE x = y
  <2>1. PICK c : Way(e, x, pend, q, c) /\ c[Len(q) + 1] = y BY <1>2 DEF Reaches
  <2>2. Leads(e, pend, TRUE, x, y)
    <3>1. Len(q) + 1 = 1 OBVIOUS
    <3> QED BY <2>1, <3>1 DEF Way
  <2>3. x \in Points
    <3>1. Len(pend) \in Nat OBVIOUS
    <3> QED BY <2>2, <3>1, LeadsOnward
  <2> QED BY <2>2, <2>3, LeadsNone
<1> QED BY <1>1, <1>2

\* The record that is being read, and those behind it.
LEMMA ReachesRest ==
  ASSUME NEW e, NEW pend, Len(pend) \in Nat, NEW q, Len(q) \in Nat, NEW x, NEW y,
         Reaches(e, x, pend, q, y)
  PROVE  \E z \in Points :
           /\ Leads(e, pend, TRUE, x, z)
           /\ \A w, s : Leads(e, s, TRUE, w, z) => Reaches(e, w, s, q, y)
<1>1. PICK c : Way(e, x, pend, q, c) /\ c[Len(q) + 1] = y BY DEF Reaches
<1>2. Leads(e, pend, TRUE, x, c[1]) BY <1>1 DEF Way
<1>3. c[1] \in Points BY <1>2, LeadsOnward
<1>4. ASSUME NEW w, NEW s, Leads(e, s, TRUE, w, c[1]) PROVE Reaches(e, w, s, q, y)
  <2>1. Way(e, w, s, q, c) BY <1>1, <1>4 DEF Way
  <2> QED BY <1>1, <2>1 DEF Reaches
<1> QED BY <1>2, <1>3, <1>4

\* The first record in the socket, and those behind it.
LEMMA ReachesTail ==
  ASSUME NEW e, NEW pend, Len(pend) = 0, NEW S, NEW q \in Seq(S), q # <<>>, NEW x, NEW y,
         Reaches(e, x, pend, q, y)
  PROVE  \E z \in Points :
           /\ Leads(e, Head(q).tokens, Head(q).tls, x, z)
           /\ Fitting(e, x, Head(q).tls)
           /\ \A w, s : Leads(e, s, TRUE, w, z) => Reaches(e, w, s, Tail(q), y)
           /\ \A w \in Points : \A r :
                /\ r \in S /\ Len(r.tokens) \in Nat
                /\ Leads(e, r.tokens, r.tls, w, z) /\ Fitting(e, w, r.tls)
                => Reaches(e, w, pend, <<r>> \o Tail(q), y)
<1> DEFINE m == Len(q)
<1>1. PICK c : Way(e, x, pend, q, c) /\ c[m + 1] = y BY DEF Reaches
<1>2. /\ m \in Nat /\ m > 0 /\ Tail(q) \in Seq(S) /\ Len(Tail(q)) = m - 1 /\ Head(q) = q[1]
      /\ \A i \in 1..(m - 1) : Tail(q)[i] = q[i + 1]
  BY LenProperties, EmptySeq, HeadTailProperties
<1>3. /\ c \in [1..(m + 1) -> Points]
      /\ \A j \in 1..m : /\ Leads(e, q[j].tokens, q[j].tls, c[j], c[j + 1])
                         /\ Fitting(e, c[j], q[j].tls)
      /\ \A i, j \in 1..(m + 1) : i <= j => Onward(c[i], c[j])
  BY <1>1 DEF Way
<1>4. c[1] = x
  <2>1. Leads(e, pend, TRUE, x, c[1]) BY <1>1 DEF Way
  <2>2. x \in Points
    <3>1. Len(pend) \in Nat OBVIOUS
    <3> QED BY <2>1, <3>1, LeadsOnward
  <2> QED BY <2>1, <2>2, LeadsNone
<1>5. 1 \in 1..m /\ 2 \in 1..(m + 1) /\ c[1 + 1] = c[2] BY <1>2
<1>6. c[2] \in Points BY <1>3, <1>5
<1>7. /\ Leads(e, Head(q).tokens, Head(q).tls, x, c[2])
      /\ Fitting(e, x, Head(q).tls)
  BY <1>2, <1>3, <1>4, <1>5
<1>8. ASSUME NEW w, NEW s, Leads(e, s, TRUE, w, c[2])
      PROVE  Reaches(e, w, s, Tail(q), y)
  <2> DEFINE d == [i \in 1..m |-> c[i + 1]]
  <2>1. \A i \in 1..m : i + 1 \in 1..(m + 1) /\ d[i] = c[i + 1] BY <1>2
  <2>2. d \in [1..m -> Points] BY <1>3, <2>1
  <2>3. d[1] = c[2] /\ d[m] = y BY <1>1, <1>2, <2>1
  <2> HIDE DEF d
  <2>4. ASSUME NEW j \in 1..(m - 1)
        PROVE  /\ Leads(e, Tail(q)[j].tokens, Tail(q)[j].tls, d[j], d[j + 1])
               /\ Fitting(e, d[j], Tail(q)[j].tls)
    <3>1. j + 1 \in 1..m /\ j \in 1..m BY <1>2
    <3>2. d[j] = c[j + 1] /\ d[j + 1] = c[(j + 1) + 1] /\ Tail(q)[j] = q[j + 1]
      BY <1>2, <2>1, <3>1
    <3> QED BY <1>3, <3>1, <3>2
  <2>5. \A i, j \in 1..m : i <= j => Onward(d[i], d[j])
    <3> TAKE i, j \in 1..m
    <3>1. i + 1 \in 1..(m + 1) /\ j + 1 \in 1..(m + 1) /\ (i <= j => i + 1 <= j + 1) BY <1>2
    <3> QED BY <1>3, <2>1, <3>1
  <2>6. Len(Tail(q)) + 1 = m /\ Len(Tail(q)) = m - 1 BY <1>2
  <2>7. Way(e, w, s, Tail(q), d) BY <1>8, <2>2, <2>3, <2>4, <2>5, <2>6 DEF Way
  <2> QED BY <2>3, <2>6, <2>7 DEF Reaches
<1>9. ASSUME NEW w \in Points, NEW r \in S, Len(r.tokens) \in Nat,
             Leads(e, r.tokens, r.tls, w, c[2]), Fitting(e, w, r.tls)
      PROVE  Reaches(e, w, pend, <<r>> \o Tail(q), y)
  <2> DEFINE d == [c EXCEPT ![1] = w]
             u == <<r>> \o Tail(q)
  <2>1. <<r>> \in Seq(S) /\ Len(<<r>>) = 1 /\ <<r>>[1] = r OBVIOUS
  <2>2. Len(u) = 1 + (m - 1) /\ u[1] = r /\ \A i \in 1..(m - 1) : u[1 + i] = Tail(q)[i]
    <3> DEFINE one == <<r>>
    <3>1. one \in Seq(S) /\ Len(one) = 1 /\ one[1] = r BY <2>1
    <3> HIDE DEF one
    <3>2. /\ Len(one \o Tail(q)) = 1 + (m - 1)
          /\ \A i \in 1..1 : (one \o Tail(q))[i] = one[i]
          /\ \A i \in 1..(m - 1) : (one \o Tail(q))[1 + i] = Tail(q)[i]
      BY <1>2, <3>1, ConcatProperties
    <3>3. (one \o Tail(q))[1] = r BY <3>1, <3>2
    <3> QED BY <3>2, <3>3 DEF one
  <2> HIDE DEF u
  <2>3. /\ d \in [1..(m + 1) -> Points] /\ d[1] = w
        /\ \A i \in 2..(m + 1) : d[i] = c[i] /\ i \in 1..(m + 1)
    BY <1>2, <1>3
  <2> HIDE DEF d
  <2>4. Len(u) = m BY <1>2, <2>2
  <2>5. ASSUME NEW j \in 1..m
        PROVE  Leads(e, u[j].tokens, u[j].tls, d[j], d[j + 1]) /\ Fitting(e, d[j], u[j].tls)
    <3>1. CASE j = 1
      <4>1. d[j] = w /\ d[j + 1] = c[2] /\ u[j] = r BY <1>2, <2>2, <2>3, <3>1
      <4> QED BY <1>9, <4>1
    <3>2. CASE j # 1
      <4>1. j - 1 \in 1..(m - 1) /\ 1 + (j - 1) = j /\ (j - 1) + 1 = j
            /\ j \in 2..(m + 1) /\ j + 1 \in 2..(m + 1)
        BY <1>2, <3>2
      <4>2. u[1 + (j - 1)] = Tail(q)[j - 1] BY <2>2, <4>1
      <4>3. Tail(q)[j - 1] = q[(j - 1) + 1] BY <1>2, <4>1
      <4>4. u[j] = q[j] BY <4>1, <4>2, <4>3
      <4>5. d[j] = c[j] /\ d[j + 1] = c[j + 1] BY <2>3, <4>1
      <4> QED BY <1>3, <4>4, <4>5
    <3> QED BY <3>1, <3>2
  <2>6. ASSUME NEW i \in 1..(m + 1), NEW j \in 1..(m + 1), i <= j
        PROVE  Onward(d[i], d[j])
    <3>1. CASE j = 1
      <4>1. d[i] = w /\ d[j] = w BY <2>3, <2>6, <3>1
      <4> QED BY <4>1, OnwardAdd
    <3>2. CASE i = 1 /\ j # 1
      <4>1. j \in 2..(m + 1) /\ 2 <= j /\ 2 \in 1..(m + 1) BY <1>2, <3>2
      <4>2. Onward(w, c[2]) BY <1>9, LeadsOnward
      <4>3. Onward(c[2], c[j]) /\ c[2] \in Points /\ c[j] \in Points BY <1>3, <4>1
      <4>4. Onward(w, c[j]) BY <4>2, <4>3, OnwardAdd
      <4> QED BY <2>3, <3>2, <4>1, <4>4
    <3>3. CASE i # 1
      <4>1. i \in 2..(m + 1) /\ j \in 2..(m + 1) BY <2>6, <3>3
      <4> QED BY <1>3, <2>3, <2>6, <4>1
    <3> QED BY <3>1, <3>2, <3>3
  <2>7. Leads(e, pend, TRUE, w, d[1]) BY <2>3, LeadsNone
  <2>8. Way(e, w, pend, u, d) BY <2>3, <2>4, <2>5, <2>6, <2>7 DEF Way
  <2>9. d[Len(u) + 1] = y BY <1>1, <1>2, <2>3, <2>4
  <2>10. Reaches(e, w, pend, u, y) BY <2>8, <2>9 DEF Reaches
  <2> QED BY <2>10 DEF u
<1> QED BY <1>6, <1>7, <1>8, <1>9

\* A record more.
LEMMA ReachesAppend ==
  ASSUME NEW e, NEW pend, NEW S, NEW q \in Seq(S), NEW x, NEW y, NEW z,
         Reaches(e, x, pend, q, y), NEW r \in S, Len(r.tokens) \in Nat,
         Leads(e, r.tokens, r.tls, y, z), Fitting(e, y, r.tls)
  PROVE  Reaches(e, x, pend, Append(q, r), z)
<1> DEFINE m == Len(q)
           u == Append(q, r)
<1>1. PICK c : Way(e, x, pend, q, c) /\ c[m + 1] = y BY DEF Reaches
<1>2. /\ m \in Nat /\ Len(u) = m + 1 /\ u[m + 1] = r
      /\ \A i \in 1..m : u[i] = q[i]
  BY LenProperties, AppendProperties
<1>3. /\ c \in [1..(m + 1) -> Points] /\ Leads(e, pend, TRUE, x, c[1])
      /\ \A j \in 1..m : /\ Leads(e, q[j].tokens, q[j].tls, c[j], c[j + 1])
                         /\ Fitting(e, c[j], q[j].tls)
      /\ \A i, j \in 1..(m + 1) : i <= j => Onward(c[i], c[j])
  BY <1>1 DEF Way
<1> DEFINE d == [i \in 1..(m + 2) |-> IF i <= m + 1 THEN c[i] ELSE z]
<1>4. y \in Points /\ z \in Points /\ Onward(y, z) BY LeadsOnward
<1>5. d \in [1..(m + 2) -> Points]
  <2>1. \A i \in 1..(m + 2) : i <= m + 1 => i \in 1..(m + 1) BY <1>2
  <2>2. \A i \in 1..(m + 2) : (IF i <= m + 1 THEN c[i] ELSE z) \in Points
    BY <1>3, <1>4, <2>1
  <2> QED BY <2>2
<1>6. (\A i \in 1..(m + 1) : d[i] = c[i]) /\ d[m + 2] = z BY <1>2
<1> HIDE DEF d, u
<1>7. ASSUME NEW j \in 1..(m + 1)
      PROVE  Leads(e, u[j].tokens, u[j].tls, d[j], d[j + 1]) /\ Fitting(e, d[j], u[j].tls)
  <2>1. CASE j = m + 1
    <3>1. d[j] = y /\ d[j + 1] = z /\ u[j] = r
      <4>1. j + 1 = m + 2 BY <1>2, <2>1
      <4> QED BY <1>1, <1>2, <1>6, <2>1, <4>1
    <3> QED BY <3>1
  <2>2. CASE j # m + 1
    <3>1. j \in 1..m /\ j + 1 \in 1..(m + 1) BY <1>2, <2>2
    <3> QED BY <1>2, <1>3, <1>6, <3>1
  <2> QED BY <2>1, <2>2
<1>8. ASSUME NEW i \in 1..(m + 2), NEW j \in 1..(m + 2), i <= j
      PROVE  Onward(d[i], d[j])
  <2>1. CASE j <= m + 1
    <3>1. i \in 1..(m + 1) /\ j \in 1..(m + 1) BY <1>2, <1>8, <2>1
    <3> QED BY <1>3, <1>6, <1>8, <3>1
  <2>2. CASE j = m + 2 /\ i <= m + 1
    <3>1. i \in 1..(m + 1) /\ m + 1 \in 1..(m + 1) BY <1>2, <2>2
    <3>2. Onward(c[i], y) /\ c[i] \in Points BY <1>1, <1>3, <2>2, <3>1
    <3>3. Onward(c[i], z) BY <1>4, <3>2, OnwardAdd
    <3> QED BY <1>6, <2>2, <3>1, <3>3
  <2>3. CASE j = m + 2 /\ i = m + 2 BY <1>4, <1>6, <2>3, OnwardAdd
  <2> QED BY <1>2, <1>8, <2>1, <2>2, <2>3
<1>9. Way(e, x, pend, u, d)
  <2>1. Len(u) + 1 = m + 2 /\ Len(u) = m + 1 /\ 1 \in 1..(m + 1) BY <1>2
  <2>2. Leads(e, pend, TRUE, x, d[1]) BY <1>3, <1>6, <2>1
  <2> QED BY <1>5, <1>7, <1>8, <2>1, <2>2 DEF Way
<1>10. d[Len(u) + 1] = z
  <2>1. Len(u) + 1 = m + 2 BY <1>2
  <2> QED BY <1>6, <2>1
<1> QED BY <1>9, <1>10 DEF Reaches, u

\* More in the last record.
LEMMA ReachesExtend ==
  ASSUME NEW e, IsSetting(e), NEW pend, NEW S, NEW q \in Seq(S), q # <<>>, NEW x, NEW y, NEW z,
         Reaches(e, x, pend, q, y), NEW T, q[Len(q)].tokens \in Seq(T), NEW s \in Seq(T),
         NEW tls, q[Len(q)].tls = tls, Leads(e, s, tls, y, z),
         NEW r, r.tls = tls, r.tokens = q[Len(q)].tokens \o s
  PROVE  Reaches(e, x, pend, [q EXCEPT ![Len(q)] = r], z)
<1> DEFINE m == Len(q)
           u == [q EXCEPT ![m] = r]
<1>1. PICK c : Way(e, x, pend, q, c) /\ c[m + 1] = y BY DEF Reaches
<1>2. m \in Nat /\ m > 0 /\ m \in 1..m /\ q \in [1..m -> S] BY LenProperties, EmptySeq
<1>3. /\ c \in [1..(m + 1) -> Points] /\ Leads(e, pend, TRUE, x, c[1])
      /\ \A j \in 1..m : /\ Leads(e, q[j].tokens, q[j].tls, c[j], c[j + 1])
                         /\ Fitting(e, c[j], q[j].tls)
      /\ \A i, j \in 1..(m + 1) : i <= j => Onward(c[i], c[j])
  BY <1>1 DEF Way
<1>4. u[m] = r /\ (\A i \in 1..m : i # m => u[i] = q[i]) /\ Len(u) = m
  <2>1. u \in [1..m -> S \cup {r}] BY <1>2
  <2>2. u \in Seq(S \cup {r}) /\ Len(u) = m BY <1>2, <2>1
  <2> QED BY <1>2, <2>2
<1> HIDE DEF u
<1>5. y \in Points /\ z \in Points /\ Onward(y, z)
  <2>1. Len(s) \in Nat BY LenProperties
  <2> QED BY <2>1, LeadsOnward
<1> DEFINE d == [c EXCEPT ![m + 1] = z]
<1>6. d \in [1..(m + 1) -> Points] /\ d[m + 1] = z /\ \A i \in 1..m : d[i] = c[i]
  BY <1>2, <1>3, <1>5
<1> HIDE DEF d
<1>7. ASSUME NEW j \in 1..m
      PROVE  Leads(e, u[j].tokens, u[j].tls, d[j], d[j + 1]) /\ Fitting(e, d[j], u[j].tls)
  <2>1. CASE j = m
    <3>1. Leads(e, q[m].tokens, tls, c[m], y) BY <1>1, <1>2, <1>3
    <3>2. Leads(e, r.tokens, tls, c[m], z) BY <3>1, LeadsConcat
    <3>3. u[j] = r /\ d[j] = c[m] /\ d[j + 1] = z BY <1>4, <1>6, <2>1
    <3>4. Fitting(e, c[m], tls) BY <1>2, <1>3
    <3> QED BY <3>2, <3>3, <3>4
  <2>2. CASE j # m
    <3>1. j + 1 \in 1..m
      <4>1. m \in Nat BY <1>2
      <4> HIDE DEF m
      <4> QED BY <2>2, <4>1
    <3>2. u[j] = q[j] /\ d[j] = c[j] /\ d[j + 1] = c[j + 1] BY <1>4, <1>6, <2>2, <3>1
    <3> QED BY <1>3, <3>2
  <2> QED BY <2>1, <2>2
<1>8. ASSUME NEW i \in 1..(m + 1), NEW j \in 1..(m + 1), i <= j
      PROVE  Onward(d[i], d[j])
  <2>1. CASE j <= m
    <3>1. i \in 1..m /\ j \in 1..m BY <1>2, <1>8, <2>1
    <3> QED BY <1>3, <1>6, <1>8, <3>1
  <2>2. CASE j = m + 1 /\ i <= m
    <3>1. i \in 1..m /\ m + 1 \in 1..(m + 1) BY <1>2, <2>2
    <3>2. Onward(c[i], y) /\ c[i] \in Points BY <1>1, <1>3, <1>8, <2>2, <3>1
    <3>3. Onward(c[i], z) BY <1>5, <3>2, OnwardAdd
    <3> QED BY <1>6, <2>2, <3>1, <3>3
  <2>3. CASE j = m + 1 /\ i = m + 1 BY <1>5, <1>6, <2>3, OnwardAdd
  <2> QED BY <1>2, <1>8, <2>1, <2>2, <2>3
<1>9. Way(e, x, pend, u, d)
  <2>1. 1 \in 1..m BY <1>2
  <2>2. Leads(e, pend, TRUE, x, d[1]) BY <1>3, <1>6, <2>1
  <2> QED BY <1>4, <1>6, <1>7, <1>8, <2>2 DEF Way
<1>10. Reaches(e, x, pend, u, z) BY <1>4, <1>6, <1>9 DEF Reaches
<1> QED BY <1>10 DEF u

\* The last record lost.
LEMMA ReachesCut ==
  ASSUME NEW e, NEW pend, NEW S, NEW q \in Seq(S), NEW x, NEW y, Reaches(e, x, pend, q, y)
  PROVE  \E z \in Points : Reaches(e, x, pend, Prefix(q, Len(q) - 1), z) /\ Onward(z, y)
<1> DEFINE m == Len(q)
           u == Prefix(q, m - 1)
<1>1. PICK c : Way(e, x, pend, q, c) /\ c[m + 1] = y BY DEF Reaches
<1>2. m \in Nat BY LenProperties
<1>3. /\ c \in [1..(m + 1) -> Points] /\ Leads(e, pend, TRUE, x, c[1])
      /\ \A j \in 1..m : /\ Leads(e, q[j].tokens, q[j].tls, c[j], c[j + 1])
                         /\ Fitting(e, c[j], q[j].tls)
      /\ \A i, j \in 1..(m + 1) : i <= j => Onward(c[i], c[j])
  BY <1>1 DEF Way
<1>4. u = SubSeq(q, 1, m - 1) BY DEF Prefix
<1>5. /\ Len(u) = IF 1 <= m - 1 THEN (m - 1) - 1 + 1 ELSE 0
      /\ \A i \in 1..((m - 1) - 1 + 1) : u[i] = q[1 + i - 1]
  <2>1. \A i \in 1..(m - 1) : q[i] \in S BY <1>2
  <2>2. 1 \in Int /\ m - 1 \in Int BY <1>2
  <2> QED BY <1>4, <2>1, <2>2, SubSeqProperties
<1> HIDE DEF u
<1> DEFINE n == IF m = 0 THEN 0 ELSE m - 1
<1>6. n \in Nat /\ n <= m /\ Len(u) = n /\ (\A i \in 1..n : u[i] = q[i])
  <2>1. CASE m = 0
    <3>1. n = 0 /\ ~(1 <= m - 1) BY <2>1
    <3> QED BY <1>5, <2>1, <3>1
  <2>2. CASE m # 0
    <3>1. n = m - 1 /\ n \in Nat /\ (m - 1) - 1 + 1 = n BY <1>2, <2>2
    <3> HIDE DEF n
    <3>2. Len(u) = n BY <1>5, <3>1
    <3>3. \A i \in 1..n : 1 + i - 1 = i OBVIOUS
    <3> QED BY <1>2, <1>5, <3>1, <3>2, <3>3
  <2> QED BY <2>1, <2>2
<1> HIDE DEF n
<1> DEFINE d == [i \in 1..(n + 1) |-> c[i]]
<1>7. /\ \A i \in 1..(n + 1) : i \in 1..(m + 1) /\ d[i] = c[i]
      /\ d \in [1..(n + 1) -> Points]
  <2>1. \A i \in 1..(n + 1) : i \in 1..(m + 1) BY <1>2, <1>6
  <2> QED BY <1>3, <2>1
<1> HIDE DEF d
<1>8. \A j \in 1..n : Leads(e, u[j].tokens, u[j].tls, d[j], d[j + 1]) /\ Fitting(e, d[j], u[j].tls)
  <2> TAKE j \in 1..n
  <2>1. j \in 1..m /\ j \in 1..(n + 1) /\ j + 1 \in 1..(n + 1) BY <1>2, <1>6
  <2> QED BY <1>3, <1>6, <1>7, <2>1
<1>9. Way(e, x, pend, u, d)
  <2>1. 1 \in 1..(n + 1) BY <1>6
  <2>2. Leads(e, pend, TRUE, x, d[1]) BY <1>3, <1>7, <2>1
  <2> QED BY <1>3, <1>6, <1>7, <1>8, <2>2 DEF Way
<1>10. d[n + 1] \in Points /\ Onward(d[n + 1], y)
  <2>1. n + 1 \in 1..(n + 1) /\ m + 1 \in 1..(m + 1) /\ n + 1 <= m + 1 BY <1>2, <1>6
  <2> QED BY <1>1, <1>3, <1>7, <2>1
<1>11. Reaches(e, x, pend, u, d[n + 1]) BY <1>6, <1>9 DEF Reaches
<1> QED BY <1>10, <1>11 DEF u

-----------------------------------------------------------------------------
(* What the server writes leads from where it is to where it then is.      *)

\* One before others.
LEMMA OneConcat ==
  ASSUME NEW S, NEW h \in S, NEW s \in Seq(S)
  PROVE  /\ <<h>> \o s \in Seq(S) /\ Len(<<h>> \o s) = 1 + Len(s)
         /\ (<<h>> \o s)[1] = h
         /\ \A i \in 1..Len(s) : (<<h>> \o s)[1 + i] = s[i]
<1> DEFINE one == <<h>>
           u   == one \o s
<1>1. one \in Seq(S) /\ Len(one) = 1 /\ one[1] = h OBVIOUS
<1>2. Len(s) \in Nat BY LenProperties
<1> HIDE DEF one
<1>3. /\ u \in Seq(S) /\ Len(u) = 1 + Len(s)
      /\ \A i \in 1..(1 + Len(s)) : u[i] = IF i <= 1 THEN one[i] ELSE s[i - 1]
  <2>1. one \in Seq(S) BY <1>1
  <2>2. /\ u \in Seq(S) /\ Len(u) = Len(one) + Len(s)
        /\ \A i \in 1..Len(one) + Len(s) :
             u[i] = IF i <= Len(one) THEN one[i] ELSE s[i - Len(one)]
    BY <2>1, ConcatProperties
  <2> QED BY <1>1, <2>2
<1> HIDE DEF u
<1>4. u[1] = h
  <2>1. 1 \in 1..(1 + Len(s)) BY <1>2
  <2> QED BY <1>1, <1>3, <2>1
<1>5. ASSUME NEW i \in 1..Len(s) PROVE u[1 + i] = s[i]
  <2>1. 1 + i \in 1..(1 + Len(s)) /\ ~(1 + i <= 1) /\ (1 + i) - 1 = i BY <1>2
  <2> QED BY <1>3, <2>1
<1> QED BY <1>3, <1>4, <1>5 DEF u, one

\* A write of the server comes behind all that is under way.
LEMMA ArrivesReaches ==
  ASSUME NEW f, sock \in Seq(Records(f)), NEW tokens \in Seq(Tokens(f)), NEW tls \in BOOLEAN,
         Arrives(tokens, tls), NEW e, IsSetting(e), NEW pend, NEW x, NEW y, NEW z,
         Reaches(e, x, pend, sock, y), Leads(e, tokens, tls, y, z), Fitting(e, y, tls)
  PROVE  Reaches(e, x, pend, sock', z)
<1>1. CASE sock' = Append(sock, [tls |-> tls, tokens |-> tokens])
  <2> DEFINE r == [tls |-> tls, tokens |-> tokens]
  <2>1. r \in Records(f) /\ r.tls = tls /\ r.tokens = tokens BY DEF Records
  <2>2. Len(tokens) \in Nat BY LenProperties
  <2> HIDE DEF r
  <2>3. Reaches(e, x, pend, Append(sock, r), z) BY <2>1, <2>2, ReachesAppend
  <2> QED BY <1>1, <2>3 DEF r
<1>2. CASE /\ sock # <<>> /\ sock[Len(sock)].tls = tls
           /\ sock' = [sock EXCEPT ![Len(sock)].tokens = @ \o tokens]
  <2> DEFINE last == sock[Len(sock)]
             full == [last EXCEPT !.tokens = last.tokens \o tokens]
  <2>1. Len(sock) \in 1..Len(sock) BY <1>2, LenProperties, EmptySeq
  <2>2. last \in Records(f) BY <2>1, LenProperties
  <2>3. /\ last.tokens \in Seq(Tokens(f)) /\ full.tls = tls
        /\ full.tokens = last.tokens \o tokens
    BY <1>2, <2>2 DEF Records
  <2>4. sock' = [sock EXCEPT ![Len(sock)] = full] BY <1>2
  <2> HIDE DEF full
  <2>5. Reaches(e, x, pend, [sock EXCEPT ![Len(sock)] = full], z)
    BY <1>2, <2>3, ReachesExtend
  <2> QED BY <2>4, <2>5
<1> QED BY <1>1, <1>2 DEF Arrives

\* A header, and the payload it announces.
LEMMA HeadRun ==
  ASSUME NEW e, IsSetting(e), NEW tls, NEW x \in Points, NEW y, NEW T, NEW h \in T,
         NEW s \in Seq(T), Token(e, x, h, y), Outside(x) => ~tls,
         Can(e, y, Len(s)), \A i \in 1..Len(s) : s[i] = e.payload[y.taken + i],
         Len(s) > 0 /\ Outside(y) => ~tls
  PROVE  Leads(e, <<h>> \o s, tls, x, After(e, y, Len(s)))
<1> DEFINE one == <<h>>
<1>1. one \in Seq(T) OBVIOUS
<1>2. Leads(e, one, tls, x, y)
  <2>1. one = <<h>> OBVIOUS
  <2> HIDE DEF one
  <2> QED BY <2>1, LeadsOne
<1>3. y \in Points BY DEF Token
<1>4. Leads(e, s, tls, y, After(e, y, Len(s))) BY <1>3, LeadsRun
<1> HIDE DEF one
<1>5. Leads(e, one \o s, tls, x, After(e, y, Len(s))) BY <1>1, <1>2, <1>4, LeadsConcat
<1> QED BY <1>5 DEF one

\* A Vision frame.
LEMMA VisionLeads ==
  ASSUME NEW e, IsSetting(e), e.vision, NEW x \in Points, x.mode = "framed", x.body = 0,
         x.rest = 0, NEW T, NEW h \in T, NEW s \in Seq(T), NEW pads \in Seq(T),
         h.k = "vis", h.content = Len(s), h.padding = Len(pads),
         ModeAfter(h.command) \in {"framed", "end", "direct"},
         \A i \in 1..Len(s) : s[i] = e.payload[x.taken + i],
         \A i \in 1..Len(pads) : pads[i].k = "pad"
  PROVE  LET y == [taken |-> x.taken + Len(s), body |-> 0, rest |-> Len(pads),
                   mode |-> ModeAfter(h.command)]
             z == [taken |-> x.taken + Len(s), body |-> 0, rest |-> 0,
                   mode |-> ModeAfter(h.command)]
         IN  /\ Leads(e, <<h>> \o s, TRUE, x, y)
             /\ Leads(e, pads, TRUE, y, z)
             /\ Len(pads) > 0 => ~Outside(y)
<1> DEFINE n == Len(s)
           p == Len(pads)
           m == ModeAfter(h.command)
           w == [taken |-> x.taken, body |-> n, rest |-> p, mode |-> m]
           y == [taken |-> x.taken + n, body |-> 0, rest |-> p, mode |-> m]
           z == [taken |-> x.taken + n, body |-> 0, rest |-> 0, mode |-> m]
<1>1. n \in Nat /\ p \in Nat /\ x.taken \in Nat /\ e.transport = "tcp"
  BY LenProperties DEF Points, IsSetting
<1>2. m \in {"framed", "end", "direct"} OBVIOUS
<1>3. w \in Points BY <1>1, <1>2 DEF Points
<1>4. Token(e, x, h, w) BY <1>3 DEF Token
<1>5. w.taken = x.taken /\ w.body = n /\ w.rest = p /\ w.mode = m OBVIOUS
<1>6. Can(e, w, n) BY <1>1, <1>5 DEF Can
<1>7. n > 0 => ~Outside(w) BY <1>5 DEF Outside
<1>8. After(e, w, n) = y
  <2>1. (IF Free(e, w) THEN n ELSE n - n) = 0 BY <1>1, <1>5 DEF Free
  <2> HIDE DEF n, p, m
  <2> QED BY <1>1, <2>1 DEF After
<1>9. Outside(x) => FALSE BY DEF Outside
<1> HIDE DEF w, m
<1>10. Leads(e, <<h>> \o s, TRUE, x, y)
  <2>1. \A i \in 1..Len(s) : s[i] = e.payload[w.taken + i] BY <1>5
  <2>2. Leads(e, <<h>> \o s, TRUE, x, After(e, w, Len(s)))
    BY <1>4, <1>6, <1>7, <1>9, <2>1, HeadRun
  <2> QED BY <1>8, <2>2
<1>11. y \in Points /\ y.body = 0 /\ y.rest = p /\ y.mode # "closed" BY <1>1, <1>2 DEF Points
<1>12. Padded(y, p) = z BY <1>1 DEF Padded
<1> HIDE DEF y, z
<1>13. Leads(e, pads, TRUE, y, z)
  <2>1. p <= y.rest BY <1>1, <1>11
  <2>2. Leads(e, pads, TRUE, y, Padded(y, Len(pads))) BY <1>11, <2>1, LeadsPads
  <2> QED BY <1>12, <2>2
<1>14. p > 0 => ~Outside(y) BY <1>11 DEF Outside
<1> QED BY <1>10, <1>13, <1>14 DEF y, z, m

\* A WebSocket frame of data.
LEMMA WebSocketLeads ==
  ASSUME NEW e, IsSetting(e), e.transport = "ws", NEW x \in Points, x.mode = "framed",
         x.body = 0, NEW tls, NEW T, NEW h \in T, NEW s \in Seq(T),
         h.k = "ws", h.op = "data", h.n = Len(s),
         \A i \in 1..Len(s) : s[i] = e.payload[x.taken + i]
  PROVE  Leads(e, <<h>> \o s, tls, x, [x EXCEPT !.taken = x.taken + Len(s)])
<1> DEFINE n == Len(s)
           w == [x EXCEPT !.body = n]
<1>1. n \in Nat /\ x.taken \in Nat BY LenProperties DEF Points
<1>2. w \in Points BY <1>1 DEF Points
<1>3. w.taken = x.taken /\ w.body = n /\ w.rest = x.rest /\ w.mode = x.mode BY DEF Points
<1>4. Token(e, x, h, w)
  <2>1. w = [x EXCEPT !.body = n, !.mode = x.mode] BY DEF Points
  <2> HIDE DEF w
  <2> QED BY <1>2, <2>1 DEF Token
<1>5. Can(e, w, n) BY <1>1, <1>3 DEF Can
<1>6. ~Outside(w) /\ ~Outside(x) BY <1>3 DEF Outside
<1>7. After(e, w, n) = [x EXCEPT !.taken = x.taken + n]
  <2>1. (IF Free(e, w) THEN n ELSE n - n) = x.body BY <1>1 DEF Free
  <2> HIDE DEF n, w
  <2>2. After(e, w, n) = [taken |-> x.taken + n, body |-> x.body, rest |-> x.rest,
                          mode |-> x.mode]
    BY <1>3, <2>1 DEF After
  <2> QED BY <2>2 DEF Points
<1> HIDE DEF w
<1>8. \A i \in 1..Len(s) : s[i] = e.payload[w.taken + i] BY <1>3
<1>9. Leads(e, <<h>> \o s, tls, x, After(e, w, Len(s))) BY <1>4, <1>5, <1>6, <1>8, HeadRun
<1> QED BY <1>7, <1>9

\* A gRPC envelope and the first k units of the message it announces.
LEMMA EnvelopeLeads ==
  ASSUME NEW e, IsSetting(e), e.transport = "grpc", NEW x \in Points, NEW tls, NEW T,
         NEW h \in T, NEW s \in Seq(T), h.k = "msg", h.n \in Nat, h.n > 0, Len(s) <= h.n,
         x.mode # "direct", x.body = 1 + Len(s), x.rest = 0,
         \A i \in 1..Len(s) : s[i] = e.payload[x.taken + i]
  PROVE  Leads(e, <<h>> \o s, tls, x,
               [taken |-> x.taken + Len(s), body |-> 0, rest |-> h.n - Len(s), mode |-> x.mode])
<1> DEFINE k == Len(s)
           w == [x EXCEPT !.body = x.body - 1, !.rest = h.n]
           y == [taken |-> x.taken + k, body |-> 0, rest |-> h.n - k, mode |-> x.mode]
<1>1. k \in Nat /\ x.taken \in Nat /\ x.body - 1 = k BY LenProperties DEF Points
<1>2. w \in Points /\ w.taken = x.taken /\ w.body = k /\ w.rest = h.n /\ w.mode = x.mode
  BY <1>1 DEF Points
<1>3. Token(e, x, h, w)
  <2> HIDE DEF k
  <2>1. x.body > 0 BY <1>1
  <2> QED BY <1>2, <2>1 DEF Token
<1> HIDE DEF w
<1>4. Can(e, w, k) BY <1>1, <1>2 DEF Can
<1>5. ~Outside(w) /\ ~Outside(x) BY <1>2 DEF Outside
<1>6. After(e, w, k) = y
  <2>1. (IF Free(e, w) THEN k ELSE k - k) = 0 BY <1>1 DEF Free
  <2> HIDE DEF k
  <2> QED BY <1>1, <1>2, <2>1 DEF After
<1>7. \A i \in 1..Len(s) : s[i] = e.payload[w.taken + i] BY <1>2
<1>8. Leads(e, <<h>> \o s, tls, x, After(e, w, Len(s)))
  BY <1>3, <1>4, <1>5, <1>7, HeadRun
<1> QED BY <1>6, <1>8

\* A header of a DATA frame.
LEMMA DataLeads ==
  ASSUME NEW e, IsSetting(e), e.transport = "grpc", NEW x \in Points, x.mode = "framed",
         x.body = 0, NEW n \in Nat, NEW last \in BOOLEAN, NEW tls
  PROVE  LET y == [x EXCEPT !.body = n, !.mode = IF last THEN "closed" ELSE x.mode]
         IN  y \in Points /\ Leads(e, <<H2("data", n, last)>>, tls, x, y)
<1> DEFINE y == [x EXCEPT !.body = n, !.mode = IF last THEN "closed" ELSE x.mode]
           h == H2("data", n, last)
           s == <<h>>
<1>1. y \in Points BY DEF Points
<1>2. h.k = "h2" /\ h.type = "data" /\ h.n = n /\ h.last = last BY DEF H2
<1> HIDE DEF h
<1>3. Token(e, x, h, y) BY <1>1, <1>2 DEF Token
<1>4. ~Outside(x) BY DEF Outside
<1>5. s = <<h>> OBVIOUS
<1> HIDE DEF s, y
<1>6. Leads(e, s, tls, x, y) BY <1>3, <1>4, <1>5, LeadsOne
<1> QED BY <1>1, <1>6 DEF s, y, h

\* A gRPC message, in one DATA frame or in two.
LEMMA MessageLeads ==
  ASSUME NEW e, IsSetting(e), e.transport = "grpc", NEW x \in Points, x.mode = "framed",
         x.body = 0, x.rest = 0, NEW tls, NEW f, NEW tokens \in Seq(Tokens(f)), tokens # <<>>,
         NEW last \in BOOLEAN, NEW bytes \in MessageWrites(tokens, last),
         \A i \in 1..Len(tokens) : tokens[i] = e.payload[x.taken + i]
  PROVE  Leads(e, bytes, tls, x, [taken |-> x.taken + Len(tokens), body |-> 0, rest |-> 0,
                                  mode |-> IF last THEN "closed" ELSE "framed"])
<1> DEFINE n   == Len(tokens)
           env == [k |-> "msg", n |-> n]
           msg == <<env>> \o tokens
           m   == IF last THEN "closed" ELSE "framed"
           z   == [taken |-> x.taken + n, body |-> 0, rest |-> 0, mode |-> m]
<1>1. n \in Nat /\ n > 0 /\ x.taken \in Nat BY LenProperties, EmptySeq DEF Points
<1>2. env \in Tokens(f) /\ <<env>> \in Seq(Tokens(f)) /\ env.k = "msg" /\ env.n = n
  <2>1. n \in Int BY <1>1
  <2> HIDE DEF n
  <2> QED BY <2>1, ControlType
<1>3. Len(msg) = 1 + n /\ msg \in Seq(Tokens(f)) /\ msg[1] = env
      /\ \A i \in 1..n : msg[1 + i] = tokens[i]
  <2> HIDE DEF env
  <2> QED BY <1>2, OneConcat
<1>4. \/ bytes = <<H2("data", Len(msg), last)>> \o msg
      \/ \E cut \in 1..n :
           bytes = <<H2("data", cut, FALSE)>> \o Prefix(msg, cut)
                     \o <<H2("data", Len(msg) - cut, last)>> \o Drop(msg, cut)
  BY DEF MessageWrites
<1>5. m \in {"closed", "framed"} /\ m = IF last THEN "closed" ELSE x.mode OBVIOUS
<1> HIDE DEF env
<1>6. CASE bytes = <<H2("data", Len(msg), last)>> \o msg
  <2> DEFINE h == <<H2("data", 1 + n, last)>>
             w == [x EXCEPT !.body = 1 + n, !.mode = IF last THEN "closed" ELSE x.mode]
  <2>1. 1 + n \in Nat BY <1>1
  <2>2. w \in Points /\ Leads(e, h, tls, x, w)
    <3> HIDE DEF n
    <3> QED BY <2>1, DataLeads
  <2>3. w.taken = x.taken /\ w.body = 1 + n /\ w.rest = 0 /\ w.mode = m BY <1>5 DEF Points
  <2>4. h \in Seq(Tokens(f))
    <3>1. 1 + n \in Int BY <1>1
    <3> HIDE DEF n
    <3> QED BY <3>1, ControlType
  <2> HIDE DEF w, h
  <2>5. Leads(e, msg, tls, w, z)
    <3>1. \A i \in 1..Len(tokens) : tokens[i] = e.payload[w.taken + i] BY <2>3
    <3>2. w.mode # "direct" /\ w.body = 1 + Len(tokens) /\ Len(tokens) <= env.n
      BY <1>1, <1>2, <1>5, <2>3
    <3>3. Leads(e, <<env>> \o tokens, tls, w,
                [taken |-> w.taken + Len(tokens), body |-> 0, rest |-> env.n - Len(tokens),
                 mode |-> w.mode])
      BY <1>1, <1>2, <2>2, <2>3, <3>1, <3>2, EnvelopeLeads
    <3>4. env.n - Len(tokens) = 0 BY <1>1, <1>2
    <3> QED BY <2>3, <3>3, <3>4
  <2>6. bytes = h \o msg BY <1>3, <1>6 DEF h
  <2> HIDE DEF msg, z
  <2> QED BY <1>3, <2>2, <2>4, <2>5, <2>6, LeadsConcat DEF z, m
<1>7. ASSUME NEW cut \in 1..n,
             bytes = <<H2("data", cut, FALSE)>> \o Prefix(msg, cut)
                       \o <<H2("data", Len(msg) - cut, last)>> \o Drop(msg, cut)
      PROVE  Leads(e, bytes, tls, x, z)
  <2> DEFINE k    == cut - 1
             left == n + 1 - cut
             a    == Prefix(tokens, k)
             d    == Drop(msg, cut)
             h1   == <<H2("data", cut, FALSE)>>
             h2   == <<H2("data", left, last)>>
             w1   == [x EXCEPT !.body = cut, !.mode = IF FALSE THEN "closed" ELSE x.mode]
             w2   == [taken |-> x.taken + k, body |-> 0, rest |-> left, mode |-> "framed"]
             w3   == [w2 EXCEPT !.body = left, !.mode = IF last THEN "closed" ELSE w2.mode]
  <2>1. k \in Nat /\ left \in Nat /\ left > 0 /\ cut \in Nat /\ k + left = n /\ 1 + k = cut
        /\ n - k = left /\ k <= n
    BY <1>1, <1>7
  <2>2. Len(msg) - cut = left BY <1>1, <1>3, <2>1
  <2>3. /\ a \in Seq(Tokens(f)) /\ Len(a) = k
        /\ \A i \in 1..k : a[i] = tokens[i]
    <3>1. \A i \in 1..k : tokens[i] \in Tokens(f) BY <1>1, <2>1, LenProperties
    <3>2. 1 \in Int /\ k \in Int BY <2>1
    <3> HIDE DEF k
    <3>3. /\ SubSeq(tokens, 1, k) \in Seq(Tokens(f))
          /\ Len(SubSeq(tokens, 1, k)) = IF 1 <= k THEN k - 1 + 1 ELSE 0
          /\ \A i \in 1..(k - 1 + 1) : SubSeq(tokens, 1, k)[i] = tokens[1 + i - 1]
      BY <3>1, <3>2, SubSeqProperties
    <3>4. Len(SubSeq(tokens, 1, k)) = k BY <2>1, <3>3
    <3>5. ASSUME NEW i \in 1..k PROVE SubSeq(tokens, 1, k)[i] = tokens[i]
      <4>1. i \in 1..(k - 1 + 1) /\ 1 + i - 1 = i BY <2>1
      <4> QED BY <3>3, <4>1
    <3> QED BY <3>3, <3>4, <3>5 DEF Prefix
  <2>4. Prefix(msg, cut) = <<env>> \o a
    <3> DEFINE u == Prefix(msg, cut)
               v == <<env>> \o a
    <3>1. /\ u \in Seq(Tokens(f)) /\ Len(u) = cut
          /\ \A i \in 1..cut : u[i] = msg[i]
      <4>1. \A i \in 1..cut : msg[i] \in Tokens(f)
        <5>1. \A i \in 1..cut : i \in 1..Len(msg) BY <1>1, <1>3, <2>1
        <5> HIDE DEF msg
        <5> QED BY <1>3, <5>1, LenProperties
      <4>2. 1 \in Int /\ cut \in Int BY <2>1
      <4> HIDE DEF msg
      <4>3. /\ SubSeq(msg, 1, cut) \in Seq(Tokens(f))
            /\ Len(SubSeq(msg, 1, cut)) = IF 1 <= cut THEN cut - 1 + 1 ELSE 0
            /\ \A i \in 1..(cut - 1 + 1) : SubSeq(msg, 1, cut)[i] = msg[1 + i - 1]
        BY <4>1, <4>2, SubSeqProperties
      <4>4. Len(SubSeq(msg, 1, cut)) = cut BY <1>7, <4>3
      <4>5. ASSUME NEW i \in 1..cut PROVE SubSeq(msg, 1, cut)[i] = msg[i]
        <5>1. i \in 1..(cut - 1 + 1) /\ 1 + i - 1 = i BY <2>1
        <5> QED BY <4>3, <5>1
      <4> QED BY <4>3, <4>4, <4>5 DEF Prefix
    <3>2. /\ v \in Seq(Tokens(f)) /\ Len(v) = cut /\ v[1] = env
          /\ \A i \in 1..k : v[1 + i] = a[i]
      <4> HIDE DEF a
      <4>1. /\ v \in Seq(Tokens(f)) /\ Len(v) = 1 + Len(a) /\ v[1] = env
            /\ \A i \in 1..Len(a) : v[1 + i] = a[i]
        BY <1>2, <2>3, OneConcat
      <4> HIDE DEF k, v
      <4> QED BY <2>1, <2>3, <4>1
    <3> HIDE DEF u, v, a
    <3>3. \A i \in 1..cut : u[i] = v[i]
      <4> TAKE i \in 1..cut
      <4>1. CASE i = 1 BY <1>3, <3>1, <3>2, <4>1
      <4>2. CASE i # 1
        <5>1. i - 1 \in 1..k /\ i - 1 \in 1..n /\ 1 + (i - 1) = i BY <2>1, <4>2
        <5>2. v[1 + (i - 1)] = a[i - 1] /\ a[i - 1] = tokens[i - 1] BY <2>3, <3>2, <5>1
        <5>3. msg[1 + (i - 1)] = tokens[i - 1] BY <1>3, <5>1
        <5> HIDE DEF msg
        <5> QED BY <3>1, <5>1, <5>2, <5>3
      <4> QED BY <4>1, <4>2
    <3>4. u = v BY <3>1, <3>2, <3>3, SeqEqual
    <3> QED BY <3>4 DEF u, v
  <2>5. /\ d \in Seq(Tokens(f)) /\ Len(d) = left
        /\ \A i \in 1..left : d[i] = msg[cut + i]
    <3>1. \A i \in (cut + 1)..(1 + n) : msg[i] \in Tokens(f)
      <4>1. \A i \in (cut + 1)..(1 + n) : i \in 1..Len(msg) BY <1>1, <1>3, <2>1
      <4> HIDE DEF msg
      <4> QED BY <1>3, <4>1, LenProperties
    <3> DEFINE o == cut + 1
               l == 1 + n
    <3>2. o \in Int /\ l \in Int BY <1>1, <2>1
    <3>3. d = SubSeq(msg, o, l) BY <1>3 DEF Drop
    <3>4. l - o + 1 = left /\ o <= l /\ o - 1 = cut BY <1>1, <1>7, <2>1
    <3>5. \A i \in o..l : msg[i] \in Tokens(f) BY <3>1
    <3> HIDE DEF msg, d, n, o, l
    <3>6. /\ d \in Seq(Tokens(f))
          /\ Len(d) = IF o <= l THEN l - o + 1 ELSE 0
          /\ \A i \in 1..(l - o + 1) : d[i] = msg[o + i - 1]
      BY <3>2, <3>3, <3>5, SubSeqProperties
    <3>7. ASSUME NEW i \in 1..left PROVE d[i] = msg[cut + i]
      <4>1. i \in 1..(l - o + 1) /\ o + i - 1 = cut + i BY <2>1, <3>2, <3>4
      <4> QED BY <3>6, <4>1
    <3> QED BY <3>4, <3>6, <3>7
  <2>6. \A i \in 1..left : d[i] = e.payload[(x.taken + k) + i]
    <3> TAKE i \in 1..left
    <3>1. cut + i = 1 + (k + i) /\ k + i \in 1..n /\ x.taken + (k + i) = (x.taken + k) + i
      <4>1. x.taken \in Int /\ n \in Int BY <1>1 DEF Points
      <4> DEFINE t == x.taken
      <4>2. t \in Int BY <4>1
      <4> HIDE DEF k, left, t
      <4>3. /\ cut + i = 1 + (k + i) /\ k + i <= n /\ k + i >= 1 /\ k + i \in Int
            /\ t + (k + i) = (t + k) + i
        BY <2>1, <4>1, <4>2
      <4> QED BY <4>1, <4>3 DEF t
    <3>2. d[i] = msg[1 + (k + i)] BY <2>5, <3>1
    <3>3. msg[1 + (k + i)] = tokens[k + i] BY <1>3, <3>1
    <3>4. tokens[k + i] = e.payload[x.taken + (k + i)] BY <3>1
    <3> HIDE DEF k, left, d, msg
    <3> QED BY <3>1, <3>2, <3>3, <3>4
  <2> HIDE DEF msg, a, d
  <2>7. h1 \in Seq(Tokens(f)) /\ w1 \in Points /\ Leads(e, h1, tls, x, w1)
    <3>1. cut \in Int /\ FALSE \in BOOLEAN BY <2>1
    <3> QED BY <2>1, <3>1, DataLeads, ControlType
  <2>8. w1.taken = x.taken /\ w1.body = 1 + k /\ w1.rest = 0 /\ w1.mode = "framed"
    BY <2>1 DEF Points
  <2> HIDE DEF w1, h1
  <2>9. Leads(e, <<env>> \o a, tls, w1, w2)
    <3>1. \A i \in 1..Len(a) : a[i] = e.payload[w1.taken + i] BY <1>1, <2>1, <2>3, <2>8
    <3>2. /\ w1.mode # "direct" /\ w1.body = 1 + Len(a) /\ Len(a) <= env.n /\ env.n \in Nat
          /\ env.n > 0
      BY <1>1, <1>2, <2>1, <2>3, <2>8
    <3>3. Leads(e, <<env>> \o a, tls, w1,
                [taken |-> w1.taken + Len(a), body |-> 0, rest |-> env.n - Len(a),
                 mode |-> w1.mode])
      BY <1>2, <2>3, <2>7, <2>8, <3>1, <3>2, EnvelopeLeads
    <3>4. env.n - Len(a) = left /\ w1.taken + Len(a) = x.taken + k BY <1>2, <2>1, <2>3, <2>8
    <3> QED BY <2>8, <3>3, <3>4
  <2>10. w2 \in Points /\ w2.mode = "framed" /\ w2.body = 0 /\ w2.taken = x.taken + k
         /\ w2.rest = left
    BY <1>1, <2>1 DEF Points
  <2> HIDE DEF w2, left
  <2>11. h2 \in Seq(Tokens(f)) /\ w3 \in Points /\ Leads(e, h2, tls, w2, w3)
    <3>1. left \in Int BY <2>1
    <3> QED BY <2>1, <2>10, <3>1, DataLeads, ControlType
  <2>12. w3.taken = x.taken + k /\ w3.body = left /\ w3.rest = left /\ w3.mode = m
    BY <2>10 DEF Points
  <2> HIDE DEF w3, h2
  <2>13. Leads(e, d, tls, w3, z)
    <3>1. Can(e, w3, Len(d)) BY <2>1, <2>5, <2>12 DEF Can
    <3>2. \A i \in 1..Len(d) : d[i] = e.payload[w3.taken + i] BY <2>5, <2>6, <2>12
    <3>3. ~Outside(w3) BY <1>5, <2>12 DEF Outside
    <3>4. Leads(e, d, tls, w3, After(e, w3, Len(d)))
      BY <2>5, <2>11, <3>1, <3>2, <3>3, LeadsRun
    <3>5. After(e, w3, Len(d)) = z
      <4>1. ~Free(e, w3) BY DEF Free
      <4> DEFINE t == x.taken
      <4>2. t \in Nat /\ left \in Nat /\ k \in Nat /\ k + left = n BY <1>1, <2>1
      <4>3. w3.body - left = 0 /\ w3.rest - left = 0 /\ (t + k) + left = t + n
        <5> HIDE DEF k, n, t
        <5> QED BY <2>12, <4>2
      <4> HIDE DEF k, n, m
      <4> QED BY <2>5, <2>12, <4>1, <4>3 DEF After
    <3> QED BY <3>4, <3>5
  <2> HIDE DEF z, k
  <2> DEFINE b1 == <<env>> \o a
             c1 == h1 \o b1
             c2 == c1 \o h2
  <2>14. b1 \in Seq(Tokens(f)) BY <1>2, <2>3, ConcatType
  <2>15. Leads(e, b1, tls, w1, w2) BY <2>9
  <2> HIDE DEF b1
  <2>16. c1 \in Seq(Tokens(f)) /\ Leads(e, c1, tls, x, w2)
    BY <2>7, <2>14, <2>15, LeadsConcat, ConcatType
  <2> HIDE DEF c1
  <2>17. c2 \in Seq(Tokens(f)) /\ Leads(e, c2, tls, x, w3)
    BY <2>11, <2>16, LeadsConcat, ConcatType
  <2> HIDE DEF c2
  <2>18. Leads(e, c2 \o d, tls, x, z) BY <2>5, <2>13, <2>17, LeadsConcat
  <2>19. bytes = c2 \o d BY <1>7, <2>2, <2>4 DEF c2, c1, b1, h1, h2, d
  <2> QED BY <2>18, <2>19
<1> HIDE DEF msg
<1>8. Leads(e, bytes, tls, x, z) BY <1>4, <1>6, <1>7
<1> QED BY <1>8

\* What the layers of a connection depend on.
Setting == [transport |-> config.transport, tls |-> config.tls, vision |-> config.vision,
            payload |-> Payload]

\* The place behind all the server has sent; the response is outside of Vision
\* frames.
There ==
  [taken |-> sent,
   body  |-> IF config.vision /\ sent < addons + 1 THEN addons + 1 - sent ELSE 0,
   rest  |-> 0,
   mode  |-> IF framing \in {"end", "direct"} THEN framing ELSE "framed"]

\* The place behind the server's goodbye.
Gone(place) == [place EXCEPT !.mode = "closed"]

\* All that is under way leads from place x there, unless the server has
\* closed its side (over): then there may be a goodbye, and a reset may have
\* overtaken something.
Ahead(e, x, pend, q, over, there) ==
  \E y \in Points :
    /\ Reaches(e, x, pend, q, y)
    /\ y.taken <= there.taken
    /\ over = "open" => y = there
    /\ over = "clean" => y \in {there, Gone(there)}
    /\ y.mode = "closed" => over = "clean"

\* How far the server is with its payload; it frames only data.
StreamInv ==
  /\ addons \in {0, 1}
  /\ sent <= addons + 1 + DataMax
  /\ framing \in {"framed", "end", "direct"} => sent >= addons + 1

\* The payload: the response, and the data.
LEMMA PayloadIs ==
  ASSUME addons \in Nat
  PROVE  /\ Len(Response) = addons + 1 /\ Len(Payload) = addons + 1 + DataMax
         /\ Payload[1] = [k |-> "resp", n |-> addons]
         /\ \A i \in 1..DataMax : Payload[addons + 1 + i] = Data[i]
         /\ Len(Data) = DataMax
<1> DEFINE h    == [k |-> "resp", n |-> addons]
           rest == [i \in 1..addons |-> [k |-> "addon"]]
           T    == Tokens("first")
<1>1. h \in T /\ [k |-> "addon"] \in T BY DEF Tokens
<1>2. rest \in Seq(T) /\ Len(rest) = addons BY <1>1
<1>3. Response = <<h>> \o rest BY DEF Response
<1>4. Data \in Seq(T) /\ Len(Data) = DataMax
  <2>1. \A i \in 1..DataMax : [k |-> "data", v |-> i] \in T BY DEF Tokens
  <2>2. DataMax \in Nat BY ServerAssumption
  <2> QED BY <2>1, <2>2 DEF Data
<1> HIDE DEF h, rest, T
<1>5. Response \in Seq(T) /\ Len(Response) = 1 + addons /\ Response[1] = h
  BY <1>1, <1>2, <1>3, OneConcat
<1>6. /\ Len(Payload) = Len(Response) + Len(Data)
      /\ \A i \in 1..Len(Response) + Len(Data) :
           Payload[i] = IF i <= Len(Response) THEN Response[i] ELSE Data[i - Len(Response)]
  BY <1>4, <1>5, ConcatProperties DEF Payload
<1>7. DataMax \in Nat BY ServerAssumption
<1>8. Payload[1] = h
  <2>1. 1 \in 1..Len(Response) + Len(Data) /\ 1 <= Len(Response) BY <1>4, <1>5, <1>7
  <2> QED BY <1>5, <1>6, <2>1
<1>9. ASSUME NEW i \in 1..DataMax PROVE Payload[addons + 1 + i] = Data[i]
  <2>1. /\ addons + 1 + i \in 1..Len(Response) + Len(Data)
        /\ ~(addons + 1 + i <= Len(Response)) /\ addons + 1 + i - Len(Response) = i
    BY <1>4, <1>5, <1>7
  <2> QED BY <1>6, <2>1
<1> QED BY <1>4, <1>5, <1>6, <1>8, <1>9 DEF h

\* A part of the payload.
LEMMA PayloadPart ==
  ASSUME addons \in Nat, NEW m \in Nat, NEW n \in Nat, m + n <= Len(Payload)
  PROVE  LET tokens == SubSeq(Payload, m + 1, m + n)
         IN  /\ \A f : tokens \in Seq(Tokens(f))
             /\ Len(tokens) = n
             /\ \A i \in 1..n : tokens[i] = Payload[m + i]
<1> DEFINE a == m + 1
           b == m + n
           tokens == SubSeq(Payload, a, b)
<1>1. Len(Payload) \in Nat BY PayloadType, LenProperties
<1>2. a \in Int /\ b \in Int OBVIOUS
<1>3. ASSUME NEW f
      PROVE  /\ tokens \in Seq(Tokens(f))
             /\ Len(tokens) = IF a <= b THEN b - a + 1 ELSE 0
             /\ \A i \in 1..(b - a + 1) : tokens[i] = Payload[a + i - 1]
  <2>1. Payload \in Seq(Tokens(f)) BY PayloadType
  <2>2. \A i \in a..b : Payload[i] \in Tokens(f)
    <3> TAKE i \in a..b
    <3>1. i \in 1..Len(Payload) BY <1>1
    <3> QED BY <2>1, <3>1, LenProperties
  <2> HIDE DEF a, b
  <2> QED BY <1>2, <2>2, SubSeqProperties
<1>4. b - a + 1 = n /\ (~(a <= b) => n = 0) OBVIOUS
<1>5. \A i \in 1..n : a + i - 1 = m + i OBVIOUS
<1> HIDE DEF a, b, tokens
<1> QED BY <1>3, <1>4, <1>5 DEF a, b, tokens

\* What an engine's configuration means to its streams.
LEMMA SettingIs ==
  ASSUME TunnelInv, StreamInv
  PROVE  /\ IsSetting(Setting) /\ There \in Points
         /\ config.tls \in BOOLEAN /\ config.vision \in BOOLEAN
         /\ config.vision => config.transport = "tcp" /\ config.tls
         /\ config.transport \in {"tcp", "ws", "grpc"}
         /\ sent \in Nat /\ addons \in Nat /\ sent <= Len(Payload)
         /\ There.taken = sent /\ There.rest = 0 /\ There.mode \in {"framed", "end", "direct"}
         /\ There.mode = IF framing \in {"end", "direct"} THEN framing ELSE "framed"
         /\ There.body = IF config.vision /\ sent < addons + 1 THEN addons + 1 - sent ELSE 0
         /\ ~config.vision => There.mode = "framed" /\ There.body = 0
<1>1. /\ config.tls \in BOOLEAN /\ config.vision \in BOOLEAN
      /\ config.vision => config.transport = "tcp" /\ config.tls
      /\ config.transport \in {"tcp", "ws", "grpc"}
  BY TransportsAssumption DEF TunnelInv, Configs
<1>2. sent \in Nat /\ addons \in Nat /\ sent <= Len(Payload)
  BY PayloadIs DEF TunnelInv, StreamInv
<1>3. IsSetting(Setting) BY <1>1 DEF IsSetting, Setting
<1>4. /\ There.taken = sent /\ There.rest = 0 /\ There.mode \in {"framed", "end", "direct"}
      /\ There.mode = IF framing \in {"end", "direct"} THEN framing ELSE "framed"
      /\ There.body = IF config.vision /\ sent < addons + 1 THEN addons + 1 - sent ELSE 0
  BY DEF There
<1>5. There \in Points
  <2>1. (IF config.vision /\ sent < addons + 1 THEN addons + 1 - sent ELSE 0) \in Nat BY <1>2
  <2>2. (IF framing \in {"end", "direct"} THEN framing ELSE "framed")
          \in {"framed", "end", "direct", "closed"}
    OBVIOUS
  <2> QED BY <1>2, <2>1, <2>2 DEF There, Points
<1>6. ~config.vision => There.mode = "framed" /\ There.body = 0
  BY <1>4 DEF TunnelInv
<1> QED BY <1>1, <1>2, <1>3, <1>4, <1>5, <1>6

\* Frames come within TLS, if there is TLS.
LEMMA FramesFit ==
  ASSUME NEW e, NEW x, ~Outside(x), NEW tls, e.tls => tls
  PROVE  Fitting(e, x, tls)
BY DEF Fitting

\* A write of the server's, all of it to where it then is.
LEMMA AheadWrite ==
  ASSUME TunnelInv, StreamInv, NEW x, NEW pend, Ahead(Setting, x, pend, sock, "open", There),
         NEW f, sock \in Seq(Records(f)), NEW tokens \in Seq(Tokens(f)), NEW tls \in BOOLEAN,
         Arrives(tokens, tls), NEW z, Leads(Setting, tokens, tls, There, z),
         Fitting(Setting, There, tls)
  PROVE  z \in Points /\ Reaches(Setting, x, pend, sock', z)
<1>1. Reaches(Setting, x, pend, sock, There) BY DEF Ahead
<1>2. IsSetting(Setting) BY SettingIs
<1>3. Len(tokens) \in Nat BY LenProperties
<1>4. z \in Points BY <1>3, LeadsOnward
<1>5. Reaches(Setting, x, pend, sock', z) BY <1>1, <1>2, ArrivesReaches
<1> QED BY <1>4, <1>5

\* Payload without a frame of its own.
LEMMA PlainReach ==
  ASSUME TunnelInv, StreamInv, NEW n \in Nat, sent + n <= Len(Payload), sent' = sent + n,
         config.transport = "tcp", UNCHANGED <<config, addons, framing>>,
         NEW tokens, tokens = SubSeq(Payload, sent + 1, sent + n),
         NEW x, NEW pend, Ahead(Setting, x, pend, sock, "open", There),
         config.vision /\ sent < addons + 1 => sent + n <= addons + 1,
         SendPlain(tokens)
  PROVE  Reaches(Setting, x, pend, sock', There')
<1> DEFINE tls == config.tls /\ framing # "direct"
           T   == Tokens(framing)
<1>1. /\ IsSetting(Setting) /\ There \in Points
      /\ config.tls \in BOOLEAN /\ config.vision \in BOOLEAN
      /\ sent \in Nat /\ addons \in Nat
      /\ There.taken = sent /\ There.rest = 0 /\ There.mode # "closed"
      /\ There.mode = IF framing \in {"end", "direct"} THEN framing ELSE "framed"
      /\ There.body = IF config.vision /\ sent < addons + 1 THEN addons + 1 - sent ELSE 0
  BY SettingIs
<1>2. /\ tokens \in Seq(T) /\ Len(tokens) = n
      /\ \A i \in 1..n : tokens[i] = Payload[sent + i]
  BY <1>1, PayloadPart
<1>3. /\ Setting.transport = "tcp" /\ Setting.vision = config.vision
      /\ Setting.payload = Payload
  BY DEF Setting
<1>4. ~config.vision \/ sent < addons + 1 \/ framing \in {"end", "direct"}
  BY <1>1, PayloadIs DEF SendPlain
<1>5. Arrives(tokens, tls) BY DEF SendPlain
<1>6. Can(Setting, There, n)
  <2>1. CASE config.vision /\ sent < addons + 1 BY <1>1, <1>3, <2>1 DEF Can
  <2>2. CASE ~config.vision BY <1>1, <1>3, <2>2 DEF Can, Free
  <2>3. CASE config.vision /\ ~(sent < addons + 1) /\ framing \in {"end", "direct"}
    BY <1>1, <1>3, <2>3 DEF Can, Free
  <2> QED BY <1>4, <2>1, <2>2, <2>3
<1>7. There' = [taken |-> sent + n,
                body |-> IF config.vision /\ sent + n < addons + 1 THEN addons + 1 - (sent + n) ELSE 0,
                rest |-> 0, mode |-> There.mode]
  BY <1>1 DEF There
<1>8. After(Setting, There, n) = There'
  <2>1. (IF Free(Setting, There) THEN There.body ELSE There.body - n)
          = IF config.vision /\ sent + n < addons + 1 THEN addons + 1 - (sent + n) ELSE 0
    <3>1. CASE config.vision /\ sent < addons + 1
      <4>1. There.body > 0 /\ ~Free(Setting, There) BY <1>1, <1>3, <3>1 DEF Free
      <4> QED BY <1>1, <3>1, <4>1
    <3>2. CASE ~(config.vision /\ sent < addons + 1)
      <4>1. Free(Setting, There) /\ There.body = 0 BY <1>1, <1>3, <1>4, <3>2 DEF Free
      <4> QED BY <1>1, <3>2, <4>1
    <3> QED BY <3>1, <3>2
  <2> QED BY <1>1, <1>3, <1>7, <2>1 DEF After
<1>9. Outside(There) => ~tls BY <1>1 DEF Outside
<1>10. tls \in BOOLEAN BY <1>1
<1>13. Fitting(Setting, There, tls)
  <2>1. ASSUME config.tls, ~tls
        PROVE  config.vision /\ Outside(There)
    <3>1. framing = "direct" BY <2>1
    <3>2. config.vision BY <3>1 DEF TunnelInv
    <3>3. sent >= addons + 1 BY <3>1 DEF StreamInv
    <3>4. There.body = 0 /\ There.mode = "direct" BY <1>1, <3>1, <3>3
    <3> QED BY <1>1, <3>2, <3>4 DEF Outside
  <2>2. Setting.tls = config.tls BY DEF Setting
  <2> QED BY <1>3, <1>9, <2>1, <2>2 DEF Fitting
<1> HIDE DEF tls, T
<1>11. Leads(Setting, tokens, tls, There, There')
  <2>1. \A i \in 1..Len(tokens) : tokens[i] = Setting.payload[There.taken + i] BY <1>1, <1>2, <1>3
  <2>2. Leads(Setting, tokens, tls, There, After(Setting, There, Len(tokens)))
    BY <1>1, <1>2, <1>6, <1>9, <2>1, LeadsRun
  <2> QED BY <1>2, <1>8, <2>2
<1>12. sock \in Seq(Records(framing)) BY DEF TunnelInv
<1> QED BY <1>2, <1>5, <1>10, <1>11, <1>12, <1>13, AheadWrite DEF T

\* A Vision frame, in one record or in two.
LEMMA VisionReach ==
  ASSUME TunnelInv, StreamInv, NEW n \in Nat, sent + n <= Len(Payload), sent' = sent + n,
         config.vision, UNCHANGED <<config, addons>>,
         NEW tokens, tokens = SubSeq(Payload, sent + 1, sent + n),
         NEW x, NEW pend, Ahead(Setting, x, pend, sock, "open", There),
         SendVision(tokens)
  PROVE  Reaches(Setting, x, pend, sock', There') /\ sent >= addons + 1
<1>1. PICK command \in Commands, padding \in 0..1 :
        LET frame == <<[k |-> "vis", uuid |-> framing = "first", command |-> command,
                        content |-> Len(tokens), padding |-> padding]>> \o tokens
            pads  == [i \in 1..padding |-> [k |-> "pad"]]
        IN  /\ Arrives(frame \o pads, TRUE) \/ (pads # <<>> /\ ArriveApart(frame, pads))
            /\ framing' = IF command = "continue" THEN "framed" ELSE command
  BY DEF SendVision
<1> DEFINE h     == [k |-> "vis", uuid |-> framing = "first", command |-> command,
                     content |-> Len(tokens), padding |-> padding]
           frame == <<h>> \o tokens
           pads  == [i \in 1..padding |-> [k |-> "pad"]]
           T     == Tokens(framing')
           m     == ModeAfter(command)
           y     == [taken |-> There.taken + Len(tokens), body |-> 0, rest |-> Len(pads),
                     mode |-> m]
<1>2. /\ IsSetting(Setting) /\ There \in Points
      /\ sent \in Nat /\ addons \in Nat
      /\ There.taken = sent /\ There.rest = 0
      /\ There.mode = IF framing \in {"end", "direct"} THEN framing ELSE "framed"
      /\ There.body = IF config.vision /\ sent < addons + 1 THEN addons + 1 - sent ELSE 0
  BY SettingIs
<1>3. framing \in {"first", "framed"} /\ sent >= addons + 1
  BY <1>2, PayloadIs DEF SendVision
<1>4. There.mode = "framed" /\ There.body = 0 BY <1>2, <1>3
<1>5. /\ framing' = (IF command = "continue" THEN "framed" ELSE command)
      /\ framing' \in {"framed", "end", "direct"} /\ command \in Said(framing')
      /\ m \in {"framed", "end", "direct"} /\ m = framing'
  BY <1>1 DEF Commands, Said, ModeAfter
<1>6. /\ \A f : tokens \in Seq(Tokens(f))
      /\ Len(tokens) = n /\ \A i \in 1..n : tokens[i] = Payload[sent + i]
  BY <1>2, PayloadPart
<1>7. h \in T /\ h.k = "vis" /\ h.content = Len(tokens) /\ h.padding = padding
      /\ h.command = command
  BY <1>5, <1>6 DEF Tokens
<1>8. /\ pads \in Seq(T) /\ Len(pads) = padding
      /\ \A i \in 1..Len(pads) : pads[i].k = "pad"
  <2>1. [k |-> "pad"] \in T BY DEF Tokens
  <2>2. padding \in Nat OBVIOUS
  <2> QED BY <2>1, <2>2
<1>9. /\ Setting.vision /\ Setting.payload = Payload
  BY DEF Setting
<1>10. There' = [taken |-> There.taken + Len(tokens), body |-> 0, rest |-> 0, mode |-> m]
  <2>1. (IF config.vision /\ sent + n < addons + 1 THEN addons + 1 - (sent + n) ELSE 0) = 0
    BY <1>2, <1>3
  <2>2. (IF framing' \in {"end", "direct"} THEN framing' ELSE "framed") = m BY <1>5
  <2> HIDE DEF m
  <2> QED BY <1>2, <1>6, <2>1, <2>2 DEF There
<1>11. framing' \in Framings /\ framing \in Framings BY <1>3, <1>5 DEF Framings
<1>12. sock \in Seq(Records(framing')) BY <1>3, <1>11, Widen DEF TunnelInv
<1>13. tokens \in Seq(T) /\ frame \in Seq(T) BY <1>6, <1>7, OneConcat
<1>14. Arrives(frame \o pads, TRUE) \/ (pads # <<>> /\ ArriveApart(frame, pads)) BY <1>1
<1> HIDE DEF T, h, pads, m
<1>15. /\ Leads(Setting, frame, TRUE, There, y)
       /\ Leads(Setting, pads, TRUE, y, There')
       /\ Len(pads) > 0 => ~Outside(y)
  <2>1. \A i \in 1..Len(tokens) : tokens[i] = Setting.payload[There.taken + i]
    BY <1>2, <1>6, <1>9
  <2>2. ModeAfter(h.command) = m BY <1>7 DEF m
  <2>3. h.padding = Len(pads) BY <1>7, <1>8
  <2>4. ModeAfter(h.command) \in {"framed", "end", "direct"} BY <1>5, <2>2
  <2>5. tokens \in Seq(T) /\ h \in T /\ pads \in Seq(T) BY <1>7, <1>8, <1>13
  <2>6. /\ h.k = "vis" /\ h.content = Len(tokens)
        /\ \A i \in 1..Len(pads) : pads[i].k = "pad"
    BY <1>7, <1>8
  <2>7. IsSetting(Setting) /\ Setting.vision /\ There \in Points /\ There.rest = 0
    BY <1>2, <1>9
  <2> HIDE DEF frame, y
  <2>8. LET y1 == [taken |-> There.taken + Len(tokens), body |-> 0, rest |-> Len(pads),
                   mode |-> ModeAfter(h.command)]
            z1 == [taken |-> There.taken + Len(tokens), body |-> 0, rest |-> 0,
                   mode |-> ModeAfter(h.command)]
        IN  /\ Leads(Setting, <<h>> \o tokens, TRUE, There, y1)
            /\ Leads(Setting, pads, TRUE, y1, z1)
            /\ Len(pads) > 0 => ~Outside(y1)
    BY <1>4, <2>1, <2>3, <2>4, <2>5, <2>6, <2>7, VisionLeads
  <2> QED BY <1>10, <2>2, <2>8 DEF frame, y
<1> HIDE DEF frame, y
<1>16. Fitting(Setting, There, TRUE) /\ (Len(pads) > 0 => Fitting(Setting, y, TRUE))
  <2>1. ~Outside(There) BY <1>4 DEF Outside
  <2> QED BY <1>15, <2>1, FramesFit
<1>17. CASE Arrives(frame \o pads, TRUE)
  <2> DEFINE all == frame \o pads
  <2>1. all \in Seq(T) BY <1>8, <1>13, ConcatType
  <2>2. Leads(Setting, all, TRUE, There, There') BY <1>2, <1>8, <1>13, <1>15, LeadsConcat
  <2>3. Arrives(all, TRUE) BY <1>17
  <2> HIDE DEF all
  <2>4. Reaches(Setting, x, pend, sock', There')
    BY <1>12, <1>16, <2>1, <2>2, <2>3, AheadWrite DEF T
  <2> QED BY <1>3, <2>4
<1>18. CASE pads # <<>> /\ ArriveApart(frame, pads)
  <2> DEFINE r1 == [tls |-> TRUE, tokens |-> frame]
             r2 == [tls |-> TRUE, tokens |-> pads]
             q1 == Append(sock, r1)
             q2 == Append(q1, r2)
             S  == Records(framing')
  <2>1. r1 \in S /\ r2 \in S BY <1>8, <1>13 DEF Records, T
  <2>2. r1.tls = TRUE /\ r1.tokens = frame /\ r2.tls = TRUE /\ r2.tokens = pads OBVIOUS
  <2>3. sock = <<>> /\ sock' = sock \o <<r1, r2>> BY <1>18 DEF ArriveApart
  <2> HIDE DEF r1, r2, S
  <2>4. sock' = q2
    <3> DEFINE two == <<r1, r2>>
    <3>1. two = Append(Append(<<>>, r1), r2) OBVIOUS
    <3>2. two \in Seq(S) BY <2>1
    <3>3. q2 = two BY <2>3, <3>1
    <3>4. sock' = <<>> \o two BY <2>3
    <3> HIDE DEF two, q2
    <3> QED BY <3>2, <3>3, <3>4, ConcatEmptySeq
  <2>5. q1 \in Seq(S) BY <1>12, <2>1, AppendProperties DEF S
  <2>6. Len(frame) \in Nat /\ Len(pads) \in Nat BY <1>8, <1>13, LenProperties
  <2>7. Reaches(Setting, x, pend, q1, y)
    <3>1. Reaches(Setting, x, pend, sock, There) BY DEF Ahead
    <3>2. sock \in Seq(S) BY <1>12 DEF S
    <3> QED BY <1>15, <1>16, <2>1, <2>2, <2>6, <3>1, <3>2, ReachesAppend
  <2>8. Len(pads) > 0 BY <1>8, <1>18, <2>6, EmptySeq
  <2> HIDE DEF q1
  <2>9. Reaches(Setting, x, pend, q2, There')
    BY <1>15, <1>16, <2>1, <2>2, <2>5, <2>6, <2>7, <2>8, ReachesAppend
  <2> QED BY <1>3, <2>4, <2>9
<1> QED BY <1>14, <1>17, <1>18

\* A gRPC message, the last one or not.
LEMMA MessageReach ==
  ASSUME TunnelInv, StreamInv, NEW n \in Nat, n > 0, sent + n <= Len(Payload), sent' = sent + n,
         config.transport = "grpc", UNCHANGED <<config, addons, framing>>,
         NEW tokens, tokens = SubSeq(Payload, sent + 1, sent + n),
         NEW x, NEW pend, Ahead(Setting, x, pend, sock, "open", There),
         NEW last \in BOOLEAN, SendMessage(tokens, last)
  PROVE  Reaches(Setting, x, pend, sock', IF last THEN Gone(There') ELSE There')
<1> DEFINE z == [taken |-> There.taken + Len(tokens), body |-> 0, rest |-> 0,
                 mode |-> IF last THEN "closed" ELSE "framed"]
<1>1. /\ IsSetting(Setting) /\ There \in Points
      /\ ~config.vision /\ sent \in Nat /\ addons \in Nat
      /\ There.taken = sent /\ There.rest = 0 /\ There.mode = "framed" /\ There.body = 0
  BY SettingIs
<1>2. /\ tokens \in Seq(Tokens(framing)) /\ Len(tokens) = n
      /\ \A i \in 1..n : tokens[i] = Payload[sent + i]
  BY <1>1, PayloadPart
<1>3. Setting.transport = "grpc" /\ Setting.payload = Payload BY DEF Setting
<1>4. PICK bytes \in MessageWrites(tokens, last) : Arrives(bytes, TRUE) BY DEF SendMessage
<1>5. bytes \in Seq(Tokens(framing)) BY <1>2, MessageType
<1>6. There' = [taken |-> sent + n, body |-> 0, rest |-> 0, mode |-> "framed"]
  <2>1. (IF framing \in {"end", "direct"} THEN framing ELSE "framed") = "framed"
    BY <1>1 DEF TunnelInv
  <2> QED BY <1>1, <2>1 DEF There
<1>7. z = IF last THEN Gone(There') ELSE There' BY <1>1, <1>2, <1>6 DEF Gone
<1>8. tokens # <<>>
  <2>1. Len(tokens) # 0 BY <1>2
  <2> HIDE DEF z
  <2> QED BY <1>2, <2>1, EmptySeq
<1>9. Leads(Setting, bytes, TRUE, There, z)
  <2>1. \A i \in 1..Len(tokens) : tokens[i] = Setting.payload[There.taken + i]
    BY <1>1, <1>2, <1>3
  <2> QED BY <1>1, <1>2, <1>3, <1>8, <2>1, MessageLeads
<1>10. Fitting(Setting, There, TRUE)
  <2>1. ~Outside(There) BY <1>1 DEF Outside
  <2> QED BY <2>1, FramesFit
<1>11. sock \in Seq(Records(framing)) BY DEF TunnelInv
<1> HIDE DEF z
<1>12. Reaches(Setting, x, pend, sock', z)
  BY <1>4, <1>5, <1>9, <1>10, <1>11, AheadWrite
<1> QED BY <1>7, <1>12

\* A WebSocket frame.
LEMMA WebSocketReach ==
  ASSUME TunnelInv, StreamInv, NEW n \in Nat, sent + n <= Len(Payload), sent' = sent + n,
         config.transport = "ws", UNCHANGED <<config, addons>>,
         NEW tokens, tokens = SubSeq(Payload, sent + 1, sent + n),
         NEW x, NEW pend, Ahead(Setting, x, pend, sock, "open", There),
         SendWebSocket(tokens)
  PROVE  Reaches(Setting, x, pend, sock', There')
<1> DEFINE h == [k |-> "ws", op |-> "data", n |-> Len(tokens)]
           z == [There EXCEPT !.taken = There.taken + Len(tokens)]
           frame == <<h>> \o tokens
<1>1. /\ IsSetting(Setting) /\ There \in Points /\ config.tls \in BOOLEAN
      /\ ~config.vision /\ sent \in Nat /\ addons \in Nat
      /\ There.taken = sent /\ There.rest = 0 /\ There.mode = "framed" /\ There.body = 0
  BY SettingIs
<1>2. /\ tokens \in Seq(Tokens(framing)) /\ Len(tokens) = n
      /\ \A i \in 1..n : tokens[i] = Payload[sent + i]
  BY <1>1, PayloadPart
<1>3. Setting.transport = "ws" /\ Setting.payload = Payload BY DEF Setting
<1>4. Arrives(frame, config.tls) /\ framing' = framing BY DEF SendWebSocket
<1>5. h \in Tokens(framing) /\ h.k = "ws" /\ h.op = "data" /\ h.n = Len(tokens)
  BY <1>2 DEF Tokens
<1>6. There' = z
  <2>1. (IF framing \in {"end", "direct"} THEN framing ELSE "framed") = "framed"
    BY <1>1 DEF TunnelInv
  <2>2. There' = [taken |-> sent + n, body |-> 0, rest |-> 0, mode |-> "framed"]
    BY <1>1, <1>4, <2>1 DEF There
  <2>3. z = [taken |-> sent + n, body |-> 0, rest |-> 0, mode |-> "framed"]
    <3> DEFINE there == There
               t == there.taken + Len(tokens)
    <3>1. there \in Points /\ there.rest = 0 /\ there.mode = "framed" /\ there.body = 0
          /\ t = sent + n
      BY <1>1, <1>2
    <3> HIDE DEF there, t
    <3>2. [there EXCEPT !.taken = t] = [taken |-> sent + n, body |-> 0, rest |-> 0, mode |-> "framed"]
      BY <3>1 DEF Points
    <3> QED BY <3>2 DEF there, t
  <2> HIDE DEF z
  <2> QED BY <2>2, <2>3
<1> HIDE DEF h
<1>7. Leads(Setting, frame, config.tls, There, z)
  <2>1. \A i \in 1..Len(tokens) : tokens[i] = Setting.payload[There.taken + i]
    BY <1>1, <1>2, <1>3
  <2> QED BY <1>1, <1>2, <1>3, <1>5, <2>1, WebSocketLeads
<1>8. frame \in Seq(Tokens(framing)) BY <1>2, <1>5, OneConcat
<1>9. Fitting(Setting, There, config.tls)
  <2>1. ~Outside(There) /\ Setting.tls = config.tls BY <1>1 DEF Outside, Setting
  <2> QED BY <2>1, FramesFit
<1>10. sock \in Seq(Records(framing)) BY DEF TunnelInv
<1> HIDE DEF z, frame
<1>11. Reaches(Setting, x, pend, sock', z)
  BY <1>1, <1>4, <1>7, <1>8, <1>9, <1>10, AheadWrite
<1> QED BY <1>6, <1>11

\* One token more on its way.
LEMMA OneReach ==
  ASSUME TunnelInv, StreamInv, NEW x, NEW pend, Ahead(Setting, x, pend, sock, "open", There),
         NEW f, sock \in Seq(Records(f)), NEW t \in Tokens(f), NEW tls \in BOOLEAN,
         Arrives(<<t>>, tls),
         NEW z, Token(Setting, There, t, z), Fitting(Setting, There, tls)
  PROVE  Reaches(Setting, x, pend, sock', z)
<1> DEFINE s == <<t>>
<1>1. IsSetting(Setting) /\ There \in Points BY SettingIs
<1>2. s \in Seq(Tokens(f)) OBVIOUS
<1>3. Arrives(s, tls) OBVIOUS
<1>4. s = <<t>> OBVIOUS
<1> HIDE DEF s
<1>5. Leads(Setting, s, tls, There, z) BY <1>1, <1>4, LeadsOne DEF Fitting
<1> QED BY <1>2, <1>3, <1>5, AheadWrite

\* What reaches the place behind all that was sent is all that is under way.
LEMMA AheadIs ==
  ASSUME NEW e, NEW x, NEW pend, NEW q, NEW there \in Points, there.mode # "closed"
  PROVE  /\ Reaches(e, x, pend, q, there) =>
              Ahead(e, x, pend, q, "open", there) /\ Ahead(e, x, pend, q, "clean", there)
         /\ Reaches(e, x, pend, q, Gone(there)) => Ahead(e, x, pend, q, "clean", there)
         /\ Ahead(e, x, pend, q, "open", there) => Reaches(e, x, pend, q, there)
<1>1. there.taken \in Nat /\ there.taken <= there.taken BY DEF Points
<1>2. Gone(there) \in Points /\ Gone(there).taken = there.taken /\ Gone(there).mode = "closed"
  BY DEF Gone, Points
<1> QED BY <1>1, <1>2 DEF Ahead

\* The server's writes of payload.
LEMMA SendsAhead ==
  ASSUME TunnelInv, StreamInv, NEW x, NEW pend, Ahead(Setting, x, pend, sock, "open", There),
         ServerSends
  PROVE  Reaches(Setting, x, pend, sock', There') /\ StreamInv'
<1>1. /\ sent \in Nat /\ addons \in Nat /\ addons' = addons /\ config' = config
      /\ Len(Payload) \in Nat /\ Len(Payload) = addons + 1 + DataMax
      /\ Len(Response) = addons + 1 /\ sent <= Len(Payload) /\ SendMax \in Nat
  BY SettingIs, PayloadIs, ServerAssumption DEF ServerSends, StreamInv
<1>2. PICK n \in 0..Least(SendMax, Len(Payload) - sent) :
        LET tokens == SubSeq(Payload, sent + 1, sent + n) IN
          /\ \/ config.transport = "tcp" /\ SendPlain(tokens)
             \/ config.vision /\ SendVision(tokens)
             \/ config.transport = "grpc" /\ SendMessage(tokens, FALSE)
             \/ config.transport = "ws" /\ SendWebSocket(tokens)
          /\ config.vision /\ sent < Len(Response) => sent + n <= Len(Response)
          /\ sent' = sent + n
  BY DEF ServerSends
<1> DEFINE tokens == SubSeq(Payload, sent + 1, sent + n)
<1>3. n \in Nat /\ sent + n <= Len(Payload)
  <2>1. Least(SendMax, Len(Payload) - sent) <= Len(Payload) - sent
        /\ Least(SendMax, Len(Payload) - sent) \in Int
    BY <1>1 DEF Least
  <2> QED BY <1>1, <2>1
<1>4. /\ sent' = sent + n
      /\ config.vision /\ sent < addons + 1 => sent + n <= addons + 1
      /\ \/ config.transport = "tcp" /\ SendPlain(tokens)
         \/ config.vision /\ SendVision(tokens)
         \/ config.transport = "grpc" /\ SendMessage(tokens, FALSE)
         \/ config.transport = "ws" /\ SendWebSocket(tokens)
  BY <1>1, <1>2
<1>5. Len(tokens) = n BY <1>1, <1>3, PayloadPart
<1>6. tokens = SubSeq(Payload, sent + 1, sent + n) OBVIOUS
<1>7. addons \in {0, 1} /\ (framing \in {"framed", "end", "direct"} => sent >= addons + 1)
  BY DEF StreamInv
<1> HIDE DEF tokens
<1>8. CASE config.transport = "tcp" /\ SendPlain(tokens)
  <2>1. framing' = framing BY <1>8 DEF SendPlain
  <2>2. Reaches(Setting, x, pend, sock', There') BY <1>1, <1>3, <1>4, <1>6, <1>8, <2>1, PlainReach
  <2>3. StreamInv' BY <1>1, <1>3, <1>4, <1>7, <2>1 DEF StreamInv
  <2> QED BY <2>2, <2>3
<1>9. CASE config.vision /\ SendVision(tokens)
  <2>1. Reaches(Setting, x, pend, sock', There') /\ sent >= addons + 1
    BY <1>1, <1>3, <1>4, <1>6, <1>9, VisionReach
  <2>2. StreamInv' BY <1>1, <1>3, <1>4, <1>7, <2>1 DEF StreamInv
  <2> QED BY <2>1, <2>2
<1>10. CASE config.transport = "grpc" /\ SendMessage(tokens, FALSE)
  <2>1. framing' = framing /\ tokens # <<>> BY <1>10 DEF SendMessage
  <2>2. n > 0 
    <3>1. CASE n = 0
      <4>1. tokens \in Seq(Tokens(framing)) BY <1>1, <1>3, <1>6, PayloadPart
      <4> QED BY <1>5, <2>1, <3>1, <4>1, EmptySeq
    <3> QED BY <1>3, <3>1
  <2>3. Reaches(Setting, x, pend, sock', There')
    <3> DEFINE last == FALSE
    <3>1. last \in BOOLEAN /\ SendMessage(tokens, last) /\ ~last BY <1>10
    <3> HIDE DEF last
    <3>2. Reaches(Setting, x, pend, sock', IF last THEN Gone(There') ELSE There')
      BY <1>1, <1>3, <1>4, <1>6, <1>10, <2>1, <2>2, <3>1, MessageReach
    <3> QED BY <3>1, <3>2
  <2>4. StreamInv' BY <1>1, <1>3, <1>4, <1>7, <2>1 DEF StreamInv
  <2> QED BY <2>3, <2>4
<1>11. CASE config.transport = "ws" /\ SendWebSocket(tokens)
  <2>1. framing' = framing BY <1>11 DEF SendWebSocket
  <2>2. Reaches(Setting, x, pend, sock', There') BY <1>1, <1>3, <1>4, <1>6, <1>11, WebSocketReach
  <2>3. StreamInv' BY <1>1, <1>3, <1>4, <1>7, <2>1 DEF StreamInv
  <2> QED BY <2>2, <2>3
<1> QED BY <1>4, <1>8, <1>9, <1>10, <1>11

\* Session tickets, pings, settings, empty frames, GOAWAY.
LEMMA ControlsAhead ==
  ASSUME TunnelInv, StreamInv, NEW x, NEW pend, Ahead(Setting, x, pend, sock, "open", There),
         ServerControls \/ ServerLeaves
  PROVE  Reaches(Setting, x, pend, sock', There') /\ StreamInv'
<1>1. /\ There \in Points /\ There.mode \in {"framed", "end", "direct"}
      /\ There.mode = IF framing \in {"end", "direct"} THEN framing ELSE "framed"
      /\ ~config.vision => There.mode = "framed" /\ There.body = 0
      /\ config.vision => config.transport = "tcp"
      /\ config.tls \in BOOLEAN
  BY SettingIs
<1>2. /\ config' = config /\ addons' = addons /\ sent' = sent
      /\ framing' = framing \/ (framing' = "leaving" /\ config.transport = "grpc")
  BY DEF ServerControls, ServerLeaves
<1>3. There' = There
  <2>1. (IF framing' \in {"end", "direct"} THEN framing' ELSE "framed")
          = IF framing \in {"end", "direct"} THEN framing ELSE "framed"
    <3>1. CASE framing' = framing BY <3>1
    <3>2. CASE framing' = "leaving" /\ config.transport = "grpc"
      <4>1. framing \notin {"end", "direct"} BY <1>1, <3>2 DEF TunnelInv
      <4> QED BY <3>2, <4>1
    <3> QED BY <1>2, <3>1, <3>2
  <2> QED BY <1>2, <2>1 DEF There
<1>4. StreamInv' BY <1>2 DEF StreamInv
<1>5. Setting.transport = config.transport BY DEF Setting
<1>6. CASE config.tls /\ framing # "direct" /\ Arrives(<<>>, TRUE)
  <2> DEFINE none == <<>>
             tls == TRUE
  <2>1. none \in Seq(Tokens(framing)) /\ Len(none) = 0 OBVIOUS
  <2>2. Arrives(none, tls) /\ tls \in BOOLEAN BY <1>6
  <2> HIDE DEF none, tls
  <2>3. Leads(Setting, none, tls, There, There) BY <1>1, <2>1, LeadsNone
  <2>4. Fitting(Setting, There, tls)
    <3>1. ~Outside(There) /\ tls BY <1>1, <1>6 DEF Outside, tls
    <3> QED BY <3>1, FramesFit
  <2>5. sock \in Seq(Records(framing)) BY DEF TunnelInv
  <2>6. Reaches(Setting, x, pend, sock', There)
    BY <2>1, <2>2, <2>3, <2>4, <2>5, AheadWrite
  <2> QED BY <1>3, <1>4, <2>6
<1>7. CASE /\ config.transport = "ws"
           /\ \E op \in {"ping", "data"} : Arrives(<<[k |-> "ws", op |-> op, n |-> 0]>>, config.tls)
  <2>1. PICK op \in {"ping", "data"} :
          Arrives(<<[k |-> "ws", op |-> op, n |-> 0]>>, config.tls)
    BY <1>7
  <2> DEFINE t == [k |-> "ws", op |-> op, n |-> 0]
  <2>2. t \in Tokens(framing) BY DEF Tokens
  <2>3. /\ t.k = "ws" /\ t.n = 0 /\ t.op # "close" /\ Arrives(<<t>>, config.tls)
    BY <2>1
  <2> HIDE DEF t
  <2>4. There.mode = "framed" /\ There.body = 0 /\ sock \in Seq(Records(framing))
    BY <1>1, <1>7 DEF TunnelInv
  <2>5. There = [There EXCEPT !.body = IF t.op = "data" THEN t.n ELSE 0,
                              !.mode = IF t.op = "close" THEN "closed" ELSE There.mode]
    BY <1>1, <2>3, <2>4 DEF Points
  <2>6. Token(Setting, There, t, There)
    BY <1>1, <1>5, <1>7, <2>3, <2>4, <2>5 DEF Token
  <2>7. Fitting(Setting, There, config.tls)
    <3>1. ~Outside(There) /\ Setting.tls = config.tls BY <2>4 DEF Outside, Setting
    <3> QED BY <3>1, FramesFit
  <2>8. Reaches(Setting, x, pend, sock', There)
    BY <1>1, <2>2, <2>3, <2>4, <2>6, <2>7, OneReach
  <2> QED BY <1>3, <1>4, <2>8
<1>8. CASE /\ config.transport = "grpc"
           /\ \E type \in {"settings", "ping", "data", "goaway"} :
                Arrives(<<H2(type, 0, FALSE)>>, TRUE)
  <2>1. PICK type \in {"settings", "ping", "data", "goaway"} :
          Arrives(<<H2(type, 0, FALSE)>>, TRUE)
    BY <1>8
  <2> DEFINE t == H2(type, 0, FALSE)
             tls == TRUE
  <2>2. t \in Tokens("leaving") /\ sock \in Seq(Records("leaving"))
    <3>1. t \in Tokens("leaving") BY DEF H2, Tokens, H2Types
    <3>2. framing \in {"first", "leaving"} /\ sock \in Seq(Records(framing))
      BY <1>1, <1>8 DEF TunnelInv, Framings
    <3>3. framing \in Framings /\ "leaving" \in Framings BY <3>2 DEF Framings
    <3> QED BY <3>1, <3>2, <3>3, Widen
  <2>3. /\ t.k = "h2" /\ t.n = 0 /\ ~t.last /\ Arrives(<<t>>, tls) /\ tls \in BOOLEAN
    BY <2>1 DEF H2
  <2> HIDE DEF t, tls
  <2>4. There.mode = "framed" /\ There.body = 0 BY <1>1, <1>8
  <2>5. There = [There EXCEPT !.body = t.n,
                              !.mode = IF t.last THEN "closed" ELSE There.mode]
    BY <1>1, <2>3, <2>4 DEF Points
  <2>6. Token(Setting, There, t, There)
    BY <1>1, <1>5, <1>8, <2>3, <2>4, <2>5 DEF Token
  <2>7. Fitting(Setting, There, tls)
    <3>1. ~Outside(There) /\ tls BY <2>4 DEF Outside, tls
    <3> QED BY <3>1, FramesFit
  <2>8. Reaches(Setting, x, pend, sock', There)
    BY <1>1, <2>2, <2>3, <2>6, <2>7, OneReach
  <2> QED BY <1>3, <1>4, <2>8
<1> QED BY <1>6, <1>7, <1>8 DEF ServerControls, ServerLeaves

\* The goodbye of a transport.
LEMMA GoodbyeAhead ==
  ASSUME TunnelInv, StreamInv, NEW x, NEW pend, Ahead(Setting, x, pend, sock, "open", There),
         \/ /\ config.transport = "ws"
            /\ Arrives(<<[k |-> "ws", op |-> "close", n |-> 0]>>, config.tls)
         \/ config.transport = "grpc" /\ Arrives(<<H2("data", 0, TRUE)>>, TRUE)
  PROVE  Reaches(Setting, x, pend, sock', Gone(There))
<1>1. /\ There \in Points /\ ~config.vision
      /\ There.mode = "framed" /\ There.body = 0 /\ config.tls \in BOOLEAN
  BY SettingIs
<1>2. Setting.transport = config.transport BY DEF Setting
<1>3. /\ Fitting(Setting, There, config.tls) /\ Fitting(Setting, There, TRUE)
      /\ sock \in Seq(Records(framing))
  <2>1. ~Outside(There) /\ Setting.tls = config.tls BY <1>1 DEF Outside, Setting
  <2>2. sock \in Seq(Records(framing)) BY DEF TunnelInv
  <2> QED BY <2>1, <2>2, FramesFit
<1>4. Gone(There) \in Points BY <1>1 DEF Points, Gone
<1>5. CASE /\ config.transport = "ws"
           /\ Arrives(<<[k |-> "ws", op |-> "close", n |-> 0]>>, config.tls)
  <2> DEFINE t == [k |-> "ws", op |-> "close", n |-> 0]
  <2>1. t \in Tokens(framing) BY DEF Tokens
  <2>2. /\ t.k = "ws" /\ t.n = 0 /\ t.op = "close" /\ Arrives(<<t>>, config.tls)
    BY <1>5
  <2> HIDE DEF t
  <2>3. Gone(There) = [There EXCEPT !.body = IF t.op = "data" THEN t.n ELSE 0,
                                    !.mode = IF t.op = "close" THEN "closed" ELSE There.mode]
    BY <1>1, <2>2 DEF Points, Gone
  <2>4. Token(Setting, There, t, Gone(There))
    BY <1>1, <1>2, <1>4, <1>5, <2>2, <2>3 DEF Token
  <2> QED BY <1>1, <1>3, <2>1, <2>2, <2>4, OneReach
<1>6. CASE config.transport = "grpc" /\ Arrives(<<H2("data", 0, TRUE)>>, TRUE)
  <2> DEFINE t == H2("data", 0, TRUE)
             tls == TRUE
  <2>1. t \in Tokens(framing) BY DEF H2, Tokens, H2Types
  <2>2. /\ t.k = "h2" /\ t.type = "data" /\ t.n = 0 /\ t.last /\ Arrives(<<t>>, tls)
        /\ tls \in BOOLEAN
    BY <1>6 DEF H2
  <2> HIDE DEF t, tls
  <2>3. Gone(There) = [There EXCEPT !.body = t.n,
                                    !.mode = IF t.last THEN "closed" ELSE There.mode]
    BY <1>1, <2>2 DEF Points, Gone
  <2>4. Token(Setting, There, t, Gone(There))
    BY <1>1, <1>2, <1>4, <1>6, <2>2, <2>3 DEF Token
  <2>5. Fitting(Setting, There, tls) BY <1>3 DEF tls
  <2> QED BY <1>1, <1>3, <2>1, <2>2, <2>4, <2>5, OneReach
<1> QED BY <1>5, <1>6

\* The end of a stream.
LEMMA ClosesAhead ==
  ASSUME TunnelInv, StreamInv, NEW x, NEW pend, Ahead(Setting, x, pend, sock, "open", There),
         ServerCloses
  PROVE  Ahead(Setting, x, pend, sock', closed', There') /\ StreamInv'
<1>1. /\ There \in Points /\ There.mode # "closed" /\ sent \in Nat /\ addons \in Nat
      /\ config' = config /\ addons' = addons
  BY SettingIs DEF ServerCloses
<1>2. Reaches(Setting, x, pend, sock, There) BY <1>1, AheadIs
<1>3. ASSUME sent' = sent, framing' = framing PROVE There' = There /\ StreamInv'
  BY <1>1, <1>3 DEF There, StreamInv
<1>4. CASE closed' = "clean" /\ sock' = sock /\ sent' = sent /\ framing' = framing
  BY <1>1, <1>2, <1>3, <1>4, AheadIs
<1>5. CASE /\ closed' = "reset" /\ sock' \in {sock, Prefix(sock, Len(sock) - 1)}
           /\ sent' = sent /\ framing' = framing
  <2>1. There.taken \in Nat /\ There.taken <= There.taken BY <1>1 DEF Points
  <2>2. CASE sock' = sock BY <1>1, <1>2, <1>3, <1>5, <2>1, <2>2 DEF Ahead
  <2>3. CASE sock' = Prefix(sock, Len(sock) - 1)
    <3>1. sock \in Seq(Records(framing)) BY DEF TunnelInv
    <3>2. PICK z \in Points : Reaches(Setting, x, pend, sock', z) /\ Onward(z, There)
      BY <1>2, <2>3, <3>1, ReachesCut
    <3>3. z.taken <= There.taken /\ z.mode # "closed" BY <1>1, <3>2 DEF Onward
    <3> QED BY <1>3, <1>5, <3>2, <3>3 DEF Ahead
  <2> QED BY <1>5, <2>2, <2>3
<1>6. CASE /\ closed' = "clean" /\ sent' = sent /\ framing' = framing
           /\ \/ /\ config.transport = "ws"
                 /\ Arrives(<<[k |-> "ws", op |-> "close", n |-> 0]>>, config.tls)
              \/ config.transport = "grpc" /\ Arrives(<<H2("data", 0, TRUE)>>, TRUE)
  <2>1. Reaches(Setting, x, pend, sock', Gone(There)) BY <1>6, GoodbyeAhead
  <2> QED BY <1>1, <1>3, <1>6, <2>1, AheadIs
<1>7. CASE /\ closed' = "clean" /\ config.transport = "grpc"
           /\ sent < Len(Payload) /\ SendMessage(<<Payload[sent + 1]>>, TRUE) /\ sent' = sent + 1
  <2> DEFINE n      == 1
             last   == TRUE
             tokens == SubSeq(Payload, sent + 1, sent + n)
             one    == <<Payload[sent + 1]>>
  <2>1. n \in Nat /\ n > 0 /\ n = 1 /\ last \in BOOLEAN /\ last OBVIOUS
  <2>2. Len(Payload) \in Nat BY <1>1, PayloadType, LenProperties
  <2>3. sent + n <= Len(Payload) BY <1>1, <1>7, <2>2
  <2> HIDE DEF n, last
  <2>4. /\ tokens \in Seq(Tokens(framing)) /\ Len(tokens) = 1 /\ tokens[1] = Payload[sent + 1]
    <3>1. /\ tokens \in Seq(Tokens(framing)) /\ Len(tokens) = n
          /\ \A i \in 1..n : tokens[i] = Payload[sent + i]
      BY <1>1, <2>1, <2>3, PayloadPart
    <3> HIDE DEF tokens
    <3> QED BY <2>1, <3>1
  <2> HIDE DEF tokens
  <2>5. tokens = one BY <2>4
  <2>6. SendMessage(tokens, last) BY <1>7, <2>1, <2>5 DEF last
  <2>7. framing' = framing BY <1>7 DEF SendMessage
  <2>8. tokens = SubSeq(Payload, sent + 1, sent + n) BY DEF tokens
  <2>9. sent' = sent + n BY <1>7, <2>1
  <2>10. Reaches(Setting, x, pend, sock', Gone(There'))
    <3>1. Reaches(Setting, x, pend, sock', IF last THEN Gone(There') ELSE There')
      BY <1>1, <1>7, <2>1, <2>3, <2>6, <2>7, <2>8, <2>9, MessageReach
    <3> QED BY <2>1, <3>1
  <2>11. There' \in Points /\ There'.mode # "closed"
    <3>1. There' = [taken |-> sent + 1, body |-> 0, rest |-> 0, mode |-> "framed"]
      <4>1. ~config.vision /\ framing \notin {"end", "direct"}
        <5>1. ~config.vision BY <1>7, SettingIs
        <5> QED BY <5>1 DEF TunnelInv
      <4> QED BY <1>1, <1>7, <2>7, <4>1 DEF There
    <3> QED BY <1>1, <3>1 DEF Points
  <2>12. StreamInv'
    <3>1. addons' \in {0, 1} /\ sent' <= addons' + 1 + DataMax
          /\ (framing' \in {"framed", "end", "direct"} => sent' >= addons' + 1)
      BY <1>1, <1>7, <2>2, <2>7, PayloadIs, ServerAssumption DEF StreamInv
    <3> QED BY <3>1 DEF StreamInv
  <2> QED BY <1>7, <2>10, <2>11, <2>12, AheadIs
<1> QED BY <1>4, <1>5, <1>6, <1>7 DEF ServerCloses

\* Whatever the server does, what is under way still leads from where the reader
\* is to where the server is.
LEMMA ServerAhead ==
  ASSUME TunnelInv, StreamInv, NEW x, NEW pend, Ahead(Setting, x, pend, sock, closed, There),
         ServerNext, buffer' = buffer
  PROVE  /\ Ahead(Setting, x, pend, sock', closed', There') /\ StreamInv'
         /\ Setting' = Setting
<1>1. closed = "open" /\ config' = config /\ addons' = addons
  BY DEF ServerNext, ServerSends, ServerControls, ServerLeaves, ServerCloses
<1>2. Setting' = Setting BY <1>1 DEF Setting, Payload, Response
<1>3. CASE ServerCloses BY <1>1, <1>2, <1>3, ClosesAhead
<1>4. CASE ServerSends \/ ServerControls \/ ServerLeaves
  <2>1. closed' = closed
    BY <1>4 DEF ServerSends, ServerControls, ServerLeaves
  <2>2. Reaches(Setting, x, pend, sock', There') /\ StreamInv'
    BY <1>1, <1>4, SendsAhead, ControlsAhead
  <2>3. TunnelInv' BY ServerStep
  <2>4. There' \in Points /\ There'.mode # "closed"
    <3>1. sent' \in Nat /\ addons' \in Nat
      BY <2>3 DEF TunnelInv
    <3>2. sent' < addons' + 1 => addons' + 1 - sent' \in Nat
      <4>1. \A a, b \in Nat : b < a + 1 => a + 1 - b \in Nat OBVIOUS
      <4> QED BY <3>1, <4>1
    <3>3. (IF framing' \in {"end", "direct"} THEN framing' ELSE "framed")
            \in {"framed", "end", "direct"}
      OBVIOUS
    <3> QED BY <3>1, <3>2, <3>3 DEF There, Points
  <2> QED BY <1>1, <1>2, <2>1, <2>2, <2>4, AheadIs
<1> QED BY <1>3, <1>4 DEF ServerNext

-----------------------------------------------------------------------------
(* What the engine reads leads it on.                                      *)

\* What was received from the first record in the socket, and what was left of it.
LEMMA SocketMoves ==
  ASSUME TunnelInv, NEW e, NEW x, NEW y, Reaches(e, x, conn.ssl_pending, sock, y),
         Len(conn.ssl_pending) = 0, sock # <<>>, NEW n \in 0..Len(Arrived)
  PROVE  /\ Fitting(e, x, Head(sock).tls)
         /\ \E z \in Points : /\ Leads(e, Prefix(Arrived, n), Head(sock).tls, x, z)
                              /\ Reaches(e, z, conn.ssl_pending, Received(n), y)
<1> DEFINE S == Records(framing)
           T == Tokens(framing)
           q == sock
           pend == conn.ssl_pending
           h == Head(q)
           s == h.tokens
           tls == h.tls
<1>1. q \in Seq(S) /\ q # <<>> /\ pend \in Seq(T) BY DEF TunnelInv, Conns
<1>2. h \in S
  <2> HIDE DEF S
  <2> QED BY <1>1, HeadTailProperties
<1>3. s \in Seq(T) /\ tls \in BOOLEAN /\ Arrived = s BY <1>2 DEF Records, Arrived
<1>4. Len(s) \in Nat BY <1>3, LenProperties
<1>5. PICK z1 \in Points :
        /\ Leads(e, s, tls, x, z1)
        /\ Fitting(e, x, tls)
        /\ \A w, u : Leads(e, u, TRUE, w, z1) => Reaches(e, w, u, Tail(q), y)
        /\ \A w \in Points : \A r :
             /\ r \in S /\ Len(r.tokens) \in Nat
             /\ Leads(e, r.tokens, r.tls, w, z1) /\ Fitting(e, w, r.tls)
             => Reaches(e, w, pend, <<r>> \o Tail(q), y)
  <2> HIDE DEF S
  <2> QED BY <1>1, ReachesTail
<1>6. n \in 0..Len(s) BY <1>3
<1>7. PICK z \in Points :
        /\ Leads(e, Prefix(s, n), tls, x, z) /\ Leads(e, Drop(s, n), tls, z, z1)
        /\ n < Len(s) /\ Outside(z) => ~tls
  <2> HIDE DEF T
  <2> QED BY <1>3, <1>5, <1>6, LeadsSplit
<1>8. Drop(s, n) \in Seq(T) BY <1>3, <1>6, DropType
<1>9. CASE n = Len(s)
  <2>1. Received(n) = Tail(q) BY <1>3, <1>9 DEF Received
  <2>2. Len(Drop(s, n)) = 0
    <3>1. Drop(s, n) = SubSeq(s, n + 1, Len(s)) BY DEF Drop
    <3> HIDE DEF s, T
    <3> QED BY <1>3, <1>4, <1>9, <3>1
  <2>3. z1 = z BY <1>7, <2>2, LeadsNone
  <2>4. Leads(e, pend, TRUE, z, z) BY <1>7, LeadsNone
  <2> QED BY <1>3, <1>5, <1>7, <2>1, <2>3, <2>4
<1>10. CASE n # Len(s)
  <2> DEFINE r == [h EXCEPT !.tokens = Drop(s, n)]
  <2>1. Received(n) = <<r>> \o Tail(q) BY <1>3, <1>10 DEF Received
  <2>2. r \in S /\ r.tokens = Drop(s, n) /\ r.tls = tls BY <1>2, <1>8 DEF Records
  <2>3. Len(r.tokens) \in Nat BY <1>8, <2>2, LenProperties
  <2>4. Fitting(e, z, r.tls)
    <3>1. Outside(z) => ~tls BY <1>4, <1>6, <1>7, <1>10
    <3>2. ASSUME e.tls, ~tls PROVE e.vision /\ e.transport = "tcp" /\ Outside(z)
      <4>1. e.vision /\ e.transport = "tcp" /\ Outside(x) BY <1>5, <3>2 DEF Fitting
      <4>2. Prefix(s, n) \in Seq(T) BY <1>3, <1>4, <1>6, PrefixType
      <4> HIDE DEF T, s, tls
      <4>3. Outside(z) BY <1>7, <4>1, <4>2, OutsideLeads
      <4> QED BY <4>1, <4>3
    <3>3. Fitting(e, z, tls) BY <3>1, <3>2 DEF Fitting
    <3> QED BY <2>2, <3>3
  <2> HIDE DEF r, S
  <2> QED BY <1>3, <1>5, <1>7, <2>1, <2>2, <2>3, <2>4
<1> QED BY <1>9, <1>10, <1>5

\* upstream_raw_read(): what was read leads to a place from which the rest leads on.
LEMMA RawMoves ==
  ASSUME TunnelInv, NEW e, NEW x, NEW y, Reaches(e, x, conn.ssl_pending, sock, y),
         ~config.tls => conn.ssl_pending = <<>>, NEW n \in 1..Len(Raw)
  PROVE  \E z \in Points, tls \in BOOLEAN :
           /\ Leads(e, Prefix(Raw, n), tls, x, z)
           /\ Reaches(e, z, RawTook(n).ssl_pending, RawTookSock(n), y)
<1> DEFINE S == Records(framing)
           T == Tokens(framing)
           pend == conn.ssl_pending
<1>1. /\ pend \in Seq(T) /\ sock \in Seq(S) /\ config.tls \in BOOLEAN
      /\ conn \in Conns(framing)
  BY DEF TunnelInv, Conns, Configs
<1>2. Raw \in Seq(T) BY LayersType
<1>3. Raw # <<>>
  <2>1. Len(Raw) # 0 OBVIOUS
  <2> QED BY <1>2, <2>1, EmptySeq
<1>4. n \in Nat /\ Drop(Raw, n) \in Seq(T) BY <1>2, DropType
<1>5. RawTook(n).ssl_pending = IF config.tls THEN Drop(Raw, n) ELSE pend
  BY <1>1, <1>4 DEF RawTook, Conns
<1>6. CASE ~config.tls
  <2>1. Raw = Arrived /\ sock # <<>> /\ RawTookSock(n) = Received(n)
    BY <1>3, <1>6 DEF Raw, RawTookSock, Arrived
  <2>2. Len(pend) = 0 BY <1>6
  <2>3. n \in 0..Len(Arrived) BY <2>1
  <2>4. Head(sock).tls \in BOOLEAN
    <3>1. Head(sock) \in S
      <4> HIDE DEF S
      <4> QED BY <1>1, <2>1, HeadTailProperties
    <3> QED BY <3>1 DEF Records
  <2>5. \E z \in Points : /\ Leads(e, Prefix(Arrived, n), Head(sock).tls, x, z)
                          /\ Reaches(e, z, pend, Received(n), y)
    BY <2>1, <2>2, <2>3, SocketMoves
  <2> QED BY <1>5, <1>6, <2>1, <2>4, <2>5
<1>7. CASE config.tls /\ pend # <<>>
  <2>1. Raw = pend /\ RawTookSock(n) = sock BY <1>7 DEF Raw, RawTookSock
  <2>2. Len(pend) \in Nat /\ Len(sock) \in Nat
    <3> HIDE DEF S, T
    <3> QED BY <1>1, LenProperties
  <2>3. PICK z1 \in Points :
          /\ Leads(e, pend, TRUE, x, z1)
          /\ \A w, s : Leads(e, s, TRUE, w, z1) => Reaches(e, w, s, sock, y)
    BY <2>2, ReachesRest
  <2>4. n \in 0..Len(pend) BY <2>1
  <2> DEFINE tls == TRUE
  <2>5. Leads(e, pend, tls, x, z1) /\ tls \in BOOLEAN BY <2>3
  <2> HIDE DEF tls, T
  <2>6. PICK z \in Points :
          Leads(e, Prefix(pend, n), tls, x, z) /\ Leads(e, Drop(pend, n), tls, z, z1)
    BY <1>1, <2>4, <2>5, LeadsSplit
  <2>7. Reaches(e, z, Drop(pend, n), sock, y) BY <2>3, <2>6 DEF tls
  <2> QED BY <1>5, <1>7, <2>1, <2>5, <2>6, <2>7
<1>8. CASE config.tls /\ pend = <<>>
  <2>1. sock # <<>> /\ Head(sock).tls /\ Raw = Arrived /\ RawTookSock(n) = Tail(sock)
    BY <1>3, <1>8 DEF Raw, RawTookSock
  <2>2. Head(sock) \in S
    <3> HIDE DEF S
    <3> QED BY <1>1, <2>1, HeadTailProperties
  <2> DEFINE s == Head(sock).tokens
             tls == Head(sock).tls
  <2>3. s \in Seq(T) /\ tls = TRUE /\ Arrived = s /\ tls \in BOOLEAN
    BY <2>1, <2>2 DEF Records, Arrived
  <2>4. Len(pend) = 0 BY <1>8
  <2>5. PICK z1 \in Points :
          /\ Leads(e, s, tls, x, z1)
          /\ \A w, u : Leads(e, u, TRUE, w, z1) => Reaches(e, w, u, Tail(sock), y)
    <3> HIDE DEF S
    <3> QED BY <1>1, <2>1, <2>4, ReachesTail
  <2>6. n \in 0..Len(s) BY <2>1, <2>3
  <2> HIDE DEF s, tls, T
  <2>7. PICK z \in Points :
          Leads(e, Prefix(s, n), tls, x, z) /\ Leads(e, Drop(s, n), tls, z, z1)
    BY <2>3, <2>5, <2>6, LeadsSplit
  <2>8. Reaches(e, z, Drop(s, n), Tail(sock), y) BY <2>3, <2>5, <2>7
  <2> QED BY <1>5, <1>8, <2>1, <2>3, <2>7, <2>8
<1> QED BY <1>1, <1>6, <1>7, <1>8

\* SSL_read() over a record without data goes nowhere.
LEMMA SkipMoves ==
  ASSUME TunnelInv, NEW e, NEW x, NEW y, Reaches(e, x, conn.ssl_pending, sock, y), SkipRecord
  PROVE  Reaches(e, x, conn.ssl_pending, sock', y)
<1> DEFINE S == Records(framing)
           r == [tls |-> TRUE, tokens |-> <<>>]
<1>1. /\ sock \in Seq(S) /\ sock # <<>> /\ Head(sock) = r /\ sock' = Tail(sock)
      /\ Len(conn.ssl_pending) = 0
  BY DEF TunnelInv, SkipRecord
<1>2. r.tls = TRUE /\ Len(r.tokens) = 0 OBVIOUS
<1>3. PICK z \in Points :
        /\ Leads(e, r.tokens, r.tls, x, z)
        /\ \A w, s : Leads(e, s, TRUE, w, z) => Reaches(e, w, s, Tail(sock), y)
  <2> HIDE DEF S, r
  <2> QED BY <1>1, ReachesTail
<1> HIDE DEF r
<1>4. x \in Points
  <2>1. Len(sock) \in Nat
    <3> HIDE DEF S
    <3> QED BY <1>1, LenProperties
  <2>2. Len(conn.ssl_pending) \in Nat BY <1>1
  <2> QED BY <2>1, <2>2, ReachesOnward
<1>5. z = x BY <1>2, <1>3, <1>4, LeadsNone
<1>6. Leads(e, conn.ssl_pending, TRUE, z, z) BY <1>1, <1>3, LeadsNone
<1> QED BY <1>1, <1>3, <1>5, <1>6

\* Below TLS, nothing is left of a record.
LEMMA OutsideNone ==
  ASSUME TunnelInv, NEW e, NEW x, NEW y, Reaches(e, x, conn.ssl_pending, sock, y), Outside(x)
  PROVE  Len(conn.ssl_pending) = 0
<1> DEFINE pend == conn.ssl_pending
           S == Records(framing)
           T == Tokens(framing)
<1>1. pend \in Seq(T) /\ sock \in Seq(S) BY DEF TunnelInv, Conns
<1>2. Len(pend) \in Nat /\ Len(sock) \in Nat
  <2> HIDE DEF S, T
  <2> QED BY <1>1, LenProperties
<1>3. PICK z \in Points : Leads(e, pend, TRUE, x, z) BY <1>2, ReachesRest
<1> HIDE DEF pend
<1>4. PICK p : Passes(e, pend, TRUE, p) /\ p[1] = x BY <1>3 DEF Leads
<1>5. \A a \in 1..Len(pend) : ~Outside(p[a]) BY <1>4 DEF Passes
<1>6. ~(1 \in 1..Len(pend)) BY <1>4, <1>5
<1> QED BY <1>2, <1>6 DEF pend

\* The first n of a sequence, each of them.
LEMMA PrefixIs ==
  ASSUME NEW T, NEW s \in Seq(T), NEW n \in 1..Len(s)
  PROVE  /\ Prefix(s, n) \in Seq(T) /\ Len(Prefix(s, n)) = n
         /\ \A i \in 1..n : Prefix(s, n)[i] = s[i]
<1> DEFINE a == 1
<1>1. a \in Int /\ a = 1 OBVIOUS
<1>2. Len(s) \in Nat /\ n <= Len(s) /\ n >= 1 /\ n \in Int BY LenProperties
<1>3. Prefix(s, n) \in Seq(T) /\ Len(Prefix(s, n)) = n BY <1>2, PrefixType
<1> HIDE DEF a
<1>4. \A i \in a..n : s[i] \in T
  <2> TAKE i \in a..n
  <2>1. i \in 1..Len(s) BY <1>1, <1>2
  <2> QED BY <2>1, LenProperties
<1>5. \A i \in 1..(n - a + 1) : SubSeq(s, a, n)[i] = s[a + i - 1]
  BY <1>1, <1>2, <1>4, SubSeqProperties
<1>6. Prefix(s, n) = SubSeq(s, a, n) BY <1>1 DEF Prefix
<1>7. \A i \in 1..n : i \in 1..(n - a + 1) /\ a + i - 1 = i BY <1>1, <1>2
<1> QED BY <1>3, <1>5, <1>6, <1>7

\* A read of payload.
LEMMA PayloadMoves ==
  ASSUME TunnelInv, NEW e, IsSetting(e), NEW x, NEW y, Reaches(e, x, conn.ssl_pending, sock, y),
         ~config.tls => conn.ssl_pending = <<>>, NEW n \in 1..Len(Raw), Can(e, x, n)
  PROVE  /\ Reaches(e, After(e, x, n), RawTook(n).ssl_pending, RawTookSock(n), y)
         /\ \A i \in 1..n : Raw[i] = e.payload[x.taken + i]
<1>1. PICK z \in Points, tls \in BOOLEAN :
        /\ Leads(e, Prefix(Raw, n), tls, x, z)
        /\ Reaches(e, z, RawTook(n).ssl_pending, RawTookSock(n), y)
  BY RawMoves
<1> DEFINE T == Tokens(framing)
           s == Prefix(Raw, n)
<1>2. s \in Seq(T) /\ Len(s) = n /\ \A i \in 1..n : s[i] = Raw[i] BY LayersType, PrefixIs
<1>3. Leads(e, s, tls, x, z) BY <1>1
<1> HIDE DEF s, T
<1>4. Len(s) \in Nat BY <1>2, LenProperties
<1>5. x \in Points BY <1>3, <1>4, LeadsOnward
<1>6. Can(e, x, Len(s)) BY <1>2
<1>7. z = After(e, x, Len(s)) /\ \A i \in 1..Len(s) : s[i] = e.payload[x.taken + i]
  BY <1>2, <1>3, <1>5, <1>6, RunLeads
<1> QED BY <1>1, <1>2, <1>7

\* A read of padding.
LEMMA PadMoves ==
  ASSUME TunnelInv, NEW e, e.vision, NEW x, NEW y, Reaches(e, x, conn.ssl_pending, sock, y),
         ~config.tls => conn.ssl_pending = <<>>, NEW n \in 1..Len(Raw), x.body = 0, n <= x.rest
  PROVE  Reaches(e, Padded(x, n), RawTook(n).ssl_pending, RawTookSock(n), y)
<1>1. PICK z \in Points, tls \in BOOLEAN :
        /\ Leads(e, Prefix(Raw, n), tls, x, z)
        /\ Reaches(e, z, RawTook(n).ssl_pending, RawTookSock(n), y)
  BY RawMoves
<1> DEFINE T == Tokens(framing)
           s == Prefix(Raw, n)
<1>2. s \in Seq(T) /\ Len(s) = n BY LayersType, PrefixIs
<1>3. Leads(e, s, tls, x, z) BY <1>1
<1> HIDE DEF s, T
<1>4. z = Padded(x, Len(s)) BY <1>2, <1>3, PadsLead
<1> QED BY <1>1, <1>2, <1>4

\* A read of a header.
LEMMA HeaderMoves ==
  ASSUME TunnelInv, NEW e, NEW x, NEW y, Reaches(e, x, conn.ssl_pending, sock, y),
         ~config.tls => conn.ssl_pending = <<>>, Raw # <<>>
  PROVE  \E z \in Points : /\ Token(e, x, Head(Raw), z)
                           /\ Reaches(e, z, RawTook(1).ssl_pending, RawTookSock(1), y)
<1> DEFINE n == 1
<1>1. Raw \in Seq(Tokens(framing)) BY LayersType
<1>2. Len(Raw) \in Nat /\ Len(Raw) # 0 /\ Head(Raw) = Raw[1]
  <2> DEFINE T == Tokens(framing)
             s == Raw
  <2>1. s \in Seq(T) /\ s # <<>> BY <1>1
  <2> HIDE DEF T, s
  <2>2. Len(s) \in Nat /\ Len(s) # 0 /\ Head(s) = s[1]
    BY <2>1, LenProperties, EmptySeq, HeadTailProperties
  <2> QED BY <2>2 DEF s
<1>3. n \in 1..Len(Raw) /\ n = 1 BY <1>2
<1> HIDE DEF n
<1>4. PICK z \in Points, tls \in BOOLEAN :
        /\ Leads(e, Prefix(Raw, n), tls, x, z)
        /\ Reaches(e, z, RawTook(n).ssl_pending, RawTookSock(n), y)
  BY <1>3, RawMoves
<1>5. Len(Prefix(Raw, n)) = 1 /\ Prefix(Raw, n)[1] = Raw[1]
  <2>1. /\ Len(Prefix(Raw, n)) = n
        /\ \A i \in 1..n : Prefix(Raw, n)[i] = Raw[i]
    BY <1>1, <1>3, PrefixIs
  <2> QED BY <1>3, <2>1
<1>6. Token(e, x, Prefix(Raw, n)[1], z) BY <1>4, <1>5, OneLeads
<1> QED BY <1>2, <1>3, <1>4, <1>5, <1>6

\* upstream_stream_read(): a read of payload above WebSocket frames.
LEMMA StreamMoves ==
  ASSUME TunnelInv, NEW e, IsSetting(e), NEW x, NEW y, Reaches(e, x, conn.ssl_pending, sock, y),
         ~config.tls => conn.ssl_pending = <<>>, NEW n \in 1..Len(Stream), Can(e, x, n)
  PROVE  /\ Reaches(e, After(e, x, n), Took(n).ssl_pending, RawTookSock(n), y)
         /\ \A i \in 1..n : Stream[i] = e.payload[x.taken + i]
         /\ Prefix(Stream, n) \in Seq(Tokens(framing)) /\ Len(Prefix(Stream, n)) = n
         /\ \A i \in 1..n : Prefix(Stream, n)[i] = Stream[i]
<1> DEFINE m == Least(conn.ws_remaining, Len(Raw))
           T == Tokens(framing)
<1>1. /\ Raw \in Seq(T) /\ Stream \in Seq(T) /\ Len(Raw) \in Nat /\ conn.ws_remaining \in Int
      /\ conn \in Conns(framing)
  <2>1. Raw \in Seq(T) /\ Stream \in Seq(T) BY LayersType
  <2> HIDE DEF T
  <2> QED BY <2>1, LenProperties DEF TunnelInv, Conns
<1>2. /\ n \in 1..Len(Raw)
      /\ \A i \in 1..n : Stream[i] = Raw[i]
  <2>1. CASE config.transport = "ws"
    <3>1. Stream = Prefix(Raw, m) BY <2>1 DEF Stream
    <3>2. m \in Int /\ m <= Len(Raw) BY <1>1 DEF Least
    <3> HIDE DEF m, T
    <3>3. Len(Stream) = IF m >= 1 THEN m ELSE 0 BY <1>1, <3>1, <3>2, PrefixType
    <3>4. m \in 1..Len(Raw) /\ n <= m BY <3>2, <3>3
    <3>5. \A i \in 1..m : Prefix(Raw, m)[i] = Raw[i] BY <1>1, <3>4, PrefixIs
    <3> QED BY <1>1, <3>1, <3>4, <3>5
  <2>2. CASE config.transport # "ws" BY <2>2 DEF Stream
  <2> QED BY <2>1, <2>2
<1>3. /\ Reaches(e, After(e, x, n), RawTook(n).ssl_pending, RawTookSock(n), y)
      /\ \A i \in 1..n : Raw[i] = e.payload[x.taken + i]
  BY <1>2, PayloadMoves
<1>4. Took(n).ssl_pending = RawTook(n).ssl_pending
  <2>1. Raw # <<>>
    <3>1. Len(Raw) # 0 BY <1>2
    <3> QED BY <3>1
  <2>2. n \in Nat BY <1>2
  <2>3. RawTook(n) \in Conns(framing) BY <2>1, <2>2, RawTookType
  <2> QED BY <2>3 DEF Took, Conns
<1>5. /\ Prefix(Stream, n) \in Seq(T) /\ Len(Prefix(Stream, n)) = n
      /\ \A i \in 1..n : Prefix(Stream, n)[i] = Stream[i]
  <2> HIDE DEF T
  <2> QED BY <1>1, PrefixIs
<1> QED BY <1>2, <1>3, <1>4, <1>5

-----------------------------------------------------------------------------
(* Where in the stream the reader is.                                      *)

\* The upstream is not being closed.
Alive == pc \notin {"close", "ended"}

\* Units of the payload that were handed up by the transport, and those it has
\* read.
Consumed(got) == IF response_pending THEN (IF pc = "addons" THEN 1 ELSE 0)
            ELSE addons + 1 + got + Len(buffer)
Seen(got)     == Consumed(got) + Len(conn.grpc_message) + Len(conn.loading)

\* The place in the stream where the reader is.
Here(got) ==
  [taken |-> Seen(got),
   body  |-> IF config.transport = "ws" THEN conn.ws_remaining
             ELSE IF config.transport = "grpc" THEN conn.grpc_data_remaining
             ELSE IF ~config.vision THEN 0
             ELSE IF response_pending THEN addons + 1 - Seen(got) ELSE conn.vision_read_content,
   rest  |-> IF config.transport = "grpc" THEN conn.wanted ELSE conn.vision_read_padding,
   mode  |-> IF config.transport = "grpc"
               THEN (IF conn.grpc_data_end_stream THEN "closed" ELSE "framed")
             ELSE IF conn.vision_read_have_frame THEN ModeAfter(conn.vision_read_command)
             ELSE IF conn.vision_read_direct THEN "direct"
             ELSE IF conn.vision_read_finished THEN "end" ELSE "framed"]

\* Which function runs, and what it has.
PhaseInv(got) ==
  /\ response_pending \in BOOLEAN
  /\ response_pending => got = 0 /\ buffer = <<>>
  /\ Alive =>
       /\ pc \in {"response", "addons"} => response_pending
       /\ pc \in {"body", "deliver"} => ~response_pending
       /\ pc \notin {"body", "deliver"} => buffer = <<>>
       /\ pc = "body" /\ buffer # <<>> =>
            conn.vision_read_have_frame /\ conn.vision_read_content = 0
       /\ pc = "addons" => addons = 1

\* What the connection remembers of the frames it has read.
FrameInv ==
  /\ ~config.tls => conn.ssl_pending = <<>>
  /\ ~conn.vision_read_have_frame => conn.vision_read_content = 0 /\ conn.vision_read_padding = 0
  /\ conn.vision_read_finished => ~conn.vision_read_have_frame
  /\ conn.vision_read_direct => conn.vision_read_finished
  /\ conn.vision_read_have_frame \/ conn.vision_read_finished =>
       config.vision /\ ~response_pending
  /\ config.transport # "grpc" => conn.grpc_message = <<>> /\ conn.loading = <<>>
  /\ conn.grpc_message # <<>> => conn.loading = <<>> /\ conn.wanted = 0
  /\ conn.wanted = 0 => conn.loading = <<>>

\* The gRPC message that is read, or being read, is of the payload.
HoldInv(got) ==
  /\ \A i \in 1..Len(conn.grpc_message) : conn.grpc_message[i] = Payload[Consumed(got) + i]
  /\ \A i \in 1..Len(conn.loading) : conn.loading[i] = Payload[Consumed(got) + i]

\* Whatever the server has said when it was read.
AnyBytes == UNION {Bytes(f) : f \in Framings}

\* What is in the buffer are bytes.
LEMMA BufferBytes ==
  ASSUME TunnelInv
  PROVE  buffer \in Seq(AnyBytes)
<1> DEFINE A == AnyBytes
           B == Bytes(framing)
           s == buffer
<1>1. s \in Seq(B) /\ framing \in Framings BY DEF TunnelInv
<1>2. B \subseteq A BY <1>1 DEF AnyBytes
<1> HIDE DEF A, B, s
<1>3. s \in Seq(A) BY <1>1, <1>2, SeqMono
<1> QED BY <1>3 DEF A, s

\* What was read for the caller, who has got units before.
GotInv(got) ==
  /\ \A i \in 1..Len(buffer) : buffer[i] = Data[got + i]
  /\ got + Len(buffer) <= DataSent

\* What the reader knows is consistent.
LocalInv(got) == TunnelInv /\ StreamInv /\ PhaseInv(got) /\ FrameInv /\ HoldInv(got) /\ GotInv(got)

\* Where the reader is, field by field.
LEMMA HereIs ==
  ASSUME NEW got \in Nat, LocalInv(got), NEW y, Reaches(Setting, Here(got), conn.ssl_pending, sock, y)
  PROVE  /\ Here(got) \in Points /\ IsSetting(Setting) /\ y \in Points /\ Onward(Here(got), y)
         /\ Setting.transport = config.transport /\ Setting.vision = config.vision
         /\ Setting.payload = Payload
         /\ config.transport \in {"tcp", "ws", "grpc"}
         /\ config.tls \in BOOLEAN /\ config.vision \in BOOLEAN
         /\ config.vision => config.transport = "tcp" /\ config.tls
         /\ Here(got).taken = Seen(got)
         /\ config.transport = "ws" => Here(got).body = conn.ws_remaining
         /\ config.transport = "grpc" => Here(got).body = conn.grpc_data_remaining
         /\ config.transport = "tcp" /\ ~config.vision => Here(got).body = 0
         /\ config.vision => Here(got).body = IF response_pending THEN addons + 1 - Seen(got)
                                         ELSE conn.vision_read_content
         /\ config.transport = "grpc" => Here(got).rest = conn.wanted
         /\ config.transport # "grpc" => Here(got).rest = conn.vision_read_padding
         /\ config.transport = "grpc" =>
              Here(got).mode = IF conn.grpc_data_end_stream THEN "closed" ELSE "framed"
         /\ config.transport # "grpc" =>
              Here(got).mode = IF conn.vision_read_have_frame THEN ModeAfter(conn.vision_read_command)
                          ELSE IF conn.vision_read_direct THEN "direct"
                          ELSE IF conn.vision_read_finished THEN "end" ELSE "framed"
         /\ conn \in Conns(framing)
         /\ addons \in Nat /\ sent \in Nat
<1>1. /\ IsSetting(Setting)
      /\ config.transport \in {"tcp", "ws", "grpc"}
      /\ config.tls \in BOOLEAN /\ config.vision \in BOOLEAN
      /\ config.vision => config.transport = "tcp" /\ config.tls
      /\ addons \in Nat /\ sent \in Nat
  BY SettingIs DEF LocalInv
<1>2. conn \in Conns(framing) /\ sock \in Seq(Records(framing)) BY DEF LocalInv, TunnelInv
<1>3. Here(got) \in Points /\ y \in Points /\ Onward(Here(got), y)
  <2> DEFINE S == Records(framing)
             T == Tokens(framing)
             pend == conn.ssl_pending
  <2>1. pend \in Seq(T) /\ sock \in Seq(S) BY <1>2 DEF Conns
  <2> HIDE DEF S, T
  <2>2. Len(pend) \in Nat /\ Len(sock) \in Nat BY <2>1, LenProperties
  <2> QED BY <2>2, ReachesOnward
<1>4. /\ Setting.transport = config.transport /\ Setting.vision = config.vision
      /\ Setting.payload = Payload
  BY DEF Setting
<1>5. Here(got).taken = Seen(got) BY DEF Here
<1>6. /\ config.transport = "ws" => Here(got).body = conn.ws_remaining
      /\ config.transport = "grpc" => Here(got).body = conn.grpc_data_remaining
      /\ config.transport = "tcp" /\ ~config.vision => Here(got).body = 0
      /\ config.vision => Here(got).body = IF response_pending THEN addons + 1 - Seen(got)
                                      ELSE conn.vision_read_content
  BY <1>1 DEF Here
<1>7. /\ config.transport = "grpc" => Here(got).rest = conn.wanted
      /\ config.transport # "grpc" => Here(got).rest = conn.vision_read_padding
  BY DEF Here
<1>8. /\ config.transport = "grpc" =>
           Here(got).mode = IF conn.grpc_data_end_stream THEN "closed" ELSE "framed"
      /\ config.transport # "grpc" =>
           Here(got).mode = IF conn.vision_read_have_frame THEN ModeAfter(conn.vision_read_command)
                       ELSE IF conn.vision_read_direct THEN "direct"
                       ELSE IF conn.vision_read_finished THEN "end" ELSE "framed"
  BY DEF Here
<1> QED BY <1>1, <1>2, <1>3, <1>4, <1>5, <1>6, <1>7, <1>8

\* What upstream_raw_read() leaves alone.
LEMMA RawTookIs ==
  ASSUME TunnelInv, Raw # <<>>, NEW n \in Nat
  PROVE  /\ RawTook(n) \in Conns(framing)
         /\ ~config.tls => RawTook(n).ssl_pending = conn.ssl_pending
         /\ RawTook(n).ws_remaining = conn.ws_remaining
         /\ RawTook(n).grpc_data_remaining = conn.grpc_data_remaining
         /\ RawTook(n).grpc_data_end_stream = conn.grpc_data_end_stream
         /\ RawTook(n).grpc_eof = conn.grpc_eof
         /\ RawTook(n).grpc_message = conn.grpc_message
         /\ RawTook(n).loading = conn.loading
         /\ RawTook(n).wanted = conn.wanted
         /\ RawTook(n).vision_read_have_frame = conn.vision_read_have_frame
         /\ RawTook(n).vision_read_finished = conn.vision_read_finished
         /\ RawTook(n).vision_read_direct = conn.vision_read_direct
         /\ RawTook(n).vision_read_command = conn.vision_read_command
         /\ RawTook(n).vision_read_content = conn.vision_read_content
         /\ RawTook(n).vision_read_padding = conn.vision_read_padding
<1>1. RawTook(n) \in Conns(framing) BY RawTookType
<1>2. conn \in Conns(framing) BY DEF TunnelInv
<1> DEFINE p == Drop(Raw, n)
<1>3. RawTook(n) = conn \/ (config.tls /\ RawTook(n) = [conn EXCEPT !.ssl_pending = p])
  BY DEF RawTook
<1> HIDE DEF p
<1> QED BY <1>1, <1>2, <1>3 DEF Conns

\* ... and upstream_stream_read().
LEMMA TookIs ==
  ASSUME TunnelInv, Raw # <<>>, NEW n \in Nat
  PROVE  /\ Took(n) \in Conns(framing)
         /\ ~config.tls => Took(n).ssl_pending = conn.ssl_pending
         /\ config.transport = "ws" => Took(n).ws_remaining = conn.ws_remaining - n
         /\ config.transport # "ws" => Took(n).ws_remaining = conn.ws_remaining
         /\ Took(n).grpc_data_remaining = conn.grpc_data_remaining
         /\ Took(n).grpc_data_end_stream = conn.grpc_data_end_stream
         /\ Took(n).grpc_eof = conn.grpc_eof
         /\ Took(n).grpc_message = conn.grpc_message
         /\ Took(n).loading = conn.loading
         /\ Took(n).wanted = conn.wanted
         /\ Took(n).vision_read_have_frame = conn.vision_read_have_frame
         /\ Took(n).vision_read_finished = conn.vision_read_finished
         /\ Took(n).vision_read_direct = conn.vision_read_direct
         /\ Took(n).vision_read_command = conn.vision_read_command
         /\ Took(n).vision_read_content = conn.vision_read_content
         /\ Took(n).vision_read_padding = conn.vision_read_padding
<1> DEFINE c == RawTook(n)
           w == c.ws_remaining - n
<1>1. Took(n) \in Conns(framing) BY TookType
<1>2. Took(n) = c \/ Took(n) = [c EXCEPT !.ws_remaining = w] BY DEF Took
<1>3. /\ config.transport = "ws" => Took(n) = [c EXCEPT !.ws_remaining = w]
      /\ config.transport # "ws" => Took(n) = c
  BY DEF Took
<1>4. /\ c \in Conns(framing) /\ w = conn.ws_remaining - n
      /\ ~config.tls => c.ssl_pending = conn.ssl_pending
      /\ c.ws_remaining = conn.ws_remaining
      /\ c.grpc_data_remaining = conn.grpc_data_remaining
      /\ c.grpc_data_end_stream = conn.grpc_data_end_stream
      /\ c.grpc_eof = conn.grpc_eof
      /\ c.grpc_message = conn.grpc_message
      /\ c.loading = conn.loading
      /\ c.wanted = conn.wanted
      /\ c.vision_read_have_frame = conn.vision_read_have_frame
      /\ c.vision_read_finished = conn.vision_read_finished
      /\ c.vision_read_direct = conn.vision_read_direct
      /\ c.vision_read_command = conn.vision_read_command
      /\ c.vision_read_content = conn.vision_read_content
      /\ c.vision_read_padding = conn.vision_read_padding
  BY RawTookIs
<1> HIDE DEF c, w
<1> QED BY <1>1, <1>2, <1>3, <1>4 DEF Conns

\* The places are records.
LEMMA PlaceIs ==
  ASSUME NEW z \in Points
  PROVE  z = [taken |-> z.taken, body |-> z.body, rest |-> z.rest, mode |-> z.mode]
BY DEF Points

\* Connection c has the Vision frame of this one.
SameFrame(c) ==
  /\ c.vision_read_have_frame = conn.vision_read_have_frame
  /\ c.vision_read_finished = conn.vision_read_finished
  /\ c.vision_read_direct = conn.vision_read_direct
  /\ c.vision_read_command = conn.vision_read_command
  /\ c.vision_read_content = conn.vision_read_content
  /\ c.vision_read_padding = conn.vision_read_padding

\* A step that leaves alone what is handed up, and the Vision frame.
Quiet ==
  /\ UNCHANGED <<config, addons, sent, framing, pc, response_pending, buffer>>
  /\ SameFrame(conn')

\* It leaves what the reader knows consistent, and where it is.
LEMMA QuietKeeps ==
  ASSUME NEW got \in Nat, LocalInv(got), Quiet, ~config.tls => conn'.ssl_pending = <<>>,
         config.transport # "grpc" => conn'.grpc_message = <<>> /\ conn'.loading = <<>>,
         conn'.grpc_message # <<>> => conn'.loading = <<>> /\ conn'.wanted = 0,
         conn'.wanted = 0 => conn'.loading = <<>>
  PROVE  /\ PhaseInv(got)' /\ FrameInv' /\ GotInv(got)'
         /\ Consumed(got)' = Consumed(got) /\ Payload' = Payload /\ Setting' = Setting
<1>1. /\ config' = config /\ addons' = addons /\ sent' = sent /\ framing' = framing /\ pc' = pc
      /\ response_pending' = response_pending /\ buffer' = buffer
  BY DEF Quiet
<1>2. PhaseInv(got)' BY <1>1 DEF Quiet, SameFrame, LocalInv, PhaseInv, Alive
<1>3. FrameInv'
  <2>1. /\ ~conn'.vision_read_have_frame =>
             conn'.vision_read_content = 0 /\ conn'.vision_read_padding = 0
        /\ conn'.vision_read_finished => ~conn'.vision_read_have_frame
        /\ conn'.vision_read_direct => conn'.vision_read_finished
        /\ conn'.vision_read_have_frame \/ conn'.vision_read_finished =>
             config'.vision /\ ~response_pending'
    BY <1>1 DEF Quiet, SameFrame, LocalInv, FrameInv
  <2> QED BY <1>1, <2>1 DEF FrameInv
<1>4. Response' = Response /\ Data' = Data BY <1>1 DEF Response, Data
<1>5. Payload' = Payload BY <1>4 DEF Payload
<1>6. GotInv(got)'
  <2>1. DataSent' = DataSent BY <1>1, <1>4 DEF DataSent
  <2> QED BY <1>1, <1>4, <2>1 DEF LocalInv, GotInv
<1>7. Consumed(got)' = Consumed(got) BY <1>1 DEF Consumed
<1>8. Setting' = Setting BY <1>1, <1>5 DEF Setting
<1> QED BY <1>2, <1>3, <1>5, <1>6, <1>7, <1>8

\* websocket_begin_data_frame()
LEMMA BeginMoves ==
  ASSUME NEW got \in Nat, LocalInv(got), BeginDataFrame, Quiet,
         NEW y, Reaches(Setting, Here(got), conn.ssl_pending, sock, y)
  PROVE  Reaches(Setting, Here(got)', conn'.ssl_pending, sock', y)
         /\ PhaseInv(got)' /\ FrameInv' /\ GotInv(got)' /\ HoldInv(got)'
<1> DEFINE h == Head(Raw)
           c == RawTook(1)
           v == IF h.op = "data" THEN h.n ELSE 0
<1>1. /\ config.transport = "ws" /\ conn.ws_remaining = 0 /\ Raw # <<>>
      /\ h.k = "ws" /\ h.op \in {"data", "ping"}
      /\ conn' = [c EXCEPT !.ws_remaining = v] /\ sock' = RawTookSock(1)
  BY DEF BeginDataFrame
<1>2. TunnelInv /\ (~config.tls => conn.ssl_pending = <<>>) BY DEF LocalInv, FrameInv
<1>3. PICK z \in Points : /\ Token(Setting, Here(got), h, z)
                          /\ Reaches(Setting, z, c.ssl_pending, sock', y)
  BY <1>1, <1>2, HeaderMoves
<1>4. 1 \in Nat OBVIOUS
<1>5. /\ c \in Conns(framing)
      /\ ~config.tls => c.ssl_pending = conn.ssl_pending
      /\ c.grpc_message = conn.grpc_message
      /\ c.loading = conn.loading
      /\ c.wanted = conn.wanted
  BY <1>1, <1>2, <1>4, RawTookIs
<1> HIDE DEF c
<1>6. /\ conn'.ws_remaining = v /\ conn'.ssl_pending = c.ssl_pending
      /\ conn'.grpc_message = conn.grpc_message /\ conn'.loading = conn.loading
      /\ conn'.wanted = conn.wanted
  BY <1>1, <1>5 DEF Conns
<1>7. /\ Here(got) \in Points /\ Here(got).taken = Seen(got) /\ Here(got).body = 0
      /\ Setting.transport = "ws" /\ ~config.vision /\ ~Setting.vision
      /\ Here(got).rest = conn.vision_read_padding
      /\ Here(got).mode = IF conn.vision_read_have_frame THEN ModeAfter(conn.vision_read_command)
                     ELSE IF conn.vision_read_direct THEN "direct"
                     ELSE IF conn.vision_read_finished THEN "end" ELSE "framed"
  BY <1>1, HereIs
<1>8. z = [Here(got) EXCEPT !.body = v]
  <2>1. ~Can(Setting, Here(got), 1) BY <1>7 DEF Can
  <2> HIDE DEF h
  <2>2. z = [Here(got) EXCEPT !.body = IF h.op = "data" THEN h.n ELSE 0,
                         !.mode = IF h.op = "close" THEN "closed" ELSE Here(got).mode]
    BY <1>1, <1>3, <2>1 DEF Token
  <2> QED BY <1>1, <1>7, <2>2 DEF Points
<1> HIDE DEF h, v
<1>9. /\ PhaseInv(got)' /\ FrameInv' /\ GotInv(got)'
      /\ Consumed(got)' = Consumed(got) /\ Payload' = Payload
  BY <1>2, <1>5, <1>6, QuietKeeps DEF LocalInv, FrameInv
<1>10. HoldInv(got)' BY <1>6, <1>9 DEF LocalInv, HoldInv
<1>11. Here(got)' = z
  <2>1. Seen(got)' = Seen(got) BY <1>6, <1>9 DEF Seen
  <2>2. config' = config BY DEF Quiet
  <2>3. Here(got)' = [taken |-> Seen(got), body |-> v, rest |-> Here(got).rest, mode |-> Here(got).mode]
    BY <1>1, <1>6, <1>7, <2>1, <2>2 DEF Here, Quiet, SameFrame
  <2> QED BY <1>7, <1>8, <2>3 DEF Points
<1> QED BY <1>3, <1>6, <1>9, <1>10, <1>11

\* SSL_read() over a session ticket.
LEMMA TicketMoves ==
  ASSUME NEW got \in Nat, LocalInv(got), SkipRecord, Quiet,
         NEW y, Reaches(Setting, Here(got), conn.ssl_pending, sock, y)
  PROVE  Reaches(Setting, Here(got)', conn'.ssl_pending, sock', y)
         /\ PhaseInv(got)' /\ FrameInv' /\ GotInv(got)' /\ HoldInv(got)'
<1>1. conn' = conn BY DEF SkipRecord
<1>2. TunnelInv BY DEF LocalInv
<1>3. Reaches(Setting, Here(got), conn.ssl_pending, sock', y) BY <1>2, SkipMoves
<1>4. /\ PhaseInv(got)' /\ FrameInv' /\ GotInv(got)'
      /\ Consumed(got)' = Consumed(got) /\ Payload' = Payload
  BY <1>1, QuietKeeps DEF LocalInv, FrameInv
<1>5. HoldInv(got)' BY <1>1, <1>4 DEF LocalInv, HoldInv
<1>6. Here(got)' = Here(got)
  <2>1. Seen(got)' = Seen(got) BY <1>1, <1>4 DEF Seen
  <2> QED BY <1>1, <2>1 DEF Here, Quiet, SameFrame
<1> QED BY <1>1, <1>3, <1>4, <1>5, <1>6

\* grpc_next_data_frame()
LEMMA NextMoves ==
  ASSUME NEW got \in Nat, LocalInv(got), NextDataFrame, Quiet,
         NEW y, Reaches(Setting, Here(got), conn.ssl_pending, sock, y)
  PROVE  Reaches(Setting, Here(got)', conn'.ssl_pending, sock', y)
         /\ PhaseInv(got)' /\ FrameInv' /\ GotInv(got)' /\ HoldInv(got)'
<1> DEFINE h == Head(Raw)
           c == RawTook(1)
           e == h.n = 0 /\ h.last
<1>1. /\ config.transport = "grpc" /\ conn.grpc_message = <<>> /\ Raw # <<>>
      /\ conn.grpc_data_remaining = 0 /\ h.k = "h2" /\ sock' = RawTookSock(1)
      /\ \/ /\ h.type = "data"
            /\ conn' = [c EXCEPT !.grpc_data_remaining = h.n,
                                 !.grpc_data_end_stream = h.last,
                                 !.grpc_eof = e]
         \/ h.type # "data" /\ conn' = c
         \/ h.type # "data" /\ conn' = [c EXCEPT !.grpc_eof = TRUE]
  BY DEF NextDataFrame, Loading
<1>2. TunnelInv /\ (~config.tls => conn.ssl_pending = <<>>) BY DEF LocalInv, FrameInv
<1>3. PICK z \in Points : /\ Token(Setting, Here(got), h, z)
                          /\ Reaches(Setting, z, c.ssl_pending, sock', y)
  BY <1>1, <1>2, HeaderMoves
<1>4. 1 \in Nat OBVIOUS
<1>5. /\ c \in Conns(framing)
      /\ ~config.tls => c.ssl_pending = conn.ssl_pending
      /\ c.grpc_data_remaining = conn.grpc_data_remaining
      /\ c.grpc_data_end_stream = conn.grpc_data_end_stream
      /\ c.grpc_message = conn.grpc_message
      /\ c.loading = conn.loading
      /\ c.wanted = conn.wanted
  BY <1>1, <1>2, <1>4, RawTookIs
<1> HIDE DEF c, e
<1>6. /\ conn'.ssl_pending = c.ssl_pending
      /\ conn'.grpc_message = conn.grpc_message /\ conn'.loading = conn.loading
      /\ conn'.wanted = conn.wanted
      /\ h.type = "data" => /\ conn'.grpc_data_remaining = h.n
                            /\ conn'.grpc_data_end_stream = h.last
      /\ h.type # "data" => /\ conn'.grpc_data_remaining = conn.grpc_data_remaining
                            /\ conn'.grpc_data_end_stream = conn.grpc_data_end_stream
  BY <1>1, <1>5 DEF Conns
<1>7. /\ Here(got) \in Points /\ Here(got).taken = Seen(got) /\ Here(got).body = 0 /\ Here(got).rest = conn.wanted
      /\ Setting.transport = "grpc" /\ ~config.vision /\ ~Setting.vision
      /\ Here(got).mode = IF conn.grpc_data_end_stream THEN "closed" ELSE "framed"
  BY <1>1, HereIs
<1>8. /\ h.type = "data" => z = [Here(got) EXCEPT !.body = h.n,
                                             !.mode = IF h.last THEN "closed" ELSE Here(got).mode]
      /\ h.type # "data" => z = Here(got)
      /\ Here(got).mode = "framed"
  <2>1. ~Can(Setting, Here(got), 1) BY <1>7 DEF Can
  <2> HIDE DEF h
  <2>2. /\ Here(got).mode # "closed"
        /\ z = IF h.type = "data"
                 THEN [Here(got) EXCEPT !.body = h.n,
                                   !.mode = IF h.last THEN "closed" ELSE Here(got).mode]
                 ELSE Here(got)
    BY <1>1, <1>3, <1>7, <2>1 DEF Token
  <2> QED BY <1>7, <2>2
<1> HIDE DEF h
<1>9. /\ PhaseInv(got)' /\ FrameInv' /\ GotInv(got)'
      /\ Consumed(got)' = Consumed(got) /\ Payload' = Payload
  BY <1>2, <1>5, <1>6, QuietKeeps DEF LocalInv, FrameInv
<1>10. HoldInv(got)' BY <1>6, <1>9 DEF LocalInv, HoldInv
<1>11. Here(got)' = z
  <2>1. Seen(got)' = Seen(got) BY <1>6, <1>9 DEF Seen
  <2>2. config' = config BY DEF Quiet
  <2>3. Here(got)' = [taken |-> Seen(got), body |-> conn'.grpc_data_remaining, rest |-> conn.wanted,
                 mode |-> IF conn'.grpc_data_end_stream THEN "closed" ELSE "framed"]
    BY <1>1, <1>6, <2>1, <2>2 DEF Here
  <2>4. CASE h.type = "data"
    <3>1. z = [taken |-> Seen(got), body |-> h.n, rest |-> conn.wanted,
               mode |-> IF h.last THEN "closed" ELSE "framed"]
      BY <1>7, <1>8, <2>4 DEF Points
    <3> QED BY <1>6, <2>3, <2>4, <3>1
  <2>5. CASE h.type # "data"
    <3>1. z = [taken |-> Seen(got), body |-> 0, rest |-> conn.wanted, mode |-> Here(got).mode]
      BY <1>7, <1>8, <2>5 DEF Points
    <3> QED BY <1>1, <1>6, <1>7, <2>3, <2>5, <3>1
  <2> QED BY <2>4, <2>5
<1> QED BY <1>3, <1>6, <1>9, <1>10, <1>11

\* What grpc_data_read() leaves alone.
LEMMA DataTookIs ==
  ASSUME TunnelInv, Raw # <<>>, NEW n \in Nat
  PROVE  /\ DataTook(n) \in Conns(framing)
         /\ DataTook(n).ssl_pending = RawTook(n).ssl_pending
         /\ ~config.tls => DataTook(n).ssl_pending = conn.ssl_pending
         /\ DataTook(n).grpc_data_remaining = conn.grpc_data_remaining - n
         /\ DataTook(n).grpc_data_end_stream = conn.grpc_data_end_stream
         /\ DataTook(n).grpc_eof =
              (conn.grpc_eof \/ (conn.grpc_data_remaining = n /\ conn.grpc_data_end_stream))
         /\ DataTook(n).grpc_message = conn.grpc_message
         /\ DataTook(n).loading = conn.loading
         /\ DataTook(n).wanted = conn.wanted
         /\ SameFrame(DataTook(n))
<1> DEFINE c    == RawTook(n)
           left == conn.grpc_data_remaining - n
           ends == c.grpc_eof \/ (left = 0 /\ conn.grpc_data_end_stream)
<1>1. DataTook(n) \in Conns(framing) BY DataTookType
<1>2. DataTook(n) = [c EXCEPT !.grpc_data_remaining = left, !.grpc_eof = ends] BY DEF DataTook
<1>3. /\ c \in Conns(framing)
      /\ ~config.tls => c.ssl_pending = conn.ssl_pending
      /\ c.grpc_data_end_stream = conn.grpc_data_end_stream
      /\ c.grpc_eof = conn.grpc_eof
      /\ c.grpc_message = conn.grpc_message
      /\ c.loading = conn.loading
      /\ c.wanted = conn.wanted
      /\ SameFrame(c)
  BY RawTookIs DEF SameFrame
<1>4. conn.grpc_data_remaining \in Int BY DEF TunnelInv, Conns
<1>5. left = 0 <=> conn.grpc_data_remaining = n BY <1>4
<1>6. ends = (conn.grpc_eof \/ (conn.grpc_data_remaining = n /\ conn.grpc_data_end_stream))
  <2> HIDE DEF c, left
  <2> QED BY <1>3, <1>5
<1> HIDE DEF c, ends
<1>7. /\ DataTook(n).grpc_data_remaining = left /\ DataTook(n).grpc_eof = ends
      /\ DataTook(n).ssl_pending = c.ssl_pending
      /\ DataTook(n).grpc_data_end_stream = c.grpc_data_end_stream
      /\ DataTook(n).grpc_message = c.grpc_message
      /\ DataTook(n).loading = c.loading
      /\ DataTook(n).wanted = c.wanted
      /\ SameFrame(DataTook(n))
  <2> HIDE DEF left
  <2> QED BY <1>2, <1>3 DEF Conns, SameFrame
<1> QED BY <1>1, <1>3, <1>6, <1>7 DEF c

\* The envelope of grpc_load_message().
LEMMA EnvelopeMoves ==
  ASSUME NEW got \in Nat, LocalInv(got), LoadEnvelope, Quiet,
         NEW y, Reaches(Setting, Here(got), conn.ssl_pending, sock, y)
  PROVE  Reaches(Setting, Here(got)', conn'.ssl_pending, sock', y)
         /\ PhaseInv(got)' /\ FrameInv' /\ GotInv(got)' /\ HoldInv(got)'
<1> DEFINE h == Head(Raw)
           n == 1
           c == DataTook(n)
<1>1. /\ config.transport = "grpc" /\ conn.grpc_message = <<>> /\ Raw # <<>>
      /\ conn.grpc_data_remaining > 0 /\ conn.wanted = 0
      /\ h.k = "msg" /\ h.n \in 1..MessageMax /\ sock' = RawTookSock(n)
      /\ conn' = [c EXCEPT !.wanted = h.n]
  BY DEF LoadEnvelope, Loading
<1>2. TunnelInv /\ (~config.tls => conn.ssl_pending = <<>>) BY DEF LocalInv, FrameInv
<1>3. PICK z \in Points : /\ Token(Setting, Here(got), h, z)
                          /\ Reaches(Setting, z, RawTook(n).ssl_pending, sock', y)
  BY <1>1, <1>2, HeaderMoves
<1>4. n \in Nat /\ n = 1 OBVIOUS
<1> HIDE DEF n
<1>5. /\ c \in Conns(framing)
      /\ c.ssl_pending = RawTook(n).ssl_pending
      /\ ~config.tls => c.ssl_pending = conn.ssl_pending
      /\ c.grpc_data_remaining = conn.grpc_data_remaining - n
      /\ c.grpc_data_end_stream = conn.grpc_data_end_stream
      /\ c.grpc_message = conn.grpc_message
      /\ c.loading = conn.loading
  BY <1>1, <1>2, <1>4, DataTookIs
<1>6. h.n \in Int /\ h.n > 0 /\ h.n # 0 BY <1>1, SizesAssumption
<1> HIDE DEF c
<1>7. /\ conn'.ssl_pending = RawTook(n).ssl_pending
      /\ ~config.tls => conn'.ssl_pending = conn.ssl_pending
      /\ conn'.grpc_message = conn.grpc_message /\ conn'.loading = conn.loading
      /\ conn'.wanted = h.n
      /\ conn'.grpc_data_remaining = conn.grpc_data_remaining - 1
      /\ conn'.grpc_data_end_stream = conn.grpc_data_end_stream
  <2> HIDE DEF h
  <2> QED BY <1>1, <1>4, <1>5 DEF Conns
<1>8. /\ Here(got) \in Points /\ Here(got).taken = Seen(got) /\ Here(got).body = conn.grpc_data_remaining
      /\ Here(got).rest = 0
      /\ Setting.transport = "grpc" /\ ~config.vision /\ ~Setting.vision
      /\ Here(got).mode = IF conn.grpc_data_end_stream THEN "closed" ELSE "framed"
  BY <1>1, HereIs
<1>9. z = [Here(got) EXCEPT !.body = Here(got).body - 1, !.rest = h.n]
  <2>1. ~Can(Setting, Here(got), 1) BY <1>8 DEF Can
  <2> HIDE DEF h
  <2> QED BY <1>1, <1>3, <1>8, <2>1 DEF Token
<1> HIDE DEF h
<1>10. /\ PhaseInv(got)' /\ FrameInv' /\ GotInv(got)'
       /\ Consumed(got)' = Consumed(got) /\ Payload' = Payload
  BY <1>1, <1>2, <1>6, <1>7, QuietKeeps DEF LocalInv, FrameInv
<1>11. HoldInv(got)' BY <1>7, <1>10 DEF LocalInv, HoldInv
<1>12. Here(got)' = z
  <2>1. Seen(got)' = Seen(got) BY <1>7, <1>10 DEF Seen
  <2>2. config' = config BY DEF Quiet
  <2>3. Here(got)' = [taken |-> Seen(got), body |-> conn.grpc_data_remaining - 1, rest |-> h.n,
                 mode |-> Here(got).mode]
    BY <1>1, <1>7, <1>8, <2>1, <2>2 DEF Here
  <2>4. z = [taken |-> Here(got).taken, body |-> Here(got).body - 1, rest |-> h.n,
             mode |-> Here(got).mode]
    BY <1>8, <1>9 DEF Points
  <2> QED BY <1>8, <2>3, <2>4
<1> QED BY <1>3, <1>7, <1>10, <1>11, <1>12

\* The message of grpc_load_message(), or what has come of it.
LEMMA MessageMoves ==
  ASSUME NEW got \in Nat, LocalInv(got), LoadMessage, Quiet,
         NEW y, Reaches(Setting, Here(got), conn.ssl_pending, sock, y)
  PROVE  Reaches(Setting, Here(got)', conn'.ssl_pending, sock', y)
         /\ PhaseInv(got)' /\ FrameInv' /\ GotInv(got)' /\ HoldInv(got)'
<1> DEFINE n    == Least(conn.wanted, Least(conn.grpc_data_remaining, Len(Raw)))
           one  == Prefix(Raw, n)
           read == conn.loading \o one
           done == n = conn.wanted
           c    == DataTook(n)
           left == c.wanted - n
           tail == IF done THEN <<>> ELSE read
           msg  == IF done THEN read ELSE <<>>
           T    == Tokens(framing)
<1>1. /\ config.transport = "grpc" /\ conn.grpc_message = <<>> /\ Raw # <<>>
      /\ conn.grpc_data_remaining > 0 /\ conn.wanted > 0 /\ sock' = RawTookSock(n)
      /\ conn' = [c EXCEPT !.wanted = left, !.loading = tail, !.grpc_message = msg]
  BY DEF LoadMessage, Loading
<1>2. TunnelInv /\ (~config.tls => conn.ssl_pending = <<>>) BY DEF LocalInv, FrameInv
<1>3. /\ Raw \in Seq(T) /\ Len(Raw) \in Nat /\ Len(Raw) > 0
      /\ conn.wanted \in Int /\ conn.grpc_data_remaining \in Int
      /\ conn.loading \in Seq(T)
  <2>1. Raw \in Seq(T) BY <1>2, LayersType
  <2>2. Len(Raw) \in Nat /\ Len(Raw) # 0
    <3> DEFINE s == Raw
    <3>1. s \in Seq(T) /\ s # <<>> BY <1>1, <2>1
    <3> HIDE DEF s, T
    <3>2. Len(s) \in Nat /\ Len(s) # 0 BY <3>1, LenProperties, EmptySeq
    <3> QED BY <3>2 DEF s
  <2> QED BY <1>2, <2>1, <2>2 DEF TunnelInv, Conns
<1>4. /\ n \in 1..Len(Raw) /\ n <= conn.wanted /\ n <= conn.grpc_data_remaining
  BY <1>1, <1>3 DEF Least
<1> HIDE DEF n, T
<1>5. one \in Seq(T) /\ Len(one) = n /\ \A i \in 1..n : one[i] = Raw[i]
  BY <1>3, <1>4, PrefixIs
<1>6. /\ Here(got) \in Points /\ Here(got).taken = Seen(got) /\ Here(got).body = conn.grpc_data_remaining
      /\ Here(got).rest = conn.wanted
      /\ Setting.transport = "grpc" /\ IsSetting(Setting) /\ ~config.vision
      /\ Setting.payload = Payload
      /\ Here(got).mode = IF conn.grpc_data_end_stream THEN "closed" ELSE "framed"
  BY <1>1, HereIs
<1>7. Can(Setting, Here(got), n) BY <1>4, <1>6 DEF Can
<1>8. /\ Reaches(Setting, After(Setting, Here(got), n), RawTook(n).ssl_pending, sock', y)
      /\ \A i \in 1..n : Raw[i] = Payload[Seen(got) + i]
  <2>1. /\ Reaches(Setting, After(Setting, Here(got), n), RawTook(n).ssl_pending, RawTookSock(n), y)
        /\ \A i \in 1..n : Raw[i] = Setting.payload[Here(got).taken + i]
    BY <1>2, <1>4, <1>6, <1>7, PayloadMoves
  <2> QED BY <1>1, <1>6, <2>1
<1>9. /\ c \in Conns(framing)
      /\ c.ssl_pending = RawTook(n).ssl_pending
      /\ ~config.tls => c.ssl_pending = conn.ssl_pending
      /\ c.grpc_data_remaining = conn.grpc_data_remaining - n
      /\ c.grpc_data_end_stream = conn.grpc_data_end_stream
      /\ c.wanted = conn.wanted
  <2>1. n \in Nat BY <1>4
  <2> QED BY <1>1, <1>2, <2>1, DataTookIs
<1>10. /\ read \in Seq(T) /\ Len(read) = Len(conn.loading) + n /\ Len(conn.loading) \in Nat
       /\ \A i \in 1..Len(read) : read[i] = Payload[Consumed(got) + i]
  <2> DEFINE s == conn.loading
             m == Len(s)
  <2> HIDE DEF one
  <2>1. s \in Seq(T) /\ m \in Nat BY <1>3, LenProperties
  <2>2. /\ read \in Seq(T) /\ Len(read) = m + Len(one)
        /\ \A i \in 1..(m + Len(one)) : read[i] = IF i <= m THEN s[i] ELSE one[i - m]
    <3> HIDE DEF s
    <3> QED BY <1>5, <2>1, ConcatProperties DEF s
  <2>3. \A i \in 1..m : s[i] = Payload[Consumed(got) + i] BY DEF LocalInv, HoldInv
  <2>4. Seen(got) = Consumed(got) + m /\ Consumed(got) \in Nat
    <3>1. Len(conn.grpc_message) = 0 BY <1>1
    <3>2. Consumed(got) \in Nat BY HereIs, LenProperties DEF Consumed, LocalInv, GotInv, TunnelInv
    <3> QED BY <2>1, <3>1, <3>2 DEF Seen
  <2> HIDE DEF read, m, s
  <2>5. ASSUME NEW i \in 1..(m + Len(one)) PROVE read[i] = Payload[Consumed(got) + i]
    <3>1. CASE i <= m
      <4>1. i \in 1..m BY <2>1, <3>1
      <4> QED BY <2>2, <2>3, <3>1, <4>1
    <3>2. CASE ~(i <= m)
      <4>1. i - m \in 1..n /\ Consumed(got) + m + (i - m) = Consumed(got) + i
        BY <1>4, <1>5, <2>1, <2>4, <3>2
      <4>2. read[i] = one[i - m] BY <2>2, <3>2
      <4>3. one[i - m] = Payload[Seen(got) + (i - m)] BY <1>5, <1>8, <4>1
      <4> QED BY <2>4, <4>1, <4>2, <4>3
    <3> QED BY <3>1, <3>2
  <2> QED BY <1>5, <2>1, <2>2, <2>5 DEF m, s
<1> HIDE DEF one, read, c
<1>11. Len(<<>>) = 0 OBVIOUS
<1>12. /\ conn'.ssl_pending = RawTook(n).ssl_pending
       /\ ~config.tls => conn'.ssl_pending = conn.ssl_pending
       /\ conn'.grpc_message = msg /\ conn'.loading = tail /\ conn'.wanted = left
       /\ conn'.grpc_data_remaining = conn.grpc_data_remaining - n
       /\ conn'.grpc_data_end_stream = conn.grpc_data_end_stream
  <2> HIDE DEF tail, msg, left
  <2> QED BY <1>1, <1>9 DEF Conns
<1>13. left = conn.wanted - n BY <1>9
<1>14. /\ msg # <<>> => done /\ tail = <<>> /\ left = 0
       /\ left = 0 => tail = <<>>
       /\ Len(msg) + Len(tail) = Len(conn.loading) + n
       /\ \A i \in 1..Len(msg) : msg[i] = Payload[Consumed(got) + i]
       /\ \A i \in 1..Len(tail) : tail[i] = Payload[Consumed(got) + i]
  <2>1. CASE done
    <3>1. msg = read /\ tail = <<>> /\ left = 0 BY <1>3, <1>4, <1>13, <2>1
    <3>2. Len(tail) = 0 BY <1>11, <3>1
    <3> HIDE DEF msg, tail, left, done
    <3> QED BY <1>4, <1>10, <2>1, <3>1, <3>2
  <2>2. CASE ~done
    <3>1. tail = read /\ msg = <<>> /\ left # 0 BY <1>3, <1>4, <1>13, <2>2
    <3>2. Len(msg) = 0 BY <1>11, <3>1
    <3> HIDE DEF msg, tail, left, done
    <3> QED BY <1>4, <1>10, <2>2, <3>1, <3>2
  <2> QED BY <2>1, <2>2
<1> HIDE DEF msg, tail, left, done
<1>15. /\ PhaseInv(got)' /\ FrameInv' /\ GotInv(got)'
       /\ Consumed(got)' = Consumed(got) /\ Payload' = Payload
  BY <1>1, <1>2, <1>12, <1>14, QuietKeeps
<1>16. HoldInv(got)' BY <1>12, <1>14, <1>15 DEF HoldInv
<1>17. Here(got)' = After(Setting, Here(got), n)
  <2>1. Seen(got)' = Seen(got) + n
    <3>1. Len(conn.grpc_message) = 0 BY <1>1, <1>11
    <3>2. Consumed(got) \in Nat BY HereIs, LenProperties DEF Consumed, LocalInv, GotInv, TunnelInv
    <3>3. Len(conn.loading) \in Nat BY <1>10
    <3>4. Seen(got)' = Consumed(got) + Len(msg) + Len(tail) BY <1>12, <1>15 DEF Seen
    <3>5. Len(msg) \in Nat /\ Len(tail) \in Nat
      <4>1. CASE done BY <1>4, <1>10, <1>11, <4>1 DEF msg, tail
      <4>2. CASE ~done BY <1>4, <1>10, <1>11, <4>2 DEF msg, tail
      <4> QED BY <4>1, <4>2
    <3>6. Seen(got) = Consumed(got) + Len(conn.loading) BY <3>1, <3>2, <3>3 DEF Seen
    <3>7. n \in Nat BY <1>4
    <3>8. Consumed(got) + Len(msg) + Len(tail) = (Consumed(got) + Len(conn.loading)) + n
      <4>1. \A a, b, c1, d, m \in Nat : b + c1 = d + m => a + b + c1 = (a + d) + m OBVIOUS
      <4>2. Len(msg) + Len(tail) = Len(conn.loading) + n BY <1>14
      <4> QED BY <3>2, <3>3, <3>5, <3>7, <4>1, <4>2
    <3> QED BY <3>4, <3>6, <3>8
  <2>2. config' = config BY DEF Quiet
  <2>3. Here(got)' = [taken |-> Seen(got) + n, body |-> conn.grpc_data_remaining - n,
                 rest |-> conn.wanted - n, mode |-> Here(got).mode]
    BY <1>1, <1>6, <1>12, <1>13, <2>1, <2>2 DEF Here
  <2>4. ~Free(Setting, Here(got)) BY <1>6 DEF Free
  <2> QED BY <1>6, <2>3, <2>4 DEF After
<1> QED BY <1>8, <1>12, <1>15, <1>16, <1>17

\* Below the payload.
LEMMA BelowMoves ==
  ASSUME NEW got \in Nat, LocalInv(got), Below,
         NEW y, Reaches(Setting, Here(got), conn.ssl_pending, sock, y)
  PROVE  Reaches(Setting, Here(got)', conn'.ssl_pending, sock', y)
         /\ PhaseInv(got)' /\ FrameInv' /\ GotInv(got)' /\ HoldInv(got)'
<1>1. /\ SkipRecord \/ BeginDataFrame \/ NextDataFrame \/ LoadEnvelope \/ LoadMessage
      /\ UNCHANGED <<addons, sent, framing, pc, response_pending, buffer>>
  BY DEF Below, server
<1>2. config' = config
  BY <1>1 DEF SkipRecord, BeginDataFrame, NextDataFrame, LoadEnvelope, LoadMessage
<1>3. CASE SkipRecord BY <1>1, <1>2, <1>3, TicketMoves DEF Quiet, SkipRecord, SameFrame
<1>4. 1 \in Nat OBVIOUS
<1>5. TunnelInv BY DEF LocalInv
<1>6. CASE BeginDataFrame
  <2> DEFINE c == RawTook(1)
             v == IF Head(Raw).op = "data" THEN Head(Raw).n ELSE 0
  <2>1. Raw # <<>> /\ conn' = [c EXCEPT !.ws_remaining = v] BY <1>6 DEF BeginDataFrame
  <2>2. c \in Conns(framing) /\ SameFrame(c) BY <1>4, <1>5, <2>1, RawTookIs DEF SameFrame
  <2> HIDE DEF c, v
  <2>3. SameFrame(conn') BY <2>1, <2>2 DEF SameFrame, Conns
  <2>4. Quiet BY <1>1, <1>2, <2>3 DEF Quiet, SameFrame
  <2> QED BY <1>6, <2>4, BeginMoves
<1>7. CASE NextDataFrame
  <2> DEFINE c == RawTook(1)
             h == Head(Raw)
             e == h.n = 0 /\ h.last
  <2>1. /\ Raw # <<>>
        /\ \/ conn' = [c EXCEPT !.grpc_data_remaining = h.n,
                                !.grpc_data_end_stream = h.last,
                                !.grpc_eof = e]
           \/ conn' = c
           \/ conn' = [c EXCEPT !.grpc_eof = TRUE]
    BY <1>7 DEF NextDataFrame
  <2>2. c \in Conns(framing) /\ SameFrame(c) BY <1>4, <1>5, <2>1, RawTookIs DEF SameFrame
  <2> HIDE DEF c, h, e
  <2>3. SameFrame(conn') BY <2>1, <2>2 DEF SameFrame, Conns
  <2>4. Quiet BY <1>1, <1>2, <2>3 DEF Quiet, SameFrame
  <2> QED BY <1>7, <2>4, NextMoves
<1>8. CASE LoadEnvelope
  <2> DEFINE n == 1
             c == DataTook(n)
             v == Head(Raw).n
  <2>1. Raw # <<>> /\ conn' = [c EXCEPT !.wanted = v] BY <1>8 DEF LoadEnvelope
  <2>2. n \in Nat OBVIOUS
  <2> HIDE DEF n
  <2>3. c \in Conns(framing) /\ SameFrame(c) BY <1>5, <2>1, <2>2, DataTookIs
  <2> HIDE DEF c, v
  <2>4. SameFrame(conn') BY <2>1, <2>3 DEF SameFrame, Conns
  <2>5. Quiet BY <1>1, <1>2, <2>4 DEF Quiet, SameFrame
  <2> QED BY <1>8, <2>5, EnvelopeMoves
<1>9. CASE LoadMessage
  <2> DEFINE n    == Least(conn.wanted, Least(conn.grpc_data_remaining, Len(Raw)))
             read == conn.loading \o Prefix(Raw, n)
             done == n = conn.wanted
             c    == DataTook(n)
             left == c.wanted - n
             tail == IF done THEN <<>> ELSE read
             msg  == IF done THEN read ELSE <<>>
  <2>1. /\ Raw # <<>> /\ conn.wanted > 0 /\ conn.grpc_data_remaining > 0
        /\ conn' = [c EXCEPT !.wanted = left, !.loading = tail, !.grpc_message = msg]
    BY <1>9 DEF LoadMessage
  <2>2. n \in Nat
    <3>1. Raw \in Seq(Tokens(framing)) BY <1>5, LayersType
    <3>2. Len(Raw) \in Nat BY <3>1, LenProperties
    <3>3. conn.wanted \in Int /\ conn.grpc_data_remaining \in Int BY <1>5 DEF TunnelInv, Conns
    <3> QED BY <2>1, <3>2, <3>3 DEF Least
  <2> HIDE DEF n
  <2>3. c \in Conns(framing) /\ SameFrame(c) BY <1>5, <2>1, <2>2, DataTookIs
  <2> HIDE DEF c, left, tail, msg
  <2>4. SameFrame(conn') BY <2>1, <2>3 DEF SameFrame, Conns
  <2>5. Quiet BY <1>1, <1>2, <2>4 DEF Quiet, SameFrame
  <2> QED BY <1>9, <2>5, MessageMoves
<1> QED BY <1>1, <1>3, <1>6, <1>7, <1>8, <1>9

\* Payload that is about to be delivered is the data that come next.
LEMMA Delivers ==
  ASSUME NEW got \in Nat, LocalInv(got), buffer = <<>>, UNCHANGED <<addons, sent>>,
         NEW n \in Nat, NEW T, buffer' \in Seq(T), Len(buffer') = n,
         \A i \in 1..n : buffer'[i] = Payload[addons + 1 + got + i],
         addons + 1 + got + n <= sent
  PROVE  GotInv(got)'
<1>1. /\ addons' = addons /\ sent' = sent
      /\ addons \in Nat /\ sent \in Nat /\ sent <= addons + 1 + DataMax
  BY DEF LocalInv, GotInv, StreamInv, TunnelInv
<1>2. got \in Nat OBVIOUS
<1>3. Len(Response) = addons + 1 /\ \A i \in 1..DataMax : Payload[addons + 1 + i] = Data[i]
  BY <1>1, PayloadIs
<1>4. Data' = Data /\ Response' = Response BY <1>1 DEF Data, Response
<1>5. DataMax \in Nat BY ServerAssumption
<1>6. got + n <= DataSent
  <2>1. sent > addons + 1 \/ got + n = 0 BY <1>1, <1>2
  <2>2. CASE sent > addons + 1
    <3>1. DataSent = sent - (addons + 1) BY <1>3, <2>2 DEF DataSent
    <3> QED BY <1>1, <1>2, <3>1
  <2>3. CASE ~(sent > addons + 1)
    <3>1. DataSent = 0 BY <1>3, <2>3 DEF DataSent
    <3> QED BY <2>1, <2>3, <3>1
  <2> QED BY <2>2, <2>3
<1>7. DataSent' = DataSent BY <1>1, <1>4 DEF DataSent
<1>8. ASSUME NEW i \in 1..n PROVE buffer'[i] = Data[got + i]
  <2>1. got + i \in 1..DataMax /\ addons + 1 + (got + i) = addons + 1 + got + i
    BY <1>1, <1>2, <1>5
  <2> QED BY <1>3, <2>1
<1> QED BY <1>1, <1>4, <1>6, <1>7, <1>8 DEF GotInv

\* vless_transport_read()
LEMMA TransportMoves ==
  ASSUME NEW got \in Nat, LocalInv(got), NEW y, Reaches(Setting, Here(got), conn.ssl_pending, sock, y),
         NEW n \in 1..Len(Transport), TransportRead(n),
         config.transport = "tcp" => Can(Setting, Here(got), n)
  PROVE  /\ \A i \in 1..n : Transport[i] = Payload[Consumed(got) + i]
         /\ Prefix(Transport, n) \in Seq(Tokens(framing)) /\ Len(Prefix(Transport, n)) = n
         /\ \A i \in 1..n : Prefix(Transport, n)[i] = Transport[i]
         /\ SameFrame(conn') /\ (~config.tls => conn'.ssl_pending = <<>>)
         /\ conn'.loading = conn.loading /\ conn'.wanted = conn.wanted
         /\ conn'.grpc_data_remaining = conn.grpc_data_remaining
         /\ conn'.grpc_data_end_stream = conn.grpc_data_end_stream
         /\ conn'.grpc_eof = conn.grpc_eof
         /\ config.transport = "grpc" =>
              /\ Reaches(Setting, Here(got), conn'.ssl_pending, sock', y)
              /\ Len(conn'.grpc_message) = Len(conn.grpc_message) - n
              /\ \A i \in 1..Len(conn'.grpc_message) :
                   conn'.grpc_message[i] = conn.grpc_message[n + i]
         /\ config.transport # "grpc" =>
              /\ Reaches(Setting, After(Setting, Here(got), n), conn'.ssl_pending, sock', y)
              /\ conn'.grpc_message = conn.grpc_message
              /\ config.transport = "ws" => conn'.ws_remaining = conn.ws_remaining - n
<1>1. TunnelInv /\ (~config.tls => conn.ssl_pending = <<>>) BY DEF LocalInv, FrameInv
<1>2. conn \in Conns(framing) BY <1>1 DEF TunnelInv
<1>3. /\ IsSetting(Setting) /\ Setting.transport = config.transport
      /\ Setting.payload = Payload /\ Here(got).taken = Seen(got)
      /\ config.transport \in {"tcp", "ws", "grpc"}
      /\ config.transport = "ws" => Here(got).body = conn.ws_remaining
  BY HereIs
<1>4. CASE config.transport = "grpc"
  <2> DEFINE s    == conn.grpc_message
             rest == Drop(s, n)
             T    == Tokens(framing)
  <2>1. Transport = s /\ conn' = [conn EXCEPT !.grpc_message = rest] /\ sock' = sock
    BY <1>4 DEF Transport, TransportRead
  <2>2. s \in Seq(T) /\ n \in 1..Len(s) BY <1>2, <2>1 DEF Conns
  <2>3. \A i \in 1..Len(s) : s[i] = Payload[Consumed(got) + i] BY DEF LocalInv, HoldInv
  <2> HIDE DEF s, T
  <2>4. Len(s) \in Nat BY <2>2, LenProperties
  <2>5. \A i \in 1..n : s[i] = Payload[Consumed(got) + i] BY <2>2, <2>3, <2>4
  <2>6. Prefix(s, n) \in Seq(T) /\ Len(Prefix(s, n)) = n /\ \A i \in 1..n : Prefix(s, n)[i] = s[i]
    BY <2>2, PrefixIs
  <2>7. Len(rest) = Len(s) - n /\ \A i \in 1..Len(rest) : rest[i] = s[n + i]
    <3> DEFINE a == n + 1
               b == Len(s)
    <3>1. a \in Int /\ b \in Int /\ a >= 1 BY <2>2, <2>4
    <3>2. \A i \in a..b : s[i] \in T
      <4> TAKE i \in a..b
      <4>1. i \in 1..Len(s) BY <2>2, <2>4
      <4> QED BY <2>2, <4>1, LenProperties
    <3>3. rest = SubSeq(s, a, b) BY DEF Drop
    <3>4. b - a + 1 = Len(s) - n /\ (~(a <= b) => Len(s) - n = 0) BY <2>2, <2>4
    <3>5. \A i \in 1..(Len(s) - n) : a + i - 1 = n + i BY <2>2, <2>4
    <3> HIDE DEF a, b, rest
    <3>6. /\ Len(SubSeq(s, a, b)) = IF a <= b THEN b - a + 1 ELSE 0
          /\ \A i \in 1..(b - a + 1) : SubSeq(s, a, b)[i] = s[a + i - 1]
      BY <2>2, <3>1, <3>2, SubSeqProperties
    <3>7. Len(rest) = Len(s) - n BY <3>3, <3>4, <3>6
    <3> QED BY <3>3, <3>4, <3>5, <3>6, <3>7
  <2> HIDE DEF rest
  <2>8. /\ conn'.grpc_message = rest /\ conn'.ssl_pending = conn.ssl_pending
        /\ conn'.loading = conn.loading /\ conn'.wanted = conn.wanted
        /\ conn'.grpc_data_remaining = conn.grpc_data_remaining
        /\ conn'.grpc_data_end_stream = conn.grpc_data_end_stream
        /\ conn'.grpc_eof = conn.grpc_eof
        /\ SameFrame(conn')
    BY <1>2, <2>1 DEF Conns, SameFrame
  <2> QED BY <1>1, <1>4, <2>1, <2>5, <2>6, <2>7, <2>8 DEF s, T
<1>5. CASE config.transport # "grpc"
  <2>1. Transport = Stream /\ conn' = Took(n) /\ sock' = RawTookSock(n)
    BY <1>5 DEF Transport, TransportRead
  <2>2. n \in 1..Len(Stream) BY <2>1
  <2>3. Raw # <<>>
    <3>1. Stream \in Seq(Tokens(framing)) BY <1>1, LayersType
    <3>2. Stream # <<>>
      <4>1. Len(Stream) # 0 BY <2>2
      <4> QED BY <4>1
    <3> QED BY <1>1, <3>2, LayersType
  <2>4. n \in Nat BY <2>2
  <2>5. Can(Setting, Here(got), n)
    <3>1. CASE config.transport = "ws"
      <4>1. conn.ws_remaining \in Int BY <1>2 DEF Conns
      <4>2. Raw \in Seq(Tokens(framing)) BY <1>1, LayersType
      <4>3. Len(Raw) \in Nat BY <4>2, LenProperties
      <4> DEFINE m == Least(conn.ws_remaining, Len(Raw))
      <4>4. Stream = Prefix(Raw, m) BY <3>1 DEF Stream
      <4>5. m \in Int /\ m <= Len(Raw) /\ m <= conn.ws_remaining BY <4>1, <4>3 DEF Least
      <4> HIDE DEF m
      <4>6. Len(Stream) = IF m >= 1 THEN m ELSE 0 BY <4>2, <4>4, <4>5, PrefixType
      <4>7. n <= conn.ws_remaining BY <2>2, <4>1, <4>5, <4>6
      <4> QED BY <1>3, <3>1, <4>7 DEF Can
    <3>2. CASE config.transport = "tcp" BY <3>2
    <3> QED BY <1>3, <1>5, <3>1, <3>2
  <2>6. /\ Reaches(Setting, After(Setting, Here(got), n), Took(n).ssl_pending, RawTookSock(n), y)
        /\ \A i \in 1..n : Stream[i] = Payload[Seen(got) + i]
        /\ Prefix(Stream, n) \in Seq(Tokens(framing)) /\ Len(Prefix(Stream, n)) = n
        /\ \A i \in 1..n : Prefix(Stream, n)[i] = Stream[i]
    <3>1. \A i \in 1..n : Stream[i] = Setting.payload[Here(got).taken + i]
      BY <1>1, <1>3, <2>2, <2>5, StreamMoves
    <3> QED BY <1>1, <1>3, <2>2, <2>5, <3>1, StreamMoves
  <2>7. Seen(got) = Consumed(got)
    <3>1. conn.grpc_message = <<>> /\ conn.loading = <<>> BY <1>5 DEF LocalInv, FrameInv
    <3>2. Len(<<>>) = 0 OBVIOUS
    <3>3. Consumed(got) \in Nat BY HereIs, LenProperties DEF Consumed, LocalInv, GotInv, TunnelInv
    <3> QED BY <3>1, <3>2, <3>3 DEF Seen
  <2>8. /\ SameFrame(conn') /\ (~config.tls => conn'.ssl_pending = <<>>)
        /\ conn'.loading = conn.loading /\ conn'.wanted = conn.wanted
        /\ conn'.grpc_data_remaining = conn.grpc_data_remaining
        /\ conn'.grpc_data_end_stream = conn.grpc_data_end_stream
        /\ conn'.grpc_eof = conn.grpc_eof
        /\ conn'.grpc_message = conn.grpc_message
        /\ config.transport = "ws" => conn'.ws_remaining = conn.ws_remaining - n
    BY <1>1, <2>1, <2>3, <2>4, TookIs DEF SameFrame
  <2> QED BY <1>5, <2>1, <2>6, <2>7, <2>8
<1> QED BY <1>4, <1>5

\* Payload handed up by the transport, through consume_vless_response() or
\* vision_body_read().
LEMMA HandedUp ==
  ASSUME NEW got \in Nat, LocalInv(got), NEW y, Reaches(Setting, Here(got), conn.ssl_pending, sock, y),
         NEW n \in 1..Len(Transport), TransportRead(n),
         config.vision =>
           IF response_pending THEN /\ n <= addons + 1 - Consumed(got)
                                    /\ response_pending' \/ Consumed(got)' = addons + 1
           ELSE conn.vision_read_finished /\ ~conn.vision_read_direct,
         UNCHANGED <<config, addons>>, Consumed(got)' = Consumed(got) + n,
         ~response_pending => ~response_pending', response_pending' \in BOOLEAN
  PROVE  /\ Reaches(Setting, Here(got)', conn'.ssl_pending, sock', y)
         /\ FrameInv' /\ HoldInv(got)'
         /\ \A i \in 1..n : Transport[i] = Payload[Consumed(got) + i]
         /\ Prefix(Transport, n) \in Seq(Tokens(framing)) /\ Len(Prefix(Transport, n)) = n
         /\ \A i \in 1..n : Prefix(Transport, n)[i] = Transport[i]
         /\ SameFrame(conn')
<1>1. /\ Here(got) \in Points /\ IsSetting(Setting)
      /\ Setting.transport = config.transport /\ Setting.vision = config.vision
      /\ config.transport \in {"tcp", "ws", "grpc"}
      /\ config.tls \in BOOLEAN /\ config.vision \in BOOLEAN
      /\ config.vision => config.transport = "tcp" /\ config.tls
      /\ Here(got).taken = Seen(got)
      /\ config.transport = "ws" => Here(got).body = conn.ws_remaining
      /\ config.transport = "grpc" => Here(got).body = conn.grpc_data_remaining
      /\ config.transport = "tcp" /\ ~config.vision => Here(got).body = 0
      /\ config.vision => Here(got).body = IF response_pending THEN addons + 1 - Seen(got)
                                      ELSE conn.vision_read_content
      /\ config.transport = "grpc" => Here(got).rest = conn.wanted
      /\ config.transport # "grpc" => Here(got).rest = conn.vision_read_padding
      /\ config.transport = "grpc" =>
           Here(got).mode = IF conn.grpc_data_end_stream THEN "closed" ELSE "framed"
      /\ config.transport # "grpc" =>
           Here(got).mode = IF conn.vision_read_have_frame THEN ModeAfter(conn.vision_read_command)
                       ELSE IF conn.vision_read_direct THEN "direct"
                       ELSE IF conn.vision_read_finished THEN "end" ELSE "framed"
      /\ addons \in Nat /\ conn \in Conns(framing)
  BY HereIs
<1>2. /\ config' = config /\ addons' = addons /\ n \in Nat /\ n >= 1 OBVIOUS
<1>3. FrameInv /\ HoldInv(got) /\ PhaseInv(got) BY DEF LocalInv
<1>4. Len(<<>>) = 0 OBVIOUS
<1>5. Consumed(got) \in Nat BY HereIs, LenProperties DEF Consumed, LocalInv, GotInv, TunnelInv
<1>6. config.transport # "grpc" =>
        conn.grpc_message = <<>> /\ conn.loading = <<>> /\ Seen(got) = Consumed(got)
  <2>1. CASE config.transport # "grpc"
    <3>1. conn.grpc_message = <<>> /\ conn.loading = <<>> BY <1>3, <2>1 DEF FrameInv
    <3>2. Seen(got) = Consumed(got) + 0 + 0 BY <1>4, <3>1 DEF Seen
    <3> QED BY <1>5, <3>1, <3>2
  <2> QED BY <2>1
<1>7. /\ config.vision /\ response_pending =>
           ~conn.vision_read_have_frame /\ ~conn.vision_read_finished
              /\ ~conn.vision_read_direct /\ Here(got).mode = "framed"
      /\ config.vision /\ ~response_pending =>
           ~conn.vision_read_have_frame /\ conn.vision_read_content = 0
              /\ conn.vision_read_padding = 0 /\ Here(got).mode = "end"
      /\ config.transport = "tcp" /\ ~config.vision => Here(got).mode = "framed"
  BY <1>1, <1>3 DEF FrameInv
<1>8. /\ config.vision /\ response_pending => ~Free(Setting, Here(got))
      /\ config.vision /\ ~response_pending => Free(Setting, Here(got))
      /\ config.transport = "tcp" /\ ~config.vision => Free(Setting, Here(got))
      /\ config.transport # "tcp" => ~Free(Setting, Here(got))
  BY <1>1, <1>7 DEF Free
<1>9. config.transport = "tcp" => Can(Setting, Here(got), n)
  <2>1. config.vision /\ response_pending => n <= Here(got).body BY <1>1, <1>6
  <2> QED BY <1>1, <1>8, <2>1 DEF Can
<1>10. /\ \A i \in 1..n : Transport[i] = Payload[Consumed(got) + i]
       /\ Prefix(Transport, n) \in Seq(Tokens(framing)) /\ Len(Prefix(Transport, n)) = n
       /\ \A i \in 1..n : Prefix(Transport, n)[i] = Transport[i]
       /\ SameFrame(conn') /\ (~config.tls => conn'.ssl_pending = <<>>)
       /\ conn'.loading = conn.loading /\ conn'.wanted = conn.wanted
       /\ conn'.grpc_data_remaining = conn.grpc_data_remaining
       /\ conn'.grpc_data_end_stream = conn.grpc_data_end_stream
       /\ config.transport = "grpc" =>
            /\ Reaches(Setting, Here(got), conn'.ssl_pending, sock', y)
            /\ Len(conn'.grpc_message) = Len(conn.grpc_message) - n
            /\ \A i \in 1..Len(conn'.grpc_message) :
                 conn'.grpc_message[i] = conn.grpc_message[n + i]
       /\ config.transport # "grpc" =>
            /\ Reaches(Setting, After(Setting, Here(got), n), conn'.ssl_pending, sock', y)
            /\ conn'.grpc_message = conn.grpc_message
            /\ config.transport = "ws" => conn'.ws_remaining = conn.ws_remaining - n
  BY <1>9, TransportMoves
<1>11. /\ conn.grpc_message \in Seq(Tokens(framing)) /\ conn.loading \in Seq(Tokens(framing))
       /\ Len(conn.grpc_message) \in Nat /\ Len(conn.loading) \in Nat
       /\ n <= Len(conn.grpc_message) \/ config.transport # "grpc"
  <2>1. conn.grpc_message \in Seq(Tokens(framing)) /\ conn.loading \in Seq(Tokens(framing))
    BY <1>1 DEF Conns
  <2>2. Len(conn.grpc_message) \in Nat /\ Len(conn.loading) \in Nat
    <3> DEFINE T == Tokens(framing)
               a == conn.grpc_message
               b == conn.loading
    <3>1. a \in Seq(T) /\ b \in Seq(T) BY <2>1
    <3> HIDE DEF T, a, b
    <3>2. Len(a) \in Nat /\ Len(b) \in Nat BY <3>1, LenProperties
    <3> QED BY <3>2 DEF a, b
  <2>3. n <= Len(conn.grpc_message) \/ config.transport # "grpc" BY <2>2 DEF Transport
  <2> QED BY <2>1, <2>2, <2>3
<1>12. config.transport = "grpc" => conn.loading = <<>> /\ conn.wanted = 0
  <2>1. config.transport = "grpc" => conn.grpc_message # <<>> BY <1>2, <1>4, <1>11
  <2> QED BY <1>3, <2>1 DEF FrameInv
<1>13. FrameInv'
  <2>1. /\ ~conn'.vision_read_have_frame =>
             conn'.vision_read_content = 0 /\ conn'.vision_read_padding = 0
        /\ conn'.vision_read_finished => ~conn'.vision_read_have_frame
        /\ conn'.vision_read_direct => conn'.vision_read_finished
        /\ conn'.vision_read_have_frame \/ conn'.vision_read_finished =>
             config'.vision /\ ~response_pending'
    BY <1>2, <1>3, <1>10 DEF FrameInv, SameFrame
  <2>2. /\ ~config.tls => conn'.ssl_pending = <<>>
        /\ config.transport # "grpc" => conn'.grpc_message = <<>> /\ conn'.loading = <<>>
        /\ conn'.grpc_message # <<>> => conn'.loading = <<>> /\ conn'.wanted = 0
        /\ conn'.wanted = 0 => conn'.loading = <<>>
    BY <1>3, <1>6, <1>10, <1>12 DEF FrameInv
  <2> QED BY <1>2, <2>1, <2>2 DEF FrameInv
<1>14. HoldInv(got)'
  <2>1. Response' = Response /\ Data' = Data BY <1>2 DEF Response, Data
  <2>2. Payload' = Payload BY <2>1 DEF Payload
  <2>3. CASE config.transport = "grpc"
    <3>1. Len(conn'.loading) = 0 BY <1>4, <1>10, <1>12, <2>3
    <3>2. ASSUME NEW i \in 1..Len(conn'.grpc_message)
          PROVE  conn'.grpc_message[i] = Payload[Consumed(got)' + i]
      <4>1. n + i \in 1..Len(conn.grpc_message) /\ Consumed(got) + (n + i) = Consumed(got)' + i
        BY <1>2, <1>5, <1>10, <1>11, <2>3
      <4>2. conn.grpc_message[n + i] = Payload[Consumed(got) + (n + i)] BY <1>3, <4>1 DEF HoldInv
      <4> QED BY <1>10, <2>3, <4>1, <4>2
    <3> QED BY <2>2, <3>1, <3>2 DEF HoldInv
  <2>4. CASE config.transport # "grpc"
    <3>1. Len(conn'.loading) = 0 /\ Len(conn'.grpc_message) = 0 BY <1>4, <1>6, <1>10, <2>4
    <3> QED BY <2>2, <3>1 DEF HoldInv
  <2> QED BY <2>3, <2>4
<1>15. Reaches(Setting, Here(got)', conn'.ssl_pending, sock', y)
  <2>1. CASE config.transport = "grpc"
    <3>1. Seen(got)' = Seen(got)
      <4> DEFINE b == Len(conn.grpc_message)
                 c == Len(conn.loading)
      <4>1. Seen(got)' = (Consumed(got) + n) + (b - n) + c BY <1>10, <2>1 DEF Seen
      <4>2. Seen(got) = Consumed(got) + b + c BY DEF Seen
      <4>3. b \in Nat /\ c \in Nat /\ n <= b BY <1>11, <2>1
      <4> HIDE DEF b, c
      <4>4. \A a, i, j, k \in Nat : k <= i => (a + k) + (i - k) + j = a + i + j OBVIOUS
      <4> QED BY <1>2, <1>5, <4>1, <4>2, <4>3, <4>4
    <3>2. Here(got)' = [taken |-> Seen(got), body |-> Here(got).body, rest |-> Here(got).rest, mode |-> Here(got).mode]
      BY <1>1, <1>2, <1>10, <2>1, <3>1 DEF Here
    <3>3. Here(got)' = Here(got) BY <1>1, <3>2, PlaceIs
    <3> QED BY <1>10, <2>1, <3>3
  <2>2. CASE config.transport # "grpc"
    <3>1. Seen(got)' = Seen(got) + n
      <4>1. Seen(got)' = Consumed(got)' + 0 + 0 BY <1>4, <1>6, <1>10, <2>2 DEF Seen
      <4> QED BY <1>2, <1>5, <1>6, <2>2, <4>1
    <3> DEFINE b == IF Free(Setting, Here(got)) THEN Here(got).body ELSE Here(got).body - n
    <3>2. After(Setting, Here(got), n) = [taken |-> Seen(got) + n, body |-> b, rest |-> Here(got).rest,
                                     mode |-> Here(got).mode]
      BY <1>1, <2>2 DEF After
    <3>3. Here(got)' = [taken |-> Seen(got) + n,
                   body |-> IF config.transport = "ws" THEN conn'.ws_remaining
                            ELSE IF ~config.vision THEN 0
                            ELSE IF response_pending' THEN addons + 1 - (Seen(got) + n)
                            ELSE conn.vision_read_content,
                   rest |-> Here(got).rest, mode |-> Here(got).mode]
      BY <1>1, <1>2, <1>10, <2>2, <3>1 DEF Here, SameFrame
    <3>4. (IF config.transport = "ws" THEN conn'.ws_remaining
           ELSE IF ~config.vision THEN 0
           ELSE IF response_pending' THEN addons + 1 - (Seen(got) + n)
           ELSE conn.vision_read_content) = b
      <4>1. CASE config.transport = "ws" BY <1>1, <1>8, <1>10, <4>1
      <4>2. CASE config.transport = "tcp" /\ ~config.vision BY <1>1, <1>8, <4>2
      <4>3. CASE config.vision /\ response_pending
        <5>1. b = addons + 1 - (Seen(got) + n) BY <1>1, <1>2, <1>5, <1>6, <1>8, <2>2, <4>3
        <5>2. ~response_pending' => addons + 1 - (Seen(got) + n) = 0 /\ conn.vision_read_content = 0
          BY <1>1, <1>2, <1>3, <1>5, <1>6, <1>7, <2>2, <4>3 DEF FrameInv
        <5> QED BY <1>1, <4>3, <5>1, <5>2
      <4>4. CASE config.vision /\ ~response_pending BY <1>1, <1>7, <1>8, <4>4
      <4> QED BY <1>1, <2>2, <4>1, <4>2, <4>3, <4>4
    <3> HIDE DEF b
    <3> QED BY <1>10, <2>2, <3>2, <3>3, <3>4
  <2> QED BY <2>1, <2>2
<1> QED BY <1>10, <1>13, <1>14, <1>15

\* What holds after a step that leaves what is under way leading to y.
Tracks(got, y) ==
  /\ PhaseInv(got)' /\ FrameInv' /\ GotInv(got)'
  /\ Alive' => HoldInv(got)' /\ Reaches(Setting, Here(got)', conn'.ssl_pending, sock', y)

\* The payload goes on where the reader is.
LEMMA CanTake ==
  ASSUME NEW got \in Nat, LocalInv(got), NEW y, Reaches(Setting, Here(got), conn.ssl_pending, sock, y), NEW n \in Nat,
         config.vision =>
           IF response_pending THEN n <= addons + 1 - Consumed(got)
           ELSE conn.vision_read_finished /\ ~conn.vision_read_direct
  PROVE  /\ config.transport = "tcp" => Can(Setting, Here(got), n)
         /\ Consumed(got) \in Nat
         /\ config.transport # "grpc" => Seen(got) = Consumed(got)
<1>1. /\ Here(got) \in Points
      /\ Setting.transport = config.transport /\ Setting.vision = config.vision
      /\ config.vision \in BOOLEAN
      /\ config.vision => config.transport = "tcp" /\ config.tls
      /\ config.vision => Here(got).body = IF response_pending THEN addons + 1 - Seen(got)
                                      ELSE conn.vision_read_content
      /\ config.transport # "grpc" => Here(got).rest = conn.vision_read_padding
      /\ config.transport # "grpc" =>
           Here(got).mode = IF conn.vision_read_have_frame THEN ModeAfter(conn.vision_read_command)
                       ELSE IF conn.vision_read_direct THEN "direct"
                       ELSE IF conn.vision_read_finished THEN "end" ELSE "framed"
  BY HereIs
<1>2. FrameInv BY DEF LocalInv
<1>3. Len(<<>>) = 0 OBVIOUS
<1>4. Consumed(got) \in Nat BY HereIs, LenProperties DEF Consumed, LocalInv, GotInv, TunnelInv
<1>5. CASE config.transport # "grpc"
  <2>1. conn.grpc_message = <<>> /\ conn.loading = <<>> BY <1>2, <1>5 DEF FrameInv
  <2>2. Seen(got) = Consumed(got) + 0 + 0 BY <1>3, <2>1 DEF Seen
  <2>3. Seen(got) = Consumed(got) BY <1>4, <2>2
  <2>4. CASE config.vision /\ response_pending
    <3>1. n <= Here(got).body BY <1>1, <2>3, <2>4
    <3> QED BY <1>1, <1>4, <1>5, <2>3, <3>1 DEF Can
  <2>5. CASE config.vision /\ ~response_pending
    <3>1. Here(got).body = 0 /\ Here(got).rest = 0 /\ Here(got).mode = "end"
      BY <1>1, <1>2, <2>5 DEF FrameInv
    <3>2. Free(Setting, Here(got)) BY <1>1, <2>5, <3>1 DEF Free
    <3> QED BY <1>1, <1>4, <2>3, <3>2 DEF Can
  <2>6. CASE ~config.vision
    <3>1. Here(got).mode = "framed" BY <1>1, <1>2, <1>5, <2>6 DEF FrameInv
    <3>2. config.transport = "tcp" => Free(Setting, Here(got)) BY <1>1, <2>6, <3>1 DEF Free
    <3> QED BY <1>1, <1>4, <2>3, <3>2 DEF Can
  <2> QED BY <1>1, <2>4, <2>5, <2>6
<1> QED BY <1>4, <1>5

\* A step that hands up nothing.
LEMMA SameGot ==
  ASSUME NEW got \in Nat, GotInv(got), UNCHANGED <<addons, sent, buffer>>
  PROVE  GotInv(got)'
<1>1. addons' = addons /\ sent' = sent /\ buffer' = buffer OBVIOUS
<1>2. Data' = Data /\ Response' = Response BY <1>1 DEF Data, Response
<1>3. DataSent' = DataSent BY <1>1, <1>2 DEF DataSent
<1> QED BY <1>1, <1>2, <1>3 DEF GotInv

\* The two bytes of the VLESS response.
LEMMA ResponseMoves ==
  ASSUME NEW got \in Nat, LocalInv(got), ConsumeResponse,
         NEW y, Reaches(Setting, Here(got), conn.ssl_pending, sock, y)
  PROVE  Tracks(got, y)
<1> DEFINE n == 1
<1>1. /\ pc = "response" /\ Transport # <<>> /\ TransportRead(n)
      /\ IF Head(Transport).n > 0 THEN pc' = "addons" /\ response_pending' = response_pending
                                  ELSE pc' = "body" /\ response_pending' = FALSE
      /\ UNCHANGED <<config, addons, sent, buffer>>
  BY DEF ConsumeResponse, server, TransportRead
<1>2. n \in Nat /\ n = 1 OBVIOUS
<1> HIDE DEF n
<1>3. TunnelInv /\ PhaseInv(got) /\ GotInv(got) /\ addons \in {0, 1} BY DEF LocalInv, StreamInv
<1>4. response_pending /\ got = 0 /\ buffer = <<>> BY <1>1, <1>3 DEF PhaseInv, Alive
<1>5. Consumed(got) = 0 BY <1>1, <1>4 DEF Consumed
<1>6. /\ config.transport = "tcp" => Can(Setting, Here(got), n)
  <2>1. n <= addons + 1 - Consumed(got) BY <1>2, <1>3, <1>5
  <2> QED BY <1>2, <1>4, <2>1, CanTake
<1>7. n \in 1..Len(Transport)
  <2> DEFINE s == Transport
             T == Tokens(framing)
  <2>1. s \in Seq(T) /\ s # <<>> BY <1>1, <1>3, LayersType
  <2> HIDE DEF s, T
  <2>2. Len(s) \in Nat /\ Len(s) # 0 BY <2>1, LenProperties, EmptySeq
  <2> QED BY <1>2, <2>2 DEF s
<1>8. Transport[1] = [k |-> "resp", n |-> addons]
  <2>1. \A i \in 1..n : Transport[i] = Payload[Consumed(got) + i] BY <1>1, <1>6, <1>7, TransportMoves
  <2>2. Transport[1] = Payload[Consumed(got) + 1] BY <1>2, <2>1
  <2>3. Consumed(got) + 1 = 1 BY <1>5
  <2>4. addons \in Nat BY <1>3
  <2> QED BY <2>2, <2>3, <2>4, PayloadIs
<1>9. Head(Transport).n = addons
  <2>1. Head(Transport) = Transport[1]
    <3> DEFINE s == Transport
    <3>1. s \in Seq(Tokens(framing)) /\ s # <<>> BY <1>1, <1>3, LayersType
    <3> HIDE DEF s
    <3>2. Head(s) = s[1] BY <3>1, HeadTailProperties
    <3> QED BY <3>2 DEF s
  <2>2. Head(Transport) = [k |-> "resp", n |-> addons] BY <1>8, <2>1
  <2> DEFINE h == Head(Transport)
  <2> HIDE DEF h
  <2>3. h = [k |-> "resp", n |-> addons] BY <2>2 DEF h
  <2>4. h.n = addons BY <2>3
  <2> QED BY <2>4 DEF h
<1>10. /\ addons = 0 => pc' = "body" /\ response_pending' = FALSE
       /\ addons = 1 => pc' = "addons" /\ response_pending' = response_pending
  BY <1>1, <1>3, <1>9
<1>11. Consumed(got)' = Consumed(got) + n
  <2>1. CASE addons = 0
    <3>1. Len(<<>>) = 0 OBVIOUS
    <3> QED BY <1>1, <1>2, <1>4, <1>5, <1>10, <2>1, <3>1 DEF Consumed
  <2>2. CASE addons = 1 BY <1>1, <1>2, <1>4, <1>5, <1>10, <2>2 DEF Consumed
  <2> QED BY <1>3, <2>1, <2>2
<1>12. /\ Reaches(Setting, Here(got)', conn'.ssl_pending, sock', y) /\ FrameInv' /\ HoldInv(got)'
  <2>0. response_pending \in BOOLEAN /\ response_pending' \in BOOLEAN
    BY <1>1, <1>3 DEF PhaseInv
  <2>1. n <= addons + 1 - Consumed(got) /\ (response_pending' \/ Consumed(got)' = addons + 1)
    <3>1. CASE addons = 0
      <4>1. n <= addons + 1 - Consumed(got) /\ Consumed(got)' = addons + 1 BY <1>2, <1>5, <1>11, <3>1
      <4> QED BY <4>1
    <3>2. CASE addons = 1
      <4>1. n <= addons + 1 - Consumed(got) BY <1>2, <1>5, <3>2
      <4>2. response_pending' BY <1>4, <1>10, <3>2
      <4> QED BY <4>1, <4>2
    <3> QED BY <1>3, <3>1, <3>2
  <2>2. /\ config.vision =>
             IF response_pending THEN /\ n <= addons + 1 - Consumed(got)
                                      /\ response_pending' \/ Consumed(got)' = addons + 1
             ELSE conn.vision_read_finished /\ ~conn.vision_read_direct
        /\ UNCHANGED <<config, addons>>
        /\ ~response_pending => ~response_pending'
    BY <1>1, <1>4, <2>1
  <2> QED BY <1>1, <1>7, <1>11, <2>0, <2>2, HandedUp
<1>13. GotInv(got)' BY <1>1, <1>3, SameGot
<1>14. PhaseInv(got)' BY <1>1, <1>3, <1>4, <1>10 DEF PhaseInv, Alive
<1> QED BY <1>12, <1>13, <1>14 DEF Tracks

\* The response's addons.
LEMMA AddonsMoves ==
  ASSUME NEW got \in Nat, LocalInv(got), ConsumeAddons,
         NEW y, Reaches(Setting, Here(got), conn.ssl_pending, sock, y)
  PROVE  Tracks(got, y)
<1> DEFINE n == 1
<1>1. /\ pc = "addons" /\ Transport # <<>> /\ TransportRead(n)
      /\ pc' = "body" /\ response_pending' = FALSE
      /\ UNCHANGED <<config, addons, sent, buffer>>
  BY DEF ConsumeAddons, server, TransportRead
<1>2. n \in Nat /\ n = 1 OBVIOUS
<1> HIDE DEF n
<1>3. TunnelInv /\ PhaseInv(got) /\ GotInv(got) BY DEF LocalInv
<1>4. response_pending /\ got = 0 /\ buffer = <<>> /\ addons = 1
  BY <1>1, <1>3 DEF PhaseInv, Alive
<1>5. Consumed(got) = 1 BY <1>1, <1>4 DEF Consumed
<1>6. n \in 1..Len(Transport)
  <2> DEFINE s == Transport
             T == Tokens(framing)
  <2>1. s \in Seq(T) /\ s # <<>> BY <1>1, <1>3, LayersType
  <2> HIDE DEF s, T
  <2>2. Len(s) \in Nat /\ Len(s) # 0 BY <2>1, LenProperties, EmptySeq
  <2> QED BY <1>2, <2>2 DEF s
<1>7. Consumed(got)' = Consumed(got) + n
  <2>1. Len(<<>>) = 0 OBVIOUS
  <2> QED BY <1>1, <1>2, <1>4, <1>5, <2>1 DEF Consumed
<1>8. /\ Reaches(Setting, Here(got)', conn'.ssl_pending, sock', y) /\ FrameInv' /\ HoldInv(got)'
  <2>0. response_pending' \in BOOLEAN BY <1>1
  <2>1. n <= addons + 1 - Consumed(got) /\ Consumed(got)' = addons + 1 BY <1>2, <1>4, <1>5, <1>7
  <2>2. /\ config.vision =>
             IF response_pending THEN /\ n <= addons + 1 - Consumed(got)
                                      /\ response_pending' \/ Consumed(got)' = addons + 1
             ELSE conn.vision_read_finished /\ ~conn.vision_read_direct
        /\ UNCHANGED <<config, addons>>
        /\ ~response_pending => ~response_pending'
    BY <1>1, <1>4, <2>1
  <2> QED BY <1>1, <1>6, <1>7, <2>0, <2>2, HandedUp
<1>9. GotInv(got)' BY <1>1, <1>3, SameGot
<1>10. PhaseInv(got)' BY <1>1, <1>3, <1>4 DEF PhaseInv, Alive
<1> QED BY <1>8, <1>9, <1>10 DEF Tracks

\* Nothing is handed up that the server has not sent.
LEMMA WithinSent ==
  ASSUME NEW got \in Nat, TunnelInv', NEW y, Reaches(Setting, Here(got)', conn'.ssl_pending, sock', y),
         y.taken <= sent, Consumed(got)' \in Nat, sent \in Nat
  PROVE  Consumed(got)' <= sent
<1> DEFINE S == Records(framing')
           T == Tokens(framing')
           pend == conn'.ssl_pending
           a == conn'.grpc_message
           b == conn'.loading
           q == sock'
<1>1. pend \in Seq(T) /\ a \in Seq(T) /\ b \in Seq(T) /\ q \in Seq(S)
  BY DEF TunnelInv, Conns
<1>2. Here(got)'.taken = Consumed(got)' + Len(a) + Len(b) BY DEF Here, Seen
<1>3. Reaches(Setting, Here(got)', pend, q, y) OBVIOUS
<1> HIDE DEF S, T, pend, a, b, q
<1>4. Len(pend) \in Nat /\ Len(a) \in Nat /\ Len(b) \in Nat /\ Len(q) \in Nat
  BY <1>1, LenProperties
<1> DEFINE x == Here(got)'
<1>5. x.taken = Consumed(got)' + Len(a) + Len(b) /\ Reaches(Setting, x, pend, q, y) BY <1>2, <1>3
<1> HIDE DEF x
<1>6. y \in Points /\ Onward(x, y) BY <1>4, <1>5, ReachesOnward
<1>7. x.taken <= y.taken /\ y.taken \in Nat BY <1>6 DEF Onward, Points
<1> QED BY <1>4, <1>5, <1>7

\* The body of the stream, not framed.
LEMMA BodyMoves ==
  ASSUME NEW got \in Nat, LocalInv(got), TunnelInv', NEW length \in Nat \ {0}, ReadBody(length),
         NEW y, Reaches(Setting, Here(got), conn.ssl_pending, sock, y), y.taken <= sent
  PROVE  Tracks(got, y)
<1> DEFINE n == Least(length, Len(Transport))
<1>1. /\ pc = "body" /\ Unframed /\ Transport # <<>> /\ TransportRead(n)
      /\ buffer' = Prefix(Transport, n) /\ pc' = "deliver"
      /\ response_pending' = response_pending
      /\ UNCHANGED <<config, addons, sent, framing>>
  BY DEF ReadBody, server, TransportRead
<1>2. n \in 1..Len(Transport)
  <2> DEFINE s == Transport
             T == Tokens(framing)
  <2>1. s \in Seq(T) /\ s # <<>> BY <1>1, LayersType DEF LocalInv
  <2> HIDE DEF s, T
  <2>2. Len(s) \in Nat /\ Len(s) # 0 BY <2>1, LenProperties, EmptySeq
  <2>3. Least(length, Len(s)) \in 1..Len(s) BY <2>2 DEF Least
  <2> QED BY <2>3 DEF s
<1> HIDE DEF n
<1>3. TunnelInv /\ PhaseInv(got) /\ FrameInv /\ GotInv(got) /\ addons \in Nat /\ sent \in Nat
  BY DEF LocalInv, TunnelInv
<1>4. /\ ~response_pending /\ response_pending' \in BOOLEAN
      /\ config.vision => conn.vision_read_finished /\ ~conn.vision_read_direct
  BY <1>1, <1>3 DEF PhaseInv, Alive, Unframed
<1>5. buffer = <<>>
  <2>1. ~conn.vision_read_have_frame BY <1>1, <1>3 DEF FrameInv, Unframed
  <2> QED BY <1>1, <1>3, <2>1 DEF PhaseInv, Alive
<1>6. n \in Nat BY <1>2
<1>7. /\ buffer' \in Seq(Tokens(framing)) /\ Len(buffer') = n
  <2> DEFINE s == Transport
             T == Tokens(framing)
  <2>1. s \in Seq(T) BY <1>3, LayersType
  <2>2. n \in 1..Len(s) BY <1>2
  <2>3. buffer' = Prefix(s, n) BY <1>1
  <2> HIDE DEF s, T
  <2>4. buffer' \in Seq(T) /\ Len(buffer') = n BY <2>1, <2>2, <2>3, PrefixIs
  <2> QED BY <2>4 DEF T
<1>8. got \in Nat /\ Len(<<>>) = 0 BY LenProperties DEF LocalInv, GotInv
<1>9. Consumed(got)' = Consumed(got) + n /\ Consumed(got) = addons + 1 + got
  <2>1. Consumed(got) = addons + 1 + got + 0 BY <1>4, <1>5, <1>8 DEF Consumed
  <2>2. Consumed(got)' = addons + 1 + got + n BY <1>1, <1>4, <1>7 DEF Consumed
  <2> QED BY <1>3, <1>6, <1>8, <2>1, <2>2
<1>10. /\ Reaches(Setting, Here(got)', conn'.ssl_pending, sock', y)
       /\ FrameInv' /\ HoldInv(got)'
       /\ \A i \in 1..n : Transport[i] = Payload[Consumed(got) + i]
       /\ \A i \in 1..n : Prefix(Transport, n)[i] = Transport[i]
  <2>1. /\ config.vision =>
             IF response_pending THEN /\ n <= addons + 1 - Consumed(got)
                                      /\ response_pending' \/ Consumed(got)' = addons + 1
             ELSE conn.vision_read_finished /\ ~conn.vision_read_direct
        /\ UNCHANGED <<config, addons>>
        /\ ~response_pending => ~response_pending'
    BY <1>1, <1>4
  <2> QED BY <1>1, <1>2, <1>4, <1>9, <2>1, HandedUp
<1>11. Consumed(got)' <= sent
  <2>1. Consumed(got)' \in Nat BY <1>3, <1>6, <1>8, <1>9
  <2> QED BY <1>3, <1>10, <2>1, WithinSent
<1>12. GotInv(got)'
  <2>1. \A i \in 1..n : buffer'[i] = Payload[addons + 1 + got + i]
    BY <1>1, <1>9, <1>10
  <2>2. addons + 1 + got + n <= sent BY <1>9, <1>11
  <2> QED BY <1>1, <1>5, <1>6, <1>7, <2>1, <2>2, Delivers
<1>13. PhaseInv(got)' BY <1>1, <1>3, <1>4 DEF PhaseInv, Alive
<1> QED BY <1>10, <1>12, <1>13 DEF Tracks

\* A record's worth of the stream below TLS.
LEMMA DirectMoves ==
  ASSUME NEW got \in Nat, LocalInv(got), TunnelInv', NEW length \in Nat \ {0}, ReadDirect(length),
         NEW y, Reaches(Setting, Here(got), conn.ssl_pending, sock, y), y.taken <= sent
  PROVE  Tracks(got, y)
<1> DEFINE n == Least(length, Len(Arrived))
<1>1. /\ pc = "body" /\ conn.vision_read_direct /\ sock # <<>>
      /\ buffer' = IF Head(sock).tls THEN <<[k |-> "ciphertext"]>> ELSE Prefix(Arrived, n)
      /\ sock' = Received(n) /\ pc' = "deliver"
      /\ response_pending' = response_pending /\ conn' = conn
      /\ UNCHANGED <<config, addons, sent, framing>>
  BY DEF ReadDirect, server
<1>2. TunnelInv /\ PhaseInv(got) /\ FrameInv /\ GotInv(got) /\ HoldInv(got) /\ addons \in Nat /\ sent \in Nat
  BY DEF LocalInv, TunnelInv
<1>3. Arrived \in Seq(Tokens(framing)) BY <1>2, LayersType
<1>4. n \in 0..Len(Arrived)
  <2> DEFINE s == Arrived
             T == Tokens(framing)
  <2>1. s \in Seq(T) BY <1>3
  <2> HIDE DEF s, T
  <2>2. Len(s) \in Nat BY <2>1, LenProperties
  <2>3. Least(length, Len(s)) \in 0..Len(s) BY <2>2 DEF Least
  <2> QED BY <2>3 DEF s
<1> HIDE DEF n
<1>5. /\ ~response_pending /\ response_pending' \in BOOLEAN
      /\ conn.vision_read_finished /\ ~conn.vision_read_have_frame /\ config.vision
      /\ conn.vision_read_content = 0 /\ conn.vision_read_padding = 0
  BY <1>1, <1>2 DEF PhaseInv, Alive, FrameInv
<1>6. buffer = <<>> BY <1>1, <1>2, <1>5 DEF PhaseInv, Alive
<1>7. /\ Here(got) \in Points /\ IsSetting(Setting)
      /\ Setting.transport = "tcp" /\ Setting.vision
      /\ Setting.payload = Payload /\ config.transport = "tcp" /\ config.tls
      /\ Here(got).taken = Seen(got) /\ Here(got).body = 0 /\ Here(got).rest = 0 /\ Here(got).mode = "direct"
  BY <1>1, <1>5, HereIs
<1>8. Outside(Here(got)) /\ Free(Setting, Here(got)) /\ Can(Setting, Here(got), n)
  BY <1>7 DEF Outside, Free, Can
<1>9. Len(conn.ssl_pending) = 0 BY <1>2, <1>8, OutsideNone
<1>10. ~Head(sock).tls
  BY <1>1, <1>2, <1>4, <1>8, <1>9, SocketMoves DEF Fitting
<1>11. PICK z \in Points : /\ Leads(Setting, Prefix(Arrived, n), Head(sock).tls, Here(got), z)
                           /\ Reaches(Setting, z, conn.ssl_pending, Received(n), y)
  BY <1>1, <1>2, <1>4, <1>9, SocketMoves
<1>12. n \in Nat BY <1>4
<1>13. /\ buffer' = Prefix(Arrived, n)
       /\ buffer' \in Seq(Tokens(framing)) /\ Len(buffer') = n
  <2> DEFINE s == Arrived
             T == Tokens(framing)
  <2>1. s \in Seq(T) /\ n \in Int /\ n <= Len(s) BY <1>3, <1>4
  <2>2. buffer' = Prefix(s, n) BY <1>1, <1>10
  <2> HIDE DEF s, T
  <2>3. Prefix(s, n) \in Seq(T) /\ Len(Prefix(s, n)) = IF n >= 1 THEN n ELSE 0
    BY <2>1, PrefixType
  <2>4. buffer' \in Seq(T) /\ Len(buffer') = n BY <1>12, <2>2, <2>3
  <2> QED BY <2>2, <2>4 DEF s, T
<1>14. /\ z = After(Setting, Here(got), n)
       /\ \A i \in 1..n : buffer'[i] = Payload[Seen(got) + i]
  <2> DEFINE T == Tokens(framing)
             s == Prefix(Arrived, n)
             tls == Head(sock).tls
  <2>1. s \in Seq(T) /\ Leads(Setting, s, tls, Here(got), z) /\ Len(s) = n /\ s = buffer'
    BY <1>11, <1>13
  <2> HIDE DEF s, T, tls
  <2>2. Can(Setting, Here(got), Len(s)) BY <1>8, <2>1
  <2>3. z = After(Setting, Here(got), Len(s)) /\ \A i \in 1..Len(s) : s[i] = Setting.payload[Here(got).taken + i]
    BY <1>7, <2>1, <2>2, RunLeads
  <2> QED BY <1>7, <2>1, <2>3
<1>15. got \in Nat /\ Len(<<>>) = 0 BY LenProperties DEF LocalInv, GotInv
<1>16. Consumed(got)' = Consumed(got) + n /\ Consumed(got) = addons + 1 + got
  <2>1. Consumed(got) = addons + 1 + got + 0 BY <1>5, <1>6, <1>15 DEF Consumed
  <2>2. Consumed(got)' = addons + 1 + got + n BY <1>1, <1>5, <1>13 DEF Consumed
  <2> QED BY <1>2, <1>12, <1>15, <2>1, <2>2
<1>17. conn.grpc_message = <<>> /\ conn.loading = <<>> BY <1>2, <1>7 DEF FrameInv
<1>18. Seen(got) = Consumed(got) /\ Seen(got)' = Seen(got) + n
  <2>1. Consumed(got) \in Nat BY <1>2, <1>15, <1>16
  <2>2. Seen(got) = Consumed(got) + 0 + 0 /\ Seen(got)' = Consumed(got)' + 0 + 0 BY <1>1, <1>15, <1>17 DEF Seen
  <2> QED BY <1>12, <1>16, <2>1, <2>2
<1>19. FrameInv' BY <1>1, <1>2, <1>5 DEF FrameInv
<1>20. HoldInv(got)' BY <1>1, <1>15, <1>17 DEF HoldInv
<1>21. Reaches(Setting, Here(got)', conn'.ssl_pending, sock', y)
  <2>1. Here(got)' = [taken |-> Seen(got) + n, body |-> 0, rest |-> 0, mode |-> "direct"]
    BY <1>1, <1>5, <1>7, <1>18 DEF Here
  <2>2. After(Setting, Here(got), n) = [taken |-> Seen(got) + n, body |-> 0, rest |-> 0, mode |-> "direct"]
    BY <1>7, <1>8 DEF After
  <2> QED BY <1>1, <1>11, <1>14, <2>1, <2>2
<1>22. Consumed(got)' <= sent
  <2>1. Consumed(got)' \in Nat BY <1>2, <1>12, <1>15, <1>16
  <2> QED BY <1>2, <1>21, <2>1, WithinSent
<1>23. GotInv(got)'
  <2>1. \A i \in 1..n : buffer'[i] = Payload[addons + 1 + got + i]
    BY <1>14, <1>16, <1>18
  <2>2. addons + 1 + got + n <= sent BY <1>16, <1>22
  <2> QED BY <1>1, <1>6, <1>12, <1>13, <2>1, <2>2, Delivers
<1>24. PhaseInv(got)' BY <1>1, <1>2, <1>5 DEF PhaseInv, Alive
<1> QED BY <1>19, <1>20, <1>21, <1>23, <1>24 DEF Tracks

\* vision_read_frame_header()
LEMMA FrameHeaderMoves ==
  ASSUME NEW got \in Nat, LocalInv(got), ReadHeader,
         NEW y, Reaches(Setting, Here(got), conn.ssl_pending, sock, y)
  PROVE  Tracks(got, y)
<1> DEFINE h == Head(Stream)
           n == 1
           c == Took(n)
<1>1. /\ pc = "body" /\ config.vision /\ ~conn.vision_read_finished
      /\ ~conn.vision_read_have_frame /\ Stream # <<>> /\ h.k = "vis"
      /\ conn' = [c EXCEPT !.vision_read_started = TRUE,
                           !.vision_read_command = h.command,
                           !.vision_read_content = h.content,
                           !.vision_read_padding = h.padding,
                           !.vision_read_have_frame = TRUE]
      /\ sock' = RawTookSock(n) /\ pc' = pc /\ response_pending' = response_pending
      /\ UNCHANGED <<config, addons, sent, framing, buffer>>
  BY DEF ReadHeader, Unframing, server
<1>2. TunnelInv /\ PhaseInv(got) /\ FrameInv /\ GotInv(got) /\ HoldInv(got) /\ addons \in Nat
  BY DEF LocalInv, TunnelInv
<1>3. n \in Nat /\ n = 1 OBVIOUS
<1>4. /\ ~response_pending /\ response_pending' \in BOOLEAN /\ buffer = <<>>
      /\ conn.vision_read_content = 0 /\ conn.vision_read_padding = 0
      /\ ~conn.vision_read_direct
  BY <1>1, <1>2 DEF PhaseInv, Alive, FrameInv
<1>5. /\ Here(got) \in Points
      /\ Setting.transport = "tcp" /\ Setting.vision /\ config.transport = "tcp" /\ config.tls
      /\ Here(got).taken = Seen(got) /\ Here(got).body = 0 /\ Here(got).rest = 0 /\ Here(got).mode = "framed"
  BY <1>1, <1>4, HereIs
<1>6. Stream = Raw /\ Raw # <<>> /\ h = Head(Raw) /\ c = RawTook(n)
  BY <1>1, <1>5 DEF Stream, Took
<1> HIDE DEF n
<1>7. PICK z \in Points : /\ Token(Setting, Here(got), h, z)
                          /\ Reaches(Setting, z, c.ssl_pending, sock', y)
  BY <1>1, <1>2, <1>3, <1>6, HeaderMoves DEF FrameInv
<1>8. /\ c \in Conns(framing)
      /\ ~config.tls => c.ssl_pending = conn.ssl_pending
      /\ c.grpc_message = conn.grpc_message
      /\ c.loading = conn.loading
      /\ c.wanted = conn.wanted
      /\ c.vision_read_finished = conn.vision_read_finished
      /\ c.vision_read_direct = conn.vision_read_direct
  BY <1>2, <1>3, <1>6, TookIs
<1> HIDE DEF c
<1>9. /\ conn'.ssl_pending = c.ssl_pending
      /\ conn'.grpc_message = conn.grpc_message /\ conn'.loading = conn.loading
      /\ conn'.wanted = conn.wanted
      /\ conn'.vision_read_finished = conn.vision_read_finished
      /\ conn'.vision_read_direct = conn.vision_read_direct
      /\ conn'.vision_read_command = h.command
      /\ conn'.vision_read_content = h.content
      /\ conn'.vision_read_padding = h.padding
      /\ conn'.vision_read_have_frame = TRUE
  <2> HIDE DEF h
  <2> QED BY <1>1, <1>8 DEF Conns
<1>10. z = [taken |-> Seen(got), body |-> h.content, rest |-> h.padding, mode |-> ModeAfter(h.command)]
  <2>1. ~Can(Setting, Here(got), 1) BY <1>5 DEF Can, Free
  <2> HIDE DEF h
  <2> QED BY <1>1, <1>5, <1>7, <2>1 DEF Token
<1> HIDE DEF h
<1>11. conn.grpc_message = <<>> /\ conn.loading = <<>> /\ Len(<<>>) = 0
  BY <1>2, <1>5 DEF FrameInv
<1>12. Seen(got)' = Seen(got)
  <2>1. Consumed(got)' = Consumed(got) BY <1>1, <1>4 DEF Consumed
  <2> QED BY <1>9, <2>1 DEF Seen
<1>13. Here(got)' = z
  BY <1>1, <1>4, <1>5, <1>9, <1>10, <1>12 DEF Here
<1>14. FrameInv'
  BY <1>1, <1>2, <1>4, <1>5, <1>8, <1>9, <1>11 DEF FrameInv
<1>15. HoldInv(got)' BY <1>9, <1>11 DEF HoldInv
<1>16. GotInv(got)' BY <1>1, <1>2, SameGot
<1>17. PhaseInv(got)' BY <1>1, <1>2, <1>4 DEF PhaseInv, Alive
<1> QED BY <1>7, <1>9, <1>13, <1>14, <1>15, <1>16, <1>17 DEF Tracks

\* The content of a Vision frame.
LEMMA ContentMoves ==
  ASSUME NEW got \in Nat, LocalInv(got), TunnelInv', NEW length \in Nat \ {0}, ReadContent(length),
         NEW y, Reaches(Setting, Here(got), conn.ssl_pending, sock, y), y.taken <= sent
  PROVE  Tracks(got, y)
<1> DEFINE n    == Least(Least(conn.vision_read_content, length), Len(Stream))
           left == conn.vision_read_content - n
           c    == Took(n)
<1>1. /\ pc = "body" /\ config.vision /\ ~conn.vision_read_finished
      /\ conn.vision_read_have_frame /\ conn.vision_read_content > 0 /\ Stream # <<>>
      /\ conn' = [c EXCEPT !.vision_read_content = left]
      /\ sock' = RawTookSock(n) /\ buffer' = Prefix(Stream, n)
      /\ pc' = IF left > 0 THEN "deliver" ELSE "body"
      /\ response_pending' = response_pending
      /\ UNCHANGED <<config, addons, sent, framing>>
  BY DEF ReadContent, Unframing, server
<1>2. /\ TunnelInv /\ PhaseInv(got) /\ FrameInv /\ GotInv(got) /\ HoldInv(got) /\ addons \in Nat /\ sent \in Nat
      /\ conn \in Conns(framing)
  BY DEF LocalInv, TunnelInv
<1>3. conn.vision_read_content \in Int BY <1>2 DEF Conns
<1>4. n \in 1..Len(Stream) /\ n <= conn.vision_read_content
  <2> DEFINE s == Stream
             T == Tokens(framing)
             k == conn.vision_read_content
  <2>1. s \in Seq(T) /\ s # <<>> /\ k \in Int /\ k > 0 BY <1>1, <1>2, <1>3, LayersType
  <2>2. n = Least(Least(k, length), Len(s)) OBVIOUS
  <2> HIDE DEF s, T, k, n
  <2>3. Len(s) \in Nat /\ Len(s) # 0 BY <2>1, LenProperties, EmptySeq
  <2>4. Least(k, length) \in 1..k BY <2>1 DEF Least
  <2>5. n \in 1..Len(s) /\ n <= k BY <2>1, <2>2, <2>3, <2>4 DEF Least
  <2> QED BY <2>5 DEF s, k
<1> HIDE DEF n
<1>5. n \in Nat /\ n >= 1 BY <1>4
<1>6. /\ ~response_pending /\ response_pending' \in BOOLEAN /\ buffer = <<>>
  BY <1>1, <1>2, <1>3 DEF PhaseInv, Alive
<1>7. /\ Here(got) \in Points /\ IsSetting(Setting) /\ ~conn.vision_read_direct
      /\ Setting.transport = "tcp" /\ Setting.vision /\ config.transport = "tcp" /\ config.tls
      /\ Setting.payload = Payload
      /\ Here(got).taken = Seen(got) /\ Here(got).body = conn.vision_read_content
      /\ Here(got).rest = conn.vision_read_padding
      /\ Here(got).mode = ModeAfter(conn.vision_read_command)
  BY <1>1, <1>2, <1>6, HereIs DEF FrameInv
<1>8. ~Free(Setting, Here(got)) /\ Can(Setting, Here(got), n)
  BY <1>1, <1>3, <1>4, <1>7 DEF Free, Can
<1>9. /\ Reaches(Setting, After(Setting, Here(got), n), c.ssl_pending, sock', y)
      /\ \A i \in 1..n : Stream[i] = Payload[Seen(got) + i]
      /\ Prefix(Stream, n) \in Seq(Tokens(framing)) /\ Len(Prefix(Stream, n)) = n
      /\ \A i \in 1..n : Prefix(Stream, n)[i] = Stream[i]
  <2>1. ~config.tls => conn.ssl_pending = <<>> BY <1>7
  <2>2. \A i \in 1..n : Stream[i] = Setting.payload[Here(got).taken + i]
    BY <1>2, <1>4, <1>7, <1>8, <2>1, StreamMoves
  <2> QED BY <1>1, <1>2, <1>4, <1>7, <1>8, <2>1, <2>2, StreamMoves
<1>10. /\ c \in Conns(framing)
       /\ c.grpc_message = conn.grpc_message
       /\ c.loading = conn.loading
       /\ c.wanted = conn.wanted
       /\ c.vision_read_have_frame = conn.vision_read_have_frame
       /\ c.vision_read_finished = conn.vision_read_finished
       /\ c.vision_read_direct = conn.vision_read_direct
       /\ c.vision_read_command = conn.vision_read_command
       /\ c.vision_read_padding = conn.vision_read_padding
  <2>1. Raw # <<>> BY <1>1, <1>7 DEF Stream
  <2> QED BY <1>2, <1>5, <2>1, TookIs
<1> HIDE DEF c
<1>11. /\ conn'.ssl_pending = c.ssl_pending
       /\ conn'.grpc_message = conn.grpc_message /\ conn'.loading = conn.loading
       /\ conn'.wanted = conn.wanted
       /\ conn'.vision_read_finished = conn.vision_read_finished
       /\ conn'.vision_read_direct = conn.vision_read_direct
       /\ conn'.vision_read_command = conn.vision_read_command
       /\ conn'.vision_read_content = left
       /\ conn'.vision_read_padding = conn.vision_read_padding
       /\ conn'.vision_read_have_frame = conn.vision_read_have_frame
  <2> HIDE DEF left
  <2> QED BY <1>1, <1>10 DEF Conns
<1>12. conn.grpc_message = <<>> /\ conn.loading = <<>> /\ Len(<<>>) = 0
  BY <1>2, <1>7 DEF FrameInv
<1>13. got \in Nat BY LenProperties DEF LocalInv, GotInv
<1>14. Consumed(got)' = Consumed(got) + n /\ Consumed(got) = addons + 1 + got
  <2>1. Consumed(got) = addons + 1 + got + 0 BY <1>6, <1>12 DEF Consumed
  <2>2. Consumed(got)' = addons + 1 + got + n BY <1>1, <1>6, <1>9 DEF Consumed
  <2> QED BY <1>2, <1>5, <1>13, <2>1, <2>2
<1>15. Seen(got) = Consumed(got) /\ Seen(got)' = Seen(got) + n
  <2>1. Consumed(got) \in Nat BY <1>2, <1>13, <1>14
  <2>2. Seen(got) = Consumed(got) + 0 + 0 /\ Seen(got)' = Consumed(got)' + 0 + 0 BY <1>11, <1>12 DEF Seen
  <2> QED BY <1>5, <1>14, <2>1, <2>2
<1>16. FrameInv'
  BY <1>1, <1>2, <1>6, <1>7, <1>11, <1>12 DEF FrameInv
<1>17. HoldInv(got)' BY <1>11, <1>12 DEF HoldInv
<1>18. Reaches(Setting, Here(got)', conn'.ssl_pending, sock', y)
  <2>1. Here(got)' = [taken |-> Seen(got) + n, body |-> left, rest |-> conn.vision_read_padding,
                 mode |-> ModeAfter(conn.vision_read_command)]
    BY <1>1, <1>6, <1>7, <1>11, <1>15 DEF Here
  <2>2. After(Setting, Here(got), n) =
          [taken |-> Seen(got) + n, body |-> left, rest |-> conn.vision_read_padding,
           mode |-> ModeAfter(conn.vision_read_command)]
    BY <1>7, <1>8 DEF After
  <2> QED BY <1>9, <1>11, <2>1, <2>2
<1>19. Consumed(got)' <= sent
  <2>1. Consumed(got)' \in Nat BY <1>2, <1>5, <1>13, <1>14
  <2> QED BY <1>2, <1>18, <2>1, WithinSent
<1>20. GotInv(got)'
  <2>1. \A i \in 1..n : buffer'[i] = Payload[addons + 1 + got + i]
    BY <1>1, <1>9, <1>14, <1>15
  <2>2. addons + 1 + got + n <= sent BY <1>14, <1>19
  <2>3. buffer' \in Seq(Tokens(framing)) /\ Len(buffer') = n BY <1>1, <1>9
  <2> QED BY <1>1, <1>5, <1>6, <2>1, <2>2, <2>3, Delivers
<1>21. PhaseInv(got)'
  <2>1. pc' = "body" => conn'.vision_read_have_frame /\ conn'.vision_read_content = 0
    <3>1. ~(left > 0) => left = 0 BY <1>3, <1>4
    <3>2. pc' = "body" => ~(left > 0) BY <1>1
    <3> QED BY <1>1, <1>11, <3>1, <3>2
  <2>2. pc' \in {"body", "deliver"} BY <1>1
  <2> QED BY <1>1, <1>2, <1>6, <2>1, <2>2 DEF PhaseInv, Alive
<1> QED BY <1>16, <1>17, <1>18, <1>20, <1>21 DEF Tracks

\* The padding of a Vision frame.
LEMMA PaddingMoves ==
  ASSUME NEW got \in Nat, LocalInv(got), ReadPadding,
         NEW y, Reaches(Setting, Here(got), conn.ssl_pending, sock, y)
  PROVE  Tracks(got, y)
<1> DEFINE n    == Least(conn.vision_read_padding, Len(Stream))
           c    == Took(n)
           left == c.vision_read_padding - n
<1>1. /\ pc = "body" /\ config.vision /\ ~conn.vision_read_finished
      /\ conn.vision_read_have_frame /\ conn.vision_read_content = 0
      /\ conn.vision_read_padding > 0 /\ Stream # <<>>
      /\ conn' = [c EXCEPT !.vision_read_padding = left]
      /\ sock' = RawTookSock(n) /\ pc' = pc
      /\ response_pending' = response_pending
      /\ UNCHANGED <<config, addons, sent, framing, buffer>>
  BY DEF ReadPadding, FrameRead, Unframing, server
<1>2. /\ TunnelInv /\ PhaseInv(got) /\ FrameInv /\ GotInv(got) /\ HoldInv(got) /\ addons \in Nat
      /\ conn \in Conns(framing)
  BY DEF LocalInv, TunnelInv
<1>3. conn.vision_read_padding \in Int BY <1>2 DEF Conns
<1>4. ~response_pending /\ response_pending' \in BOOLEAN
  BY <1>1, <1>2 DEF PhaseInv, Alive
<1>5. /\ Here(got) \in Points /\ ~conn.vision_read_direct
      /\ Setting.transport = "tcp" /\ Setting.vision /\ config.transport = "tcp" /\ config.tls
      /\ Here(got).taken = Seen(got) /\ Here(got).body = 0
      /\ Here(got).rest = conn.vision_read_padding
      /\ Here(got).mode = ModeAfter(conn.vision_read_command)
  BY <1>1, <1>2, <1>4, HereIs DEF FrameInv
<1>6. Stream = Raw /\ Raw # <<>> /\ c = RawTook(n) BY <1>1, <1>5 DEF Stream, Took
<1>7. n \in 1..Len(Raw) /\ n <= conn.vision_read_padding
  <2> DEFINE s == Raw
             T == Tokens(framing)
             k == conn.vision_read_padding
  <2>1. s \in Seq(T) /\ s # <<>> /\ k \in Int /\ k > 0 BY <1>1, <1>2, <1>3, <1>6, LayersType
  <2>2. n = Least(k, Len(s)) BY <1>6
  <2> HIDE DEF s, T, k, n
  <2>3. Len(s) \in Nat /\ Len(s) # 0 BY <2>1, LenProperties, EmptySeq
  <2>4. n \in 1..Len(s) /\ n <= k BY <2>1, <2>2, <2>3 DEF Least
  <2> QED BY <2>4 DEF s, k
<1> HIDE DEF n
<1>8. n \in Nat BY <1>7
<1>9. Reaches(Setting, Padded(Here(got), n), c.ssl_pending, sock', y)
  <2>1. ~config.tls => conn.ssl_pending = <<>> BY <1>5
  <2> QED BY <1>1, <1>2, <1>5, <1>6, <1>7, <2>1, PadMoves
<1>10. /\ c \in Conns(framing)
       /\ c.grpc_message = conn.grpc_message
       /\ c.loading = conn.loading
       /\ c.wanted = conn.wanted
       /\ c.vision_read_have_frame = conn.vision_read_have_frame
       /\ c.vision_read_finished = conn.vision_read_finished
       /\ c.vision_read_direct = conn.vision_read_direct
       /\ c.vision_read_command = conn.vision_read_command
       /\ c.vision_read_content = conn.vision_read_content
       /\ c.vision_read_padding = conn.vision_read_padding
  BY <1>2, <1>6, <1>8, TookIs
<1> HIDE DEF c
<1>11. /\ conn'.ssl_pending = c.ssl_pending
       /\ conn'.grpc_message = conn.grpc_message /\ conn'.loading = conn.loading
       /\ conn'.wanted = conn.wanted
       /\ conn'.vision_read_finished = conn.vision_read_finished
       /\ conn'.vision_read_direct = conn.vision_read_direct
       /\ conn'.vision_read_command = conn.vision_read_command
       /\ conn'.vision_read_content = 0
       /\ conn'.vision_read_padding = left
       /\ conn'.vision_read_have_frame = conn.vision_read_have_frame
  <2> HIDE DEF left
  <2> QED BY <1>1, <1>10 DEF Conns
<1>12. conn.grpc_message = <<>> /\ conn.loading = <<>> /\ Len(<<>>) = 0
  BY <1>2, <1>5 DEF FrameInv
<1>13. Seen(got)' = Seen(got)
  <2>1. Consumed(got)' = Consumed(got) BY <1>1, <1>4 DEF Consumed
  <2> QED BY <1>11, <2>1 DEF Seen
<1>14. Here(got)' = Padded(Here(got), n)
  <2>1. left = Here(got).rest - n BY <1>5, <1>10
  <2>2. Here(got)' = [taken |-> Seen(got), body |-> 0, rest |-> left,
                 mode |-> ModeAfter(conn.vision_read_command)]
    BY <1>1, <1>4, <1>5, <1>11, <1>13 DEF Here
  <2> HIDE DEF left
  <2>3. Padded(Here(got), n) = [taken |-> Seen(got), body |-> 0, rest |-> left,
                           mode |-> ModeAfter(conn.vision_read_command)]
    BY <1>5, <2>1 DEF Padded, Points
  <2> QED BY <2>2, <2>3
<1> HIDE DEF left
<1>15. FrameInv' BY <1>1, <1>2, <1>4, <1>5, <1>11, <1>12 DEF FrameInv
<1>16. HoldInv(got)' BY <1>11, <1>12 DEF HoldInv
<1>17. GotInv(got)' BY <1>1, <1>2, SameGot
<1>18. PhaseInv(got)' BY <1>1, <1>2, <1>4, <1>11 DEF PhaseInv, Alive
<1> QED BY <1>9, <1>11, <1>14, <1>15, <1>16, <1>17, <1>18 DEF Tracks

\* vision_complete_read_frame()
LEMMA CompleteMoves ==
  ASSUME NEW got \in Nat, LocalInv(got), CompleteFrame,
         NEW y, Reaches(Setting, Here(got), conn.ssl_pending, sock, y)
  PROVE  Tracks(got, y)
<1> DEFINE command == conn.vision_read_command
           last    == command # "continue"
           direct  == command = "direct"
           peer    == IF last /\ ~conn.vision_write_finished THEN command
                      ELSE conn.vision_write_peer_command
<1>1. /\ pc = "body" /\ config.vision /\ ~conn.vision_read_finished
      /\ conn.vision_read_have_frame /\ conn.vision_read_content = 0
      /\ conn.vision_read_padding = 0
      /\ conn' = [conn EXCEPT !.vision_read_finished = last,
                              !.vision_read_direct = direct,
                              !.vision_write_peer_command = peer,
                              !.vision_read_have_frame = FALSE]
      /\ sock' = sock /\ pc' \in {"body", "deliver"} /\ (buffer # <<>> => pc' = "deliver")
      /\ response_pending' = response_pending
      /\ UNCHANGED <<config, addons, sent, framing, buffer>>
  BY DEF CompleteFrame, FrameRead, Unframing, server
<1>2. /\ TunnelInv /\ PhaseInv(got) /\ FrameInv /\ GotInv(got) /\ HoldInv(got)
      /\ conn \in Conns(framing)
  BY DEF LocalInv, TunnelInv
<1>3. ~response_pending /\ response_pending' \in BOOLEAN
  BY <1>1, <1>2 DEF PhaseInv, Alive
<1>4. /\ Here(got) \in Points /\ ~conn.vision_read_direct
      /\ config.transport = "tcp" /\ config.tls
      /\ Here(got).taken = Seen(got) /\ Here(got).body = 0 /\ Here(got).rest = 0
      /\ Here(got).mode = ModeAfter(command)
  BY <1>1, <1>2, <1>3, HereIs DEF FrameInv
<1>5. command \in {"continue", "end", "direct"} BY <1>2 DEF Conns, Said
<1>6. /\ conn'.ssl_pending = conn.ssl_pending
      /\ conn'.grpc_message = conn.grpc_message /\ conn'.loading = conn.loading
      /\ conn'.wanted = conn.wanted
      /\ conn'.vision_read_finished = last
      /\ conn'.vision_read_direct = direct
      /\ conn'.vision_read_content = 0
      /\ conn'.vision_read_padding = 0
      /\ conn'.vision_read_have_frame = FALSE
  <2> HIDE DEF last, direct, peer
  <2> QED BY <1>1, <1>2 DEF Conns
<1>7. conn.grpc_message = <<>> /\ conn.loading = <<>> /\ Len(<<>>) = 0
  BY <1>2, <1>4 DEF FrameInv
<1>8. Seen(got)' = Seen(got)
  <2>1. Consumed(got)' = Consumed(got) BY <1>1, <1>3 DEF Consumed
  <2> QED BY <1>6, <2>1 DEF Seen
<1>9. Here(got)' = Here(got)
  <2>1. ModeAfter(command) = IF direct THEN "direct" ELSE IF last THEN "end" ELSE "framed"
    BY <1>5 DEF ModeAfter
  <2>2. Here(got)' = [taken |-> Seen(got), body |-> 0, rest |-> 0, mode |-> ModeAfter(command)]
    <3> HIDE DEF last, direct
    <3> QED BY <1>1, <1>3, <1>4, <1>6, <1>8, <2>1 DEF Here
  <2> QED BY <1>4, <2>2 DEF Points
<1>10. FrameInv'
  <2>1. direct => last OBVIOUS
  <2> HIDE DEF last, direct
  <2> QED BY <1>1, <1>2, <1>3, <1>4, <1>6, <1>7, <2>1 DEF FrameInv
<1>11. HoldInv(got)' BY <1>6, <1>7 DEF HoldInv
<1>12. GotInv(got)' BY <1>1, <1>2, SameGot
<1>13. PhaseInv(got)' BY <1>1, <1>2, <1>3 DEF PhaseInv, Alive
<1> QED BY <1>1, <1>6, <1>9, <1>10, <1>11, <1>12, <1>13 DEF Tracks

\* Of the connection, what reads depend on.
SameReads ==
  /\ conn'.ssl_pending = conn.ssl_pending
  /\ conn'.ws_remaining = conn.ws_remaining
  /\ conn'.grpc_data_remaining = conn.grpc_data_remaining
  /\ conn'.grpc_data_end_stream = conn.grpc_data_end_stream
  /\ conn'.grpc_message = conn.grpc_message
  /\ conn'.loading = conn.loading
  /\ conn'.wanted = conn.wanted
  /\ SameFrame(conn')

\* A step that reads nothing.
LEMMA Stays ==
  ASSUME NEW got \in Nat, LocalInv(got), SameReads, PhaseInv(got)',
         UNCHANGED <<config, sock, addons, sent, framing, response_pending, buffer>>,
         Alive' => (pc' = "addons" <=> pc = "addons"),
         NEW y, Reaches(Setting, Here(got), conn.ssl_pending, sock, y)
  PROVE  Tracks(got, y)
<1>1. /\ config' = config /\ sock' = sock /\ addons' = addons /\ sent' = sent
      /\ framing' = framing /\ response_pending' = response_pending /\ buffer' = buffer
     
  OBVIOUS
<1>2. FrameInv /\ HoldInv(got) /\ GotInv(got) BY DEF LocalInv
<1>3. GotInv(got)' BY <1>1, <1>2, SameGot
<1>4. FrameInv' BY <1>1, <1>2 DEF FrameInv, SameReads, SameFrame
<1>5. ASSUME Alive' PROVE HoldInv(got)' /\ Reaches(Setting, Here(got)', conn'.ssl_pending, sock', y)
  <2>1. Consumed(got)' = Consumed(got) BY <1>1, <1>5 DEF Consumed
  <2>2. Seen(got)' = Seen(got) BY <2>1 DEF Seen, SameReads
  <2>3. Here(got)' = Here(got) BY <1>1, <2>2 DEF Here, SameReads, SameFrame
  <2>4. Data' = Data /\ Response' = Response BY <1>1 DEF Data, Response
  <2>5. Payload' = Payload BY <2>4 DEF Payload
  <2>6. HoldInv(got)' BY <1>2, <2>1, <2>5 DEF HoldInv, SameReads
  <2> QED BY <1>1, <2>3, <2>6 DEF SameReads
<1> QED BY <1>3, <1>4, <1>5 DEF Tracks

\* A read that fails or ends.
LEMMA StopMoves ==
  ASSUME NEW got \in Nat, LocalInv(got), ReadFails \/ ReadEnds,
         NEW y, Reaches(Setting, Here(got), conn.ssl_pending, sock, y)
  PROVE  Tracks(got, y)
<1>1. /\ UNCHANGED <<config, sock, conn, addons, sent, framing, response_pending, buffer>>
      /\ pc \in {"response", "addons", "body"}
      /\ pc' = "close" \/ (pc' = "deliver" /\ pc = "body")
  BY DEF ReadFails, ReadEnds, upstream, server, Fails, Ends, ReadsFrame, FrameRead, Unframing,
         WantsRaw, Reading
<1>2. PhaseInv(got) BY DEF LocalInv
<1>3. PhaseInv(got)'
  <2>1. CASE pc' = "close" BY <1>1, <1>2, <2>1 DEF PhaseInv, Alive
  <2>2. CASE pc' = "deliver" /\ pc = "body" BY <1>1, <1>2, <2>2 DEF PhaseInv, Alive
  <2> QED BY <1>1, <2>1, <2>2
<1>4. SameReads BY <1>1 DEF SameReads, SameFrame
<1>5. Alive' => (pc' = "addons" <=> pc = "addons") BY <1>1 DEF Alive
<1> QED BY <1>1, <1>3, <1>4, <1>5, Stays

\* Each read.
LEMMA ReadsMove ==
  ASSUME NEW got \in Nat, LocalInv(got), TunnelInv', NEW length \in Nat \ {0}, Reads(length),
         NEW y, Reaches(Setting, Here(got), conn.ssl_pending, sock, y), y.taken <= sent
  PROVE  Tracks(got, y)
<1>1. CASE Below
  <2>1. Reaches(Setting, Here(got)', conn'.ssl_pending, sock', y)
        /\ PhaseInv(got)' /\ FrameInv' /\ GotInv(got)' /\ HoldInv(got)'
    BY <1>1, BelowMoves
  <2> QED BY <2>1 DEF Tracks
<1>2. CASE ConsumeResponse BY <1>2, ResponseMoves
<1>3. CASE ConsumeAddons BY <1>3, AddonsMoves
<1>4. CASE ReadBody(length) BY <1>4, BodyMoves
<1>5. CASE ReadDirect(length) BY <1>5, DirectMoves
<1>6. CASE ReadHeader BY <1>6, FrameHeaderMoves
<1>7. CASE ReadContent(length) BY <1>7, ContentMoves
<1>8. CASE ReadPadding BY <1>8, PaddingMoves
<1>9. CASE CompleteFrame BY <1>9, CompleteMoves
<1>10. CASE ReadFails \/ ReadEnds BY <1>10, StopMoves
<1> QED BY <1>1, <1>2, <1>3, <1>4, <1>5, <1>6, <1>7, <1>8, <1>9, <1>10 DEF Reads
-----------------------------------------------------------------------------
(* The steps of the caller, of its reads and of the server.                *)

\* What the caller, who was given got units, knows of the stream agrees with the
\* place where it is (Here), and what is under way leads from there to the place
\* where the server is (There).
PlaceInv(got) ==
  /\ TunnelInv /\ StreamInv /\ PhaseInv(got) /\ FrameInv /\ GotInv(got)
  /\ Alive => HoldInv(got) /\ Ahead(Setting, Here(got), conn.ssl_pending, sock, closed, There)

\* What is under way still leads where it did, and the caller now has more units.
Held(got, more) ==
  \A y : Reaches(Setting, Here(got), conn.ssl_pending, sock, y) /\ y.taken <= sent =>
           Tracks(more, y)

\* A step of the process.
LEMMA CallerAhead ==
  ASSUME NEW got \in Nat, NEW more \in Nat, PlaceInv(got), TunnelInv',
         UNCHANGED <<config, closed, addons, sent, framing>>,
         Alive => Held(got, more),
         ~Alive => ~Alive' /\ PhaseInv(more)' /\ FrameInv' /\ GotInv(more)'
  PROVE  PlaceInv(more)'
<1>1. /\ config' = config /\ closed' = closed /\ addons' = addons /\ sent' = sent
      /\ framing' = framing
  OBVIOUS
<1>2. Setting' = Setting /\ There' = There
  <2>1. Data' = Data /\ Response' = Response BY <1>1 DEF Data, Response
  <2>2. Payload' = Payload BY <2>1 DEF Payload
  <2> QED BY <1>1, <2>2 DEF Setting, There
<1>3. StreamInv' BY <1>1 DEF PlaceInv, StreamInv
<1>4. CASE Alive
  <2>1. PICK y \in Points : /\ Reaches(Setting, Here(got), conn.ssl_pending, sock, y)
                            /\ y.taken <= There.taken
                            /\ closed = "open" => y = There
                            /\ closed = "clean" => y \in {There, Gone(There)}
                            /\ y.mode = "closed" => closed = "clean"
    BY <1>4 DEF PlaceInv, Ahead
  <2>2. There.taken = sent BY DEF There
  <2>3. Tracks(more, y) BY <1>4, <2>1, <2>2 DEF Held
  <2>4. Alive' => /\ HoldInv(more)'
                  /\ Ahead(Setting', Here(more)', conn'.ssl_pending, sock', closed', There')
    BY <1>1, <1>2, <2>1, <2>3 DEF Tracks, Ahead
  <2>5. PhaseInv(more)' /\ FrameInv' /\ GotInv(more)' BY <2>3 DEF Tracks
  <2> QED BY <1>3, <2>4, <2>5 DEF PlaceInv
<1>5. CASE ~Alive BY <1>3, <1>5 DEF PlaceInv
<1> QED BY <1>4, <1>5

\* At first caller and server are at the stream's beginning.
LEMMA PlaceInit ==
  ASSUME TunnelInv, addons \in {0, 1}, sent = 0, framing = "first", sock = <<>>,
         closed = "open", conn = NewConn, response_pending = TRUE, buffer = <<>>,
         pc \notin {"addons", "body", "deliver"}
  PROVE  PlaceInv(0)
<1> DEFINE got == 0
<1>1. Len(<<>>) = 0 /\ got \in Nat OBVIOUS
<1>2. addons \in Nat /\ DataMax \in Nat BY ServerAssumption
<1>3. StreamInv BY <1>2 DEF StreamInv
<1>4. PhaseInv(got) BY DEF PhaseInv, Alive
<1>5. /\ conn.ssl_pending = <<>> /\ conn.grpc_message = <<>> /\ conn.loading = <<>>
      /\ conn.wanted = 0 /\ conn.ws_remaining = 0 /\ conn.grpc_data_remaining = 0
      /\ conn.grpc_data_end_stream = FALSE
      /\ conn.vision_read_have_frame = FALSE /\ conn.vision_read_finished = FALSE
      /\ conn.vision_read_direct = FALSE
      /\ conn.vision_read_content = 0 /\ conn.vision_read_padding = 0
  BY DEF NewConn
<1>6. FrameInv BY <1>5 DEF FrameInv
<1>7. HoldInv(got) BY <1>1, <1>5 DEF HoldInv
<1>8. GotInv(got)
  <2>1. Len(Response) = addons + 1 BY <1>2, PayloadIs
  <2>2. DataSent = 0 BY <1>2, <2>1 DEF DataSent
  <2> QED BY <1>1, <2>2 DEF GotInv
<1>9. Consumed(got) = 0 BY DEF Consumed
<1>10. Seen(got) = 0 BY <1>1, <1>5, <1>9 DEF Seen
<1>11. Here(got) = There
  <2>1. /\ config.transport \in {"tcp", "ws", "grpc"} /\ config.vision \in BOOLEAN
        /\ config.vision => config.transport = "tcp"
    BY <1>3, SettingIs
  <2>2. There = [taken |-> 0, body |-> IF config.vision THEN addons + 1 ELSE 0,
                 rest |-> 0, mode |-> "framed"]
    BY <1>2 DEF There
  <2>3. Here(got) = [taken |-> 0, body |-> IF config.vision THEN addons + 1 - 0 ELSE 0,
                     rest |-> 0, mode |-> "framed"]
    BY <1>5, <1>10, <2>1 DEF Here
  <2>4. addons + 1 - 0 = addons + 1 BY <1>2
  <2> QED BY <2>2, <2>3, <2>4
<1>12. Ahead(Setting, Here(got), conn.ssl_pending, sock, closed, There)
  <2> DEFINE p == conn.ssl_pending
  <2>1. Len(p) = 0 /\ Len(sock) = 0 BY <1>1, <1>5
  <2>2. There \in Points /\ There.mode # "closed" BY <1>3, SettingIs
  <2> HIDE DEF p
  <2>3. Reaches(Setting, There, p, sock, There) BY <2>1, <2>2, ReachesNone
  <2>4. Ahead(Setting, There, p, sock, "open", There) BY <2>2, <2>3, AheadIs
  <2> QED BY <1>11, <2>4 DEF p
<1>13. PlaceInv(got) BY <1>3, <1>4, <1>6, <1>7, <1>8, <1>12 DEF PlaceInv
<1> QED BY <1>13

\* What is known of a caller that is alive.
LEMMA Local ==
  ASSUME NEW got \in Nat, PlaceInv(got), Alive
  PROVE  LocalInv(got) /\ Ahead(Setting, Here(got), conn.ssl_pending, sock, closed, There)
BY DEF PlaceInv, LocalInv

\* vision_body_read() and consume_vless_response(), down to the socket.
LEMMA ReadsPlace ==
  ASSUME NEW got \in Nat, PlaceInv(got), TunnelInv', NEW length \in Nat \ {0}, Reads(length)
  PROVE  PlaceInv(got)'
<1>1. Alive
  <2>1. pc \in {"response", "addons", "body"} BY ReadsWhere
  <2> QED BY <2>1 DEF Alive
<1>2. UNCHANGED <<config, closed, addons, sent, framing>>
  BY DEF Reads, Below, SkipRecord, BeginDataFrame, NextDataFrame, LoadEnvelope, LoadMessage,
         ConsumeResponse, ConsumeAddons, TransportRead, ReadBody, ReadDirect, ReadHeader,
         ReadContent, ReadPadding, CompleteFrame, ReadFails, ReadEnds, upstream, server
<1>3. LocalInv(got) BY <1>1, Local
<1>4. ASSUME NEW y, Reaches(Setting, Here(got), conn.ssl_pending, sock, y), y.taken <= sent
      PROVE  Tracks(got, y)
  BY <1>3, <1>4, ReadsMove
<1>5. Held(got, got) BY <1>4 DEF Held
<1> QED BY <1>1, <1>2, <1>5, CallerAhead

\* The caller has taken what was read.
LEMMA DeliverMoves ==
  ASSUME NEW got \in Nat, LocalInv(got), pc = "deliver", SameReads, buffer' = <<>>,
         UNCHANGED <<config, sock, addons, sent, framing, response_pending>>,
         NEW more \in Nat,
         \/ more = got + Len(buffer) /\ pc' \notin {"response", "addons", "close", "ended"}
         \/ more \in {got, got + Len(buffer)} /\ pc' \in {"close", "ended"},
         NEW y, Reaches(Setting, Here(got), conn.ssl_pending, sock, y)
  PROVE  Tracks(more, y)
<1>1. /\ config' = config /\ sock' = sock /\ addons' = addons /\ sent' = sent
      /\ framing' = framing /\ response_pending' = response_pending
  OBVIOUS
<1>2. /\ PhaseInv(got) /\ FrameInv /\ HoldInv(got) /\ GotInv(got) /\ TunnelInv
      /\ addons \in Nat /\ sent \in Nat
  BY DEF LocalInv, TunnelInv
<1>3. ~response_pending /\ response_pending \in BOOLEAN BY <1>2 DEF PhaseInv, Alive
<1>4. PhaseInv(more)'
  <2>1. ~response_pending' /\ response_pending' \in BOOLEAN BY <1>1, <1>3
  <2> QED BY <2>1 DEF PhaseInv, Alive
<1>5. FrameInv' BY <1>1, <1>2 DEF FrameInv, SameReads, SameFrame
<1>6. Data' = Data /\ Response' = Response BY <1>1 DEF Data, Response
<1>7. Payload' = Payload /\ DataSent' = DataSent BY <1>1, <1>6 DEF Payload, DataSent
<1>8. Len(<<>>) = 0 OBVIOUS
<1>9. Len(buffer) \in Nat
  <2> DEFINE B == Bytes(framing)
             b == buffer
  <2>1. b \in Seq(B) BY <1>2 DEF TunnelInv
  <2> HIDE DEF B, b
  <2>2. Len(b) \in Nat BY <2>1, LenProperties
  <2> QED BY <2>2 DEF b
<1>10. GotInv(more)'
  <2>1. DataSent \in Int
    <3>1. Len(Response) = addons + 1 BY <1>2, PayloadIs
    <3> QED BY <1>2, <3>1 DEF DataSent
  <2>2. got + Len(buffer) <= DataSent BY <1>2 DEF GotInv
  <2>3. more + 0 <= DataSent BY <1>9, <2>1, <2>2
  <2>4. more + Len(buffer') <= DataSent' /\ Len(buffer') = 0 BY <1>7, <1>8, <2>3
  <2> QED BY <2>4 DEF GotInv
<1>11. CASE more = got + Len(buffer) /\ pc' \notin {"response", "addons", "close", "ended"}
  <2>1. Consumed(more)' = Consumed(got)
    <3>1. Consumed(got) = addons + 1 + got + Len(buffer) BY <1>3 DEF Consumed
    <3>2. Consumed(more)' = addons + 1 + more + 0 BY <1>1, <1>3, <1>8 DEF Consumed
    <3> QED BY <1>2, <1>9, <1>11, <3>1, <3>2
  <2>2. Seen(more)' = Seen(got) BY <2>1 DEF Seen, SameReads
  <2>3. Here(more)' = Here(got) BY <1>1, <2>2 DEF Here, SameReads, SameFrame
  <2>4. HoldInv(more)' BY <1>2, <1>7, <2>1 DEF HoldInv, SameReads
  <2> QED BY <1>1, <1>4, <1>5, <1>10, <2>3, <2>4 DEF Tracks, SameReads
<1>12. CASE pc' \in {"close", "ended"}
  <2>1. ~Alive' BY <1>12 DEF Alive
  <2> QED BY <1>4, <1>5, <1>10, <2>1 DEF Tracks
<1> QED BY <1>11, <1>12

LEMMA DeliverPlace ==
  ASSUME NEW got \in Nat, PlaceInv(got), TunnelInv', pc = "deliver", SameReads, buffer' = <<>>,
         UNCHANGED <<config, sock, closed, addons, sent, framing, response_pending>>,
         NEW more \in Nat,
         \/ more = got + Len(buffer) /\ pc' \notin {"response", "addons", "close", "ended"}
         \/ more \in {got, got + Len(buffer)} /\ pc' \in {"close", "ended"}
  PROVE  PlaceInv(more)'
<1>1. Alive BY DEF Alive
<1>2. LocalInv(got) BY <1>1, Local
<1>3. ASSUME NEW y, Reaches(Setting, Here(got), conn.ssl_pending, sock, y), y.taken <= sent
      PROVE  Tracks(more, y)
  BY <1>2, <1>3, DeliverMoves
<1>4. Held(got, more) BY <1>3 DEF Held
<1> QED BY <1>1, <1>4, CallerAhead

\* A step that neither reads nor delivers.
LEMMA StaysPlace ==
  ASSUME NEW got \in Nat, PlaceInv(got), TunnelInv', SameReads, PhaseInv(got)',
         UNCHANGED <<config, sock, closed, addons, sent, framing, response_pending, buffer>>,
         Alive' => Alive /\ (pc' = "addons" <=> pc = "addons")
  PROVE  PlaceInv(got)'
<1>1. CASE Alive
  <2>1. LocalInv(got) BY <1>1, Local
  <2>2. ASSUME NEW y, Reaches(Setting, Here(got), conn.ssl_pending, sock, y), y.taken <= sent
        PROVE  Tracks(got, y)
    BY <2>1, <2>2, Stays
  <2>3. Held(got, got) BY <2>2 DEF Held
  <2> QED BY <1>1, <2>3, CallerAhead
<1>2. CASE ~Alive
  <2>1. FrameInv' BY DEF PlaceInv, FrameInv, SameReads, SameFrame
  <2>2. GotInv(got)' BY SameGot DEF PlaceInv
  <2> QED BY <1>2, <2>1, <2>2, CallerAhead
<1> QED BY <1>1, <1>2

\* A write reads nothing.
LEMMA WritesSame ==
  ASSUME TunnelInv, conn' \in {conn, InitialWrote, BodyWrote}
  PROVE  SameReads
<1>1. conn \in Conns(framing) BY DEF TunnelInv
<1> DEFINE a == config.vision
           b == conn.vision_write_peer_command # "continue"
           c == conn.vision_write_peer_command = "direct"
<1>2. \/ conn' = conn
      \/ conn' = [conn EXCEPT !.vision_write_started = a]
      \/ conn' = [conn EXCEPT !.vision_write_started = TRUE,
                              !.vision_write_finished = b, !.vision_write_direct = c]
  BY DEF InitialWrote, BodyWrote
<1> HIDE DEF a, b, c
<1> QED BY <1>1, <1>2 DEF SameReads, SameFrame, Conns

\* A step of the server's.
LEMMA ServerPlace ==
  ASSUME NEW got \in Nat, PlaceInv(got), Alive, TunnelInv', ServerNext,
         UNCHANGED <<pc, response_pending, buffer>>
  PROVE  PlaceInv(got)'
<1>1. /\ TunnelInv /\ StreamInv /\ PhaseInv(got) /\ FrameInv /\ GotInv(got) /\ HoldInv(got)
      /\ Ahead(Setting, Here(got), conn.ssl_pending, sock, closed, There)
  BY DEF PlaceInv
<1>2. conn' = conn /\ config' = config /\ addons' = addons
  BY DEF ServerNext, ServerSends, ServerControls, ServerLeaves, ServerCloses
<1>3. /\ Ahead(Setting, Here(got), conn.ssl_pending, sock', closed', There') /\ StreamInv'
      /\ Setting' = Setting
  <2> DEFINE x == Here(got)
             p == conn.ssl_pending
  <2>1. Ahead(Setting, x, p, sock, closed, There) BY <1>1
  <2> HIDE DEF x, p
  <2>2. Ahead(Setting, x, p, sock', closed', There') /\ StreamInv' /\ Setting' = Setting
    BY <1>1, <2>1, ServerAhead
  <2> QED BY <2>2 DEF x, p
<1>4. Consumed(got)' = Consumed(got) BY <1>2 DEF Consumed
<1>5. Seen(got)' = Seen(got) BY <1>2, <1>4 DEF Seen
<1>6. Here(got)' = Here(got) BY <1>2, <1>5 DEF Here
<1>7. Data' = Data /\ Response' = Response BY <1>2 DEF Data, Response
<1>8. Payload' = Payload BY <1>7 DEF Payload
<1>9. HoldInv(got)' BY <1>1, <1>2, <1>4, <1>8 DEF HoldInv
<1>10. PhaseInv(got)' BY <1>1, <1>2 DEF PhaseInv, Alive
<1>11. FrameInv' BY <1>1, <1>2 DEF FrameInv
<1>12. GotInv(got)'
  <2>1. sent' \in Nat /\ sent \in Nat BY <1>1 DEF TunnelInv
  <2>2. sent <= sent'
    <3>1. \/ sent' \in {sent, sent + 1}
          \/ \E n \in 0..Least(SendMax, Len(Payload) - sent) : sent' = sent + n
      BY DEF ServerNext, ServerSends, ServerControls, ServerLeaves, ServerCloses
    <3>2. \A n : n \in 0..Least(SendMax, Len(Payload) - sent) => n >= 0 OBVIOUS
    <3> QED BY <2>1, <3>1, <3>2
  <2>3. Len(Response) \in Nat
    <3>1. addons \in Nat BY <1>1 DEF TunnelInv
    <3> QED BY <3>1, PayloadIs
  <2>4. DataSent \in Int /\ DataSent' \in Int /\ DataSent <= DataSent'
    BY <1>7, <2>1, <2>2, <2>3 DEF DataSent
  <2>5. Len(buffer) \in Nat
    <3> DEFINE B == Bytes(framing)
               b == buffer
    <3>1. b \in Seq(B) BY <1>1 DEF TunnelInv
    <3> HIDE DEF B, b
    <3>2. Len(b) \in Nat BY <3>1, LenProperties
    <3> QED BY <3>2 DEF b
  <2>6. got + Len(buffer) <= DataSent' BY <1>1, <2>4, <2>5 DEF GotInv
  <2> QED BY <1>1, <1>7, <2>6 DEF GotInv
<1> QED BY <1>2, <1>3, <1>6, <1>9, <1>10, <1>11, <1>12 DEF PlaceInv

-----------------------------------------------------------------------------
(* The end of the stream.                                                  *)

\* The stream's end is the server's, as far as the connection knows.
FlagInv ==
  conn.grpc_eof =>
    framing = "leaving" \/ (conn.grpc_data_end_stream /\ conn.grpc_data_remaining = 0)

\* What a connection c has of the gRPC stream is what conn has.
SameGrpc(c) ==
  /\ c.grpc_eof = conn.grpc_eof
  /\ c.grpc_data_end_stream = conn.grpc_data_end_stream
  /\ c.grpc_data_remaining = conn.grpc_data_remaining

\* A read of the socket, of the stream or of a frame leaves it alone ...
LEMMA TookGrpc ==
  ASSUME TunnelInv, Raw # <<>>, NEW n \in Nat
  PROVE  SameGrpc(RawTook(n)) /\ SameGrpc(Took(n))
BY RawTookIs, TookIs DEF SameGrpc

\* What can be read is not nothing.
LEMMA NonEmpty ==
  ASSUME TunnelInv
  PROVE  Raw # <<>> => Len(Raw) \in Nat \ {0} /\ Head(Raw) \in Tokens(framing)
<1> DEFINE T == Tokens(framing)
           s == Raw
<1>1. s \in Seq(T) BY LayersType
<1> HIDE DEF T, s
<1>2. s # <<>> => Len(s) \in Nat /\ Len(s) # 0 /\ Head(s) \in T
  BY <1>1, LenProperties, EmptySeq, HeadTailProperties
<1> QED BY <1>2 DEF s, T

\* ... and so does one of the transport's payload.
LEMMA TransportGrpc ==
  ASSUME TunnelInv, Transport # <<>>, NEW n \in Nat, TransportRead(n)
  PROVE  SameGrpc(conn')
<1>1. CASE config.transport = "grpc"
  <2>1. conn \in Conns(framing) BY DEF TunnelInv
  <2> DEFINE m == Drop(conn.grpc_message, n)
  <2>2. conn' = [conn EXCEPT !.grpc_message = m] BY <1>1 DEF TransportRead
  <2> HIDE DEF m
  <2> QED BY <2>1, <2>2 DEF SameGrpc, Conns
<1>2. CASE config.transport # "grpc"
  <2>1. Raw # <<>> BY <1>2, LayersType DEF Transport
  <2>2. conn' = Took(n) BY <1>2 DEF TransportRead
  <2> QED BY <2>1, <2>2, TookGrpc
<1> QED BY <1>1, <1>2

\* A read that finds the end of the stream finds the server's.
LEMMA FlagStep ==
  ASSUME TunnelInv, FlagInv, NEW length \in Nat, Reads(length)
  PROVE  FlagInv'
<1>0. framing' = framing /\ conn \in Conns(framing)
  BY DEF TunnelInv, Reads, Below, SkipRecord, BeginDataFrame, NextDataFrame, LoadEnvelope,
         LoadMessage, ConsumeResponse, ConsumeAddons, TransportRead, ReadBody, ReadDirect,
         ReadHeader, ReadContent, ReadPadding, CompleteFrame, ReadFails, ReadEnds, upstream,
         server
<1>1. SUFFICES ASSUME ~SameGrpc(conn') PROVE FlagInv'
  BY <1>0 DEF FlagInv, SameGrpc
<1>2. CASE Below
  <2>1. CASE SkipRecord BY <1>1, <2>1 DEF SkipRecord, SameGrpc
  <2>2. CASE BeginDataFrame
    <3> DEFINE c == RawTook(1)
               w == IF Head(Raw).op = "data" THEN Head(Raw).n ELSE 0
    <3>1. Raw # <<>> /\ conn' = [c EXCEPT !.ws_remaining = w] BY <2>2 DEF BeginDataFrame
    <3>2. SameGrpc(c) /\ c \in Conns(framing) BY <3>1, TookGrpc, RawTookIs
    <3> HIDE DEF c, w
    <3> QED BY <1>1, <3>1, <3>2 DEF SameGrpc, Conns
  <2>3. CASE NextDataFrame
    <3> DEFINE c == RawTook(1)
               h == Head(Raw)
               e == h.n = 0 /\ h.last
    <3>1. /\ Raw # <<>> /\ h.k = "h2"
          /\ \/ /\ h.type = "data"
                /\ conn' = [c EXCEPT !.grpc_data_remaining = h.n,
                                     !.grpc_data_end_stream = h.last,
                                     !.grpc_eof = e]
             \/ conn' = c
             \/ h.type = "goaway"
      BY <2>3 DEF NextDataFrame
    <3>2. SameGrpc(c) /\ c \in Conns(framing) BY <3>1, TookGrpc, RawTookIs
    <3>3. h \in Tokens(framing) BY <3>1, NonEmpty
    <3> HIDE DEF c, h
    <3>4. (h.type = "goaway" => framing = "leaving") BY <3>1, <3>3, TokenKinds
    <3>5. CASE h.type = "goaway" BY <1>0, <3>4, <3>5 DEF FlagInv
    <3>6. CASE conn' = c BY <1>1, <3>2, <3>6
    <3>7. CASE conn' = [c EXCEPT !.grpc_data_remaining = h.n,
                                 !.grpc_data_end_stream = h.last,
                                 !.grpc_eof = e]
      <4> DEFINE r == h.n
                 l == h.last
      <4>1. conn' = [c EXCEPT !.grpc_data_remaining = r, !.grpc_data_end_stream = l,
                              !.grpc_eof = e]
        BY <3>7
      <4>2. e => r = 0 /\ l OBVIOUS
      <4> HIDE DEF r, l, e
      <4>3. /\ conn'.grpc_data_remaining = r /\ conn'.grpc_data_end_stream = l
            /\ conn'.grpc_eof = e
        BY <3>2, <4>1 DEF Conns
      <4> QED BY <4>2, <4>3 DEF FlagInv
    <3> QED BY <3>1, <3>5, <3>6, <3>7
  <2>4. CASE LoadEnvelope \/ LoadMessage
    <3>1. PICK n \in Nat :
            /\ Raw # <<>> /\ conn.grpc_data_remaining > 0
            /\ \E w, l, m : conn' = [DataTook(n) EXCEPT !.wanted = w, !.loading = l,
                                                        !.grpc_message = m]
      <4>1. CASE LoadEnvelope
        <5> DEFINE n == 1
                   c == DataTook(n)
                   w == Head(Raw).n
        <5>1. Raw # <<>> /\ conn' = [c EXCEPT !.wanted = w] /\ conn.grpc_data_remaining > 0
          BY <4>1 DEF LoadEnvelope
        <5>2. n \in Nat OBVIOUS
        <5> HIDE DEF n
        <5>3. c \in Conns(framing) BY <5>1, <5>2, DataTookIs
        <5> HIDE DEF c, w
        <5> DEFINE x == c.loading
                   y == c.grpc_message
        <5>4. conn' = [c EXCEPT !.wanted = w, !.loading = x, !.grpc_message = y]
          BY <5>1, <5>3 DEF Conns
        <5> HIDE DEF x, y
        <5>5. \E v, l, m : conn' = [c EXCEPT !.wanted = v, !.loading = l, !.grpc_message = m]
          BY <5>4
        <5>6. \E v, l, m : conn' = [DataTook(n) EXCEPT !.wanted = v, !.loading = l,
                                                       !.grpc_message = m]
          BY <5>5 DEF c
        <5> QED BY <5>1, <5>2, <5>6
      <4>2. CASE LoadMessage
        <5> DEFINE n    == Least(conn.wanted, Least(conn.grpc_data_remaining, Len(Raw)))
                   read == conn.loading \o Prefix(Raw, n)
                   done == n = conn.wanted
                   c    == DataTook(n)
                   l    == IF done THEN <<>> ELSE read
                   m    == IF done THEN read ELSE <<>>
        <5>1. /\ Raw # <<>> /\ conn.wanted > 0 /\ conn.grpc_data_remaining > 0
              /\ conn' = [c EXCEPT !.wanted = @ - n, !.loading = l, !.grpc_message = m]
          BY <4>2 DEF LoadMessage
        <5>2. n \in Nat
          <6>1. Len(Raw) \in Nat BY <5>1, NonEmpty
          <6>2. conn.wanted \in Int /\ conn.grpc_data_remaining \in Int BY <1>0 DEF Conns
          <6>3. conn.wanted \in Nat /\ conn.grpc_data_remaining \in Nat BY <5>1, <6>2
          <6> QED BY <6>1, <6>3 DEF Least
        <5> HIDE DEF n, l, m
        <5>3. \E w, x, y : conn' = [DataTook(n) EXCEPT !.wanted = w, !.loading = x,
                                                       !.grpc_message = y]
          BY <5>1
        <5> QED BY <5>1, <5>2, <5>3
      <4> QED BY <2>4, <4>1, <4>2
    <3> DEFINE c == DataTook(n)
    <3>2. PICK w, l, m : conn' = [c EXCEPT !.wanted = w, !.loading = l, !.grpc_message = m]
      BY <3>1
    <3>3. /\ c \in Conns(framing)
          /\ c.grpc_data_remaining = conn.grpc_data_remaining - n
          /\ c.grpc_data_end_stream = conn.grpc_data_end_stream
          /\ c.grpc_eof =
               (conn.grpc_eof \/ (conn.grpc_data_remaining = n /\ conn.grpc_data_end_stream))
      BY <3>1, DataTookIs
    <3> HIDE DEF c
    <3>4. /\ conn'.grpc_data_remaining = c.grpc_data_remaining
          /\ conn'.grpc_data_end_stream = c.grpc_data_end_stream
          /\ conn'.grpc_eof = c.grpc_eof
      BY <3>2, <3>3 DEF Conns
    <3>5. conn.grpc_data_remaining \in Int BY <1>0 DEF Conns
    <3>6. conn.grpc_eof => framing = "leaving" BY <3>1, <3>5 DEF FlagInv
    <3>7. conn.grpc_data_remaining = n => conn'.grpc_data_remaining = 0
      BY <3>3, <3>4, <3>5
    <3> QED BY <1>0, <3>3, <3>4, <3>6, <3>7 DEF FlagInv
  <2> QED BY <1>2, <2>1, <2>2, <2>3, <2>4 DEF Below
<1>3. CASE ConsumeResponse \/ ConsumeAddons \/ ReadBody(length)
  <2>1. Transport # <<>> /\ \E n \in Nat : TransportRead(n)
    <3>1. CASE ConsumeResponse \/ ConsumeAddons BY <3>1 DEF ConsumeResponse, ConsumeAddons
    <3>2. CASE ReadBody(length)
      <4> DEFINE T == Tokens(framing)
                 s == Transport
                 n == Least(length, Len(s))
      <4>1. s \in Seq(T) /\ TransportRead(n) /\ s # <<>>
        BY <3>2, LayersType DEF ReadBody
      <4>2. Len(s) \in Nat
        <5> HIDE DEF s, T
        <5> QED BY <4>1, LenProperties
      <4>3. n \in Nat BY <4>2 DEF Least
      <4> QED BY <4>1, <4>3
    <3> QED BY <1>3, <3>1, <3>2
  <2> QED BY <1>1, <2>1, TransportGrpc
<1>4. CASE ReadDirect(length) \/ ReadFails \/ ReadEnds
  BY <1>1, <1>4 DEF ReadDirect, ReadFails, ReadEnds, upstream, SameGrpc
<1>5. CASE CompleteFrame
  <2> DEFINE a == conn.vision_read_command # "continue"
             b == conn.vision_read_command = "direct"
             d == IF a /\ ~conn.vision_write_finished THEN conn.vision_read_command
                  ELSE conn.vision_write_peer_command
  <2>1. conn' = [conn EXCEPT !.vision_read_finished = a, !.vision_read_direct = b,
                             !.vision_write_peer_command = d, !.vision_read_have_frame = FALSE]
    BY <1>5 DEF CompleteFrame
  <2> HIDE DEF a, b, d
  <2> QED BY <1>0, <1>1, <2>1 DEF SameGrpc, Conns
<1>6. CASE ReadHeader \/ ReadContent(length) \/ ReadPadding
  <2>0. Stream \in Seq(Tokens(framing)) /\ conn.vision_read_content \in Int
        /\ conn.vision_read_padding \in Int
    BY <1>0, LayersType DEF Conns
  <2>1. Len(Stream) \in Nat
    <3> DEFINE T == Tokens(framing)
               s == Stream
    <3>1. s \in Seq(T) BY <2>0
    <3> HIDE DEF s, T
    <3>2. Len(s) \in Nat BY <3>1, LenProperties
    <3> QED BY <3>2 DEF s
  <2>2. Stream # <<>> BY <1>6 DEF ReadHeader, ReadContent, ReadPadding
  <2>3. Raw # <<>> BY <2>2, LayersType
  <2>4. CASE ReadHeader
    <3> DEFINE c == Took(1)
               h == Head(Stream)
    <3>1. conn' = [c EXCEPT !.vision_read_started = TRUE,
                            !.vision_read_command = h.command,
                            !.vision_read_content = h.content,
                            !.vision_read_padding = h.padding,
                            !.vision_read_have_frame = TRUE]
      BY <2>4 DEF ReadHeader
    <3>2. SameGrpc(c) /\ c \in Conns(framing) BY <2>3, TookGrpc, TookIs
    <3> HIDE DEF c, h
    <3> QED BY <1>1, <3>1, <3>2 DEF SameGrpc, Conns
  <2>5. CASE ReadContent(length)
    <3> DEFINE n == Least(Least(conn.vision_read_content, length), Len(Stream))
               left == conn.vision_read_content - n
               c == Took(n)
    <3>1. conn' = [c EXCEPT !.vision_read_content = left] /\ conn.vision_read_content > 0
      BY <2>5 DEF ReadContent
    <3>2. n \in Nat BY <2>0, <2>1, <3>1 DEF Least
    <3> HIDE DEF n
    <3>3. SameGrpc(c) /\ c \in Conns(framing) BY <2>3, <3>2, TookGrpc, TookIs
    <3> HIDE DEF c, left
    <3> QED BY <1>1, <3>1, <3>3 DEF SameGrpc, Conns
  <2>6. CASE ReadPadding
    <3> DEFINE n == Least(conn.vision_read_padding, Len(Stream))
               c == Took(n)
    <3>1. conn' = [c EXCEPT !.vision_read_padding = @ - n] /\ conn.vision_read_padding > 0
      BY <2>6 DEF ReadPadding, FrameRead
    <3>2. n \in Nat BY <2>0, <2>1, <3>1 DEF Least
    <3> HIDE DEF n
    <3>3. SameGrpc(c) /\ c \in Conns(framing) BY <2>3, <3>2, TookGrpc, TookIs
    <3> HIDE DEF c
    <3> QED BY <1>1, <3>1, <3>3 DEF SameGrpc, Conns
  <2> QED BY <1>6, <2>4, <2>5, <2>6
<1> QED BY <1>2, <1>3, <1>4, <1>5, <1>6 DEF Reads

\* A write leaves it alone too.
LEMMA WritesGrpc ==
  ASSUME TunnelInv, conn' \in {conn, InitialWrote, BodyWrote}
  PROVE  SameGrpc(conn')
<1>1. conn \in Conns(framing) BY DEF TunnelInv
<1> DEFINE a == config.vision
           b == conn.vision_write_peer_command # "continue"
           c == conn.vision_write_peer_command = "direct"
<1>2. \/ conn' = conn
      \/ conn' = [conn EXCEPT !.vision_write_started = a]
      \/ conn' = [conn EXCEPT !.vision_write_started = TRUE,
                              !.vision_write_finished = b, !.vision_write_direct = c]
  BY DEF InitialWrote, BodyWrote
<1> HIDE DEF a, b, c
<1> QED BY <1>1, <1>2 DEF SameGrpc, Conns

\* GOAWAY is the last of a gRPC server's framing.
LEMMA LeavingStays ==
  ASSUME TunnelInv, ServerNext
  PROVE  framing' = framing \/ framing # "leaving"
<1>1. CASE ServerSends BY <1>1, SendsType
<1>2. CASE ServerControls \/ ServerLeaves BY <1>2 DEF ServerControls, ServerLeaves
<1>3. CASE ServerCloses BY <1>3 DEF ServerCloses, SendMessage
<1> QED BY <1>1, <1>2, <1>3 DEF ServerNext

\* All that the server has sent was read: nothing of it is anywhere else.
Exhausted(got) == IF response_pending THEN DataSent = 0 ELSE got = DataSent

LEMMA AllRead ==
  ASSUME NEW got \in Nat, LocalInv(got), Alive, buffer = <<>>, Here(got).taken = sent,
         conn.grpc_message = <<>>, conn.loading = <<>>
  PROVE  Exhausted(got)
<1>1. response_pending \in BOOLEAN /\ PhaseInv(got) BY DEF LocalInv, PhaseInv
<1>2. Len(<<>>) = 0 OBVIOUS
<1>3. addons \in Nat BY DEF LocalInv, TunnelInv
<1>4. Here(got).taken = Consumed(got) + 0 + 0 BY <1>2 DEF Here, Seen
<1>5. Len(Response) = addons + 1 BY <1>3, PayloadIs
<1>6. CASE response_pending
  <2>1. Consumed(got) \in {0, 1} BY <1>6 DEF Consumed
  <2>2. sent \in {0, 1} BY <1>4, <2>1
  <2>3. ~(sent > Len(Response)) BY <1>3, <1>5, <2>2
  <2> QED BY <1>6, <2>3 DEF DataSent, Exhausted
<1>7. CASE ~response_pending
  <2>1. Consumed(got) = addons + 1 + got + 0 BY <1>2, <1>7 DEF Consumed
  <2>2. sent = addons + 1 + got BY <1>3, <1>4, <2>1
  <2> QED BY <1>3, <1>5, <1>7, <2>2 DEF DataSent, Exhausted
<1> QED BY <1>1, <1>6, <1>7

\* Nothing is in the socket or in SSL: the reader is where what is under way leads.
LEMMA Arrival ==
  ASSUME NEW got, NEW y, Reaches(Setting, Here(got), conn.ssl_pending, sock, y),
         sock = <<>>, Len(conn.ssl_pending) = 0
  PROVE  Here(got) = y
<1> DEFINE p == conn.ssl_pending
           q == sock
           x == Here(got)
<1>1. Len(p) = 0 /\ q = <<>> /\ Reaches(Setting, x, p, q, y) OBVIOUS
<1> HIDE DEF p, q, x
<1>2. Len(q) = 0 BY <1>1
<1>3. x = y BY <1>1, <1>2, ReachesNone
<1> QED BY <1>3 DEF x

\* A read that waits for the socket, and the relay has got everything before it.
LEMMA WaitsForNone ==
  ASSUME NEW got \in Nat, LocalInv(got), WantsRaw,
         Ahead(Setting, Here(got), conn.ssl_pending, sock, closed, There),
         AtEof \/ TimesOut, ~(ReadsFrame /\ buffer # <<>>)
  PROVE  buffer = <<>> /\ Exhausted(got)
<1>1. /\ TunnelInv /\ StreamInv /\ PhaseInv(got) /\ FrameInv
      /\ conn \in Conns(framing) /\ pc \in {"response", "addons", "body"} /\ Alive
  BY DEF LocalInv, TunnelInv, WantsRaw, Reading, Alive
<1>2. PICK y \in Points : /\ Reaches(Setting, Here(got), conn.ssl_pending, sock, y)
                          /\ closed = "open" => y = There
                          /\ closed = "clean" => y \in {There, Gone(There)}
  BY DEF Ahead
<1>3. /\ There \in Points /\ There.taken = sent /\ There.rest = 0
      /\ Gone(There).taken = sent /\ Gone(There).rest = 0
  BY <1>1, SettingIs DEF Gone, Points
<1>4. closed \in {"open", "clean"} BY DEF AtEof, TimesOut, RawEof, RawTimeout
<1>5. y.taken = sent /\ y.rest = 0 BY <1>2, <1>3, <1>4
<1>6. sock = <<>> /\ Len(conn.ssl_pending) = 0
  <2>1. CASE Direct
    <3>1. ~response_pending /\ conn.vision_read_finished /\ ~conn.vision_read_have_frame
          /\ conn.vision_read_direct /\ config.vision
          /\ conn.vision_read_content = 0 /\ conn.vision_read_padding = 0
      BY <1>1, <2>1 DEF Direct, PhaseInv, FrameInv
    <3>2. Here(got).body = 0 /\ Here(got).rest = 0 /\ Here(got).mode = "direct"
      BY <1>2, <3>1, HereIs
    <3>3. Len(conn.ssl_pending) = 0 BY <1>1, <1>2, <3>2, OutsideNone DEF Outside
    <3> QED BY <2>1, <3>3 DEF AtEof, TimesOut
  <2>2. CASE ~Direct
    <3>1. sock = <<>> /\ (Raw = <<>> \/ ~config.tls)
      BY <2>2 DEF AtEof, RawEof, TimesOut, RawTimeout
    <3>2. conn.ssl_pending = <<>>
      <4>1. CASE config.tls BY <3>1, <4>1 DEF Raw
      <4>2. CASE ~config.tls BY <1>1, <4>2 DEF FrameInv
      <4> QED BY <4>1, <4>2
    <3>3. Len(<<>>) = 0 OBVIOUS
    <3> QED BY <3>1, <3>2, <3>3
  <2> QED BY <2>1, <2>2
<1>7. Here(got) = y BY <1>2, <1>6, Arrival
<1>8. conn.grpc_message = <<>> /\ conn.loading = <<>>
  <2>1. conn.grpc_message = <<>> BY DEF WantsRaw
  <2>2. CASE config.transport = "grpc"
    <3>1. conn.wanted = 0 BY <1>2, <1>5, <1>7, <2>2, HereIs
    <3> QED BY <1>1, <2>1, <3>1 DEF FrameInv
  <2>3. CASE config.transport # "grpc" BY <1>1, <2>3 DEF FrameInv
  <2> QED BY <2>1, <2>2, <2>3
<1>9. buffer = <<>>
  <2> SUFFICES ASSUME buffer # <<>> PROVE FALSE OBVIOUS
  <2>1. /\ pc = "body" /\ conn.vision_read_have_frame /\ conn.vision_read_content = 0
    BY <1>1 DEF PhaseInv
  <2>2. config.vision /\ ~conn.vision_read_finished BY <1>1, <2>1 DEF FrameInv
  <2>3. FrameRead BY <2>1, <2>2 DEF FrameRead, Unframing
  <2> QED BY <2>3 DEF WantsRaw
<1> QED BY <1>1, <1>5, <1>7, <1>8, <1>9, AllRead

\* A record below TLS is read by a reader that expects it.
LEMMA RecordsFit ==
  ASSUME NEW got \in Nat, LocalInv(got), WantsRaw,
         Ahead(Setting, Here(got), conn.ssl_pending, sock, closed, There)
  PROVE  Broken => closed = "reset"
<1> SUFFICES ASSUME Broken, closed # "reset" PROVE FALSE OBVIOUS
<1>1. /\ TunnelInv /\ PhaseInv(got) /\ FrameInv
      /\ pc \in {"response", "addons", "body"}
  BY DEF LocalInv, WantsRaw, Reading
<1>2. ~Direct /\ config.tls /\ Raw = <<>> /\ sock # <<>> /\ ~Head(sock).tls
  BY DEF Broken, RawBroken
<1>3. conn.ssl_pending = <<>> /\ Len(conn.ssl_pending) = 0 BY <1>2 DEF Raw
<1>4. PICK y \in Points : Reaches(Setting, Here(got), conn.ssl_pending, sock, y) BY DEF Ahead
<1>5. Fitting(Setting, Here(got), Head(sock).tls)
  <2> DEFINE n == 0
             s == Arrived
             T == Tokens(framing)
  <2>1. s \in Seq(T) BY <1>1, LayersType
  <2> HIDE DEF s, T
  <2>2. n \in 0..Len(s) BY <2>1, LenProperties
  <2>3. n \in 0..Len(Arrived) BY <2>2 DEF s
  <2> HIDE DEF n
  <2> QED BY <1>1, <1>2, <1>3, <1>4, <2>3, SocketMoves
<1>6. Setting.tls = config.tls /\ Setting.vision = config.vision BY DEF Setting
<1>7. config.vision /\ Outside(Here(got)) BY <1>2, <1>5, <1>6 DEF Fitting
<1>8. /\ config.transport # "grpc"
      /\ Here(got).body = IF response_pending THEN addons + 1 - Seen(got)
                         ELSE conn.vision_read_content
      /\ Here(got).rest = conn.vision_read_padding
      /\ Here(got).mode = IF conn.vision_read_have_frame THEN ModeAfter(conn.vision_read_command)
                         ELSE IF conn.vision_read_direct THEN "direct"
                         ELSE IF conn.vision_read_finished THEN "end" ELSE "framed"
  BY <1>4, <1>7, HereIs
<1>9. conn.vision_read_have_frame \/ conn.vision_read_direct BY <1>7, <1>8 DEF Outside
<1>10. ~response_pending /\ pc = "body" BY <1>1, <1>9 DEF FrameInv, PhaseInv, Alive
<1>11. ~conn.vision_read_direct BY <1>2, <1>10 DEF Direct
<1>12. conn.vision_read_content = 0 /\ conn.vision_read_padding = 0
  BY <1>7, <1>8, <1>10 DEF Outside
<1>13. FrameRead /\ ~ReadsFrame
  BY <1>1, <1>7, <1>9, <1>10, <1>11, <1>12 DEF FrameInv, FrameRead, ReadsFrame, Unframing
<1> QED BY <1>13 DEF WantsRaw

\* The transport's own goodbye.
LEMMA GoodbyeIsEnd ==
  ASSUME NEW got \in Nat, LocalInv(got), FlagInv, Reading,
         Ahead(Setting, Here(got), conn.ssl_pending, sock, closed, There),
         CloseFrame \/ (GrpcEnd /\ framing # "leaving")
  PROVE  buffer = <<>> /\ Exhausted(got)
<1>1. /\ TunnelInv /\ StreamInv /\ PhaseInv(got) /\ FrameInv
      /\ conn \in Conns(framing) /\ sock \in Seq(Records(framing))
      /\ Alive /\ pc # "deliver"
  BY DEF LocalInv, TunnelInv, Reading, Alive
<1>2. PICK y \in Points : /\ Reaches(Setting, Here(got), conn.ssl_pending, sock, y)
                          /\ closed = "clean" => y \in {There, Gone(There)}
                          /\ y.mode = "closed" => closed = "clean"
  BY DEF Ahead
<1>3. /\ There \in Points /\ There.taken = sent /\ There.mode # "closed"
  BY <1>1, SettingIs
<1>4. /\ Gone(There).taken = sent /\ Gone(There).rest = There.rest
      /\ Gone(There).mode = "closed" /\ There.rest = 0
  BY <1>1, <1>3, SettingIs DEF Gone, Points
<1>5. closed = "clean" => y.taken = sent BY <1>2, <1>3, <1>4
<1>6. ~config.vision => buffer = <<>> BY <1>1 DEF PhaseInv, FrameInv
<1>8. CASE CloseFrame
  <2>1. /\ config.transport = "ws" /\ conn.ws_remaining = 0 /\ Raw # <<>>
        /\ Head(Raw).k = "ws" /\ Head(Raw).op = "close"
    BY <1>8 DEF CloseFrame
  <2>2. /\ Here(got) \in Points /\ Here(got).body = 0 /\ ~config.vision /\ ~Setting.vision
        /\ Setting.transport = "ws"
    BY <1>2, <2>1, HereIs
  <2>3. PICK z \in Points : /\ Token(Setting, Here(got), Head(Raw), z)
                            /\ Reaches(Setting, z, RawTook(1).ssl_pending, RawTookSock(1), y)
    BY <1>1, <1>2, <2>1, HeaderMoves DEF FrameInv
  <2>4. z.mode = "closed" /\ z.body = 0 /\ z.taken = Here(got).taken
    <3> DEFINE h == Head(Raw)
               x == Here(got)
    <3>1. ~Can(Setting, x, 1) BY <2>2 DEF Can
    <3>2. h.k = "ws" /\ h.op = "close" /\ Token(Setting, x, h, z) BY <2>1, <2>3
    <3>3. x \in Points /\ ~Setting.vision /\ Setting.transport = "ws" BY <2>2
    <3> HIDE DEF h, x
    <3>4. z = [x EXCEPT !.body = IF h.op = "data" THEN h.n ELSE 0,
                        !.mode = IF h.op = "close" THEN "closed" ELSE x.mode]
      BY <3>1, <3>2, <3>3 DEF Token
    <3>5. z.mode = "closed" /\ z.body = 0 /\ z.taken = x.taken BY <3>2, <3>3, <3>4 DEF Points
    <3> QED BY <3>5 DEF x
  <2>5. y = z
    <3> DEFINE n == 1
               p == RawTook(n).ssl_pending
               q == RawTookSock(n)
    <3>1. Reaches(Setting, z, p, q, y) BY <2>3
    <3>2. n \in 1..Len(Raw) BY <1>1, <2>1, NonEmpty
    <3> HIDE DEF n
    <3>3. /\ Len(p) \in Nat /\ Len(q) \in Nat
      <4> DEFINE S == Records(framing)
                 T == Tokens(framing)
      <4>1. RawTook(n) \in Conns(framing) /\ q \in Seq(S) BY <1>1, <2>1, <3>2, RawTookType
      <4>2. p \in Seq(T) BY <4>1 DEF Conns
      <4> HIDE DEF p, q, S, T
      <4> QED BY <4>1, <4>2, LenProperties
    <3> HIDE DEF p, q
    <3>4. Onward(z, y) BY <3>1, <3>3, ReachesOnward
    <3> QED BY <2>4, <3>4 DEF Onward
  <2>6. Here(got).taken = sent BY <1>2, <1>5, <2>4, <2>5
  <2>7. conn.grpc_message = <<>> /\ conn.loading = <<>> BY <1>1, <2>1 DEF FrameInv
  <2> QED BY <1>1, <1>6, <2>2, <2>6, <2>7, AllRead
<1>9. CASE GrpcEnd /\ framing # "leaving"
  <2>1. /\ config.transport = "grpc" /\ conn.grpc_message = <<>>
        /\ conn.grpc_data_remaining = 0 /\ conn.grpc_data_end_stream
    BY <1>9 DEF GrpcEnd, Loading, FlagInv
  <2>2. /\ Here(got) \in Points /\ Here(got).body = 0 /\ Here(got).rest = conn.wanted
        /\ ~config.vision /\ Here(got).mode = "closed" /\ Onward(Here(got), y)
    BY <1>2, <2>1, HereIs
  <2>3. y = Here(got) BY <2>2 DEF Onward
  <2>4. closed = "clean" /\ y = Gone(There) BY <1>2, <1>3, <2>2, <2>3
  <2>5. Here(got).taken = sent /\ conn.wanted = 0 BY <1>4, <2>2, <2>3, <2>4
  <2>6. conn.loading = <<>> BY <1>1, <2>5 DEF FrameInv
  <2> QED BY <1>1, <1>6, <2>1, <2>2, <2>5, <2>6, AllRead
<1> QED BY <1>8, <1>9

\* A read that fails or returns 0, so that the caller closes, has left nothing
\* behind, unless the server broke off.
LEMMA StopIsEnd ==
  ASSUME NEW got \in Nat, LocalInv(got), FlagInv,
         Ahead(Setting, Here(got), conn.ssl_pending, sock, closed, There),
         ReadFails \/ ReadEnds, pc' = "close"
  PROVE  closed = "reset" \/ framing = "leaving" \/ (buffer = <<>> /\ Exhausted(got))
<1>1. CASE ReadFails
  <2>1. WantsRaw /\ (Broken \/ TimesOut \/ AtEof) BY <1>1 DEF ReadFails
  <2>2. ~(ReadsFrame /\ buffer # <<>>) BY <1>1 DEF ReadFails, Fails
  <2> QED BY <2>1, <2>2, RecordsFit, WaitsForNone
<1>2. CASE ReadEnds
  <2>1. Reading BY <1>2 DEF ReadEnds
  <2>2. CASE WantsRaw /\ AtEof /\ InPayload
    <3>1. conn.vision_read_direct => conn.vision_read_finished BY DEF LocalInv, FrameInv
    <3>2. ~ReadsFrame
      BY <2>2, <3>1 DEF InPayload, ReadsFrame, FrameRead, Unframing, Unframed
    <3> QED BY <2>2, <3>2, WaitsForNone
  <2>3. CASE CloseFrame \/ GrpcEnd BY <2>1, <2>3, GoodbyeIsEnd
  <2> QED BY <1>2, <2>2, <2>3 DEF ReadEnds
<1> QED BY <1>1, <1>2
=============================================================================
