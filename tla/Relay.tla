------------------------------- MODULE Relay -------------------------------
(***************************************************************************)
(* handle_client() of n300vless.c: one forked child that serves one client *)
(* connection.  It learns the target, opens the upstream, sends the VLESS  *)
(* request, and then relays both directions from one select() loop with    *)
(* blocking sockets.  A read that has begun keeps the loop until it ends.  *)
(*                                                                         *)
(* pc names the function the child is in: "target", "open", "request",     *)
(* "select", those of Reader, "deliver" (write_all_fd to the client).      *)
(***************************************************************************)
EXTENDS Reader, FiniteSets

CONSTANTS UploadMax   \* bound: units of data the client sends

ASSUME UploadAssumption == UploadMax \in Nat

VARIABLES
  received,    \* what the client has received
  offered,     \* data units the client has sent; they are 1, 2, ...
  taken,       \* of them, those the child has received
  client       \* "open", or "closed": the client has sent its end

uploads  == <<offered, taken, client>>
vars == <<upstream, server, reader, received, uploads>>

Waiting == [i \in 1..(offered - taken) |-> taken + i]   \* in the client's socket

Init ==
  /\ config \in Configs
  /\ sock = <<>> /\ closed = "open" /\ conn = NewConn /\ up = <<>> /\ window = Window
  /\ ServerInit
  /\ pc = "target" /\ response_pending = TRUE
  /\ buffer = <<>> /\ received = <<>>
  /\ offered = 0 /\ taken = 0 /\ client = "open"
  /\ end = "no"

\* The child leaves without an upstream to close.
GivesUp == pc' = "ended" /\ end' = "error"

-----------------------------------------------------------------------------
(* Before the relay.                                                       *)

\* parse_socks_target() or get_redirect_target().
Target ==
  /\ pc = "target"
  /\ \/ pc' = "open" /\ UNCHANGED end
     \/ GivesUp
  /\ UNCHANGED <<upstream, server, response_pending, buffer, received, uploads>>

\* open_upstream(): a step that fails undoes those before it.
OpenUpstream ==
  /\ pc = "open"
  /\ \/ pc' = "request" /\ UNCHANGED end
     \/ GivesUp
  /\ UNCHANGED <<upstream, server, response_pending, buffer, received, uploads>>

\* send_initial_vless_request(): with the client's first data if they come
\* within half a second.  The request takes some of the buffer.
SendRequest ==
  /\ pc = "request"
  /\ LET data == Prefix(Waiting, Least(BufferSize - 1, Len(Waiting))) IN
       \/ /\ data # <<>> \/ client = "open"
          /\ up' = up \o InitialFrames(data)
          /\ conn' = InitialWrote
          /\ taken' = taken + Len(data)
          /\ pc' = "select" /\ UNCHANGED end
       \/ /\ \/ data = <<>> /\ client = "closed"
             \/ closed # "open"                  \* the write may fail
          /\ Ends("error")
          /\ UNCHANGED <<up, conn, taken>>
  /\ UNCHANGED <<config, sock, closed, window, server, response_pending, buffer, received,
                 offered, client>>

-----------------------------------------------------------------------------
(* relay_connection(): one turn of the loop, the client's side first.      *)

ClientReady == Waiting # <<>> \/ client = "closed"
ServerReady == sock # <<>> \/ closed # "open"
Pending     == config.tls /\ conn.ssl_pending # <<>>

Reply == IF response_pending THEN "response" ELSE "body"

Upload ==
  /\ pc = "select" /\ Waiting # <<>>
  /\ \/ LET data == Prefix(Waiting, Least(BufferSize, Len(Waiting))) IN
          /\ up' = up \o BodyFrames(data)
          /\ conn' = BodyWrote
          /\ taken' = taken + Len(data)
          /\ pc' = IF ServerReady \/ Pending THEN Reply ELSE "select"
          /\ UNCHANGED end
     \/ /\ closed # "open"                       \* the write may fail
        /\ taken' = taken + Least(BufferSize, Len(Waiting))
        /\ Ends("error")
        /\ UNCHANGED <<up, conn>>
  /\ UNCHANGED <<config, sock, closed, window, server, response_pending, buffer, received,
                 offered, client>>

ClientEnds ==
  /\ pc = "select" /\ Waiting = <<>> /\ client = "closed"
  /\ Ends("client")
  /\ UNCHANGED <<upstream, server, response_pending, buffer, received, uploads>>

\* SSL_pending() is asked only when select() has returned.
Download ==
  /\ pc = "select" /\ ~ClientReady /\ ServerReady
  /\ pc' = Reply
  /\ UNCHANGED <<upstream, server, response_pending, buffer, received, uploads, end>>

\* idle_timeout seconds pass with neither socket readable.
Idle ==
  /\ pc = "select" /\ ~ClientReady /\ ~ServerReady
  /\ Ends("idle")
  /\ UNCHANGED <<upstream, server, response_pending, buffer, received, uploads>>

\* A SIGTERM breaks off select(); any other call begins again.
Interrupted ==
  /\ pc = "select"
  /\ Ends("error")
  /\ UNCHANGED <<upstream, server, response_pending, buffer, received, uploads>>

\* write_all_fd() to the client, who may be gone or take nothing for 30 s.
Deliver ==
  /\ pc = "deliver"
  /\ \/ received' = received \o buffer /\ pc' = "select" /\ UNCHANGED end
     \/ Ends("error") /\ UNCHANGED received
  /\ buffer' = <<>>
  /\ UNCHANGED <<upstream, server, response_pending, uploads>>

-----------------------------------------------------------------------------
(* The client, at the other end of its socket.                             *)

ClientSends ==
  /\ client = "open" /\ pc \notin {"close", "ended"} /\ offered < UploadMax
  /\ offered' = offered + 1
  /\ UNCHANGED <<upstream, server, pc, response_pending, buffer, received, taken, client, end>>

ClientCloses ==
  /\ client = "open" /\ pc \notin {"close", "ended"}
  /\ client' = "closed"
  /\ UNCHANGED <<upstream, server, pc, response_pending, buffer, received, offered, taken, end>>

\* The server answers a request.
Server ==
  /\ pc \notin {"target", "open", "request", "close", "ended"}
  /\ ServerNext
  /\ UNCHANGED <<pc, response_pending, buffer, received, uploads, end>>

Child ==
  \/ Target \/ OpenUpstream \/ SendRequest
  \/ Upload \/ ClientEnds \/ Download \/ Idle \/ Deliver
  \/ (Reads(BufferSize) \/ Close) /\ UNCHANGED <<received, uploads>>

Next == Child \/ Server \/ Interrupted \/ ClientSends \/ ClientCloses

Spec == Init /\ [][Next]_vars

\* The child is a process of its own: what it can do, it does.
FairSpec == Spec /\ WF_vars(Child)

-----------------------------------------------------------------------------
(* Properties.                                                             *)

\* The client receives the server's data, all of them in order and nothing
\* else: no header, padding, addon or ciphertext of any layer reaches it,
\* however frames are cut into records and reads (vision_body_read).
DownloadIntact ==
  LET got == received \o buffer IN
    Len(got) <= DataSent /\ got = Prefix(Data, Len(got))

\* What was written reads as the server reads it: a request, Vision frames
\* until one ends framing, then bare data, below TLS exactly if that frame
\* said "direct" (vision_initial_write, vision_body_write); and no close_notify
\* on a connection that has left TLS (close_upstream).
UploadFramed ==
  \A j \in 1..Len(up) :
    LET ends == {i \in 1..(j - 1) : up[i].command \in {"end", "direct"}}
        bare == \E i \in ends : up[i].command = "direct"
    IN  IF up[j].layer \in {"control", "notify"}
          THEN up[j].layer = "notify" => ~bare
          ELSE /\ (up[j].layer = "request") <=> j = 1
               /\ (up[j].command = "none") <=> ~config.vision \/ ends # {}
               /\ (up[j].layer = "direct") <=> bare

\* The units of data in the frames s are those from m + 1 to n, in order.
Holds(s, m, n) ==
  LET Units(j) == 1..Len(s[j].data) IN
    /\ UNION {{s[j].data[i] : i \in Units(j)} : j \in 1..Len(s)} = (m + 1)..n
    /\ \A j, k \in 1..Len(s) : \A a \in Units(j), b \in Units(k) :
         j < k \/ (j = k /\ a < b) => s[j].data[a] < s[k].data[b]

\* Read so, it is what the child took from the client, in order.
UploadIntact == UploadFramed /\ (Holds(up, 0, taken) \/ end = "error")

\* The child leaves TLS in a direction only after the server has left
\* framing with "direct" in the other, and stops framing only after the
\* server has (vision_complete_read_frame).
FollowsServer ==
  /\ conn.vision_write_finished => framing \in {"end", "direct"}
  /\ conn.vision_write_direct \/ conn.vision_read_direct => framing = "direct"

\* A relay that ends well at the server's end of stream has delivered all
\* the server sent; a GOAWAY, though, it takes for the end
\* (grpc_next_data_frame).
EofIsComplete == end = "eof" /\ framing # "leaving" => Len(received) = DataSent

\* Where the tokens of DATA frames are: in s; and in all that is unread, by
\* record, the one that is being read before those in the socket.
InData(s) == {i \in 1..Len(s) : s[i].k # "h2"}

Record(j) == IF j = 0 THEN conn.ssl_pending ELSE sock[j].tokens

Unread == UNION {{j} \X InData(Record(j)) : j \in 0..Len(sock)}

\* HTTP/2 credit is neither lost nor invented: what the server may still
\* send and what the child has not yet read of DATA frames add up to the
\* window, so a long download never runs dry (grpc_data_read).
CreditKept ==
  config.transport = "grpc" /\ closed # "reset" => window + Cardinality(Unread) = Window

\* An idle connection is one on which nothing is left to deliver.
IdleIsIdle == end = "idle" => Len(received) = DataSent

\* What a client sends is taken from it, or the relay ends.
ClientIsServed == \A n \in 1..UploadMax : offered >= n ~> taken >= n \/ pc = "ended"

\* ... which holds without TLS, where a read gives up after SO_RCVTIMEO.
PlainClientIsServed ==
  \A n \in 1..UploadMax : ~config.tls /\ offered >= n ~> taken >= n \/ pc = "ended"
=============================================================================
