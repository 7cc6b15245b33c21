------------------------------- MODULE Reader -------------------------------
(***************************************************************************)
(* What the engine does whenever it waits for a VLESS server:              *)
(* consume_vless_response(), then vision_body_read() into a caller's       *)
(* buffer, and close_upstream() when it has done.  The relay of a client   *)
(* (Relay) and the probes (Probe) are its two callers.                     *)
(*                                                                         *)
(* pc names the function that runs: "response" and "addons"                *)
(* (consume_vless_response), "body" (vision_body_read), "deliver" (the     *)
(* caller has the bytes), "close" (close_upstream), "ended".               *)
(***************************************************************************)
EXTENDS VlessServer

VARIABLES
  pc,
  response_pending,   \* the VLESS response has not been consumed yet
  buffer,             \* read from the server, not yet used by the caller
  end                 \* why the caller ended: "no", "eof", "error", ...

upstream == <<config, sock, closed, conn, up, window>>
reader   == <<pc, response_pending, buffer, end>>

Reading == pc \in {"response", "addons", "body"}

\* What is left is to close the upstream.
Ends(why) == pc' = "close" /\ end' = why

-----------------------------------------------------------------------------
(* consume_vless_response() and vision_body_read().                        *)

\* A WebSocket or HTTP/2 header, a gRPC message, below whatever is read.
Below ==
  /\ Reading
  /\ pc = "body" => ~conn.vision_read_direct
  /\ SkipRecord \/ BeginDataFrame \/ NextDataFrame \/ LoadEnvelope \/ LoadMessage
  /\ UNCHANGED <<server, pc, response_pending, buffer, end>>

ConsumeResponse ==
  /\ pc = "response" /\ Transport # <<>>
  /\ Head(Transport).k = "resp"
  /\ TransportRead(1)
  /\ IF Head(Transport).n > 0
       THEN pc' = "addons" /\ UNCHANGED response_pending
       ELSE pc' = "body" /\ response_pending' = FALSE
  /\ UNCHANGED <<server, buffer, end>>

ConsumeAddons ==
  /\ pc = "addons" /\ Transport # <<>>
  /\ TransportRead(1)
  /\ pc' = "body" /\ response_pending' = FALSE
  /\ UNCHANGED <<server, buffer, end>>

Unframed == ~config.vision \/ (conn.vision_read_finished /\ ~conn.vision_read_direct)

ReadBody(length) ==
  /\ pc = "body" /\ Unframed /\ Transport # <<>>
  /\ LET n == Least(length, Len(Transport)) IN
       /\ TransportRead(n)
       /\ buffer' = Prefix(Transport, n)
  /\ pc' = "deliver"
  /\ UNCHANGED <<server, response_pending, end>>

\* upstream_direct_read(): recv() on the socket under TLS.
ReadDirect(length) ==
  /\ pc = "body" /\ conn.vision_read_direct /\ sock # <<>>
  /\ LET n == Least(length, Len(Arrived)) IN
       /\ buffer' = IF Head(sock).tls THEN <<[k |-> "ciphertext"]>> ELSE Prefix(Arrived, n)
       /\ sock' = Received(n)
  /\ pc' = "deliver"
  /\ UNCHANGED <<config, closed, conn, up, window, server, response_pending, end>>

Unframing == pc = "body" /\ config.vision /\ ~conn.vision_read_finished

\* vision_read_frame_header(): the first header has the UUID before it.
ReadHeader ==
  /\ Unframing /\ ~conn.vision_read_have_frame /\ Stream # <<>>
  /\ LET h == Head(Stream) IN
       /\ h.k = "vis" /\ h.uuid = ~conn.vision_read_started
       /\ conn' = [Took(1) EXCEPT !.vision_read_started = TRUE,
                                  !.vision_read_command = h.command,
                                  !.vision_read_content = h.content,
                                  !.vision_read_padding = h.padding,
                                  !.vision_read_have_frame = TRUE]
  /\ sock' = RawTookSock(1)
  /\ UNCHANGED <<config, closed, up, window, server, pc, response_pending, buffer, end>>

\* The last content of a frame is returned after the frame is completed.
ReadContent(length) ==
  /\ Unframing /\ conn.vision_read_have_frame /\ conn.vision_read_content > 0 /\ Stream # <<>>
  /\ LET n    == Least(Least(conn.vision_read_content, length), Len(Stream))
         left == conn.vision_read_content - n
     IN  /\ conn' = [Took(n) EXCEPT !.vision_read_content = left]
         /\ sock' = RawTookSock(n)
         /\ buffer' = Prefix(Stream, n)
         /\ pc' = IF left > 0 THEN "deliver" ELSE "body"
  /\ UNCHANGED <<config, closed, up, window, server, response_pending, end>>

FrameRead == Unframing /\ conn.vision_read_have_frame /\ conn.vision_read_content = 0

\* vision_complete_read_frame(): discard the padding, then obey the command.
ReadPadding ==
  /\ FrameRead /\ conn.vision_read_padding > 0 /\ Stream # <<>>
  /\ LET n == Least(conn.vision_read_padding, Len(Stream)) IN
       /\ conn' = [Took(n) EXCEPT !.vision_read_padding = @ - n]
       /\ sock' = RawTookSock(n)
  /\ UNCHANGED <<config, closed, up, window, server, pc, response_pending, buffer, end>>

CompleteFrame_KeepsPadding ==                      \* a mutant
  /\ FrameRead
  /\ LET command == conn.vision_read_command
         last    == command # "continue"
     IN  conn' = [conn EXCEPT !.vision_read_finished = last,
                              !.vision_read_direct = command = "direct",
                              !.vision_read_have_frame = FALSE]
  /\ pc' = IF buffer = <<>> THEN "body" ELSE "deliver"
  /\ UNCHANGED <<config, sock, closed, up, window, server, response_pending, buffer, end>>

CompleteFrame ==
  /\ FrameRead /\ conn.vision_read_padding = 0
  /\ LET command == conn.vision_read_command
         last    == command # "continue"
     IN  conn' = [conn EXCEPT !.vision_read_finished = last,
                              !.vision_read_direct = command = "direct",
                              !.vision_write_peer_command =
                                 IF last /\ ~conn.vision_write_finished THEN command ELSE @,
                              !.vision_read_have_frame = FALSE]
  /\ pc' = IF buffer = <<>> THEN "body" ELSE "deliver"
  /\ UNCHANGED <<config, sock, closed, up, window, server, response_pending, buffer, end>>

-----------------------------------------------------------------------------
(* A read that returns no data.                                            *)

Direct     == pc = "body" /\ conn.vision_read_direct
ReadsFrame == FrameRead /\ conn.vision_read_padding > 0

\* What is wanted next has to come from the socket.
WantsRaw ==
  /\ Reading
  /\ conn.grpc_message = <<>> /\ ~GrpcEnd
  /\ FrameRead => ReadsFrame

\* The read that is under way hands its 0 to the relay.
InPayload ==
  /\ pc = "body" /\ ~Loading
  /\ \/ Unframed /\ (config.transport = "ws" => conn.ws_remaining > 0)
     \/ conn.vision_read_direct
     \/ Unframing /\ conn.vision_read_have_frame /\ ~ReadsFrame

Broken  == IF Direct THEN sock = <<>> /\ closed = "reset" ELSE RawBroken
AtEof   == IF Direct THEN sock = <<>> /\ closed = "clean" ELSE RawEof
TimesOut == IF Direct THEN sock = <<>> /\ closed = "open" ELSE RawTimeout

\* The failure to read padding is ignored when there is content to return.
Fails == IF ReadsFrame /\ buffer # <<>> THEN pc' = "deliver" /\ UNCHANGED end ELSE Ends("error")

ReadFails ==
  /\ WantsRaw
  /\ Broken \/ TimesOut \/ (AtEof /\ ~InPayload)
  /\ Fails
  /\ UNCHANGED <<upstream, server, response_pending, buffer>>

ReadEnds ==
  /\ Reading
  /\ (WantsRaw /\ AtEof /\ InPayload) \/ CloseFrame \/ GrpcEnd
  /\ Ends(IF pc = "body" THEN "eof" ELSE "error")
  /\ UNCHANGED <<upstream, server, response_pending, buffer>>

\* close_upstream(): a close_notify would be noise on a bare connection.
Notify == [layer |-> "notify", command |-> "none", data |-> <<>>]

Close ==
  /\ pc = "close"
  /\ pc' = "ended"
  /\ up' = IF config.tls /\ ~conn.vision_read_direct /\ ~conn.vision_write_direct
             THEN Append(up, Notify) ELSE up
  /\ UNCHANGED <<config, sock, closed, conn, window, server, response_pending, buffer, end>>

Reads(length) ==
  \/ Below \/ ConsumeResponse \/ ConsumeAddons
  \/ ReadBody(length) \/ ReadDirect(length)
  \/ ReadHeader \/ ReadContent(length) \/ ReadPadding \/ CompleteFrame
  \/ ReadFails \/ ReadEnds
=============================================================================
