---------------------------- MODULE RelayProofs ----------------------------
(***************************************************************************)
(* Proofs about one relay (Relay), for buffers, windows, and amounts of    *)
(* data of any size: the types of its connection; that it leaves framing   *)
(* and TLS only after the server; that what it writes reads as a request,  *)
(* frames, bare data (UploadInv), and is what it took from its client      *)
(* (DataInv); that what its client receives is the server's data           *)
(* (DownInv), all of them when the relay ends at the end of the stream     *)
(* (EofInv); and that the server gets back the HTTP/2 credit of all that   *)
(* is read (CreditInv).                                                    *)
(***************************************************************************)
EXTENDS Relay, ReaderProofs, FiniteSetTheorems

-----------------------------------------------------------------------------
(* The connection.                                                         *)

\* A new connection.
LEMMA TunnelInit == Init => TunnelInv
<1> SUFFICES ASSUME Init PROVE TunnelInv OBVIOUS
<1>1. /\ config \in Configs /\ sock = <<>> /\ conn = NewConn /\ buffer = <<>>
      /\ addons \in 0..1 /\ sent = 0 /\ framing = "first"
  BY DEF Init, ServerInit
<1>2. conn \in Conns(framing) BY <1>1 DEF NewConn, Conns, Said
<1> QED BY <1>1, <1>2 DEF TunnelInv, Framings

\* Each step of the relay and of the server.
LEMMA TunnelStep ==
  ASSUME TunnelInv, [Next]_vars
  PROVE  TunnelInv'
<1>1. /\ conn \in Conns(framing) /\ sock \in Seq(Records(framing))
      /\ buffer \in Seq(Bytes(framing))
  BY DEF TunnelInv
<1>2. CASE UNCHANGED <<config, sock, conn, addons, sent, framing, buffer>>
  BY <1>1, <1>2, Kept
<1>3. CASE SendRequest
  <2>1. /\ UNCHANGED <<config, sock, addons, sent, framing, buffer>>
        /\ conn' \in {conn, InitialWrote}
    BY <1>3 DEF SendRequest, server
  <2> QED BY <1>1, <2>1, WrittenType, Kept
<1>4. CASE Upload
  <2>1. /\ UNCHANGED <<config, sock, addons, sent, framing, buffer>>
        /\ conn' \in {conn, BodyWrote}
    BY <1>4 DEF Upload, server
  <2> QED BY <1>1, <2>1, WrittenType, Kept
<1>5. CASE Deliver
  <2>1. UNCHANGED <<config, sock, conn, addons, sent, framing>> /\ buffer' = <<>>
    BY <1>5 DEF Deliver, upstream, server
  <2>2. buffer' \in Seq(Bytes(framing)) BY <2>1
  <2> QED BY <1>1, <2>1, <2>2, Kept
<1>6. CASE Reads(BufferSize)
  <2>1. BufferSize \in Nat BY SizesAssumption
  <2> QED BY <1>6, <2>1, ReadsStep
<1>7. CASE Server
  BY <1>7, ServerStep DEF Server
<1>8. CASE Target \/ OpenUpstream \/ ClientEnds \/ Download \/ Idle \/ Interrupted
           \/ ClientSends \/ ClientCloses \/ Close \/ UNCHANGED vars
  <2>1. UNCHANGED <<config, sock, conn, addons, sent, framing, buffer>>
    BY <1>8 DEF Target, OpenUpstream, ClientEnds, Download, Idle, Interrupted, ClientSends,
                ClientCloses, Close, vars, upstream, server, reader
  <2> QED BY <1>2, <2>1
<1> QED BY <1>3, <1>4, <1>5, <1>6, <1>7, <1>8 DEF Next, Child

\* What the relay holds of the connection is of its type, which includes that
\* every token on its way is one the server may have sent by now.
THEOREM TunnelTyped == Spec => []TunnelInv
<1>1. TunnelInv /\ [Next]_vars => TunnelInv' BY TunnelStep
<1> QED BY TunnelInit, <1>1, PTL DEF Spec

\* vision_complete_read_frame() and vision_body_write() leave framing, and TLS,
\* only after a frame of the server has said so, in whatever pieces its bytes
\* were read and whatever else the two sides were doing.
THEOREM ServerFirst == Spec => []FollowsServer
<1>1. TunnelInv => FollowsServer BY DEF TunnelInv, Conns, FollowsServer
<1> QED BY TunnelTyped, <1>1, PTL

-----------------------------------------------------------------------------
(* What the child writes.                                                  *)

Upwards == {"request", "stream", "direct"}
Closing == {"end", "direct"}

Frames ==
  [layer : {"control", "notify"}, command : {"none"}, data : {<<>>}]
  \cup [layer : Upwards, command : Commands \cup {"none"}, data : Seq(Nat)]

\* A frame among the first n of s ended framing, or did so with "direct".
EndedIn(s, n)   == \E i \in 1..n : s[i].command \in Closing
DroppedIn(s, n) == \E i \in 1..n : s[i].command = "direct"

\* The j-th frame of s is right after those before it.
Right(s, j) ==
  IF s[j].layer \in {"control", "notify"}
    THEN s[j].layer = "notify" => ~DroppedIn(s, j - 1)
    ELSE /\ (s[j].layer = "request") <=> j = 1
         /\ (s[j].command = "none") <=> ~config.vision \/ EndedIn(s, j - 1)
         /\ (s[j].layer = "direct") <=> DroppedIn(s, j - 1)

Framed(s) == \A j \in 1..Len(s) : Right(s, j)

\* The property, in these words.
LEMMA FramedMeans == UploadFramed <=> Framed(up)
<1>1. \A j \in 1..Len(up) :
        LET ends == {i \in 1..(j - 1) : up[i].command \in {"end", "direct"}}
        IN  /\ ends # {} <=> EndedIn(up, j - 1)
            /\ (\E i \in ends : up[i].command = "direct") <=> DroppedIn(up, j - 1)
  BY DEF EndedIn, DroppedIn, Closing
<1> QED BY <1>1 DEF UploadFramed, Framed, Right

\* A frame keeps its place when more are written.
LEMMA Earlier ==
  ASSUME NEW s \in Seq(Frames), NEW t \in Seq(Frames)
  PROVE  /\ s \o t \in Seq(Frames) /\ Len(s \o t) = Len(s) + Len(t) /\ Len(s) \in Nat
         /\ Len(t) \in Nat
         /\ \A j \in 1..Len(s) : (s \o t)[j] = s[j]
         /\ \A j \in 1..Len(t) : (s \o t)[Len(s) + j] = t[j]
         /\ \A n \in 0..Len(s) : /\ EndedIn(s \o t, n) <=> EndedIn(s, n)
                                 /\ DroppedIn(s \o t, n) <=> DroppedIn(s, n)
         /\ Framed(s) => \A j \in 1..Len(s) : Right(s \o t, j)
<1>1. /\ s \o t \in Seq(Frames) /\ Len(s \o t) = Len(s) + Len(t)
      /\ Len(s) \in Nat /\ Len(t) \in Nat
  BY ConcatProperties, LenProperties
<1>2. \A j \in 1..Len(s) : (s \o t)[j] = s[j] BY ConcatProperties, <1>1
<1>3. \A j \in 1..Len(t) : (s \o t)[Len(s) + j] = t[j] BY ConcatProperties, <1>1
<1>4. \A n \in 0..Len(s) : /\ EndedIn(s \o t, n) <=> EndedIn(s, n)
                           /\ DroppedIn(s \o t, n) <=> DroppedIn(s, n)
  BY <1>1, <1>2 DEF EndedIn, DroppedIn
<1>5. ASSUME Framed(s), NEW j \in 1..Len(s) PROVE Right(s \o t, j)
  <2>1. j - 1 \in 0..Len(s) /\ Right(s, j) BY <1>1, <1>5 DEF Framed
  <2> QED BY <1>2, <1>4, <2>1 DEF Right
<1> QED BY <1>1, <1>2, <1>3, <1>4, <1>5

\* One frame more.
LEMMA OneFrame ==
  ASSUME NEW s \in Seq(Frames), Framed(s), NEW f \in Frames,
         IF f.layer \in {"control", "notify"}
           THEN f.layer = "notify" => ~DroppedIn(s, Len(s))
           ELSE /\ (f.layer = "request") <=> s = <<>>
                /\ (f.command = "none") <=> ~config.vision \/ EndedIn(s, Len(s))
                /\ (f.layer = "direct") <=> DroppedIn(s, Len(s))
  PROVE  LET u == s \o <<f>> IN
           /\ u \in Seq(Frames) /\ Framed(u) /\ Len(u) = Len(s) + 1
           /\ s # <<>> => u[1] = s[1]
           /\ s = <<>> => u[1] = f
           /\ EndedIn(u, Len(u)) <=> EndedIn(s, Len(s)) \/ f.command \in Closing
           /\ DroppedIn(u, Len(u)) <=> DroppedIn(s, Len(s)) \/ f.command = "direct"
<1> DEFINE t == <<f>>
           u == s \o t
           n == Len(s)
<1>1. t \in Seq(Frames) /\ Len(t) = 1 /\ t[1] = f OBVIOUS
<1> HIDE DEF t
<1>2. /\ u \in Seq(Frames) /\ Len(u) = n + 1 /\ n \in Nat
      /\ \A j \in 1..n : u[j] = s[j]
      /\ \A j \in 1..n : Right(u, j)
      /\ EndedIn(u, n) <=> EndedIn(s, n)
      /\ DroppedIn(u, n) <=> DroppedIn(s, n)
  BY <1>1, Earlier
<1>3. u[n + 1] = f
  <2>1. \A j \in 1..Len(t) : u[Len(s) + j] = t[j] BY <1>1, Earlier
  <2>2. 1 \in 1..Len(t) BY <1>1
  <2>3. u[Len(s) + 1] = t[1] BY <2>1, <2>2
  <2> QED BY <1>1, <2>3
<1>4. s = <<>> <=> n = 0 BY EmptySeq
<1> HIDE DEF u
<1>5. Right(u, n + 1)
  <2>1. (n + 1) - 1 = n /\ (n + 1 = 1 <=> n = 0) BY <1>2
  <2> QED BY <1>2, <1>3, <1>4, <2>1 DEF Right
<1>6. Framed(u) BY <1>2, <1>5 DEF Framed
<1>7. /\ EndedIn(u, n + 1) <=> EndedIn(u, n) \/ u[n + 1].command \in Closing
      /\ DroppedIn(u, n + 1) <=> DroppedIn(u, n) \/ u[n + 1].command = "direct"
  BY <1>2 DEF EndedIn, DroppedIn
<1>8. (s # <<>> => u[1] = s[1]) /\ (s = <<>> => u[1] = f) BY <1>2, <1>3, <1>4
<1> QED BY <1>2, <1>3, <1>6, <1>7, <1>8 DEF u, t

\* Vision frames, of which only the last may end framing.
LEMMA ManyFrames ==
  ASSUME NEW s \in Seq(Frames), Framed(s), s # <<>>, config.vision, ~EndedIn(s, Len(s)),
         NEW t \in Seq(Frames), t # <<>>, NEW c \in Commands,
         \A i \in 1..Len(t) : /\ t[i].layer = "stream"
                              /\ t[i].command = IF i = Len(t) THEN c ELSE "continue"
  PROVE  LET u == s \o t IN
           /\ u \in Seq(Frames) /\ Framed(u) /\ u # <<>> /\ u[1] = s[1]
           /\ EndedIn(u, Len(u)) <=> c \in Closing
           /\ DroppedIn(u, Len(u)) <=> c = "direct"
<1> DEFINE u == s \o t
           n == Len(s)
           m == Len(t)
<1>1. /\ u \in Seq(Frames) /\ Len(u) = n + m /\ n \in Nat /\ m \in Nat
      /\ \A j \in 1..n : u[j] = s[j]
      /\ \A j \in 1..m : u[n + j] = t[j]
      /\ \A j \in 1..n : Right(u, j)
  BY Earlier
<1>2. n >= 1 /\ m >= 1 BY <1>1, EmptySeq
<1>3. \A i \in 1..n : s[i].command \notin Closing BY DEF EndedIn
<1> HIDE DEF u, m, n
<1>4. \A i \in 1..(n + m) :
        /\ i <= n => u[i].command \notin Closing
        /\ i > n => /\ u[i].layer = "stream"
                    /\ u[i].command = IF i = n + m THEN c ELSE "continue"
  <2> TAKE i \in 1..(n + m)
  <2>1. CASE i <= n
    <3>1. i \in 1..n /\ ~(i > n) BY <1>1, <2>1
    <3>2. u[i].command \notin Closing BY <1>1, <1>3, <3>1
    <3> QED BY <3>1, <3>2
  <2>2. CASE i > n
    <3>1. i - n \in 1..m /\ n + (i - n) = i /\ (i - n = m <=> i = n + m) BY <1>1, <2>2
    <3>2. u[i] = t[i - n] BY <1>1, <3>1
    <3>3. /\ t[i - n].layer = "stream"
          /\ t[i - n].command = IF i - n = m THEN c ELSE "continue"
      BY <3>1 DEF m
    <3>4. u[i].layer = "stream" /\ u[i].command = IF i = n + m THEN c ELSE "continue"
      BY <3>1, <3>2, <3>3
    <3>5. ~(i <= n) BY <1>1, <2>2
    <3> QED BY <3>4, <3>5
  <2> QED BY <1>1, <2>1, <2>2
<1>5. ASSUME NEW j \in (n + 1)..(n + m) PROVE Right(u, j)
  <2>1. /\ j \in 1..(n + m) /\ j > n /\ j # 1 /\ j - 1 \in Nat /\ j \in Nat
        /\ \A i \in 1..(j - 1) : i \in 1..(n + m) /\ i # n + m /\ i \in Nat
    BY <1>1, <1>2
  <2>2. \A i \in 1..(j - 1) : u[i].command \notin Closing
    <3> TAKE i \in 1..(j - 1)
    <3>1. i \in 1..(n + m) /\ i # n + m BY <2>1
    <3>2. i <= n \/ i > n BY <1>1, <3>1
    <3> QED BY <1>4, <3>1, <3>2 DEF Closing
  <2>3. ~EndedIn(u, j - 1) /\ ~DroppedIn(u, j - 1)
    BY <2>2 DEF EndedIn, DroppedIn, Closing
  <2>4. u[j].layer = "stream" /\ u[j].command \in Commands
    BY <1>4, <2>1 DEF Commands
  <2> QED BY <2>1, <2>3, <2>4 DEF Right, Commands
<1>6. Framed(u)
  <2>1. \A j \in 1..(n + m) : j \in 1..n \/ j \in (n + 1)..(n + m) BY <1>1
  <2> QED BY <1>1, <1>5, <2>1 DEF Framed
<1>7. /\ EndedIn(u, n + m) <=> c \in Closing
      /\ DroppedIn(u, n + m) <=> c = "direct"
  <2>1. n + m \in 1..(n + m) /\ n + m > n BY <1>1, <1>2
  <2>2. u[n + m].command = c BY <1>4, <2>1
  <2>3. \A i \in 1..(n + m) : i # n + m => u[i].command \notin Closing
    <3> TAKE i \in 1..(n + m)
    <3>1. i <= n \/ i > n BY <1>1
    <3> QED BY <1>4, <3>1 DEF Closing
  <2> QED BY <2>1, <2>2, <2>3 DEF EndedIn, DroppedIn, Closing
<1>8. u # <<>> /\ u[1] = s[1]
  <2>1. 1 \in 1..n /\ Len(u) # 0 BY <1>1, <1>2
  <2> QED BY <1>1, <2>1, EmptySeq
<1> QED BY <1>1, <1>6, <1>7, <1>8 DEF u

\* Products of natural numbers.
LEMMA Products == \A a, b \in Nat : a * b \in Nat
  OBVIOUS

\* A quotient is zero only below the divisor.
LEMMA Quotients ==
  ASSUME NEW a \in Nat, NEW b \in Nat \ {0}
  PROVE  /\ a \div b \in Nat
         /\ a >= b => a \div b >= 1
  OBVIOUS

\* vision_body_write() cuts data into frames; the last has the command.
LEMMA ChunksType ==
  ASSUME NEW data \in Seq(Nat), data # <<>>, conn.vision_write_peer_command \in Commands
  PROVE  /\ Chunks(data) \in Seq(Frames) /\ Chunks(data) # <<>>
         /\ \A i \in 1..Len(Chunks(data)) :
              /\ Chunks(data)[i].layer = "stream"
              /\ Chunks(data)[i].command =
                   IF i = Len(Chunks(data)) THEN conn.vision_write_peer_command ELSE "continue"
<1> DEFINE last == (Len(data) + ChunkSize - 1) \div ChunkSize
           F(i) == [layer   |-> "stream",
                    command |-> IF i = last THEN conn.vision_write_peer_command ELSE "continue",
                    data    |-> SubSeq(data, (i - 1) * ChunkSize + 1,
                                       Least(i * ChunkSize, Len(data)))]
<1>1. Len(data) \in Nat /\ Len(data) >= 1 /\ ChunkSize \in Nat \ {0}
  BY LenProperties, EmptySeq, SizesAssumption
<1>2. last \in Nat /\ last >= 1
  <2>1. Len(data) + ChunkSize - 1 \in Nat /\ Len(data) + ChunkSize - 1 >= ChunkSize BY <1>1
  <2> QED BY <1>1, <2>1, Quotients
<1>3. Chunks(data) = [i \in 1..last |-> F(i)] BY DEF Chunks
<1> HIDE DEF last
<1>4. \A i \in 1..last : F(i) \in Frames
  <2> TAKE i \in 1..last
  <2> DEFINE m == (i - 1) * ChunkSize + 1
             n == Least(i * ChunkSize, Len(data))
  <2>1. (i - 1) * ChunkSize \in Nat /\ i * ChunkSize \in Nat
    <3>1. i - 1 \in Nat /\ i \in Nat BY <1>2
    <3> QED BY <1>1, <3>1, Products
  <2>2. m \in Int /\ m >= 1 /\ n \in Int /\ n <= Len(data) BY <1>1, <2>1 DEF Least
  <2> HIDE DEF m, n
  <2>3. \A x \in m..n : data[x] \in Nat
    <3> TAKE x \in m..n
    <3>1. x \in 1..Len(data) BY <1>1, <2>2
    <3> QED BY <3>1, LenProperties
  <2>4. SubSeq(data, m, n) \in Seq(Nat) BY <2>2, <2>3, SubSeqProperties
  <2> QED BY <2>4 DEF Frames, Upwards, Commands, m, n
<1> HIDE DEF F
<1>5. Chunks(data) \in Seq(Frames) /\ Len(Chunks(data)) = last
  BY <1>2, <1>3, <1>4, LenProperties
<1>6. Chunks(data) # <<>> BY <1>2, <1>5, EmptySeq
<1>7. \A i \in 1..last : Chunks(data)[i] = F(i) BY <1>3
<1> QED BY <1>5, <1>6, <1>7 DEF F

-----------------------------------------------------------------------------
(* Its order.                                                              *)

UploadInv ==
  /\ up \in Seq(Frames)
  /\ offered \in Nat /\ taken \in 0..offered
  /\ pc \in {"target", "open", "request"} => up = <<>> /\ conn = NewConn
  /\ pc \in {"select", "response", "addons", "body", "deliver"} => up # <<>>
  /\ Framed(up)
  /\ conn.vision_write_finished <=> EndedIn(up, Len(up))
  /\ conn.vision_write_direct <=> DroppedIn(up, Len(up))

\* What the child takes is of what waits.
LEMMA WaitingType ==
  ASSUME UploadInv, NEW size \in Nat
  PROVE  LET n    == Least(size, Len(Waiting))
             data == Prefix(Waiting, n)
         IN  /\ Waiting \in Seq(Nat) /\ n \in Nat
             /\ data \in Seq(Nat) /\ Len(data) = n
             /\ taken + n \in 0..offered
             /\ Waiting # <<>> /\ size > 0 => data # <<>>
<1> DEFINE n    == Least(size, Len(Waiting))
           data == Prefix(Waiting, n)
<1>1. /\ offered \in Nat /\ taken \in Nat /\ offered - taken \in Nat
  BY DEF UploadInv
<1>2. Waiting \in Seq(Nat) /\ Len(Waiting) = offered - taken
  BY <1>1 DEF Waiting
<1>3. n \in Nat /\ n <= Len(Waiting) /\ (Len(Waiting) > 0 /\ size > 0 => n > 0)
  BY <1>1, <1>2 DEF Least
<1>4. taken + n \in 0..offered BY <1>1, <1>2, <1>3
<1> HIDE DEF n
<1>5. data \in Seq(Nat) /\ Len(data) = IF n >= 1 THEN n ELSE 0
  BY <1>2, <1>3, PrefixType
<1>6. Len(data) = n BY <1>3, <1>5
<1>7. Waiting # <<>> /\ size > 0 => data # <<>>
  BY <1>1, <1>2, <1>3, <1>6, EmptySeq
<1> QED BY <1>2, <1>3, <1>4, <1>5, <1>6, <1>7 DEF n

\* Nothing is written at the start.
LEMMA UploadInit == Init => UploadInv
<1> SUFFICES ASSUME Init PROVE UploadInv OBVIOUS
<1>1. up = <<>> /\ conn = NewConn /\ offered = 0 /\ taken = 0 /\ pc = "target"
  BY DEF Init
<1>2. up \in Seq(Frames) /\ Len(up) = 0 BY <1>1
<1>3. Framed(up) /\ ~EndedIn(up, Len(up)) /\ ~DroppedIn(up, Len(up))
  BY <1>2 DEF Framed, EndedIn, DroppedIn
<1>4. ~conn.vision_write_finished /\ ~conn.vision_write_direct BY <1>1 DEF NewConn
<1> QED BY <1>1, <1>2, <1>3, <1>4 DEF UploadInv

\* A read writes at most an answer to a ping.
LEMMA ReadsOrder ==
  ASSUME TunnelInv, UploadInv, Reads(BufferSize), UNCHANGED uploads
  PROVE  UploadInv'
<1>1. BufferSize \in Nat BY SizesAssumption
<1>2. Keeps(conn') /\ up' \in {up, Append(up, Pong)} BY <1>1, ReadsKeep
<1>3. /\ pc \in {"response", "addons", "body"}
      /\ pc' \in {"response", "addons", "body", "deliver", "close"}
  BY ReadsWhere
<1>4. config' = config
  BY <1>1, ReadsConfig
<1>5. /\ up' \in Seq(Frames) /\ Framed(up') /\ up' # <<>>
      /\ EndedIn(up', Len(up')) <=> EndedIn(up, Len(up))
      /\ DroppedIn(up', Len(up')) <=> DroppedIn(up, Len(up))
  <2>1. CASE up' = up BY <2>1, <1>3 DEF UploadInv
  <2>2. CASE up' = Append(up, Pong)
    <3>1. up \in Seq(Frames) /\ Framed(up) BY DEF UploadInv
    <3>2. Pong \in Frames /\ Pong.layer = "control" /\ Pong.command = "none"
      BY DEF Pong, Frames
    <3>3. up' = up \o <<Pong>> BY <2>2, <3>1, <3>2, AppendIsConcat
    <3>4. /\ up' \in Seq(Frames) /\ Framed(up') /\ Len(up') = Len(up) + 1
          /\ EndedIn(up', Len(up')) <=> EndedIn(up, Len(up)) \/ Pong.command \in Closing
          /\ DroppedIn(up', Len(up')) <=> DroppedIn(up, Len(up)) \/ Pong.command = "direct"
      BY <3>1, <3>2, <3>3, OneFrame
    <3>5. up' # <<>> BY <3>1, <3>4, LenProperties, EmptySeq
    <3> QED BY <3>2, <3>4, <3>5 DEF Closing
  <2> QED BY <1>2, <2>1, <2>2
<1>6. Framed(up)' BY <1>4, <1>5 DEF Framed, Right, DroppedIn, EndedIn
<1> QED BY <1>2, <1>3, <1>5, <1>6 DEF UploadInv, Keeps, uploads, EndedIn, DroppedIn

\* close_upstream()
LEMMA CloseOrder ==
  ASSUME TunnelInv, UploadInv, Close, UNCHANGED uploads
  PROVE  UploadInv'
<1>1. /\ pc' = "ended" /\ config' = config /\ conn' = conn
      /\ conn.vision_write_direct \in BOOLEAN
      /\ up \in Seq(Frames) /\ Framed(up)
  BY DEF Close, TunnelInv, Conns, UploadInv
<1>2. /\ up' \in Seq(Frames) /\ Framed(up')
      /\ EndedIn(up', Len(up')) <=> EndedIn(up, Len(up))
      /\ DroppedIn(up', Len(up')) <=> DroppedIn(up, Len(up))
  <2>1. CASE up' = up BY <1>1, <2>1
  <2>2. CASE up' # up
    <3>1. ~conn.vision_write_direct /\ up' = Append(up, Notify) BY <2>2 DEF Close
    <3>2. ~DroppedIn(up, Len(up)) BY <3>1 DEF UploadInv
    <3>3. Notify \in Frames /\ Notify.layer = "notify" /\ Notify.command = "none"
      BY DEF Notify, Frames
    <3>4. up' = up \o <<Notify>> BY <1>1, <3>1, <3>3, AppendIsConcat
    <3>5. /\ up' \in Seq(Frames) /\ Framed(up')
          /\ EndedIn(up', Len(up')) <=> EndedIn(up, Len(up)) \/ Notify.command \in Closing
          /\ DroppedIn(up', Len(up')) <=> DroppedIn(up, Len(up)) \/ Notify.command = "direct"
      BY <1>1, <3>2, <3>3, <3>4, OneFrame
    <3> QED BY <3>3, <3>5 DEF Closing
  <2> QED BY <2>1, <2>2
<1>3. Framed(up)' BY <1>1, <1>2 DEF Framed, Right, DroppedIn, EndedIn
<1> QED BY <1>1, <1>2, <1>3 DEF UploadInv, uploads, EndedIn, DroppedIn

\* What a write adds, in bare frames or in Vision ones, is right.
LEMMA BodyFramed ==
  ASSUME TunnelInv, UploadInv, up # <<>>, NEW data \in Seq(Nat), data # <<>>
  PROVE  LET u == up \o BodyFrames(data) IN
           /\ u \in Seq(Frames) /\ Framed(u) /\ u # <<>>
           /\ BodyWrote.vision_write_finished <=> EndedIn(u, Len(u))
           /\ BodyWrote.vision_write_direct <=> DroppedIn(u, Len(u))
<1> DEFINE command == conn.vision_write_peer_command
<1>1. /\ up \in Seq(Frames) /\ Framed(up)
      /\ conn.vision_write_finished <=> EndedIn(up, Len(up))
      /\ conn.vision_write_direct <=> DroppedIn(up, Len(up))
  BY DEF UploadInv
<1>2. /\ conn \in Conns(framing) /\ config.vision \in BOOLEAN
      /\ command \in Commands
      /\ conn.vision_write_finished \in BOOLEAN /\ conn.vision_write_direct \in BOOLEAN
  BY DEF TunnelInv, Conns, Configs, Said, Commands
<1>3. CASE Framing
  <2>1. config.vision /\ ~EndedIn(up, Len(up)) BY <1>1, <1>3 DEF Framing
  <2>2. /\ Chunks(data) \in Seq(Frames) /\ Chunks(data) # <<>>
        /\ \A i \in 1..Len(Chunks(data)) :
             /\ Chunks(data)[i].layer = "stream"
             /\ Chunks(data)[i].command = IF i = Len(Chunks(data)) THEN command ELSE "continue"
    BY <1>2, ChunksType
  <2> DEFINE t == Chunks(data)
  <2>3. BodyFrames(data) = t BY <1>3 DEF BodyFrames
  <2> HIDE DEF t
  <2>4. LET u == up \o t IN
          /\ u \in Seq(Frames) /\ Framed(u) /\ u # <<>> /\ u[1] = up[1]
          /\ EndedIn(u, Len(u)) <=> command \in Closing
          /\ DroppedIn(u, Len(u)) <=> command = "direct"
    BY <1>1, <1>2, <2>1, <2>2, ManyFrames DEF t
  <2>5. /\ BodyWrote.vision_write_finished <=> command # "continue"
        /\ BodyWrote.vision_write_direct <=> command = "direct"
    BY <1>2, <1>3 DEF BodyWrote, Conns
  <2> QED BY <1>2, <2>3, <2>4, <2>5 DEF Commands, Closing
<1>4. CASE ~Framing
  <2> DEFINE f == Bare(data)
  <2>1. BodyFrames(data) = <<f>> /\ BodyWrote = conn BY <1>4 DEF BodyFrames, BodyWrote
  <2>2. /\ f \in Frames /\ f.command = "none" /\ f.layer \in {"stream", "direct"}
        /\ (f.layer = "direct") <=> conn.vision_write_direct
    BY <1>2 DEF Bare, Frames, Upwards
  <2>3. ~config.vision \/ EndedIn(up, Len(up)) BY <1>1, <1>4 DEF Framing
  <2> HIDE DEF f
  <2>4. LET u == up \o <<f>> IN
          /\ u \in Seq(Frames) /\ Framed(u) /\ Len(u) = Len(up) + 1
          /\ EndedIn(u, Len(u)) <=> EndedIn(up, Len(up)) \/ f.command \in Closing
          /\ DroppedIn(u, Len(u)) <=> DroppedIn(up, Len(up)) \/ f.command = "direct"
    <3>1. IF f.layer \in {"control", "notify"}
            THEN f.layer = "notify" => ~DroppedIn(up, Len(up))
            ELSE /\ (f.layer = "request") <=> up = <<>>
                 /\ (f.command = "none") <=> ~config.vision \/ EndedIn(up, Len(up))
                 /\ (f.layer = "direct") <=> DroppedIn(up, Len(up))
      BY <1>1, <2>2, <2>3
    <3> QED BY <1>1, <2>2, <3>1, OneFrame
  <2>5. up \o <<f>> # <<>> BY <1>1, <2>4, LenProperties, EmptySeq
  <2> QED BY <1>1, <2>1, <2>2, <2>4, <2>5 DEF Closing
<1> QED BY <1>3, <1>4

\* The request, and the frames of what it had no room for.
LEMMA RequestFramed ==
  ASSUME TunnelInv, UploadInv, pc = "request", NEW data \in Seq(Nat)
  PROVE  LET u == up \o InitialFrames(data) IN
           /\ u \in Seq(Frames) /\ Framed(u) /\ u # <<>>
           /\ ~EndedIn(u, Len(u)) /\ ~DroppedIn(u, Len(u))
<1> DEFINE first == IF config.vision THEN Least(Len(data), ChunkSize) ELSE Len(data)
           rest  == Drop(data, first)
           f     == [layer   |-> "request",
                     command |-> IF config.vision THEN "continue" ELSE "none",
                     data    |-> Prefix(data, first)]
           more  == IF rest = <<>> THEN <<>> ELSE Chunks(rest)
<1>1. up = <<>> /\ conn = NewConn /\ config.vision \in BOOLEAN
  BY DEF UploadInv, TunnelInv, Configs
<1>2. InitialFrames(data) = <<f>> \o more BY DEF InitialFrames
<1>3. first \in Nat /\ first <= Len(data)
  BY <1>1, LenProperties, SizesAssumption DEF Least
<1>4. ~config.vision => first = Len(data) BY <1>1
<1> HIDE DEF first
<1>5. Prefix(data, first) \in Seq(Nat) /\ rest \in Seq(Nat)
  BY <1>3, PrefixType, DropType
<1>6. /\ f \in Frames /\ f.layer = "request"
      /\ (f.command = "none") <=> ~config.vision
      /\ f.command \in {"continue", "none"}
  BY <1>1, <1>5 DEF Frames, Upwards, Commands
<1> HIDE DEF f
<1>7. <<f>> \in Seq(Frames) /\ Framed(<<f>>) /\ <<f>> # <<>>
      /\ ~EndedIn(<<f>>, Len(<<f>>)) /\ ~DroppedIn(<<f>>, Len(<<f>>))
  <2>1. /\ up \in Seq(Frames) /\ Framed(up)
        /\ ~EndedIn(up, Len(up)) /\ ~DroppedIn(up, Len(up))
    BY <1>1 DEF UploadInv, NewConn
  <2>2. LET u == up \o <<f>> IN
          /\ u \in Seq(Frames) /\ Framed(u) /\ Len(u) = Len(up) + 1
          /\ EndedIn(u, Len(u)) <=> EndedIn(up, Len(up)) \/ f.command \in Closing
          /\ DroppedIn(u, Len(u)) <=> DroppedIn(up, Len(up)) \/ f.command = "direct"
    <3>1. IF f.layer \in {"control", "notify"}
            THEN f.layer = "notify" => ~DroppedIn(up, Len(up))
            ELSE /\ (f.layer = "request") <=> up = <<>>
                 /\ (f.command = "none") <=> ~config.vision \/ EndedIn(up, Len(up))
                 /\ (f.layer = "direct") <=> DroppedIn(up, Len(up))
      BY <1>1, <1>6, <2>1
    <3> QED BY <1>6, <2>1, <3>1, OneFrame
  <2>3. up \o <<f>> = <<f>>
    <3>1. <<f>> \in Seq(Frames) BY <1>6
    <3> QED BY <1>1, <3>1, ConcatEmptySeq
  <2>4. Len(<<f>>) # 0 OBVIOUS
  <2> DEFINE s == <<f>>
  <2> HIDE DEF s
  <2>5. s \in Seq(Frames) /\ Framed(s) /\ s # <<>> /\ ~EndedIn(s, Len(s)) /\ ~DroppedIn(s, Len(s))
    BY <1>6, <2>1, <2>2, <2>3, <2>4, EmptySeq DEF Closing, s
  <2> QED BY <2>5 DEF s
<1>8. up \o InitialFrames(data) = <<f>> \o more
  <2>1. more \in Seq(Frames)
    <3>1. CASE rest = <<>> BY <3>1
    <3>2. CASE rest # <<>>
      <4>1. conn.vision_write_peer_command \in Commands BY <1>1 DEF NewConn, Commands
      <4> QED BY <1>5, <3>2, <4>1, ChunksType
    <3> QED BY <3>1, <3>2
  <2> HIDE DEF more
  <2>2. <<f>> \o more \in Seq(Frames) BY <1>7, <2>1, ConcatType
  <2> QED BY <1>1, <1>2, <2>2, ConcatEmptySeq
<1>9. CASE rest = <<>>
  <2>1. more = <<>> BY <1>9
  <2>2. <<f>> \o <<>> = <<f>> BY <1>7, ConcatEmptySeq
  <2> HIDE DEF more
  <2>3. <<f>> \o more = <<f>> BY <2>1, <2>2
  <2> QED BY <1>7, <1>8, <2>3
<1>10. CASE rest # <<>>
  <2>1. config.vision
    <3>1. SUFFICES ASSUME ~config.vision PROVE rest = <<>> BY <1>10
    <3>2. rest = SubSeq(data, Len(data) + 1, Len(data)) BY <1>4, <3>1 DEF Drop
    <3>3. Len(data) \in Nat BY LenProperties
    <3>4. Len(data) + 1 \in Int /\ Len(data) \in Int /\ Len(data) + 1 > Len(data)
          /\ \A i \in (Len(data) + 1)..Len(data) : data[i] \in Nat
      BY <3>3
    <3>5. Len(rest) = 0 BY <3>2, <3>4, SubSeqProperties
    <3> QED BY <1>5, <3>5, EmptySeq
  <2>2. conn.vision_write_peer_command = "continue" BY <1>1 DEF NewConn
  <2>3. more = Chunks(rest) BY <1>10
  <2>4. /\ Chunks(rest) \in Seq(Frames) /\ Chunks(rest) # <<>>
        /\ \A i \in 1..Len(Chunks(rest)) :
             /\ Chunks(rest)[i].layer = "stream"
             /\ Chunks(rest)[i].command = IF i = Len(Chunks(rest)) THEN "continue" ELSE "continue"
    <3>1. conn.vision_write_peer_command \in Commands BY <2>2 DEF Commands
    <3> HIDE DEF rest
    <3> QED BY <1>5, <1>10, <2>2, <3>1, ChunksType
  <2> HIDE DEF more, rest
  <2> DEFINE t == Chunks(rest)
             s == <<f>>
             c == "continue"
  <2> HIDE DEF t, s
  <2>5. c \in Commands /\ c \notin Closing /\ c # "direct" BY DEF Commands, Closing
  <2>6. /\ t \in Seq(Frames) /\ t # <<>>
        /\ \A i \in 1..Len(t) : /\ t[i].layer = "stream"
                                /\ t[i].command = IF i = Len(t) THEN c ELSE "continue"
    BY <2>4 DEF t
  <2>7. s \in Seq(Frames) /\ Framed(s) /\ s # <<>> /\ ~EndedIn(s, Len(s))
    BY <1>7 DEF s
  <2> HIDE DEF c
  <2>8. LET u == s \o t IN
          /\ u \in Seq(Frames) /\ Framed(u) /\ u # <<>> /\ u[1] = s[1]
          /\ EndedIn(u, Len(u)) <=> c \in Closing
          /\ DroppedIn(u, Len(u)) <=> c = "direct"
    BY <2>1, <2>5, <2>6, <2>7, ManyFrames
  <2> QED BY <1>8, <2>3, <2>5, <2>8 DEF s, t
<1> QED BY <1>9, <1>10

\* Each step of the relay and of the server.
LEMMA UploadStep ==
  ASSUME TunnelInv, UploadInv, [Next]_vars
  PROVE  UploadInv'
<1>1. CASE Reads(BufferSize) /\ UNCHANGED uploads BY <1>1, ReadsOrder
<1>2. CASE Close /\ UNCHANGED uploads BY <1>2, CloseOrder
<1>3. CASE SendRequest
  <2> DEFINE n    == Least(BufferSize - 1, Len(Waiting))
             data == Prefix(Waiting, n)
  <2>1. BufferSize - 1 \in Nat BY SizesAssumption
  <2>2. n \in Nat /\ data \in Seq(Nat) /\ Len(data) = n /\ taken + n \in 0..offered
    BY <2>1, WaitingType
  <2>3. config' = config /\ offered' = offered BY <1>3 DEF SendRequest
  <2>4. CASE up' = up \o InitialFrames(data) /\ conn' = InitialWrote
             /\ taken' = taken + Len(data) /\ pc' = "select"
    <3> HIDE DEF data, n
    <3>1. pc = "request" BY <1>3 DEF SendRequest
    <3>2. /\ up' \in Seq(Frames) /\ Framed(up') /\ up' # <<>>
          /\ ~EndedIn(up', Len(up')) /\ ~DroppedIn(up', Len(up'))
      BY <2>2, <2>4, <3>1, RequestFramed
    <3>3. ~conn'.vision_write_finished /\ ~conn'.vision_write_direct
      BY <2>4, <3>1 DEF UploadInv, InitialWrote, NewConn
    <3>4. Framed(up)' BY <2>3, <3>2 DEF Framed, Right, DroppedIn, EndedIn
    <3>5. offered' \in Nat /\ taken' \in 0..offered' BY <2>2, <2>3, <2>4 DEF UploadInv
    <3> QED BY <2>4, <3>2, <3>3, <3>4, <3>5 DEF UploadInv, EndedIn, DroppedIn
  <2>5. CASE UNCHANGED <<up, conn, taken>> /\ pc' = "close"
    BY <2>3, <2>5 DEF UploadInv, Framed, Right, EndedIn, DroppedIn
  <2> QED BY <1>3, <2>4, <2>5 DEF SendRequest, Ends
<1>4. CASE Upload
  <2> DEFINE n    == Least(BufferSize, Len(Waiting))
             data == Prefix(Waiting, n)
  <2>1. BufferSize \in Nat /\ BufferSize > 0 BY SizesAssumption
  <2>2. /\ n \in Nat /\ data \in Seq(Nat) /\ Len(data) = n /\ taken + n \in 0..offered
        /\ Waiting # <<>> => data # <<>>
    BY <2>1, WaitingType
  <2>3. config' = config /\ offered' = offered /\ pc = "select" /\ Waiting # <<>>
    BY <1>4 DEF Upload
  <2>4. CASE up' = up \o BodyFrames(data) /\ conn' = BodyWrote
             /\ taken' = taken + Len(data) /\ pc' \in {"response", "body", "select"}
    <3> HIDE DEF data, n
    <3>1. up # <<>> BY <2>3 DEF UploadInv
    <3>2. /\ up' \in Seq(Frames) /\ Framed(up') /\ up' # <<>>
          /\ conn'.vision_write_finished <=> EndedIn(up', Len(up'))
          /\ conn'.vision_write_direct <=> DroppedIn(up', Len(up'))
      BY <2>2, <2>3, <2>4, <3>1, BodyFramed
    <3>3. Framed(up)' BY <2>3, <3>2 DEF Framed, Right, DroppedIn, EndedIn
    <3>4. offered' \in Nat /\ taken' \in 0..offered' BY <2>2, <2>3, <2>4 DEF UploadInv
    <3> QED BY <2>4, <3>2, <3>3, <3>4 DEF UploadInv, EndedIn, DroppedIn
  <2>5. CASE UNCHANGED <<up, conn>> /\ taken' = taken + n /\ pc' = "close"
    BY <2>2, <2>3, <2>5 DEF UploadInv, Framed, Right, EndedIn, DroppedIn
  <2> QED BY <1>4, <2>4, <2>5 DEF Upload, Ends, Reply
<1>5. CASE Server
  <2>1. UNCHANGED <<config, up, conn, pc, uploads>>
    BY <1>5 DEF Server, ServerNext, ServerSends, ServerControls, ServerLeaves, ServerCloses
  <2> QED BY <2>1 DEF UploadInv, uploads, Framed, Right, EndedIn, DroppedIn
<1>6. CASE Target \/ OpenUpstream \/ UNCHANGED vars
  <2>1. /\ UNCHANGED <<config, up, conn, uploads>>
        /\ \/ pc' = "ended"
           \/ pc = "target" /\ pc' = "open"
           \/ pc = "open" /\ pc' = "request"
           \/ pc' = pc
    <3>1. CASE Target BY <3>1 DEF Target, GivesUp, upstream
    <3>2. CASE OpenUpstream BY <3>2 DEF OpenUpstream, GivesUp, upstream
    <3>3. CASE UNCHANGED vars BY <3>3 DEF vars, upstream, reader
    <3> QED BY <1>6, <3>1, <3>2, <3>3
  <2> QED BY <2>1 DEF UploadInv, uploads, Framed, Right, EndedIn, DroppedIn
<1>7. CASE ClientEnds \/ Download \/ Idle \/ Interrupted \/ Deliver
  <2>1. /\ UNCHANGED <<config, up, conn, uploads>>
        /\ \/ pc' = "close"
           \/ pc \in {"select", "deliver"} /\ pc' \in {"select", "response", "body"}
    BY <1>7 DEF ClientEnds, Download, Idle, Interrupted, Deliver, Ends, Reply, upstream
  <2> QED BY <2>1 DEF UploadInv, uploads, Framed, Right, EndedIn, DroppedIn
<1>8. CASE ClientSends \/ ClientCloses
  <2>1. UNCHANGED <<config, up, conn, pc, taken>> /\ offered' \in {offered, offered + 1}
    BY <1>8 DEF ClientSends, ClientCloses, upstream
  <2> QED BY <2>1 DEF UploadInv, Framed, Right, EndedIn, DroppedIn
<1> QED BY <1>1, <1>2, <1>3, <1>4, <1>5, <1>6, <1>7, <1>8 DEF Next, Child

\* What the child writes reads as the server reads it: a request first and
\* once, Vision frames until one ends framing, then bare data, below TLS
\* exactly if that frame said "direct", and no close_notify below TLS
\* (vision_initial_write, vision_body_write, close_upstream).
THEOREM UploadReads == Spec => []UploadFramed
<1>1. TunnelInv /\ UploadInv /\ [Next]_vars => UploadInv' BY UploadStep
<1>2. UploadInv => UploadFramed BY FramedMeans DEF UploadInv
<1> QED BY UploadInit, TunnelTyped, <1>1, <1>2, PTL DEF Spec

-----------------------------------------------------------------------------
(* Its data.                                                               *)

\* Holds, without its unions.
LEMMA HoldsMeans ==
  ASSUME NEW s \in Seq(Frames), NEW m \in Nat, NEW n \in Nat
  PROVE  Holds(s, m, n) <=>
           /\ \A j \in 1..Len(s) : \A a \in 1..Len(s[j].data) : s[j].data[a] \in (m + 1)..n
           /\ \A x \in (m + 1)..n :
                \E j \in 1..Len(s) : \E a \in 1..Len(s[j].data) : s[j].data[a] = x
           /\ \A j, k \in 1..Len(s) : \A a \in 1..Len(s[j].data), b \in 1..Len(s[k].data) :
                j < k \/ (j = k /\ a < b) => s[j].data[a] < s[k].data[b]
<1> DEFINE all == UNION {{s[j].data[i] : i \in 1..Len(s[j].data)} : j \in 1..Len(s)}
<1>1. \A x : x \in all <=> \E j \in 1..Len(s) : \E a \in 1..Len(s[j].data) : s[j].data[a] = x
  OBVIOUS
<1>2. all = (m + 1)..n <=>
        /\ \A j \in 1..Len(s) : \A a \in 1..Len(s[j].data) : s[j].data[a] \in (m + 1)..n
        /\ \A x \in (m + 1)..n :
             \E j \in 1..Len(s) : \E a \in 1..Len(s[j].data) : s[j].data[a] = x
  <2> HIDE DEF all
  <2> QED BY <1>1
<1> QED BY <1>2 DEF Holds

\* What two sequences of frames hold one after the other, both hold.
LEMMA HoldsConcat ==
  ASSUME NEW s \in Seq(Frames), NEW t \in Seq(Frames),
         NEW m \in Nat, NEW n \in Nat, NEW o \in Nat, m <= n, n <= o,
         Holds(s, m, n), Holds(t, n, o)
  PROVE  Holds(s \o t, m, o)
<1> DEFINE u == s \o t
           U(j) == u[j].data
           S(j) == s[j].data
           T(j) == t[j].data
           p == Len(s)
           q == Len(t)
<1>1. /\ u \in Seq(Frames) /\ Len(u) = p + q /\ p \in Nat /\ q \in Nat
      /\ \A j \in 1..p : U(j) = S(j)
      /\ \A j \in 1..q : U(p + j) = T(j)
  BY Earlier
<1>2. /\ \A j \in 1..p : \A a \in 1..Len(S(j)) : S(j)[a] \in (m + 1)..n
      /\ \A x \in (m + 1)..n : \E j \in 1..p : \E a \in 1..Len(S(j)) : S(j)[a] = x
      /\ \A j, k \in 1..p : \A a \in 1..Len(S(j)), b \in 1..Len(S(k)) :
           j < k \/ (j = k /\ a < b) => S(j)[a] < S(k)[b]
  BY HoldsMeans
<1>3. /\ \A j \in 1..q : \A a \in 1..Len(T(j)) : T(j)[a] \in (n + 1)..o
      /\ \A x \in (n + 1)..o : \E j \in 1..q : \E a \in 1..Len(T(j)) : T(j)[a] = x
      /\ \A j, k \in 1..q : \A a \in 1..Len(T(j)), b \in 1..Len(T(k)) :
           j < k \/ (j = k /\ a < b) => T(j)[a] < T(k)[b]
  BY HoldsMeans
<1> HIDE DEF U, S, T, p, q
<1>4. \A j \in 1..(p + q) : \/ j \in 1..p /\ U(j) = S(j)
                            \/ j > p /\ j - p \in 1..q /\ U(j) = T(j - p)
  <2> TAKE j \in 1..(p + q)
  <2>1. CASE j <= p BY <1>1, <2>1
  <2>2. CASE j > p
    <3>1. j - p \in 1..q /\ p + (j - p) = j BY <1>1, <2>2
    <3>2. U(p + (j - p)) = T(j - p) BY <1>1, <3>1
    <3> QED BY <2>2, <3>1, <3>2
  <2> QED BY <1>1, <2>1, <2>2
<1>5. \A j \in 1..(p + q) : \A a \in 1..Len(U(j)) :
        /\ j <= p => U(j)[a] \in (m + 1)..n
        /\ j > p => U(j)[a] \in (n + 1)..o
  BY <1>1, <1>2, <1>3, <1>4
<1>6. \A x \in (m + 1)..o : \E j \in 1..(p + q) : \E a \in 1..Len(U(j)) : U(j)[a] = x
  <2> TAKE x \in (m + 1)..o
  <2>1. CASE x <= n
    <3>1. PICK j \in 1..p : \E a \in 1..Len(S(j)) : S(j)[a] = x BY <1>2, <2>1
    <3>2. j \in 1..(p + q) /\ U(j) = S(j) BY <1>1, <3>1
    <3> QED BY <3>1, <3>2
  <2>2. CASE x > n
    <3>1. x \in (n + 1)..o BY <2>2
    <3>2. PICK j \in 1..q : \E a \in 1..Len(T(j)) : T(j)[a] = x BY <1>3, <3>1
    <3>3. p + j \in 1..(p + q) /\ U(p + j) = T(j) BY <1>1, <3>2
    <3> QED BY <3>2, <3>3
  <2> QED BY <2>1, <2>2
<1>7. ASSUME NEW j \in 1..(p + q), NEW k \in 1..(p + q),
             NEW a \in 1..Len(U(j)), NEW b \in 1..Len(U(k)),
             j < k \/ (j = k /\ a < b)
      PROVE  U(j)[a] < U(k)[b]
  <2>1. CASE k <= p
    <3>1. j \in 1..p /\ k \in 1..p BY <1>1, <1>7, <2>1
    <3>2. U(j) = S(j) /\ U(k) = S(k) BY <1>1, <3>1
    <3> QED BY <1>2, <1>7, <3>1, <3>2
  <2>2. CASE j <= p /\ k > p
    <3>1. U(j)[a] \in (m + 1)..n /\ U(k)[b] \in (n + 1)..o BY <1>5, <2>2
    <3> QED BY <3>1
  <2>3. CASE j > p /\ k > p
    <3>1. /\ j - p \in 1..q /\ k - p \in 1..q /\ U(j) = T(j - p) /\ U(k) = T(k - p)
          /\ (j < k => j - p < k - p) /\ (j = k => j - p = k - p)
      BY <1>1, <1>4, <2>3
    <3> DEFINE j1 == j - p
               k1 == k - p
    <3> HIDE DEF j1, k1
    <3>2. /\ j1 \in 1..q /\ k1 \in 1..q /\ U(j) = T(j1) /\ U(k) = T(k1)
          /\ j1 < k1 \/ (j1 = k1 /\ a < b)
      BY <1>7, <3>1 DEF j1, k1
    <3> QED BY <1>3, <3>2
  <2> QED BY <1>1, <1>7, <2>1, <2>2, <2>3
<1>8. \A j \in 1..(p + q) : \A a \in 1..Len(U(j)) : U(j)[a] \in (m + 1)..o
  <2> TAKE j \in 1..(p + q)
  <2> TAKE a \in 1..Len(U(j))
  <2>1. (j <= p \/ j > p) BY <1>1
  <2> QED BY <1>5, <2>1
<1> HIDE DEF u
<1>9. Holds(u, m, o)
  BY <1>1, <1>6, <1>7, <1>8, HoldsMeans DEF U
<1> QED BY <1>9 DEF u

\* What one frame holds.
LEMMA OneHolds ==
  ASSUME NEW f \in Frames, NEW m \in Nat,
         \A i \in 1..Len(f.data) : f.data[i] = m + i
  PROVE  Holds(<<f>>, m, m + Len(f.data))
<1> DEFINE s == <<f>>
           n == Len(f.data)
<1>1. f.data \in Seq(Nat)
  <2> DEFINE Others == [layer : {"control", "notify"}, command : {"none"}, data : {<<>>}]
             Bodies == [layer : Upwards, command : Commands \cup {"none"}, data : Seq(Nat)]
  <2>1. f \in Others \/ f \in Bodies BY DEF Frames
  <2>2. ASSUME f \in Others PROVE f.data = <<>> BY <2>2
  <2>3. ASSUME f \in Bodies PROVE f.data \in Seq(Nat) BY <2>3
  <2>4. <<>> \in Seq(Nat) OBVIOUS
  <2> HIDE DEF Others, Bodies
  <2> QED BY <2>1, <2>2, <2>3, <2>4
<1>2. n \in Nat BY <1>1, LenProperties
<1>3. s \in Seq(Frames) /\ Len(s) = 1 /\ s[1] = f OBVIOUS
<1> HIDE DEF s
<1>4. \A j \in 1..Len(s) : s[j] = f
  <2>1. \A j \in 1..Len(s) : j = 1 BY <1>3
  <2> QED BY <1>3, <2>1
<1>5. \A j \in 1..Len(s) : \A a \in 1..Len(s[j].data) : s[j].data[a] \in (m + 1)..(m + n)
  BY <1>2, <1>4
<1>6. \A x \in (m + 1)..(m + n) :
        \E j \in 1..Len(s) : \E a \in 1..Len(s[j].data) : s[j].data[a] = x
  <2> TAKE x \in (m + 1)..(m + n)
  <2>1. x - m \in 1..n /\ f.data[x - m] = x BY <1>2
  <2>2. 1 \in 1..Len(s) BY <1>3
  <2> QED BY <1>3, <2>1, <2>2
<1>7. \A j, k \in 1..Len(s) : \A a \in 1..Len(s[j].data), b \in 1..Len(s[k].data) :
        j < k \/ (j = k /\ a < b) => s[j].data[a] < s[k].data[b]
  <2>1. \A j, k \in 1..Len(s) : ~(j < k) BY <1>3
  <2> QED BY <1>2, <1>4, <2>1
<1>8. m + n \in Nat BY <1>2
<1> HIDE DEF n
<1>9. Holds(s, m, m + n) BY <1>3, <1>5, <1>6, <1>7, <1>8, HoldsMeans
<1> QED BY <1>9 DEF s, n

\* Multiples of c are at least c apart.
LEMMA Multiples ==
  ASSUME NEW c \in Nat \ {0}, NEW i \in Nat, NEW j \in Nat, i < j
  PROVE  i * c + c <= j * c
<1>1. PICK d \in Nat : j = i + 1 + d
  <2>1. j - i - 1 \in Nat /\ j = i + 1 + (j - i - 1) OBVIOUS
  <2> QED BY <2>1
<1>2. j * c = i * c + c + d * c BY <1>1
<1>3. d * c \in Nat /\ i * c \in Nat BY Products
<1> QED BY <1>2, <1>3

\* Quotient and remainder.
LEMMA Division ==
  ASSUME NEW a \in Nat, NEW c \in Nat \ {0}
  PROVE  /\ a \div c \in Nat
         /\ (a \div c) * c <= a
         /\ a < (a \div c) * c + c
  OBVIOUS

\* The frames of vision_body_write() hold the data, every unit once.
LEMMA ChunksHold ==
  ASSUME NEW data \in Seq(Nat), data # <<>>, NEW m \in Nat,
         \A i \in 1..Len(data) : data[i] = m + i,
         conn.vision_write_peer_command \in Commands
  PROVE  Holds(Chunks(data), m, m + Len(data))
<1> DEFINE c == ChunkSize
           n == Len(data)
           last == (n + c - 1) \div c
           s == Chunks(data)
           low(i) == (i - 1) * c
           size(i) == Least(c, n - low(i))
<1>1. n \in Nat /\ n >= 1 /\ c \in Nat \ {0}
  BY LenProperties, EmptySeq, SizesAssumption
<1> HIDE DEF n, c
<1>2. last \in Nat /\ last * c <= n + c - 1 /\ n + c - 1 < last * c + c
  <2> DEFINE a == n + c - 1
  <2>1. a \in Nat BY <1>1
  <2> HIDE DEF a
  <2>2. a \div c \in Nat /\ (a \div c) * c <= a /\ a < (a \div c) * c + c
    BY <1>1, <2>1, Division
  <2> QED BY <2>2 DEF a
<1>3. s \in Seq(Frames) BY ChunksType
<1>4. s = [i \in 1..last |->
             [layer   |-> "stream",
              command |-> IF i = last THEN conn.vision_write_peer_command ELSE "continue",
              data    |-> SubSeq(data, (i - 1) * c + 1, Least(i * c, n))]]
  BY DEF Chunks, n, c
<1> HIDE DEF last, s
<1>5. Len(s) = last /\ \A i \in 1..last : s[i].data = SubSeq(data, (i - 1) * c + 1, Least(i * c, n))
  BY <1>2, <1>4
<1>6. \A i \in 1..last : /\ low(i) \in Nat /\ low(i) < n /\ i * c = low(i) + c
                         /\ size(i) \in Nat /\ size(i) >= 1 /\ size(i) <= c
                         /\ low(i) + size(i) <= n
  <2> TAKE i \in 1..last
  <2>1. i - 1 \in Nat /\ i \in Nat BY <1>2
  <2>2. (i - 1) * c \in Nat /\ i * c = (i - 1) * c + c BY <1>1, <2>1, Products
  <2>3. i * c <= last * c
    <3>1. CASE i = last BY <1>1, <1>2, <2>1, <2>2, <3>1
    <3>2. CASE i # last
      <4>1. i < last BY <1>2, <3>2
      <4>2. i * c + c <= last * c BY <1>1, <1>2, <2>1, <4>1, Multiples
      <4>3. i * c \in Nat /\ last * c \in Nat BY <1>1, <1>2, <2>1, Products
      <4> QED BY <1>1, <4>2, <4>3
    <3> QED BY <3>1, <3>2
  <2>4. last * c \in Nat BY <1>1, <1>2, Products
  <2>5. low(i) < n BY <1>1, <1>2, <2>2, <2>3, <2>4
  <2> HIDE DEF low
  <2>6. low(i) \in Nat BY <2>2 DEF low
  <2>7. size(i) \in Nat /\ size(i) >= 1 /\ size(i) <= c /\ low(i) + size(i) <= n
    BY <1>1, <2>5, <2>6 DEF Least
  <2> QED BY <2>2, <2>5, <2>6, <2>7 DEF low
<1> HIDE DEF size
<1>7. \A i \in 1..last : /\ Len(s[i].data) = size(i)
                         /\ \A a \in 1..size(i) : s[i].data[a] = m + low(i) + a
  <2> TAKE i \in 1..last
  <2> DEFINE l == low(i)
             h == Least(l + c, n)
  <2>1. /\ l \in Nat /\ l < n /\ i * c = l + c /\ size(i) \in Nat /\ size(i) <= c
        /\ l + size(i) <= n
    BY <1>6
  <2>2. s[i].data = SubSeq(data, l + 1, h) BY <1>5, <2>1
  <2>3. h - l = size(i) BY <1>1, <2>1 DEF Least, size
  <2>4. h \in Int /\ h <= n BY <1>1, <2>1 DEF Least
  <2> HIDE DEF l, h
  <2>5. \A x \in (l + 1)..h : data[x] = m + x /\ data[x] \in Nat
    <3> TAKE x \in (l + 1)..h
    <3>1. x \in 1..Len(data) BY <2>1, <2>4 DEF n
    <3> QED BY <3>1
  <2>6. l + 1 \in Int /\ h - (l + 1) + 1 = size(i) /\ h >= l BY <2>1, <2>3, <2>4
  <2>7. /\ Len(SubSeq(data, l + 1, h)) = IF l + 1 <= h THEN h - (l + 1) + 1 ELSE 0
        /\ \A a \in 1..(h - (l + 1) + 1) : SubSeq(data, l + 1, h)[a] = data[(l + 1) + a - 1]
    BY <2>4, <2>5, <2>6, SubSeqProperties
  <2>8. Len(s[i].data) = size(i) BY <2>1, <2>2, <2>3, <2>4, <2>6, <2>7
  <2>9. \A a \in 1..size(i) : s[i].data[a] = m + l + a
    <3> TAKE a \in 1..size(i)
    <3>1. s[i].data[a] = data[(l + 1) + a - 1] BY <2>2, <2>6, <2>7
    <3>2. (l + 1) + a - 1 = l + a /\ l + a \in (l + 1)..h BY <2>1, <2>3, <2>4
    <3>3. data[l + a] = m + (l + a) BY <2>5, <3>2
    <3> QED BY <2>1, <3>1, <3>2, <3>3
  <2> QED BY <2>8, <2>9 DEF l
<1>8. \A j \in 1..Len(s) : \A a \in 1..Len(s[j].data) : s[j].data[a] \in (m + 1)..(m + n)
  <2> TAKE j \in 1..Len(s)
  <2> TAKE a \in 1..Len(s[j].data)
  <2>1. j \in 1..last /\ a \in 1..size(j) BY <1>5, <1>7
  <2>2. s[j].data[a] = m + low(j) + a BY <1>7, <2>1
  <2>3. low(j) \in Nat /\ size(j) \in Nat /\ low(j) + size(j) <= n BY <1>6, <2>1
  <2> HIDE DEF low
  <2> QED BY <1>1, <2>1, <2>2, <2>3
<1>9. \A x \in (m + 1)..(m + n) :
        \E j \in 1..Len(s) : \E a \in 1..Len(s[j].data) : s[j].data[a] = x
  <2> TAKE x \in (m + 1)..(m + n)
  <2> DEFINE y == x - m - 1
             k == y \div c
             i == k + 1
             a == y - k * c + 1
  <2>1. y \in Nat /\ y < n /\ x = m + y + 1 BY <1>1
  <2> HIDE DEF y
  <2>2. k \in Nat /\ k * c <= y /\ y < k * c + c BY <1>1, <2>1, Division
  <2> HIDE DEF k
  <2>3. k * c \in Nat BY <1>1, <2>2, Products
  <2>4. k < last
    <3>1. SUFFICES ASSUME last <= k PROVE FALSE BY <1>2, <2>2
    <3>2. last * c <= k * c
      <4>1. CASE last = k BY <2>3, <4>1
      <4>2. CASE last < k
        <5>1. last * c + c <= k * c BY <1>1, <1>2, <2>2, <4>2, Multiples
        <5>2. last * c \in Nat BY <1>1, <1>2, Products
        <5> QED BY <1>1, <2>3, <5>1, <5>2
      <4> QED BY <1>2, <2>2, <3>1, <4>1, <4>2
    <3>3. last * c \in Nat BY <1>1, <1>2, Products
    <3> QED BY <1>1, <1>2, <2>1, <2>2, <2>3, <3>2, <3>3
  <2>5. i \in 1..last /\ low(i) = k * c
    <3>1. i - 1 = k BY <2>2
    <3> QED BY <1>2, <2>2, <2>4, <3>1
  <2>6. a \in 1..size(i) /\ x = m + low(i) + a
    <3>1. size(i) = Least(c, n - low(i)) BY DEF size
    <3> QED BY <1>1, <2>1, <2>2, <2>3, <2>5, <3>1 DEF Least
  <2> HIDE DEF i, a, low
  <2>7. i \in 1..Len(s) /\ a \in 1..Len(s[i].data) /\ s[i].data[a] = x
    BY <1>5, <1>7, <2>5, <2>6
  <2> QED BY <2>7
<1>10. ASSUME NEW j \in 1..Len(s), NEW k \in 1..Len(s),
              NEW a \in 1..Len(s[j].data), NEW b \in 1..Len(s[k].data),
              j < k \/ (j = k /\ a < b)
       PROVE  s[j].data[a] < s[k].data[b]
  <2>1. /\ j \in 1..last /\ k \in 1..last /\ a \in 1..size(j) /\ b \in 1..size(k)
    BY <1>5, <1>7
  <2>2. s[j].data[a] = m + low(j) + a /\ s[k].data[b] = m + low(k) + b BY <1>7, <2>1
  <2>3. /\ low(j) \in Nat /\ low(k) \in Nat /\ size(j) \in Nat /\ size(k) \in Nat
        /\ size(j) <= c
    BY <1>6, <2>1
  <2>4. CASE j = k
    <3> HIDE DEF low
    <3> QED BY <1>10, <2>1, <2>2, <2>3, <2>4
  <2>5. CASE j < k
    <3>1. j - 1 \in Nat /\ k - 1 \in Nat /\ j - 1 < k - 1 BY <1>2, <2>1, <2>5
    <3>2. low(j) + c <= low(k) BY <1>1, <3>1, Multiples
    <3> HIDE DEF low
    <3> QED BY <1>1, <2>1, <2>2, <2>3, <3>2
  <2> QED BY <1>10, <2>4, <2>5
<1>11. m + n \in Nat BY <1>1
<1>12. Holds(s, m, m + n)
  <2> HIDE DEF n
  <2> QED BY <1>3, <1>8, <1>9, <1>10, <1>11, HoldsMeans
<1> QED BY <1>12 DEF s, n

\* What has been written is what was taken, but for a write that failed.
DataInv ==
  /\ end = "error" => pc \in {"close", "ended"}
  /\ Holds(up, 0, taken) \/ end = "error"

\* No frames hold nothing.
LEMMA EmptyHolds ==
  ASSUME NEW s \in Seq(Frames), Len(s) = 0, NEW n \in Nat
  PROVE  Holds(s, n, n)
<1>1. ~\E x : x \in (n + 1)..n OBVIOUS
<1>2. ~\E j : j \in 1..Len(s) OBVIOUS
<1> QED BY <1>1, <1>2, HoldsMeans

\* A frame without data changes nothing.
LEMMA NoData ==
  ASSUME NEW s \in Seq(Frames), NEW f \in Frames, f.data = <<>>, NEW n \in Nat,
         Holds(s, 0, n)
  PROVE  Holds(Append(s, f), 0, n)
<1>0. Len(<<>>) = 0 OBVIOUS
<1>1. Len(f.data) = 0 BY <1>0
<1>2. \A i \in 1..Len(f.data) : f.data[i] = n + i BY <1>1
<1>22. Holds(<<f>>, n, n + Len(f.data)) BY <1>2, OneHolds
<1>3. Holds(<<f>>, n, n) BY <1>1, <1>22
<1>4. <<f>> \in Seq(Frames) OBVIOUS
<1> DEFINE t == <<f>>
<1>5. t \in Seq(Frames) /\ Holds(t, n, n) BY <1>3, <1>4
<1> HIDE DEF t
<1>6. 0 \in Nat /\ 0 <= n /\ n <= n OBVIOUS
<1>7. Holds(s \o t, 0, n) BY <1>5, <1>6, HoldsConcat
<1>8. Append(s, f) = s \o t BY AppendIsConcat DEF t
<1> QED BY <1>7, <1>8

\* Nothing is taken at the start.
LEMMA DataInit == Init => DataInv
<1> SUFFICES ASSUME Init PROVE DataInv OBVIOUS
<1>1. up = <<>> /\ taken = 0 /\ end = "no" BY DEF Init
<1>2. up \in Seq(Frames) /\ Len(up) = 0 BY <1>1
<1> DEFINE none == 0
<1>3. none \in Nat OBVIOUS
<1> HIDE DEF none
<1>4. Holds(up, none, none) BY <1>2, <1>3, EmptyHolds
<1> QED BY <1>1, <1>4 DEF DataInv, none

\* The first n units that wait are the n that follow those taken.
LEMMA WaitingHolds ==
  ASSUME UploadInv, NEW n \in Nat, n <= Len(Waiting)
  PROVE  LET data == Prefix(Waiting, n) IN
           \A i \in 1..Len(data) : data[i] = taken + i
<1>1. offered - taken \in Nat /\ taken \in Nat /\ offered \in Nat BY DEF UploadInv
<1>2. /\ Waiting \in Seq(Nat) /\ Len(Waiting) = offered - taken
      /\ \A i \in 1..(offered - taken) : Waiting[i] = taken + i
  BY <1>1 DEF Waiting
<1>3. \A i \in 1..n : Waiting[i] \in Nat BY <1>1, <1>2
<1>4. /\ Len(SubSeq(Waiting, 1, n)) = IF 1 <= n THEN n - 1 + 1 ELSE 0
      /\ \A i \in 1..(n - 1 + 1) : SubSeq(Waiting, 1, n)[i] = Waiting[1 + i - 1]
  <2>1. 1 \in Int /\ n \in Int OBVIOUS
  <2> QED BY <1>3, <2>1, SubSeqProperties
<1>5. Len(SubSeq(Waiting, 1, n)) = n BY <1>4
<1>6. ASSUME NEW i \in 1..n PROVE SubSeq(Waiting, 1, n)[i] = taken + i
  <2>1. SubSeq(Waiting, 1, n)[i] = Waiting[1 + i - 1] BY <1>4
  <2>2. 1 + i - 1 = i /\ i \in 1..(offered - taken) BY <1>1, <1>2
  <2> QED BY <1>2, <2>1, <2>2
<1> QED BY <1>5, <1>6 DEF Prefix

\* What a write adds holds the data it was given.
LEMMA BodyHolds ==
  ASSUME TunnelInv, NEW data \in Seq(Nat), data # <<>>, NEW m \in Nat,
         \A i \in 1..Len(data) : data[i] = m + i
  PROVE  BodyFrames(data) \in Seq(Frames) /\ Holds(BodyFrames(data), m, m + Len(data))
<1>1. conn \in Conns(framing) BY DEF TunnelInv
<1>2. conn.vision_write_peer_command \in Commands BY <1>1 DEF Conns, Said, Commands
<1>3. CASE Framing
  <2>1. BodyFrames(data) = Chunks(data) BY <1>3 DEF BodyFrames
  <2> QED BY <1>2, <2>1, ChunksType, ChunksHold
<1>4. CASE ~Framing
  <2> DEFINE f == Bare(data)
  <2>1. BodyFrames(data) = <<f>> BY <1>4 DEF BodyFrames
  <2>2. f \in Frames /\ f.data = data BY DEF Bare, Frames, Upwards
  <2> HIDE DEF f
  <2>3. Holds(<<f>>, m, m + Len(data)) BY <2>2, OneHolds
  <2> QED BY <2>1, <2>2, <2>3
<1> QED BY <1>3, <1>4

\* So does the request with the frames that follow it.
LEMMA RequestHolds ==
  ASSUME TunnelInv, UploadInv, pc = "request", NEW data \in Seq(Nat),
         \A i \in 1..Len(data) : data[i] = i
  PROVE  Holds(up \o InitialFrames(data), 0, Len(data))
<1> DEFINE first == IF config.vision THEN Least(Len(data), ChunkSize) ELSE Len(data)
           rest  == Drop(data, first)
           f     == [layer   |-> "request",
                     command |-> IF config.vision THEN "continue" ELSE "none",
                     data    |-> Prefix(data, first)]
           more  == IF rest = <<>> THEN <<>> ELSE Chunks(rest)
           n     == Len(data)
<1>1. up = <<>> /\ conn = NewConn /\ config.vision \in BOOLEAN
  BY DEF UploadInv, TunnelInv, Configs
<1>2. InitialFrames(data) = <<f>> \o more BY DEF InitialFrames
<1>3. n \in Nat /\ first \in Nat /\ first <= n
  BY <1>1, LenProperties, SizesAssumption DEF Least
<1> HIDE DEF first
<1>4. /\ Prefix(data, first) \in Seq(Nat) /\ Len(Prefix(data, first)) = first
      /\ \A i \in 1..first : Prefix(data, first)[i] = i
  <2>1. \A i \in 1..first : data[i] = i /\ data[i] \in Nat BY <1>3
  <2>2. 1 \in Int /\ first \in Int BY <1>3
  <2>3. /\ SubSeq(data, 1, first) \in Seq(Nat)
        /\ Len(SubSeq(data, 1, first)) = IF 1 <= first THEN first - 1 + 1 ELSE 0
        /\ \A i \in 1..(first - 1 + 1) : SubSeq(data, 1, first)[i] = data[1 + i - 1]
    BY <2>1, <2>2, SubSeqProperties
  <2>4. Len(SubSeq(data, 1, first)) = first BY <1>3, <2>3
  <2>5. ASSUME NEW i \in 1..first PROVE SubSeq(data, 1, first)[i] = i
    <3>1. i \in 1..(first - 1 + 1) /\ 1 + i - 1 = i BY <1>3
    <3> QED BY <2>1, <2>3, <3>1
  <2> QED BY <2>3, <2>4, <2>5 DEF Prefix
<1>5. /\ rest \in Seq(Nat) /\ Len(rest) = n - first
      /\ \A i \in 1..Len(rest) : rest[i] = first + i
  <2>1. \A i \in (first + 1)..n : data[i] = i /\ data[i] \in Nat BY <1>3
  <2>2. first + 1 \in Int /\ n \in Int BY <1>3
  <2>3. /\ SubSeq(data, first + 1, n) \in Seq(Nat)
        /\ Len(SubSeq(data, first + 1, n)) =
             IF first + 1 <= n THEN n - (first + 1) + 1 ELSE 0
        /\ \A i \in 1..(n - (first + 1) + 1) :
             SubSeq(data, first + 1, n)[i] = data[first + 1 + i - 1]
    BY <2>1, <2>2, SubSeqProperties
  <2>4. rest = SubSeq(data, first + 1, n) BY DEF Drop
  <2> HIDE DEF n, rest
  <2>5. Len(rest) = n - first BY <1>3, <2>3, <2>4
  <2>6. ASSUME NEW i \in 1..(n - first) PROVE rest[i] = first + i
    <3>1. /\ i \in 1..(n - (first + 1) + 1) /\ first + 1 + i - 1 = first + i
          /\ first + i \in (first + 1)..n
      BY <1>3
    <3> QED BY <2>1, <2>3, <2>4, <3>1
  <2> QED BY <2>3, <2>4, <2>5, <2>6
<1>6. f \in Frames /\ f.data = Prefix(data, first)
  BY <1>1, <1>4 DEF Frames, Upwards, Commands
<1> HIDE DEF f, n
<1>7. <<f>> \in Seq(Frames) /\ Holds(<<f>>, 0, first)
  <2>1. \A i \in 1..Len(f.data) : f.data[i] = 0 + i BY <1>3, <1>4, <1>6
  <2>2. Holds(<<f>>, 0, 0 + Len(f.data)) BY <1>6, <2>1, OneHolds
  <2> QED BY <1>3, <1>4, <1>6, <2>2
<1>8. more \in Seq(Frames) /\ Holds(more, first, n)
  <2>1. CASE rest = <<>>
    <3>1. more = <<>> BY <2>1
    <3> HIDE DEF more
    <3>2. Len(rest) = 0 BY <1>5, <2>1, EmptySeq
    <3> HIDE DEF rest
    <3>3. first = n BY <1>3, <1>5, <3>2
    <3>4. more \in Seq(Frames) /\ Len(more) = 0 BY <3>1
    <3>5. Holds(more, first, first) BY <1>3, <3>4, EmptyHolds
    <3> QED BY <3>3, <3>4, <3>5
  <2>2. CASE rest # <<>>
    <3>1. more = Chunks(rest) BY <2>2
    <3> HIDE DEF more, rest
    <3>2. conn.vision_write_peer_command \in Commands BY <1>1 DEF NewConn, Commands
    <3>3. more \in Seq(Frames) BY <1>5, <2>2, <3>1, <3>2, ChunksType
    <3>4. Holds(Chunks(rest), first, first + Len(rest))
      BY <1>3, <1>5, <2>2, <3>2, ChunksHold
    <3>5. first + Len(rest) = n BY <1>3, <1>5
    <3> QED BY <3>1, <3>3, <3>4, <3>5
  <2> QED BY <2>1, <2>2
<1> HIDE DEF more
<1>9. Holds(<<f>> \o more, 0, n)
  <2> DEFINE s == <<f>>
  <2>1. s \in Seq(Frames) /\ Holds(s, 0, first) BY <1>7
  <2> HIDE DEF s
  <2>2. Holds(s \o more, 0, n) BY <1>3, <1>8, <2>1, HoldsConcat
  <2> QED BY <2>2 DEF s
<1>10. <<f>> \o more \in Seq(Frames) BY <1>7, <1>8, ConcatType
<1>11. up \o InitialFrames(data) = <<f>> \o more BY <1>1, <1>2, <1>10, ConcatEmptySeq
<1> QED BY <1>9, <1>11 DEF n

\* Each step of the relay and of the server.
LEMMA DataStep ==
  ASSUME TunnelInv, UploadInv, DataInv, [Next]_vars
  PROVE  DataInv'
<1>0. up \in Seq(Frames) /\ taken \in Nat /\ offered \in Nat
  BY DEF UploadInv
<1>1. CASE Reads(BufferSize) /\ UNCHANGED uploads
  <2>1. BufferSize \in Nat BY SizesAssumption
  <2>2. up' \in {up, Append(up, Pong)} BY <1>1, <2>1, ReadsKeep
  <2>3. Pong \in Frames /\ Pong.data = <<>> BY DEF Pong, Frames
  <2>4. Holds(up, 0, taken) => Holds(up', 0, taken) BY <1>0, <2>2, <2>3, NoData
  <2>5. taken' = taken BY <1>1 DEF uploads
  <2>6. pc \in {"response", "addons", "body"} BY <1>1, ReadsWhere
  <2>7. end # "error" /\ Holds(up, 0, taken) BY <2>6 DEF DataInv
  <2>8. end' = end \/ (pc' = "close" /\ end' \in {"error", "eof"}) BY <1>1, ReadsEnd
  <2>9. Holds(up, 0, taken)' BY <2>4, <2>5, <2>7 DEF Holds
  <2> QED BY <2>7, <2>8, <2>9 DEF DataInv
<1>2. CASE Close /\ UNCHANGED uploads
  <2>1. /\ pc' = "ended" /\ end' = end /\ taken' = taken
        /\ up' \in {up, Append(up, Notify)}
    BY <1>2 DEF Close, uploads
  <2>2. Notify \in Frames /\ Notify.data = <<>> BY DEF Notify, Frames
  <2>3. Holds(up, 0, taken) => Holds(up', 0, taken) BY <1>0, <2>1, <2>2, NoData
  <2>4. Holds(up, 0, taken) => Holds(up, 0, taken)' BY <2>1, <2>3 DEF Holds
  <2> QED BY <2>1, <2>4 DEF DataInv
<1>3. CASE SendRequest
  <2> DEFINE n    == Least(BufferSize - 1, Len(Waiting))
             data == Prefix(Waiting, n)
  <2>0. pc = "request" BY <1>3 DEF SendRequest
  <2>1. up = <<>> /\ end # "error" BY <2>0 DEF UploadInv, DataInv
  <2>2. taken = 0
    <3>1. Holds(up, 0, taken) BY <2>1 DEF DataInv
    <3>2. Len(up) = 0 BY <2>1
    <3>3. \A x \in 1..taken : FALSE
      <4> DEFINE none == 0
      <4>1. none \in Nat OBVIOUS
      <4> HIDE DEF none
      <4>2. Holds(up, none, taken) BY <3>1 DEF none
      <4>3. \A x \in (none + 1)..taken :
              \E j \in 1..Len(up) : \E a \in 1..Len(up[j].data) : up[j].data[a] = x
        BY <1>0, <4>1, <4>2, HoldsMeans
      <4>4. ~\E j : j \in 1..Len(up) BY <3>2
      <4>5. \A x \in (none + 1)..taken : FALSE BY <4>3, <4>4
      <4> QED BY <4>5 DEF none
    <3> QED BY <1>0, <3>3
  <2>3. BufferSize - 1 \in Nat BY SizesAssumption
  <2>4. n \in Nat /\ data \in Seq(Nat) /\ Len(data) = n BY <2>3, WaitingType
  <2>5. n <= Len(Waiting)
    <3>1. Waiting \in Seq(Nat) BY <2>3, WaitingType
    <3> QED BY <2>3, <3>1, LenProperties DEF Least
  <2> HIDE DEF n
  <2>6. \A i \in 1..Len(data) : data[i] = taken + i BY <2>4, <2>5, WaitingHolds
  <2>7. \A i \in 1..Len(data) : data[i] = i BY <2>2, <2>4, <2>6
  <2> HIDE DEF data
  <2>8. Holds(up \o InitialFrames(data), 0, Len(data)) BY <2>0, <2>4, <2>7, RequestHolds
  <2>9. CASE /\ up' = up \o InitialFrames(data) /\ taken' = taken + Len(data)
             /\ end' = end /\ pc' = "select"
    <3> DEFINE u == up \o InitialFrames(data)
               o == Len(data)
    <3>1. taken' = o BY <2>2, <2>4, <2>9
    <3>2. up' = u /\ Holds(u, 0, o) BY <2>8, <2>9
    <3> HIDE DEF u, o
    <3>3. Holds(up, 0, taken)' BY <3>1, <3>2 DEF Holds
    <3> QED BY <2>1, <2>9, <3>3 DEF DataInv
  <2>10. CASE pc' = "close" /\ end' = "error" BY <2>10 DEF DataInv
  <2> QED BY <1>3, <2>9, <2>10 DEF SendRequest, Ends, data, n
<1>4. CASE Upload
  <2> DEFINE n    == Least(BufferSize, Len(Waiting))
             data == Prefix(Waiting, n)
  <2>0. pc = "select" /\ Waiting # <<>> BY <1>4 DEF Upload
  <2>1. end # "error" /\ Holds(up, 0, taken) BY <2>0 DEF DataInv
  <2>2. BufferSize \in Nat /\ BufferSize > 0 BY SizesAssumption
  <2>3. n \in Nat /\ data \in Seq(Nat) /\ Len(data) = n /\ data # <<>>
    BY <2>0, <2>2, WaitingType
  <2>4. n <= Len(Waiting)
    <3>1. Waiting \in Seq(Nat) BY <2>2, WaitingType
    <3> QED BY <2>2, <3>1, LenProperties DEF Least
  <2> HIDE DEF n
  <2>5. \A i \in 1..Len(data) : data[i] = taken + i BY <2>3, <2>4, WaitingHolds
  <2> HIDE DEF data
  <2> DEFINE t == BodyFrames(data)
             o == taken + Len(data)
  <2>6. t \in Seq(Frames) /\ Holds(t, taken, o) BY <1>0, <2>3, <2>5, BodyHolds
  <2>7. o \in Nat /\ taken <= o BY <1>0, <2>3
  <2> HIDE DEF t, o
  <2> DEFINE none == 0
  <2>8. none \in Nat /\ none <= taken /\ Holds(up, none, taken) BY <1>0, <2>1
  <2> HIDE DEF none
  <2>9. Holds(up \o t, none, o) BY <1>0, <2>6, <2>7, <2>8, HoldsConcat
  <2>10. CASE /\ up' = up \o BodyFrames(data) /\ taken' = taken + Len(data) /\ end' = end
    <3>1. up' = up \o t /\ taken' = o BY <2>10 DEF t, o
    <3>2. Holds(up, none, taken)' BY <2>9, <3>1 DEF Holds, none
    <3> QED BY <2>1, <2>10, <3>2 DEF DataInv, none
  <2>11. CASE pc' = "close" /\ end' = "error" BY <2>11 DEF DataInv
  <2> QED BY <1>4, <2>10, <2>11 DEF Upload, Ends, data, n
<1>5. CASE Server \/ ClientSends \/ ClientCloses \/ UNCHANGED vars
  <2>1. CASE Server
    <3>1. UNCHANGED <<up, taken, pc, end>>
      BY <2>1 DEF Server, ServerNext, ServerSends, ServerControls, ServerLeaves, ServerCloses,
                  uploads
    <3> QED BY <3>1 DEF DataInv, Holds
  <2>2. CASE ClientSends \/ ClientCloses \/ UNCHANGED vars
    <3>1. UNCHANGED <<up, taken, pc, end>>
      BY <2>2 DEF ClientSends, ClientCloses, vars, upstream, reader, uploads
    <3> QED BY <3>1 DEF DataInv, Holds
  <2> QED BY <1>5, <2>1, <2>2
<1>6. CASE Target \/ OpenUpstream \/ ClientEnds \/ Download \/ Idle \/ Interrupted \/ Deliver
  <2>1. /\ UNCHANGED <<up, taken>>
        /\ pc \notin {"close", "ended"}
        /\ end' = end \/ pc' \in {"close", "ended"}
    BY <1>6 DEF Target, OpenUpstream, ClientEnds, Download, Idle, Interrupted, Deliver, Ends,
                GivesUp, Reply, upstream, uploads
  <2>2. end # "error" /\ Holds(up, 0, taken) BY <2>1 DEF DataInv
  <2>3. Holds(up, 0, taken)' BY <2>1, <2>2 DEF Holds
  <2> QED BY <2>1, <2>2, <2>3 DEF DataInv
<1> QED BY <1>1, <1>2, <1>3, <1>4, <1>5, <1>6 DEF Next, Child

\* ... and read so, it is what the child took from the client, none of it
\* lost, repeated, or out of order, unless a write has failed.
THEOREM UploadWhole == Spec => []UploadIntact
<1>1. TunnelInv /\ UploadInv /\ [Next]_vars => UploadInv' BY UploadStep
<1>2. TunnelInv /\ UploadInv /\ DataInv /\ [Next]_vars => DataInv' BY DataStep
<1>3. UploadInv /\ DataInv => UploadIntact BY FramedMeans DEF UploadInv, DataInv, UploadIntact
<1> QED BY UploadInit, DataInit, TunnelTyped, <1>1, <1>2, <1>3, PTL DEF Spec

-----------------------------------------------------------------------------
(* What reaches the client.                                                *)

\* What the client has are the first of the data, and the child is at the place
\* behind them, and behind what it is about to deliver (ReaderProofs).
DownInv ==
  /\ pc \in {"target", "open", "request", "select", "response", "addons", "body", "deliver",
             "close", "ended"}
  /\ pc \in {"target", "open", "request"} => response_pending
  /\ received \in Seq(AnyBytes) /\ \A i \in 1..Len(received) : received[i] = Data[i]
  /\ PlaceInv(Len(received))

LEMMA DownInit == Init => DownInv
<1> SUFFICES ASSUME Init PROVE DownInv OBVIOUS
<1>1. /\ sock = <<>> /\ closed = "open" /\ conn = NewConn
      /\ addons \in 0..1 /\ sent = 0 /\ framing = "first"
      /\ pc = "target" /\ response_pending = TRUE /\ buffer = <<>> /\ received = <<>>
  BY DEF Init, ServerInit
<1>2. Len(<<>>) = 0 /\ <<>> \in Seq(AnyBytes) OBVIOUS
<1>3. TunnelInv BY TunnelInit
<1>4. addons \in {0, 1} BY <1>1
<1>5. PlaceInv(0) BY <1>1, <1>3, <1>4, PlaceInit
<1> QED BY <1>1, <1>2, <1>5 DEF DownInv

\* A client that gets what was read has got the next of the data.
LEMMA GetsNext ==
  ASSUME NEW s \in Seq(AnyBytes), NEW b \in Seq(AnyBytes),
         \A i \in 1..Len(s) : s[i] = Data[i],
         \A i \in 1..Len(b) : b[i] = Data[Len(s) + i]
  PROVE  LET t == s \o b IN
           /\ t \in Seq(AnyBytes) /\ Len(t) = Len(s) + Len(b)
           /\ \A i \in 1..Len(t) : t[i] = Data[i]
<1> DEFINE A == AnyBytes
           t == s \o b
           m == Len(s)
           k == Len(b)
           d == Data
<1>1. s \in Seq(A) /\ b \in Seq(A) /\ m \in Nat /\ k \in Nat BY LenProperties
<1>2. \A i \in 1..m : s[i] = d[i] OBVIOUS
<1>3. \A i \in 1..k : b[i] = d[m + i] OBVIOUS
<1> HIDE DEF A
<1>4. /\ t \in Seq(A) /\ Len(t) = m + k
      /\ \A i \in 1..(m + k) : t[i] = IF i <= m THEN s[i] ELSE b[i - m]
  BY <1>1, ConcatProperties
<1> HIDE DEF t, m, k, d
<1>5. ASSUME NEW i \in 1..(m + k) PROVE t[i] = d[i]
  <2>1. CASE i <= m
    <3>1. i \in 1..m BY <1>1, <2>1
    <3> QED BY <1>2, <1>4, <2>1, <3>1
  <2>2. CASE ~(i <= m)
    <3>1. i - m \in 1..k /\ m + (i - m) = i BY <1>1, <2>2
    <3> QED BY <1>3, <1>4, <2>2, <3>1
  <2> QED BY <2>1, <2>2
<1>6. \A i \in 1..Len(t) : t[i] = d[i] BY <1>4, <1>5
<1> QED BY <1>4, <1>6 DEF A, t, m, k, d

\* A step of the child's moves the one place, a step of the server's the other.
LEMMA DownStep ==
  ASSUME DownInv, [Next]_vars
  PROVE  DownInv'
<1>1. /\ pc \in {"target", "open", "request", "select", "response", "addons", "body", "deliver",
                 "close", "ended"}
      /\ pc \in {"target", "open", "request"} => response_pending
      /\ received \in Seq(AnyBytes) /\ \A i \in 1..Len(received) : received[i] = Data[i]
      /\ PlaceInv(Len(received))
  BY DEF DownInv
<1>2. PICK got \in Nat : got = Len(received) BY <1>1, LenProperties
<1>3. PlaceInv(got) /\ TunnelInv /\ PhaseInv(got) BY <1>1, <1>2 DEF PlaceInv
<1>4. TunnelInv' BY <1>3, TunnelStep
<1>5. BufferSize \in Nat \ {0} BY SizesAssumption
<1>6. ASSUME PlaceInv(got)', received' = received,
             pc' \in {"target", "open", "request", "select", "response", "addons", "body",
                      "deliver", "close", "ended"},
             pc' \in {"target", "open", "request"} => response_pending'
      PROVE  DownInv'
  <2>1. Data' = Data BY DEF Data
  <2>2. \A i \in 1..Len(received') : received'[i] = Data'[i] BY <1>1, <1>6, <2>1
  <2>3. got = Len(received') BY <1>2, <1>6
  <2>4. PlaceInv(Len(received))' BY <1>6, <2>3
  <2> QED BY <1>1, <1>6, <2>2, <2>4 DEF DownInv
<1>7. CASE Reads(BufferSize) /\ UNCHANGED <<received, uploads>>
  <2>1. PlaceInv(got)' BY <1>3, <1>4, <1>5, <1>7, ReadsPlace
  <2>2. pc' \in {"response", "addons", "body", "deliver", "close"} BY <1>7, ReadsWhere
  <2> QED BY <1>6, <1>7, <2>1, <2>2
<1>8. CASE Deliver
  <2>1. /\ pc = "deliver" /\ buffer' = <<>>
        /\ UNCHANGED <<config, sock, closed, conn, addons, sent, framing, response_pending>>
        /\ \/ received' = received \o buffer /\ pc' = "select"
           \/ received' = received /\ pc' = "close"
    BY <1>8 DEF Deliver, upstream, server, Ends
  <2>2. SameReads BY <2>1 DEF SameReads, SameFrame
  <2>3. CASE received' = received \o buffer /\ pc' = "select"
    <3>1. buffer \in Seq(AnyBytes) BY <1>3, BufferBytes
    <3>2. \A i \in 1..Len(buffer) : buffer[i] = Data[Len(received) + i]
      BY <1>1 DEF PlaceInv, GotInv
    <3>3. /\ received' \in Seq(AnyBytes) /\ Len(received') = Len(received) + Len(buffer)
          /\ \A i \in 1..Len(received') : received'[i] = Data[i]
      BY <1>1, <2>3, <3>1, <3>2, GetsNext
    <3>4. PICK more \in Nat : more = Len(received') /\ more = got + Len(buffer)
      BY <1>2, <3>3, LenProperties
    <3>5. PlaceInv(more)' BY <1>3, <1>4, <2>1, <2>2, <2>3, <3>4, DeliverPlace
    <3>6. PlaceInv(Len(received))' BY <3>4, <3>5
    <3>7. Data' = Data BY DEF Data
    <3> QED BY <2>3, <3>3, <3>6, <3>7 DEF DownInv
  <2>4. CASE received' = received /\ pc' = "close"
    <3>1. PlaceInv(got)' BY <1>3, <1>4, <2>1, <2>2, <2>4, DeliverPlace
    <3> QED BY <1>6, <2>4, <3>1
  <2> QED BY <2>1, <2>3, <2>4
<1>9. CASE SendRequest \/ Upload
  <2>1. /\ UNCHANGED <<config, sock, closed, addons, sent, framing, response_pending, buffer, received>>
        /\ conn' \in {conn, InitialWrote, BodyWrote}
        /\ pc \in {"request", "select"}
        /\ \/ pc' \in {"select", "close"}
           \/ pc' = "response" /\ response_pending
           \/ pc' = "body" /\ ~response_pending
    BY <1>9 DEF SendRequest, Upload, server, Ends, Reply
  <2>2. Alive /\ (Alive' => (pc' = "addons" <=> pc = "addons")) BY <2>1 DEF Alive
  <2>3. PhaseInv(got)'
    <3>1. buffer = <<>> BY <1>3, <2>1, <2>2 DEF PhaseInv
    <3> QED BY <1>3, <2>1, <3>1 DEF PhaseInv, Alive
  <2>4. SameReads BY <1>3, <2>1, WritesSame
  <2>5. PlaceInv(got)' BY <1>3, <1>4, <2>1, <2>2, <2>3, <2>4, StaysPlace
  <2> QED BY <1>6, <2>1, <2>5
<1>10. CASE Target \/ OpenUpstream \/ ClientEnds \/ Download \/ Idle \/ Interrupted
            \/ ClientSends \/ ClientCloses \/ UNCHANGED vars
            \/ (Close /\ UNCHANGED <<received, uploads>>)
  <2>1. /\ UNCHANGED <<config, sock, closed, conn, addons, sent, framing, response_pending, buffer, received>>
        /\ \/ pc' = pc
           \/ pc = "target" /\ pc' \in {"open", "ended"}
           \/ pc = "open" /\ pc' \in {"request", "ended"}
           \/ pc = "close" /\ pc' = "ended"
           \/ pc = "select" /\ pc' = "close"
           \/ pc = "select" /\ pc' = "response" /\ response_pending
           \/ pc = "select" /\ pc' = "body" /\ ~response_pending
    BY <1>10 DEF Target, OpenUpstream, GivesUp, ClientEnds, Download, Idle, Interrupted, Close,
                 ClientSends, ClientCloses, vars, upstream, server, reader, Ends, Reply
  <2>2. SameReads BY <2>1 DEF SameReads, SameFrame
  <2>3. PhaseInv(got)'
    <3>1. CASE pc' = pc BY <1>3, <2>1, <3>1 DEF PhaseInv, Alive
    <3>2. CASE pc' \in {"ended", "close"} BY <1>3, <2>1, <3>2 DEF PhaseInv, Alive
    <3>3. CASE pc \in {"target", "open"} /\ pc' \in {"open", "request"}
      BY <1>3, <2>1, <3>3 DEF PhaseInv, Alive
    <3>4. CASE pc = "select" /\ pc' = "response" /\ response_pending
      BY <1>3, <2>1, <3>4 DEF PhaseInv, Alive
    <3>5. CASE pc = "select" /\ pc' = "body" /\ ~response_pending
      BY <1>3, <2>1, <3>5 DEF PhaseInv, Alive
    <3> QED BY <2>1, <3>1, <3>2, <3>3, <3>4, <3>5
  <2>4. Alive' => Alive /\ (pc' = "addons" <=> pc = "addons") BY <2>1 DEF Alive
  <2>5. PlaceInv(got)' BY <1>3, <1>4, <2>1, <2>2, <2>3, <2>4, StaysPlace
  <2>6. /\ pc' \in {"target", "open", "request", "select", "response", "addons", "body", "deliver",
                    "close", "ended"}
        /\ pc' \in {"target", "open", "request"} => response_pending'
    BY <1>1, <2>1
  <2> QED BY <1>6, <2>1, <2>5, <2>6
<1>11. CASE Server
  <2>1. /\ ServerNext /\ Alive
        /\ UNCHANGED <<pc, response_pending, buffer, received>>
    BY <1>11 DEF Server, Alive
  <2>2. PlaceInv(got)' BY <1>3, <1>4, <2>1, ServerPlace
  <2> QED BY <1>1, <1>6, <2>1, <2>2
<1> QED BY <1>7, <1>8, <1>9, <1>10, <1>11 DEF Next, Child

\* What was delivered, and is about to be, are then the first of the data.
LEMMA Delivered == DownInv => DownloadIntact
<1> SUFFICES ASSUME DownInv PROVE DownloadIntact OBVIOUS
<1> DEFINE got == received \o buffer
           n   == Len(received) + Len(buffer)
           A   == AnyBytes
<1>1. /\ received \in Seq(A) /\ \A i \in 1..Len(received) : received[i] = Data[i]
      /\ TunnelInv /\ StreamInv /\ GotInv(Len(received))
  BY DEF DownInv, PlaceInv
<1>2. buffer \in Seq(A) BY <1>1, BufferBytes
<1>3. n \in Nat /\ n <= DataSent
  <2> HIDE DEF A
  <2>1. Len(received) \in Nat /\ Len(buffer) \in Nat BY <1>1, <1>2, LenProperties
  <2> QED BY <1>1, <2>1 DEF GotInv
<1>4. got \in Seq(A) /\ Len(got) = n /\ \A i \in 1..n : got[i] = Data[i]
  <2>1. \A i \in 1..Len(buffer) : buffer[i] = Data[Len(received) + i] BY <1>1 DEF GotInv
  <2>2. LET t == received \o buffer IN
          /\ t \in Seq(AnyBytes) /\ Len(t) = Len(received) + Len(buffer)
          /\ \A i \in 1..Len(t) : t[i] = Data[i]
    BY <1>1, <1>2, <2>1, GetsNext
  <2> QED BY <2>2
<1>5. DataSent <= DataMax /\ DataSent \in Int /\ Len(Data) = DataMax /\ DataMax \in Nat
  <2>1. /\ addons \in Nat /\ sent \in Nat /\ DataMax \in Nat /\ sent <= addons + 1 + DataMax
    BY <1>1, ServerAssumption DEF TunnelInv, StreamInv
  <2>2. Len(Response) = addons + 1 /\ Len(Data) = DataMax BY <2>1, PayloadIs
  <2> QED BY <2>1, <2>2 DEF DataSent
<1>6. Data \in Seq(A)
  <2> DEFINE T == Tokens("first")
  <2>1. Data \in Seq(T)
    <3>1. \A i \in 1..DataMax : [k |-> "data", v |-> i] \in T BY DEF Tokens
    <3> HIDE DEF T
    <3> QED BY <1>5, <3>1 DEF Data
  <2>2. T \subseteq A BY DEF A, AnyBytes, Bytes, Framings
  <2> HIDE DEF T, A
  <2> QED BY <2>1, <2>2, SeqMono
<1> HIDE DEF A, got, n
<1>7. got = Prefix(Data, n)
  <2> DEFINE s == Data
  <2>1. n \in Int /\ n >= 0 /\ n <= Len(s) /\ s \in Seq(A) BY <1>3, <1>5, <1>6
  <2>2. got \in Seq(A) /\ Len(got) = n /\ \A i \in 1..n : got[i] = s[i] BY <1>4
  <2> HIDE DEF s
  <2>3. Prefix(s, n) \in Seq(A) /\ Len(Prefix(s, n)) = n BY <2>1, PrefixType
  <2>4. \A i \in 1..n : Prefix(s, n)[i] = s[i]
    <3>1. CASE n = 0 BY <3>1
    <3>2. CASE n # 0
      <4>1. n \in 1..Len(s) BY <2>1, <3>2
      <4> QED BY <2>1, <4>1, PrefixIs
    <3> QED BY <3>1, <3>2
  <2>5. got = Prefix(s, n) BY <2>2, <2>3, <2>4, SeqEqual
  <2> QED BY <2>5 DEF s
<1>8. Len(got) <= DataSent /\ got = Prefix(Data, Len(got)) BY <1>3, <1>4, <1>7
<1> QED BY <1>8 DEF DownloadIntact, got

\* The client receives the server's data, all of them in order and nothing
\* else, over every transport, however the server cuts its frames into records
\* and the child's reads cut those (vision_body_read and all the reads below it).
THEOREM DownloadWhole == Spec => []DownloadIntact
<1>1. DownInv /\ [Next]_vars => DownInv' BY DownStep
<1> QED BY DownInit, <1>1, Delivered, PTL DEF Spec

-----------------------------------------------------------------------------
(* The end of the stream.                                                  *)

\* What of the relay's end is about the server's end.
EofInv ==
  /\ FlagInv
  /\ end = "eof" => ~Alive /\ (framing = "leaving" \/ Len(received) = DataSent)

\* A read that returns 0.
LEMMA EndIsEnd ==
  ASSUME NEW got \in Nat, LocalInv(got), FlagInv, ReadEnds, pc = "body",
         Ahead(Setting, Here(got), conn.ssl_pending, sock, closed, There)
  PROVE  framing = "leaving" \/ got = DataSent
<1>1. ~response_pending /\ Reading BY DEF LocalInv, PhaseInv, Alive, Reading
<1>2. framing = "leaving" \/ Exhausted(got)
  <2>1. CASE WantsRaw /\ AtEof /\ InPayload
    <3>1. conn.vision_read_direct => conn.vision_read_finished BY DEF LocalInv, FrameInv
    <3>2. ~ReadsFrame BY <2>1, <3>1 DEF InPayload, ReadsFrame, FrameRead, Unframing, Unframed
    <3> QED BY <2>1, <3>2, WaitsForNone
  <2>2. CASE CloseFrame \/ GrpcEnd BY <1>1, <2>2, GoodbyeIsEnd
  <2> QED BY <2>1, <2>2 DEF ReadEnds
<1> QED BY <1>1, <1>2 DEF Exhausted

\* Whichever read returns 0, no payload was left behind.
LEMMA EofStep ==
  ASSUME DownInv, EofInv, [Next]_vars
  PROVE  EofInv'
<1>1. TunnelInv /\ FlagInv BY DEF DownInv, PlaceInv, EofInv
<1>2. BufferSize \in Nat BY SizesAssumption
<1>3. FlagInv'
  <2>1. CASE Reads(BufferSize) BY <1>1, <1>2, <2>1, FlagStep
  <2>2. CASE Server
    <3>1. ServerNext /\ conn' = conn
      BY <2>2 DEF Server, ServerNext, ServerSends, ServerControls, ServerLeaves, ServerCloses
    <3>2. framing' = framing \/ framing # "leaving" BY <1>1, <3>1, LeavingStays
    <3> QED BY <1>1, <3>1, <3>2 DEF FlagInv
  <2>3. CASE SendRequest \/ Upload
    <3>1. framing' = framing /\ conn' \in {conn, InitialWrote, BodyWrote}
      BY <2>3 DEF SendRequest, Upload, server
    <3>2. SameGrpc(conn') BY <1>1, <3>1, WritesGrpc
    <3> QED BY <1>1, <3>1, <3>2 DEF FlagInv, SameGrpc
  <2>4. CASE ~(Reads(BufferSize) \/ Server \/ SendRequest \/ Upload)
    <3>1. framing' = framing /\ conn' = conn
      BY <2>4 DEF Next, Child, Target, OpenUpstream, ClientEnds, Download, Idle, Deliver,
                  Interrupted, Close, ClientSends, ClientCloses, vars, upstream, server
    <3> QED BY <1>1, <3>1 DEF FlagInv
  <2> QED BY <2>1, <2>2, <2>3, <2>4
<1>4. CASE end = "eof"
  <2>1. pc \in {"close", "ended"} /\ (framing = "leaving" \/ Len(received) = DataSent)
    BY <1>4 DEF EofInv, DownInv, Alive
  <2>2. ~Reads(BufferSize) BY <2>1, ReadsWhere
  <2>3. /\ UNCHANGED <<framing, received, sent, addons>>
        /\ pc' = pc \/ pc' = "ended"
    BY <2>1, <2>2 DEF Next, Child, Target, OpenUpstream, SendRequest, Upload, ClientEnds,
          Download, Idle, Deliver, Interrupted, Close, Server, ClientSends, ClientCloses, vars,
          server, reader
  <2>4. ~Alive' BY <2>1, <2>3 DEF Alive
  <2>5. DataSent' = DataSent BY <2>3 DEF DataSent, Response
  <2> QED BY <1>3, <2>1, <2>3, <2>4, <2>5 DEF EofInv, FlagInv
<1>5. CASE end # "eof" /\ end' = "eof"
  <2>1. ReadEnds /\ UNCHANGED received
    <3>1. CASE Reads(BufferSize) /\ UNCHANGED <<received, uploads>>
      BY <1>5, <3>1 DEF Reads, Below, ConsumeResponse, ConsumeAddons, ReadBody, ReadDirect,
            ReadHeader, ReadContent, ReadPadding, CompleteFrame, ReadFails, Fails, Ends
    <3>2. CASE ~(Reads(BufferSize) /\ UNCHANGED <<received, uploads>>)
      BY <1>5, <3>2 DEF Next, Child, Target, OpenUpstream, GivesUp, SendRequest, Upload,
            ClientEnds, Download, Idle, Deliver, Interrupted, Close, Server, ClientSends,
            ClientCloses, Ends, vars, reader
    <3> QED BY <3>1, <3>2
  <2>2. /\ pc = "body" /\ pc' = "close"
        /\ UNCHANGED <<framing, received, sent, addons>>
    BY <1>5, <2>1 DEF ReadEnds, Ends, server
  <2>3. PICK got \in Nat : got = Len(received) /\ PlaceInv(got)
    <3>1. received \in Seq(AnyBytes) /\ PlaceInv(Len(received)) BY DEF DownInv
    <3> QED BY <3>1, LenProperties
  <2>4. framing = "leaving" \/ Len(received) = DataSent
    <3>1. Alive BY <2>2 DEF Alive
    <3>2. LocalInv(got) /\ Ahead(Setting, Here(got), conn.ssl_pending, sock, closed, There)
      BY <2>3, <3>1, Local
    <3> QED BY <1>1, <2>1, <2>2, <2>3, <3>2, EndIsEnd
  <2>5. DataSent' = DataSent BY <2>2 DEF DataSent, Response
  <2>6. ~Alive' BY <2>2 DEF Alive
  <2> QED BY <1>3, <2>2, <2>4, <2>5, <2>6 DEF EofInv, FlagInv
<1>6. CASE end' # "eof" BY <1>3, <1>6 DEF EofInv, FlagInv
<1> QED BY <1>4, <1>5, <1>6

\* A new connection is not at its end.
LEMMA EofInit == Init => EofInv
BY DEF Init, EofInv, FlagInv, NewConn

\* A relay that ends well at the server's end of stream has delivered all the
\* server sent, unless the server had announced with GOAWAY that it leaves
\* (relay_connection, grpc_next_data_frame).
THEOREM EofWhole == Spec => []EofIsComplete
<1>1. Init => DownInv /\ EofInv BY DownInit, EofInit
<1>2. DownInv /\ EofInv /\ [Next]_vars => (DownInv /\ EofInv)' BY DownStep, EofStep
<1>3. EofInv => EofIsComplete BY DEF EofInv, EofIsComplete
<1> QED BY <1>1, <1>2, <1>3, PTL DEF Spec

-----------------------------------------------------------------------------
(* Counting what is unread: a token is at a place in a record.             *)

\* Sets of which one is the other's image.
LEMMA ImageCount ==
  ASSUME NEW S, IsFiniteSet(S), NEW T, NEW f \in [S -> T],
         \A a, b \in S : f[a] = f[b] => a = b,
         \A y \in T : \E x \in S : f[x] = y
  PROVE  IsFiniteSet(T) /\ Cardinality(T) = Cardinality(S)
<1>1. f \in Bijection(S, T) BY DEF Bijection, Injection, Surjection, IsInjective
<1> QED BY <1>1, FS_Bijection DEF ExistsBijection

\* Two sets that share nothing.
LEMMA SumCount ==
  ASSUME NEW S, IsFiniteSet(S), NEW T, IsFiniteSet(T), S \cap T = {}
  PROVE  IsFiniteSet(S \cup T) /\ Cardinality(S \cup T) = Cardinality(S) + Cardinality(T)
<1>1. Cardinality(S \cap T) = 0 BY FS_EmptySet
<1> QED BY <1>1, FS_Union, FS_CardinalityType

LEMMA InDataFinite ==
  ASSUME NEW s, Len(s) \in Nat
  PROVE  IsFiniteSet(InData(s)) /\ Cardinality(InData(s)) \in Nat
<1>1. 1 \in Int /\ Len(s) \in Int OBVIOUS
<1>2. IsFiniteSet(1..Len(s)) BY <1>1, FS_Interval
<1>3. InData(s) \in SUBSET (1..Len(s)) BY DEF InData
<1>4. IsFiniteSet(InData(s)) BY <1>2, <1>3, FS_Subset
<1> QED BY <1>4, FS_CardinalityType

\* The tokens of record j: the one that is being read is before the others.
At(pend, q, j) == IF j = 0 THEN pend ELSE q[j].tokens

\* Those in DATA frames, of all that is under way.
Left(pend, q) == UNION {{j} \X InData(At(pend, q, j)) : j \in 0..Len(q)}

LEMMA LeftIs ==
  ASSUME NEW pend, NEW q, Len(q) \in Nat, NEW z
  PROVE  z \in Left(pend, q) <=>
           \E j \in 0..Len(q) : \E i \in InData(At(pend, q, j)) : z = <<j, i>>
BY DEF Left

\* R has what S has, and the tokens s, at m in record j.
Grows(R, S, s, j, m) ==
  /\ \A z : z \in R <=> z \in S \/ \E i \in InData(s) : z = <<j, m + i>>
  /\ \A i \in InData(s) : <<j, m + i>> \notin S

\* Tokens that went into a record at the end.
LEMMA Added ==
  ASSUME NEW S, IsFiniteSet(S), NEW s, Len(s) \in Nat, NEW j, NEW m \in Nat,
         NEW R, Grows(R, S, s, j, m)
  PROVE  IsFiniteSet(R) /\ Cardinality(R) = Cardinality(S) + Cardinality(InData(s))
<1> DEFINE D == InData(s)
           T == {<<j, m + i>> : i \in D}
           f == [i \in D |-> <<j, m + i>>]
<1>1. IsFiniteSet(D) /\ \A i \in D : i \in Nat BY InDataFinite DEF InData
<1>2. R = S \cup T /\ S \cap T = {} BY DEF Grows
<1> HIDE DEF D
<1>3. f \in [D -> T] /\ \A y \in T : \E x \in D : f[x] = y OBVIOUS
<1>4. \A a, b \in D : f[a] = f[b] => a = b
  <2> SUFFICES ASSUME NEW a \in D, NEW b \in D, f[a] = f[b] PROVE a = b OBVIOUS
  <2>1. <<j, m + a>> = <<j, m + b>> OBVIOUS
  <2>2. m + a = m + b BY <2>1
  <2> QED BY <1>1, <2>2
<1> HIDE DEF T, f
<1>5. IsFiniteSet(T) /\ Cardinality(T) = Cardinality(D) BY <1>1, <1>3, <1>4, ImageCount
<1> QED BY <1>2, <1>5, SumCount DEF D

\* Of the first n tokens, those in DATA frames.
InFirst(s, n) == {i \in InData(s) : i <= n}

\* S has what f makes of R, and the first n of the tokens s, in record j.
Shrinks(R, S, s, j, n, f) ==
  /\ f \in [R -> S]
  /\ \A a, b \in R : f[a] = f[b] => a = b
  /\ \A z \in S : \/ \E i \in InData(s) : i <= n /\ z = <<j, i>>
                  \/ \E x \in R : f[x] = z
  /\ \A i \in InData(s) : i <= n => <<j, i>> \in S /\ \A x \in R : f[x] # <<j, i>>

\* Tokens that were read.
LEMMA Removed ==
  ASSUME NEW R, NEW S, IsFiniteSet(S), NEW j, NEW s, NEW n \in Nat, Len(s) \in Nat,
         NEW f, Shrinks(R, S, s, j, n, f)
  PROVE  /\ IsFiniteSet(R)
         /\ Cardinality(S) = Cardinality(R) + Cardinality(InFirst(s, n))
<1> DEFINE D == {i \in InData(s) : i <= n}
           G == {<<j, i>> : i \in D}
           g == [i \in D |-> <<j, i>>]
           T == {f[x] : x \in R}
<1>1. IsFiniteSet(D)
  <2>1. IsFiniteSet(InData(s)) BY InDataFinite
  <2>2. D \in SUBSET InData(s) OBVIOUS
  <2> QED BY <2>1, <2>2, FS_Subset
<1>2. S = T \cup G /\ T \cap G = {} BY DEF Shrinks
<1>0. IsFiniteSet(R)
  <2>1. f \in Injection(R, S) BY DEF Injection, IsInjective, Shrinks
  <2> QED BY <2>1, FS_Injection
<1> HIDE DEF D
<1>3. g \in [D -> G] /\ (\A y \in G : \E x \in D : g[x] = y)
      /\ \A a, b \in D : g[a] = g[b] => a = b
  OBVIOUS
<1>4. /\ f \in [R -> T] /\ \A y \in T : \E x \in R : f[x] = y
      /\ \A a, b \in R : f[a] = f[b] => a = b
  BY DEF Shrinks
<1> HIDE DEF G, g, T
<1>5. IsFiniteSet(G) /\ Cardinality(G) = Cardinality(D) BY <1>1, <1>3, ImageCount
<1>6. IsFiniteSet(T) /\ Cardinality(T) = Cardinality(R) BY <1>0, <1>4, ImageCount
<1> QED BY <1>0, <1>2, <1>5, <1>6, SumCount DEF D, InFirst

\* Of two runs of tokens, those in DATA frames.
LEMMA InDataConcat ==
  ASSUME NEW T, NEW u \in Seq(T), NEW s \in Seq(T)
  PROVE  /\ \A i : i \in InData(u \o s) <=>
                  i \in InData(u) \/ \E a \in InData(s) : i = Len(u) + a
         /\ Len(u) \in Nat /\ Len(s) \in Nat /\ Len(u \o s) = Len(u) + Len(s)
<1> DEFINE m == Len(u)
           v == u \o s
<1>0. /\ m \in Nat /\ Len(s) \in Nat /\ Len(v) = m + Len(s)
      /\ \A i \in 1..(m + Len(s)) : v[i] = IF i <= m THEN u[i] ELSE s[i - m]
  BY LenProperties, ConcatProperties
<1>1. ASSUME NEW i \in InData(v)
      PROVE  i \in InData(u) \/ \E a \in InData(s) : i = m + a
  <2>1. i \in 1..(m + Len(s)) /\ v[i].k # "h2" BY <1>0 DEF InData
  <2>2. CASE i <= m
    <3>1. i \in 1..m /\ v[i] = u[i] BY <1>0, <2>1, <2>2
    <3> QED BY <2>1, <3>1 DEF InData
  <2>3. CASE ~(i <= m)
    <3>1. v[i] = s[i - m] BY <1>0, <2>1, <2>3
    <3>2. i - m \in 1..Len(s) /\ i = m + (i - m)
      <4> DEFINE l == Len(s)
      <4>1. m \in Nat /\ l \in Nat /\ i \in 1..(m + l) BY <1>0, <2>1
      <4> HIDE DEF m, l
      <4>2. i - m \in 1..l /\ i = m + (i - m) BY <2>3, <4>1
      <4> QED BY <4>2 DEF l
    <3>3. i - m \in InData(s) BY <2>1, <3>1, <3>2 DEF InData
    <3> QED BY <3>2, <3>3
  <2> QED BY <2>2, <2>3
<1>2. ASSUME NEW i \in InData(u) PROVE i \in InData(v)
  <2>1. i \in 1..m /\ u[i].k # "h2" BY DEF InData
  <2>2. i \in 1..(m + Len(s)) /\ i <= m BY <1>0, <2>1
  <2>3. v[i] = u[i] BY <1>0, <2>2
  <2> HIDE DEF v
  <2> QED BY <1>0, <2>1, <2>2, <2>3 DEF InData
<1>3. ASSUME NEW a \in InData(s) PROVE m + a \in InData(v)
  <2>1. a \in 1..Len(s) /\ s[a].k # "h2" BY DEF InData
  <2>2. m + a \in 1..(m + Len(s)) /\ ~(m + a <= m) /\ (m + a) - m = a BY <1>0, <2>1
  <2>3. v[m + a] = s[a] BY <1>0, <2>2
  <2> HIDE DEF v
  <2> QED BY <1>0, <2>1, <2>2, <2>3 DEF InData
<1> QED BY <1>0, <1>1, <1>2, <1>3

\* A new record.
LEMMA LeftAppend ==
  ASSUME NEW pend, NEW S, NEW q \in Seq(S), NEW r \in S, Len(r.tokens) \in Nat,
         IsFiniteSet(Left(pend, q))
  PROVE  /\ IsFiniteSet(Left(pend, Append(q, r)))
         /\ Cardinality(Left(pend, Append(q, r))) =
              Cardinality(Left(pend, q)) + Cardinality(InData(r.tokens))
<1> DEFINE q2 == Append(q, r)
           k  == Len(q)
           j  == k + 1
           s  == r.tokens
           R  == Left(pend, q2)
           L  == Left(pend, q)
           m  == 0
<1>1. /\ k \in Nat /\ Len(q2) = j /\ q2[j] = r
      /\ \A i \in 1..k : q2[i] = q[i]
  BY LenProperties, AppendProperties
<1> HIDE DEF q2, k
<1>2. At(pend, q2, j) = s /\ \A i \in 0..k : At(pend, q2, i) = At(pend, q, i)
  BY <1>1 DEF At
<1>3. \A i \in 0..j : i \in 0..k \/ i = j BY <1>1
<1>4. j \in 0..j /\ j \notin 0..k /\ (\A i \in 0..k : i \in 0..j) BY <1>1
<1>5. Len(q) = k BY DEF k
<1>6. \A i \in InData(s) : m + i = i BY DEF InData
<1> HIDE DEF s, j, m
<1>7. \A z : z \in L <=> \E a \in 0..k : \E i \in InData(At(pend, q, a)) : z = <<a, i>>
  BY <1>1, <1>5, LeftIs
<1>8. \A z : z \in R <=> \E a \in 0..j : \E i \in InData(At(pend, q2, a)) : z = <<a, i>>
  <2>1. j \in Nat BY <1>1 DEF j
  <2> QED BY <1>1, <2>1, LeftIs
<1> HIDE DEF R, L
<1>9. \A z : z \in R <=> z \in L \/ \E i \in InData(s) : z = <<j, m + i>>
  BY <1>2, <1>3, <1>4, <1>6, <1>7, <1>8
<1>10. \A i \in InData(s) : <<j, m + i>> \notin L BY <1>4, <1>7
<1>11. Len(s) \in Nat BY DEF s
<1>12. IsFiniteSet(L) BY DEF L
<1>13. m \in Nat BY DEF m
<1>14. Grows(R, L, s, j, m) BY <1>9, <1>10 DEF Grows
<1>15. IsFiniteSet(R) /\ Cardinality(R) = Cardinality(L) + Cardinality(InData(s))
  BY <1>11, <1>12, <1>13, <1>14, Added
<1> QED BY <1>15 DEF R, L, s, q2

\* The last record is longer.
Extended(q, r) == [q EXCEPT ![Len(q)] = r]

LEMMA LeftLonger ==
  ASSUME NEW pend, NEW S, NEW q \in Seq(S), q # <<>>,
         NEW T, q[Len(q)].tokens \in Seq(T), NEW s \in Seq(T),
         NEW r, r.tokens = q[Len(q)].tokens \o s,
         IsFiniteSet(Left(pend, q))
  PROVE  /\ IsFiniteSet(Left(pend, Extended(q, r)))
         /\ Cardinality(Left(pend, Extended(q, r))) =
              Cardinality(Left(pend, q)) + Cardinality(InData(s))
<1> DEFINE j == Len(q)
           q2 == [q EXCEPT ![j] = r]
           u == q[j].tokens
           m == Len(u)
           v == u \o s
           R == Left(pend, q2)
           L == Left(pend, q)
<1>1. j \in Nat /\ j > 0 /\ j \in 1..j /\ q \in [1..j -> S] BY LenProperties, EmptySeq
<1>2. j \in 1..j BY <1>1
<1>3. u \in Seq(T) OBVIOUS
<1>4. /\ m \in Nat /\ Len(s) \in Nat /\ Len(v) = m + Len(s)
      /\ \A i \in 1..(m + Len(s)) : v[i] = IF i <= m THEN u[i] ELSE s[i - m]
  BY <1>3, LenProperties, ConcatProperties
<1>5. q2[j].tokens = v /\ (\A i \in 1..j : i # j => q2[i] = q[i]) /\ Len(q2) = j
  <2>1. q2 \in [1..j -> S \cup {r}] BY <1>1
  <2>2. q2 \in Seq(S \cup {r}) /\ Len(q2) = j BY <1>1, <2>1
  <2> QED BY <1>1, <2>2
<1> HIDE DEF q2
<1>6. /\ At(pend, q2, j) = v /\ At(pend, q, j) = u
      /\ \A i \in 0..j : i # j => At(pend, q2, i) = At(pend, q, i)
  <2> HIDE DEF v
  <2>1. j # 0 /\ j \in Nat BY <1>1
  <2>2. u = q[j].tokens OBVIOUS
  <2> HIDE DEF u
  <2>3. At(pend, q2, j) = v BY <1>5, <2>1 DEF At
  <2>4. At(pend, q, j) = u BY <2>1, <2>2 DEF At
  <2>5. ASSUME NEW i \in 0..j, i # j PROVE At(pend, q2, i) = At(pend, q, i)
    <3>1. i = 0 \/ i \in 1..j BY <2>1, <2>5
    <3> HIDE DEF j
    <3> QED BY <1>5, <2>5, <3>1 DEF At
  <2> QED BY <2>3, <2>4, <2>5
<1>7. \A i : i \in InData(v) <=> i \in InData(u) \/ \E a \in InData(s) : i = m + a
  BY <1>3, InDataConcat
<1>8. \A i \in InData(s) : m + i \notin InData(u)
  BY <1>4 DEF InData
<1>9. j \in 0..j BY <1>1
<1> HIDE DEF u, v
<1>10. \A z : z \in L <=> \E a \in 0..j : \E i \in InData(At(pend, q, a)) : z = <<a, i>>
  BY <1>1, LeftIs
<1>11. \A z : z \in R <=> \E a \in 0..j : \E i \in InData(At(pend, q2, a)) : z = <<a, i>>
  <2>1. Len(q2) = j /\ Len(q2) \in Nat BY <1>1, <1>5
  <2>2. \A z : z \in R <=>
               \E a \in 0..Len(q2) : \E i \in InData(At(pend, q2, a)) : z = <<a, i>>
    BY <2>1, LeftIs
  <2> HIDE DEF R, j
  <2> QED BY <2>1, <2>2
<1>16. m \in Nat BY <1>4
<1> HIDE DEF R, L, m, j
<1>12. \A z : z \in R <=> z \in L \/ \E i \in InData(s) : z = <<j, m + i>>
  <2>1. \A i : i \in InData(At(pend, q2, j)) <=>
               i \in InData(At(pend, q, j)) \/ \E a \in InData(s) : i = m + a
    BY <1>6, <1>7
  <2>2. \A a \in 0..j : a # j => InData(At(pend, q2, a)) = InData(At(pend, q, a)) BY <1>6
  <2> DEFINE I(a)  == InData(At(pend, q, a))
             I2(a) == InData(At(pend, q2, a))
             D     == InData(s)
  <2>3. /\ \A z : z \in L <=> \E a \in 0..j : \E i \in I(a) : z = <<a, i>>
        /\ \A z : z \in R <=> \E a \in 0..j : \E i \in I2(a) : z = <<a, i>>
        /\ \A i : i \in I2(j) <=> i \in I(j) \/ \E a \in D : i = m + a
        /\ \A a \in 0..j : a # j => I2(a) = I(a)
    BY <1>10, <1>11, <2>1, <2>2
  <2> HIDE DEF I, I2, D
  <2>4. \A z : z \in R <=> z \in L \/ \E i \in D : z = <<j, m + i>>
    <3> TAKE z
    <3>1. ASSUME z \in R PROVE z \in L \/ \E i \in D : z = <<j, m + i>>
      <4>1. PICK a \in 0..j : \E i \in I2(a) : z = <<a, i>> BY <2>3, <3>1
      <4>2. CASE a = j BY <2>3, <4>1, <4>2
      <4>3. CASE a # j BY <2>3, <4>1, <4>3
      <4> QED BY <4>2, <4>3
    <3>2. ASSUME z \in L PROVE z \in R
      <4>1. PICK a \in 0..j : \E i \in I(a) : z = <<a, i>> BY <2>3, <3>2
      <4>2. CASE a = j BY <2>3, <4>1, <4>2
      <4>3. CASE a # j BY <2>3, <4>1, <4>3
      <4> QED BY <4>2, <4>3
    <3>3. ASSUME NEW i \in D PROVE <<j, m + i>> \in R BY <1>9, <2>3
    <3> QED BY <3>1, <3>2, <3>3
  <2> QED BY <2>4 DEF D
<1>13. \A i \in InData(s) : <<j, m + i>> \notin L BY <1>6, <1>8, <1>10
<1>14. IsFiniteSet(L) BY DEF L
<1>17. Grows(R, L, s, j, m) BY <1>12, <1>13 DEF Grows
<1>18. Len(s) \in Nat BY LenProperties
<1>15. IsFiniteSet(R) /\ Cardinality(R) = Cardinality(L) + Cardinality(InData(s))
  BY <1>14, <1>16, <1>17, <1>18, Added
<1> QED BY <1>15 DEF R, L, q2, j, Extended

\* What is dropped.
LEMMA DropData ==
  ASSUME NEW T, NEW s \in Seq(T), NEW n \in 0..Len(s)
  PROVE  /\ \A i \in InData(Drop(s, n)) : i \in Nat /\ i + n \in InData(s) /\ ~(i + n <= n)
         /\ \A i \in InData(s) : i \in Nat /\ (~(i <= n) => i - n \in InData(Drop(s, n)))
         /\ Len(Drop(s, n)) \in Nat
<1> DEFINE a == n + 1
           b == Len(s)
           d == Drop(s, n)
<1>1. /\ a \in Int /\ b \in Int /\ b \in Nat /\ b - a + 1 = b - n /\ n \in Nat /\ n <= b
      /\ \A i \in 1..(b - n) : a + i - 1 = i + n
  BY LenProperties
<1>2. \A i \in a..b : s[i] \in T
  <2> TAKE i \in a..b
  <2>1. i \in 1..Len(s) BY <1>1
  <2> QED BY <2>1, LenProperties
<1> HIDE DEF a
<1>3. /\ Len(SubSeq(s, a, b)) = IF a <= b THEN b - a + 1 ELSE 0
      /\ \A i \in 1..(b - a + 1) : SubSeq(s, a, b)[i] = s[a + i - 1]
  <2> HIDE DEF b
  <2> QED BY <1>1, <1>2, SubSeqProperties
<1>4. Len(d) = b - n /\ \A i \in 1..(b - n) : d[i] = s[i + n]
  <2>1. d = SubSeq(s, a, b) BY DEF Drop, a
  <2> HIDE DEF d, b
  <2>2. ~(a <= b) => b - n = 0
    <3>1. a = n + 1 BY DEF a
    <3> QED BY <1>1, <3>1
  <2> QED BY <1>1, <1>3, <2>1, <2>2
<1> HIDE DEF d, b
<1>5. ASSUME NEW i \in InData(d) PROVE i \in Nat /\ i + n \in InData(s) /\ ~(i + n <= n)
  <2>1. i \in 1..(b - n) /\ d[i].k # "h2" BY <1>4 DEF InData
  <2>2. i \in Nat /\ i + n \in 1..b /\ ~(i + n <= n) BY <1>1, <2>1
  <2> QED BY <1>4, <2>1, <2>2 DEF InData, b
<1>6. ASSUME NEW i \in InData(s) PROVE i \in Nat /\ (~(i <= n) => i - n \in InData(d))
  <2>1. i \in 1..b /\ s[i].k # "h2" BY DEF InData, b
  <2>2. i \in Nat /\ (~(i <= n) => i - n \in 1..(b - n) /\ (i - n) + n = i) BY <1>1, <2>1
  <2> QED BY <1>4, <2>1, <2>2 DEF InData
<1> QED BY <1>1, <1>4, <1>5, <1>6 DEF d

\* The record that is being read.
LEMMA LeftPending ==
  ASSUME NEW T, NEW pend \in Seq(T), NEW n \in 0..Len(pend), NEW q, Len(q) \in Nat,
         IsFiniteSet(Left(pend, q))
  PROVE  /\ IsFiniteSet(Left(Drop(pend, n), q))
         /\ Cardinality(Left(pend, q)) =
              Cardinality(Left(Drop(pend, n), q)) + Cardinality(InFirst(pend, n))
<1> DEFINE d == Drop(pend, n)
           S == Left(pend, q)
           R == Left(d, q)
           j == 0
           D == InData(pend)
           E == InData(d)
           I(a) == InData(q[a].tokens)
           k == Len(q)
           f == [x \in R |-> IF x[1] = j THEN <<j, x[2] + n>> ELSE x]
<1>1. /\ \A i \in E : i \in Nat /\ i + n \in D /\ ~(i + n <= n)
      /\ \A i \in D : i \in Nat /\ (~(i <= n) => i - n \in E)
  BY DropData
<1>2. n \in Nat /\ Len(pend) \in Nat BY LenProperties
<1>3. \A z : z \in S <=> (\E i \in D : z = <<j, i>>) \/ \E a \in 1..k : \E i \in I(a) : z = <<a, i>>
  <2>1. \A z : z \in S <=> \E a \in 0..k : \E i \in InData(At(pend, q, a)) : z = <<a, i>>
    BY LeftIs
  <2>2. At(pend, q, j) = pend /\ j \in 0..k /\ (\A a \in 1..k : At(pend, q, a) = q[a].tokens)
        /\ (\A a \in 0..k : a = j \/ a \in 1..k) /\ (\A a \in 1..k : a \in 0..k)
    BY DEF At
  <2> HIDE DEF S, j, k
  <2> QED BY <2>1, <2>2
<1>4. \A z : z \in R <=> (\E i \in E : z = <<j, i>>) \/ \E a \in 1..k : \E i \in I(a) : z = <<a, i>>
  <2>1. \A z : z \in R <=> \E a \in 0..k : \E i \in InData(At(d, q, a)) : z = <<a, i>>
    BY LeftIs
  <2>2. At(d, q, j) = d /\ j \in 0..k /\ (\A a \in 1..k : At(d, q, a) = q[a].tokens)
        /\ (\A a \in 0..k : a = j \/ a \in 1..k) /\ (\A a \in 1..k : a \in 0..k)
    BY DEF At
  <2> HIDE DEF R, j, k, d
  <2> QED BY <2>1, <2>2
<1>5. \A a \in 1..k : a # j OBVIOUS
<1> HIDE DEF R, S, D, E, I, j, k
<1>6. \A i \in E : <<j, i>> \in R /\ f[<<j, i>>] = <<j, i + n>> BY <1>4
<1>7. \A a \in 1..k : \A i \in I(a) : <<a, i>> \in R /\ f[<<a, i>>] = <<a, i>> BY <1>4, <1>5
<1>15. f \in [R -> {f[x] : x \in R}] OBVIOUS
<1> HIDE DEF f
<1>8. f \in [R -> S]
  <2> SUFFICES ASSUME NEW x \in R PROVE f[x] \in S BY <1>15
  <2>1. CASE \E i \in E : x = <<j, i>> BY <1>1, <1>3, <1>6, <2>1
  <2>2. CASE \E a \in 1..k : \E i \in I(a) : x = <<a, i>> BY <1>3, <1>7, <2>2
  <2> QED BY <1>4, <2>1, <2>2
<1>16. \A i \in E, a \in 1..k : \A l \in I(a) : f[<<j, i>>] # f[<<a, l>>]
  <2> SUFFICES ASSUME NEW i \in E, NEW a \in 1..k, NEW l \in I(a),
                      f[<<j, i>>] = f[<<a, l>>]
               PROVE  FALSE
    OBVIOUS
  <2>1. <<j, i + n>> = <<a, l>> BY <1>6, <1>7
  <2>2. j = a BY <2>1
  <2> QED BY <1>5, <2>2
<1>9. \A x, y \in R : f[x] = f[y] => x = y
  <2> SUFFICES ASSUME NEW x \in R, NEW y \in R, f[x] = f[y] PROVE x = y OBVIOUS
  <2>1. CASE (\E i \in E : x = <<j, i>>) /\ \E i \in E : y = <<j, i>>
    <3>1. PICK i \in E, l \in E : x = <<j, i>> /\ y = <<j, l>> BY <2>1
    <3>2. <<j, i + n>> = <<j, l + n>> BY <1>6, <3>1
    <3>3. i + n = l + n BY <3>2
    <3>4. i \in Nat /\ l \in Nat BY <1>1
    <3>5. i = l BY <1>2, <3>3, <3>4
    <3> QED BY <3>1, <3>5
  <2>2. CASE /\ \E a \in 1..k : \E i \in I(a) : x = <<a, i>>
             /\ \E a \in 1..k : \E i \in I(a) : y = <<a, i>>
    BY <1>7, <2>2
  <2>3. CASE (\E i \in E : x = <<j, i>>) /\ \E a \in 1..k : \E i \in I(a) : y = <<a, i>>
    BY <1>16, <2>3
  <2>4. CASE (\E i \in E : y = <<j, i>>) /\ \E a \in 1..k : \E i \in I(a) : x = <<a, i>>
    BY <1>16, <2>4
  <2> QED BY <1>4, <2>1, <2>2, <2>3, <2>4
<1>10. ASSUME NEW z \in S
       PROVE  (\E i \in D : i <= n /\ z = <<j, i>>) \/ \E x \in R : f[x] = z
  <2>1. CASE \E i \in D : z = <<j, i>>
    <3>1. PICK i \in D : z = <<j, i>> BY <2>1
    <3>2. CASE ~(i <= n)
      <4>1. i - n \in E /\ (i - n) + n = i BY <1>1, <1>2, <3>2
      <4> QED BY <1>6, <3>1, <4>1
    <3> QED BY <3>1, <3>2
  <2>2. CASE \E a \in 1..k : \E i \in I(a) : z = <<a, i>> BY <1>7, <2>2
  <2> QED BY <1>3, <2>1, <2>2
<1>11. ASSUME NEW i \in D, i <= n PROVE <<j, i>> \in S /\ \A x \in R : f[x] # <<j, i>>
  <2>1. <<j, i>> \in S BY <1>3
  <2>2. ASSUME NEW x \in R, f[x] = <<j, i>> PROVE FALSE
    <3>1. CASE \E l \in E : x = <<j, l>>
      <4>1. PICK l \in E : x = <<j, l>> BY <3>1
      <4>2. <<j, l + n>> = <<j, i>> BY <1>6, <2>2, <4>1
      <4>3. l + n = i BY <4>2
      <4> QED BY <1>1, <1>11, <4>3
    <3>2. CASE \E a \in 1..k : \E l \in I(a) : x = <<a, l>>
      <4>1. PICK a \in 1..k : \E l \in I(a) : x = <<a, l>> BY <3>2
      <4>4. PICK l \in I(a) : x = <<a, l>> BY <4>1
      <4>2. <<a, l>> = <<j, i>> BY <1>7, <2>2, <4>4
      <4>3. a = j BY <4>2
      <4> QED BY <1>5, <4>3
    <3> QED BY <1>4, <3>1, <3>2
  <2> QED BY <2>1, <2>2
<1>12. Shrinks(R, S, pend, j, n, f) BY <1>8, <1>9, <1>10, <1>11 DEF Shrinks, D
<1>13. IsFiniteSet(S) BY DEF S
<1>14. /\ IsFiniteSet(R)
       /\ Cardinality(S) = Cardinality(R) + Cardinality(InFirst(pend, n))
  BY <1>2, <1>12, <1>13, Removed
<1> QED BY <1>14 DEF R, S

\* A record is taken from the socket.
LEMMA LeftNext ==
  ASSUME NEW S, NEW q \in Seq(S), q # <<>>, IsFiniteSet(Left(<<>>, q))
  PROVE  /\ IsFiniteSet(Left(Head(q).tokens, Tail(q)))
         /\ Cardinality(Left(Head(q).tokens, Tail(q))) = Cardinality(Left(<<>>, q))
<1> DEFINE h == Head(q).tokens
           t == Tail(q)
           k == Len(q)
           e == <<>>
           A == Left(e, q)
           B == Left(h, t)
           f == [x \in A |-> <<x[1] - 1, x[2]>>]
<1>1. /\ k \in Nat /\ k > 0 /\ Len(t) = k - 1 /\ Head(q) = q[1]
      /\ \A i \in 1..(k - 1) : t[i] = q[i + 1]
  BY LenProperties, EmptySeq, HeadTailProperties
<1>2. InData(e) = {} BY DEF InData
<1>3. At(e, q, 0) = e BY DEF At
<1>4. \A a \in 1..k : At(e, q, a) = q[a].tokens /\ a \in 0..k /\ a - 1 \in 0..(k - 1)
  BY <1>1 DEF At
<1>5. \A a \in 0..(k - 1) : /\ a + 1 \in 1..k /\ (a + 1) - 1 = a
                            /\ At(h, t, a) = q[a + 1].tokens
  <2> TAKE a \in 0..(k - 1)
  <2>1. a + 1 \in 1..k /\ (a + 1) - 1 = a /\ (a = 0 \/ a \in 1..(k - 1)) BY <1>1
  <2>2. CASE a = 0 BY <1>1, <2>2 DEF At
  <2>3. CASE a # 0
    <3>1. t[a] = q[a + 1] BY <1>1, <2>1, <2>3
    <3> HIDE DEF t, h
    <3> QED BY <2>1, <2>3, <3>1 DEF At
  <2> QED BY <2>1, <2>2, <2>3
<1>6. \A a \in 0..k : a = 0 \/ a \in 1..k BY <1>1
<1>7. \A z : z \in A <=> \E a \in 0..k : \E i \in InData(At(e, q, a)) : z = <<a, i>>
  BY <1>1, LeftIs
<1>8. \A z : z \in B <=> \E a \in 0..(k - 1) : \E i \in InData(At(h, t, a)) : z = <<a, i>>
  <2>1. Len(t) = k - 1 /\ k - 1 \in Nat BY <1>1
  <2> HIDE DEF t, h, k
  <2> QED BY <2>1, LeftIs
<1>9. IsFiniteSet(A) OBVIOUS
<1> HIDE DEF A, B, h, t, e
<1> DEFINE I(a) == InData(q[a].tokens)
<1>10. \A z : z \in A <=> \E a \in 1..k : \E i \in I(a) : z = <<a, i>>
  BY <1>2, <1>3, <1>4, <1>6, <1>7
<1>11. \A z : z \in B <=> \E a \in 0..(k - 1) : \E i \in I(a + 1) : z = <<a, i>>
  BY <1>5, <1>8
<1>12. \A a \in 1..k : a \in Int /\ a - 1 \in 0..(k - 1) /\ (a - 1) + 1 = a BY <1>1
<1> HIDE DEF I
<1>13. \A a \in 1..k : \A i \in I(a) : <<a, i>> \in A /\ f[<<a, i>>] = <<a - 1, i>>
  BY <1>10
<1>14. f \in [A -> {f[x] : x \in A}] OBVIOUS
<1> HIDE DEF f, k
<1>15. \A x \in A : f[x] \in B
  <2> SUFFICES ASSUME NEW x \in A PROVE f[x] \in B OBVIOUS
  <2>1. PICK a \in 1..k : \E i \in I(a) : x = <<a, i>> BY <1>10
  <2>2. PICK i \in I(a) : x = <<a, i>> BY <2>1
  <2>3. f[x] = <<a - 1, i>> BY <1>13, <2>2
  <2>4. a - 1 \in 0..(k - 1) /\ I((a - 1) + 1) = I(a) BY <1>12
  <2> QED BY <1>11, <2>2, <2>3, <2>4
<1>16. f \in [A -> B] BY <1>14, <1>15
<1>17. ASSUME NEW x \in A, NEW y \in A, f[x] = f[y] PROVE x = y
  <2>1. PICK a \in 1..k : \E i \in I(a) : x = <<a, i>> BY <1>10
  <2>2. PICK i \in I(a) : x = <<a, i>> BY <2>1
  <2>3. PICK b \in 1..k : \E l \in I(b) : y = <<b, l>> BY <1>10
  <2>4. PICK l \in I(b) : y = <<b, l>> BY <2>3
  <2>5. <<a - 1, i>> = <<b - 1, l>> BY <1>13, <1>17, <2>2, <2>4
  <2>6. a - 1 = b - 1 /\ i = l BY <2>5
  <2>7. a = b BY <1>12, <2>6
  <2> QED BY <2>2, <2>4, <2>6, <2>7
<1>18. ASSUME NEW z \in B PROVE \E x \in A : f[x] = z
  <2>1. PICK a \in 0..(k - 1) : \E i \in I(a + 1) : z = <<a, i>> BY <1>11
  <2>2. PICK i \in I(a + 1) : z = <<a, i>> BY <2>1
  <2>3. a + 1 \in 1..k /\ (a + 1) - 1 = a BY <1>5
  <2>4. <<a + 1, i>> \in A /\ f[<<a + 1, i>>] = <<(a + 1) - 1, i>> BY <1>13, <2>2, <2>3
  <2> QED BY <2>2, <2>3, <2>4
<1>19. IsFiniteSet(B) /\ Cardinality(B) = Cardinality(A)
  BY <1>9, <1>16, <1>17, <1>18, ImageCount
<1> QED BY <1>19 DEF A, B, h, t, e

\* A read of n tokens takes those of DATA frames among the first n.
LEMMA RawCount ==
  ASSUME TunnelInv, config.tls, Raw # <<>>, NEW n \in 1..Len(Raw),
         IsFiniteSet(Left(conn.ssl_pending, sock))
  PROVE  /\ IsFiniteSet(Left(RawTook(n).ssl_pending, RawTookSock(n)))
         /\ Cardinality(Left(conn.ssl_pending, sock)) =
              Cardinality(Left(RawTook(n).ssl_pending, RawTookSock(n)))
                + Cardinality(InFirst(Raw, n))
<1> DEFINE T == Tokens(framing)
           p == Drop(Raw, n)
<1>1. /\ conn \in Conns(framing) /\ conn.ssl_pending \in Seq(T) /\ sock \in Seq(Records(framing))
      /\ Raw \in Seq(T)
  BY LayersType DEF TunnelInv, Conns
<1>2. RawTook(n).ssl_pending = p
  <2>1. RawTook(n) = [conn EXCEPT !.ssl_pending = p] BY DEF RawTook
  <2> HIDE DEF p
  <2> QED BY <1>1, <2>1 DEF Conns
<1>3. n \in 0..Len(Raw)
  <2> DEFINE s == Raw
  <2>1. s \in Seq(T) /\ n \in 1..Len(s) BY <1>1
  <2> HIDE DEF s, T
  <2>2. Len(s) \in Nat BY <2>1, LenProperties
  <2>3. n \in 0..Len(s) BY <2>1, <2>2
  <2> QED BY <2>3 DEF s
<1>4. CASE conn.ssl_pending # <<>>
  <2>1. Raw = conn.ssl_pending /\ RawTookSock(n) = sock BY <1>4 DEF Raw, RawTookSock
  <2> DEFINE s == conn.ssl_pending
  <2>2. s \in Seq(T) /\ n \in 0..Len(s) /\ Len(sock) \in Nat /\ IsFiniteSet(Left(s, sock))
    BY <1>1, <1>3, <2>1, LenProperties
  <2>3. p = Drop(s, n) BY <2>1
  <2> HIDE DEF s, T, p
  <2>4. /\ IsFiniteSet(Left(p, sock))
        /\ Cardinality(Left(s, sock)) = Cardinality(Left(p, sock)) + Cardinality(InFirst(s, n))
    BY <2>2, <2>3, LeftPending
  <2> QED BY <1>2, <2>1, <2>4 DEF s
<1>5. CASE conn.ssl_pending = <<>>
  <2> DEFINE s == Head(sock).tokens
             q == Tail(sock)
  <2>1. sock # <<>> /\ Raw = s /\ RawTookSock(n) = q
    BY <1>5 DEF Raw, Arrived, RawTookSock
  <2>2. s \in Seq(T) /\ n \in 0..Len(s) BY <1>1, <1>3, <2>1
  <2>3. q \in Seq(Records(framing)) /\ Len(q) \in Nat
    BY <1>1, <2>1, HeadTailProperties, LenProperties
  <2>4. /\ IsFiniteSet(Left(s, q))
        /\ Cardinality(Left(s, q)) = Cardinality(Left(<<>>, sock))
    BY <1>1, <1>5, <2>1, LeftNext
  <2>5. p = Drop(s, n) BY <2>1
  <2> HIDE DEF s, q, T, p
  <2>6. /\ IsFiniteSet(Left(p, q))
        /\ Cardinality(Left(s, q)) = Cardinality(Left(p, q)) + Cardinality(InFirst(s, n))
    BY <2>2, <2>3, <2>4, <2>5, LeftPending
  <2> QED BY <1>2, <1>5, <2>1, <2>4, <2>6
<1> QED BY <1>4, <1>5

\* The first token is a frame's header ...
LEMMA FirstHeader ==
  ASSUME NEW s, s[1].k = "h2"
  PROVE  Cardinality(InFirst(s, 1)) = 0
<1>1. InFirst(s, 1) = {}
  <2>1. \A i \in 1..Len(s) : i <= 1 => i = 1 OBVIOUS
  <2> QED BY <2>1 DEF InFirst, InData
<1> QED BY <1>1, FS_EmptySet

\* ... or the first n are the frame's data.
LEMMA FirstData ==
  ASSUME NEW s, Len(s) \in Nat, NEW n \in 1..Len(s), \A i \in 1..n : s[i].k # "h2"
  PROVE  Cardinality(InFirst(s, n)) = n
<1>1. InFirst(s, n) = 1..n
  <2>1. \A i \in 1..Len(s) : i <= n <=> i \in 1..n OBVIOUS
  <2>2. \A i \in 1..n : i \in 1..Len(s) OBVIOUS
  <2> QED BY <2>1, <2>2 DEF InFirst, InData
<1>2. Cardinality(1..n) = n
  <2> DEFINE a == 1
  <2>1. a \in Int /\ n \in Int /\ ~(a > n) /\ n - a + 1 = n OBVIOUS
  <2>2. Cardinality(a..n) = IF a > n THEN 0 ELSE n - a + 1
    <3> HIDE DEF a
    <3> QED BY <2>1, FS_Interval
  <2> QED BY <2>1, <2>2
<1> QED BY <1>1, <1>2

\* Tokens that are all of DATA frames.
LEMMA DataCount ==
  ASSUME NEW s, Len(s) \in Nat, \A i \in 1..Len(s) : s[i].k # "h2"
  PROVE  Cardinality(InData(s)) = Len(s)
<1> DEFINE n == Len(s)
<1>1. CASE n = 0
  <2>1. InData(s) = {} BY <1>1 DEF InData
  <2> QED BY <1>1, <2>1, FS_EmptySet
<1>2. CASE n # 0
  <2>1. n \in 1..Len(s) BY <1>2
  <2>2. Cardinality(InFirst(s, n)) = n BY <2>1, FirstData
  <2>3. InFirst(s, n) = InData(s) BY DEF InFirst, InData
  <2> QED BY <2>2, <2>3
<1> QED BY <1>1, <1>2

\* A frame's header, and what is in the frame.
LEMMA HeaderCount ==
  ASSUME NEW t, t.k = "h2"
  PROVE  InData(<<t>>) = {} /\ Cardinality(InData(<<t>>)) = 0
<1>1. InData(<<t>>) = {}
  <2>1. Len(<<t>>) = 1 /\ <<t>>[1] = t OBVIOUS
  <2>2. \A i \in 1..1 : i = 1 OBVIOUS
  <2> QED BY <2>1, <2>2 DEF InData
<1> QED BY <1>1, FS_EmptySet

LEMMA ConcatCount ==
  ASSUME NEW T, NEW u \in Seq(T), NEW s \in Seq(T)
  PROVE  Cardinality(InData(u \o s)) = Cardinality(InData(u)) + Cardinality(InData(s))
<1> DEFINE m == Len(u)
           D == InData(s)
           U == InData(u)
           V == InData(u \o s)
           G == {m + a : a \in D}
           f == [a \in D |-> m + a]
<1>1. /\ m \in Nat /\ Len(s) \in Nat
      /\ \A i : i \in V <=> i \in U \/ \E a \in D : i = m + a
  BY InDataConcat
<1>2. IsFiniteSet(U) /\ IsFiniteSet(D) BY <1>1, InDataFinite
<1>3. (\A i \in U : i <= m /\ i \in Nat) /\ \A a \in D : a \in Nat /\ a > 0
  BY <1>1 DEF InData
<1> HIDE DEF m, D, U, V
<1>4. V = U \cup G BY <1>1
<1>5. U \cap G = {}
  <2> SUFFICES ASSUME NEW a \in D, m + a \in U PROVE FALSE OBVIOUS
  <2> QED BY <1>1, <1>3
<1>6. /\ f \in [D -> G] /\ \A y \in G : \E x \in D : f[x] = y OBVIOUS
<1>7. \A a, b \in D : f[a] = f[b] => a = b
  <2> SUFFICES ASSUME NEW a \in D, NEW b \in D, f[a] = f[b] PROVE a = b OBVIOUS
  <2>1. m + a = m + b OBVIOUS
  <2> QED BY <1>1, <1>3, <2>1
<1> HIDE DEF G, f
<1>8. IsFiniteSet(G) /\ Cardinality(G) = Cardinality(D) BY <1>2, <1>6, <1>7, ImageCount
<1>9. Cardinality(V) = Cardinality(U) + Cardinality(D) BY <1>2, <1>4, <1>5, <1>8, SumCount
<1> QED BY <1>9 DEF U, V, D

\* A gRPC message of n units of payload takes n + 1 of the window.
LEMMA MessageCount ==
  ASSUME NEW f, NEW tokens \in Seq(Tokens(f)), NEW last \in BOOLEAN,
         \A i \in 1..Len(tokens) : tokens[i].k # "h2",
         NEW bytes \in MessageWrites(tokens, last)
  PROVE  Cardinality(InData(bytes)) = Len(tokens) + 1
<1> DEFINE T    == Tokens(f)
           t    == [k |-> "msg", n |-> Len(tokens)]
           head == <<t>>
           msg  == head \o tokens
           n    == Len(tokens)
<1>1. n \in Nat /\ n \in Int BY LenProperties
<1>2. head \in Seq(T) BY <1>1, ControlType
<1>3. t.k # "h2" /\ Len(head) = 1 /\ head[1] = t OBVIOUS
<1> HIDE DEF head, t
<1>4. /\ msg \in Seq(T) /\ Len(msg) = 1 + n
      /\ \A i \in 1..(1 + n) : msg[i] = IF i <= 1 THEN head[i] ELSE tokens[i - 1]
  BY <1>2, <1>3, ConcatProperties
<1>5. \A i \in 1..Len(msg) : msg[i].k # "h2"
  <2> TAKE i \in 1..Len(msg)
  <2>1. CASE i <= 1
    <3>1. i = 1 BY <1>1, <1>4, <2>1
    <3> QED BY <1>3, <1>4, <3>1
  <2>2. CASE ~(i <= 1)
    <3>1. i - 1 \in 1..n BY <1>1, <1>4, <2>2
    <3>2. msg[i] = tokens[i - 1] BY <1>1, <1>4, <2>2
    <3> QED BY <3>1, <3>2
  <2> QED BY <2>1, <2>2
<1>6. \/ bytes = <<H2("data", Len(msg), last)>> \o msg
      \/ \E cut \in 1..n :
           bytes = <<H2("data", cut, FALSE)>> \o Prefix(msg, cut)
                     \o <<H2("data", Len(msg) - cut, last)>> \o Drop(msg, cut)
  BY DEF MessageWrites, head, t
<1> HIDE DEF msg, n
<1>7. ASSUME NEW m \in Int, NEW l \in BOOLEAN
      PROVE  /\ <<H2("data", m, l)>> \in Seq(T)
             /\ Cardinality(InData(<<H2("data", m, l)>>)) = 0
  <2> DEFINE h == H2("data", m, l)
  <2>1. <<h>> \in Seq(T) BY ControlType
  <2>2. h.k = "h2" BY DEF H2
  <2> HIDE DEF h
  <2>3. Cardinality(InData(<<h>>)) = 0 BY <2>2, HeaderCount
  <2> QED BY <2>1, <2>3 DEF h
<1>8. CASE bytes = <<H2("data", Len(msg), last)>> \o msg
  <2> DEFINE a == <<H2("data", Len(msg), last)>>
  <2>1. a \in Seq(T) /\ Cardinality(InData(a)) = 0
    <3>1. Len(msg) \in Int BY <1>1, <1>4
    <3> QED BY <1>7, <3>1
  <2> HIDE DEF a, T
  <2>2. Cardinality(InData(a \o msg)) = 0 + Cardinality(InData(msg))
    BY <1>4, <2>1, ConcatCount
  <2>3. Len(msg) \in Nat /\ Len(msg) = n + 1 BY <1>1, <1>4
  <2>4. Cardinality(InData(msg)) = n + 1 BY <1>5, <2>3, DataCount
  <2>5. Cardinality(InData(bytes)) = n + 1 BY <1>1, <1>8, <2>2, <2>4 DEF a
  <2> QED BY <2>5 DEF n
<1>9. ASSUME NEW cut \in 1..n,
             bytes = <<H2("data", cut, FALSE)>> \o Prefix(msg, cut)
                       \o <<H2("data", Len(msg) - cut, last)>> \o Drop(msg, cut)
      PROVE  Cardinality(InData(bytes)) = Len(tokens) + 1
  <2> DEFINE a == <<H2("data", cut, FALSE)>>
             b == Prefix(msg, cut)
             c == <<H2("data", Len(msg) - cut, last)>>
             d == Drop(msg, cut)
  <2>0. cut \in Int /\ cut \in 1..Len(msg) /\ cut \in 0..Len(msg) /\ Len(msg) - cut \in Int
        /\ cut \in Nat /\ Len(msg) \in Nat /\ n = Len(msg) - 1
    BY <1>1, <1>4
  <2>1. a \in Seq(T) /\ Cardinality(InData(a)) = 0 BY <1>7, <2>0
  <2>2. c \in Seq(T) /\ Cardinality(InData(c)) = 0 BY <1>7, <2>0
  <2>3. b \in Seq(T) /\ Len(b) = cut /\ \A i \in 1..cut : b[i] = msg[i]
    BY <1>4, <2>0, PrefixIs
  <2>4. Cardinality(InData(b)) = cut
    <3>1. \A i \in 1..Len(b) : b[i].k # "h2" BY <1>5, <2>0, <2>3
    <3> HIDE DEF b
    <3> QED BY <2>0, <2>3, <3>1, DataCount
  <2>5. d \in Seq(T) BY <1>4, <2>0, DropType
  <2>6. bytes = a \o b \o c \o d BY <1>9
  <2>7. Cardinality(InData(msg)) = Cardinality(InData(b)) + Cardinality(InData(d))
    <3>1. msg = b \o d
      <4> DEFINE i == 1
                 m == Len(msg)
      <4>1. /\ i \in Int /\ cut \in Int /\ m \in Int
            /\ i \in 1..(Len(msg) + 1) /\ cut \in i..m /\ m \in i..Len(msg)
        BY <2>0
      <4>2. msg = SubSeq(msg, i, m) BY <1>4, SubSeqFull
      <4> HIDE DEF T, i, m
      <4>3. SubSeq(msg, i, m) = SubSeq(msg, i, cut) \o SubSeq(msg, cut + 1, m)
        BY <1>4, <4>1, ConcatAdjacentSubSeq
      <4> QED BY <4>2, <4>3 DEF Prefix, Drop, i, m
    <3> HIDE DEF b, d, T
    <3> QED BY <2>3, <2>5, <3>1, ConcatCount
  <2>8. Cardinality(InData(msg)) = Len(msg) BY <1>5, <2>0, DataCount
  <2> HIDE DEF a, b, c, d, T
  <2>9. a \o b \in Seq(T) /\ a \o b \o c \in Seq(T) BY <2>1, <2>2, <2>3, ConcatType
  <2>10. Cardinality(InData(a \o b)) = 0 + cut BY <2>1, <2>3, <2>4, ConcatCount
  <2>11. Cardinality(InData((a \o b) \o c)) = Cardinality(InData(a \o b)) + 0
    BY <2>2, <2>9, ConcatCount
  <2> DEFINE u == (a \o b) \o c
  <2>12. Cardinality(InData(u \o d)) = Cardinality(InData(u)) + Cardinality(InData(d))
    <3>1. u \in Seq(T) BY <2>9
    <3> HIDE DEF u
    <3> QED BY <2>5, <3>1, ConcatCount
  <2>13. Cardinality(InData(u)) = cut BY <2>0, <2>10, <2>11
  <2>14. Cardinality(InData(bytes)) = cut + Cardinality(InData(d)) BY <2>6, <2>12, <2>13
  <2>15. Cardinality(InData(bytes)) = n + 1 BY <2>0, <2>4, <2>7, <2>8, <2>14
  <2> QED BY <2>15 DEF n
<1> QED BY <1>6, <1>8, <1>9 DEF n

\* What arrives is unread.
LEMMA ArrivesCount ==
  ASSUME NEW f, sock \in Seq(Records(f)), NEW bytes \in Seq(Tokens(f)), NEW tls,
         Arrives(bytes, tls), NEW pend, IsFiniteSet(Left(pend, sock))
  PROVE  /\ IsFiniteSet(Left(pend, sock'))
         /\ Cardinality(Left(pend, sock')) =
              Cardinality(Left(pend, sock)) + Cardinality(InData(bytes))
<1>1. CASE sock' = Append(sock, [tls |-> tls, tokens |-> bytes])
  <2> DEFINE r == [tls |-> tls, tokens |-> bytes]
             S == Records(f) \cup {r}
  <2>1. sock \in Seq(S) /\ r \in S /\ r.tokens = bytes
    <3>1. Records(f) \subseteq S OBVIOUS
    <3>2. sock \in Seq(S)
      <4> HIDE DEF S
      <4> QED BY <3>1, SeqMono
    <3> QED BY <3>2
  <2>2. Len(bytes) \in Nat BY LenProperties
  <2> HIDE DEF r, S
  <2>3. Len(r.tokens) \in Nat BY <2>1, <2>2
  <2>4. /\ IsFiniteSet(Left(pend, Append(sock, r)))
        /\ Cardinality(Left(pend, Append(sock, r))) =
             Cardinality(Left(pend, sock)) + Cardinality(InData(r.tokens))
    BY <2>1, <2>3, LeftAppend
  <2>5. sock' = Append(sock, r) BY <1>1 DEF r
  <2> QED BY <2>1, <2>4, <2>5
<1>2. CASE sock # <<>> /\ sock' = [sock EXCEPT ![Len(sock)].tokens = @ \o bytes]
  <2> DEFINE k == Len(sock)
             u == sock[k].tokens
             r == [sock[k] EXCEPT !.tokens = u \o bytes]
  <2>1. k \in 1..k BY <1>2, LenProperties, EmptySeq
  <2>2. sock[k] \in Records(f) BY <2>1, LenProperties
  <2>3. u \in Seq(Tokens(f)) /\ r.tokens = u \o bytes BY <2>2 DEF Records
  <2>4. sock' = Extended(sock, r) BY <1>2 DEF Extended
  <2> DEFINE T == Tokens(f)
             S == Records(f)
  <2>6. /\ sock \in Seq(S) /\ sock # <<>> /\ sock[Len(sock)].tokens \in Seq(T)
        /\ bytes \in Seq(T) /\ r.tokens = sock[Len(sock)].tokens \o bytes
    BY <1>2, <2>3
  <2> HIDE DEF r, T, S
  <2>5. /\ IsFiniteSet(Left(pend, Extended(sock, r)))
        /\ Cardinality(Left(pend, Extended(sock, r))) =
             Cardinality(Left(pend, sock)) + Cardinality(InData(bytes))
    BY <2>6, LeftLonger
  <2> QED BY <2>4, <2>5
<1> QED BY <1>1, <1>2 DEF Arrives

\* No unit of payload is a frame's header.
LEMMA PayloadKinds ==
  ASSUME addons \in Nat
  PROVE  \A i \in 1..Len(Payload) : Payload[i].k # "h2"
<1> DEFINE T    == [k : {"resp"}, n : Nat] \cup [k : {"addon"}] \cup [k : {"data"}, v : Int]
           resp == <<[k |-> "resp", n |-> addons]>>
           rest == [i \in 1..addons |-> [k |-> "addon"]]
<1>1. resp \in Seq(T)
  <2>1. [k |-> "resp", n |-> addons] \in T OBVIOUS
  <2> QED BY <2>1
<1>2. rest \in Seq(T)
  <2>1. [k |-> "addon"] \in T OBVIOUS
  <2> QED BY <2>1
<1>3. Data \in Seq(T)
  <2>1. \A i \in 1..DataMax : [k |-> "data", v |-> i] \in T OBVIOUS
  <2>2. DataMax \in Nat BY ServerAssumption
  <2> QED BY <2>1, <2>2 DEF Data
<1>4. \A t \in T : t.k # "h2" OBVIOUS
<1>5. Response = resp \o rest BY DEF Response
<1> HIDE DEF resp, rest, T
<1>6. Payload \in Seq(T) BY <1>1, <1>2, <1>3, <1>5, ConcatType DEF Payload
<1> QED BY <1>4, <1>6, LenProperties

\* What LoadMessage reads is payload.
LEMMA LoadsPayload ==
  ASSUME DownInv, Alive, LoadMessage,
         NEW n, n = Least(conn.wanted, Least(conn.grpc_data_remaining, Len(Raw)))
  PROVE  n \in 1..Len(Raw) /\ \A i \in 1..n : Raw[i].k # "h2"
<1> DEFINE T == Tokens(framing)
<1>0. PICK got \in Nat : got = Len(received) /\ PlaceInv(got)
  <2>1. received \in Seq(AnyBytes) /\ PlaceInv(Len(received)) BY DEF DownInv
  <2> QED BY <2>1, LenProperties
<1>1. LocalInv(got) /\ TunnelInv /\ StreamInv /\ (~config.tls => conn.ssl_pending = <<>>)
  BY <1>0 DEF PlaceInv, LocalInv, FrameInv
<1>2. PICK y \in Points : /\ Reaches(Setting, Here(got), conn.ssl_pending, sock, y)
                          /\ y.taken <= There.taken
  BY <1>0 DEF PlaceInv, Ahead
<1>3. y.taken \in Nat /\ y.taken <= Len(Payload) /\ Len(Payload) \in Nat
  <2>1. There.taken = sent /\ sent \in Nat /\ addons \in Nat /\ sent <= Len(Payload)
    BY <1>1, SettingIs
  <2>2. Len(Payload) \in Nat BY <2>1, PayloadType, LenProperties
  <2> QED BY <1>2, <2>1, <2>2 DEF Points
<1>4. /\ config.transport = "grpc" /\ Raw # <<>>
      /\ conn.grpc_data_remaining > 0 /\ conn.wanted > 0
  BY DEF LoadMessage, Loading
<1>5. Len(Raw) \in Nat \ {0} BY <1>1, <1>4, NonEmpty
<1>6. conn.wanted \in Int /\ conn.grpc_data_remaining \in Int
  BY <1>1 DEF TunnelInv, Conns
<1>7. n \in 1..Len(Raw) /\ n <= conn.wanted /\ n <= conn.grpc_data_remaining
  BY <1>4, <1>5, <1>6 DEF Least
<1>8. /\ Here(got) \in Points /\ Here(got).body = conn.grpc_data_remaining /\ Here(got).rest = conn.wanted
      /\ Setting.transport = "grpc" /\ IsSetting(Setting) /\ Setting.payload = Payload
  BY <1>1, <1>2, <1>4, HereIs
<1>9. Can(Setting, Here(got), n) BY <1>7, <1>8 DEF Can
<1> DEFINE p == RawTook(n).ssl_pending
           q == RawTookSock(n)
           z == After(Setting, Here(got), n)
           m == Here(got).taken
<1>10. /\ Reaches(Setting, z, p, q, y)
       /\ \A i \in 1..n : Raw[i] = Payload[m + i]
  BY <1>1, <1>2, <1>7, <1>8, <1>9, PayloadMoves
<1>11. z.taken = m + n /\ m \in Nat BY <1>8 DEF After, Points
<1>12. Len(p) \in Nat /\ Len(q) \in Nat
  <2>1. n \in Nat BY <1>7
  <2>2. RawTook(n) \in Conns(framing) /\ q \in Seq(Records(framing))
    BY <1>1, <1>4, <2>1, RawTookType
  <2>3. p \in Seq(T) BY <2>2 DEF Conns
  <2> HIDE DEF p, q, T
  <2> QED BY <2>2, <2>3, LenProperties
<1> HIDE DEF p, q, z, m
<1>13. z.taken <= y.taken BY <1>10, <1>12, ReachesOnward DEF Onward
<1>14. \A i \in 1..n : m + i \in 1..Len(Payload) BY <1>3, <1>7, <1>11, <1>13
<1>15. addons \in Nat BY <1>1 DEF TunnelInv
<1>16. \A i \in 1..n : Raw[i].k # "h2" BY <1>10, <1>14, <1>15, PayloadKinds
<1> QED BY <1>7, <1>16

-----------------------------------------------------------------------------
(* HTTP/2 credit.                                                          *)

\* The inductive invariant of HTTP/2 credit: what is unread can be counted.
CreditInv ==
  config.transport = "grpc" /\ closed # "reset" =>
    LET left == Left(conn.ssl_pending, sock)
    IN  IsFiniteSet(left) /\ window \in Int /\ window + Cardinality(left) = Window

\* A read of n tokens that gives back the credit of those it took.
LEMMA TakesCredit ==
  ASSUME TunnelInv, CreditInv, config.transport = "grpc", closed # "reset", Raw # <<>>,
         NEW n \in 1..Len(Raw), sock' = RawTookSock(n),
         conn'.ssl_pending = RawTook(n).ssl_pending,
         window' = window + Cardinality(InFirst(Raw, n))
  PROVE  CreditInv'
<1> DEFINE A == Left(conn.ssl_pending, sock)
           B == Left(conn'.ssl_pending, sock')
           k == Cardinality(InFirst(Raw, n))
<1>1. IsFiniteSet(A) /\ window \in Int /\ window + Cardinality(A) = Window BY DEF CreditInv
<1>2. config.tls BY DEF TunnelInv, Configs
<1>3. IsFiniteSet(B) /\ Cardinality(A) = Cardinality(B) + k BY <1>1, <1>2, RawCount
<1>4. k \in Nat
  <2>1. Len(Raw) \in Nat BY NonEmpty
  <2>2. IsFiniteSet(InData(Raw)) BY <2>1, InDataFinite
  <2>3. InFirst(Raw, n) \in SUBSET InData(Raw) BY DEF InFirst
  <2> QED BY <2>2, <2>3, FS_Subset, FS_CardinalityType
<1>5. Cardinality(B) \in Nat BY <1>3, FS_CardinalityType
<1>6. window' = window + k OBVIOUS
<1> HIDE DEF A, B, k
<1>7. window' \in Int /\ window' + Cardinality(B) = Window
  BY <1>1, <1>3, <1>4, <1>5, <1>6
<1> QED BY <1>3, <1>7 DEF CreditInv, B

\* The reads below the payload.
LEMMA BelowCredit ==
  ASSUME DownInv, CreditInv, Alive, config.transport = "grpc", closed # "reset", Below
  PROVE  CreditInv'
<1>1. TunnelInv BY DEF DownInv, PlaceInv
<1>2. conn \in Conns(framing) /\ sock \in Seq(Records(framing)) BY <1>1 DEF TunnelInv
<1>3. CASE SkipRecord
  <2>1. /\ sock # <<>> /\ Head(sock).tokens = <<>> /\ conn.ssl_pending = <<>>
        /\ sock' = Tail(sock) /\ conn' = conn /\ window' = window
    BY <1>3 DEF SkipRecord
  <2> DEFINE A == Left(<<>>, sock)
             B == Left(<<>>, Tail(sock))
  <2>2. IsFiniteSet(A) /\ window \in Int /\ window + Cardinality(A) = Window
    BY <2>1 DEF CreditInv
  <2>3. IsFiniteSet(B) /\ Cardinality(B) = Cardinality(A) BY <1>2, <2>1, <2>2, LeftNext
  <2>4. Left(conn'.ssl_pending, sock') = B BY <2>1
  <2> HIDE DEF A, B
  <2> QED BY <2>1, <2>2, <2>3, <2>4 DEF CreditInv
<1>4. CASE BeginDataFrame BY <1>4 DEF BeginDataFrame
<1>5. CASE NextDataFrame \/ LoadEnvelope
  <2> DEFINE n == 1
             c == RawTook(n)
             d == DataTook(n)
             h == Head(Raw)
  <2>1. Raw # <<>> /\ sock' = RawTookSock(n) BY <1>5 DEF NextDataFrame, LoadEnvelope
  <2>2. n \in 1..Len(Raw) /\ n \in Nat /\ h = Raw[1]
    <3>1. Len(Raw) \in Nat \ {0} BY <1>1, <2>1, NonEmpty
    <3> QED BY <3>1
  <2>3. /\ c \in Conns(framing) /\ d \in Conns(framing) /\ d.ssl_pending = c.ssl_pending
    BY <1>1, <2>1, <2>2, RawTookIs, DataTookIs
  <2>4. CASE NextDataFrame
    <3>1. h.k = "h2" /\ window' = window BY <2>4 DEF NextDataFrame
    <3>2. Cardinality(InFirst(Raw, n)) = 0 BY <2>2, <3>1, FirstHeader
    <3>3. conn'.ssl_pending = c.ssl_pending
      <4> DEFINE e == h.n = 0 /\ h.last
      <4>1. \/ conn' = [c EXCEPT !.grpc_data_remaining = h.n,
                                 !.grpc_data_end_stream = h.last,
                                 !.grpc_eof = e]
            \/ conn' = c
            \/ conn' = [c EXCEPT !.grpc_eof = TRUE]
        BY <2>4 DEF NextDataFrame
      <4> HIDE DEF c, h, e
      <4> QED BY <2>3, <4>1 DEF Conns
    <3>4. window \in Int BY DEF CreditInv
    <3>5. window' = window + Cardinality(InFirst(Raw, n)) BY <3>1, <3>2, <3>4
    <3> HIDE DEF n
    <3> QED BY <1>1, <2>1, <2>2, <3>3, <3>5, TakesCredit DEF c
  <2>5. CASE LoadEnvelope
    <3>1. h.k = "msg" /\ window' = window + 1 /\ conn' = [d EXCEPT !.wanted = h.n]
      BY <2>5 DEF LoadEnvelope, Credit
    <3>2. Cardinality(InFirst(Raw, n)) = 1
      <4>1. \A i \in 1..n : Raw[i].k # "h2" BY <2>2, <3>1
      <4>2. Len(Raw) \in Nat BY <1>1, <2>1, NonEmpty
      <4>3. n = 1 OBVIOUS
      <4> HIDE DEF n
      <4> QED BY <2>2, <4>1, <4>2, <4>3, FirstData
    <3>3. conn'.ssl_pending = c.ssl_pending
      <4> HIDE DEF c, d, h
      <4> QED BY <2>3, <3>1 DEF Conns
    <3>4. window' = window + Cardinality(InFirst(Raw, n)) BY <3>1, <3>2
    <3> HIDE DEF n
    <3> QED BY <1>1, <2>1, <2>2, <3>3, <3>4, TakesCredit DEF c
  <2> QED BY <1>5, <2>4, <2>5
<1>6. CASE LoadMessage
  <2> DEFINE n    == Least(conn.wanted, Least(conn.grpc_data_remaining, Len(Raw)))
             read == conn.loading \o Prefix(Raw, n)
             done == n = conn.wanted
             c    == RawTook(n)
             d    == DataTook(n)
             l    == IF done THEN <<>> ELSE read
             m    == IF done THEN read ELSE <<>>
  <2>1. /\ Raw # <<>> /\ sock' = RawTookSock(n) /\ window' = window + n
        /\ conn' = [d EXCEPT !.wanted = @ - n, !.loading = l, !.grpc_message = m]
    BY <1>6 DEF LoadMessage, Credit
  <2>2. n \in 1..Len(Raw) /\ \A i \in 1..n : Raw[i].k # "h2" BY <1>6, LoadsPayload
  <2> HIDE DEF n, l, m
  <2>3. n \in Nat BY <2>2
  <2>4. /\ c \in Conns(framing) /\ d \in Conns(framing) /\ d.ssl_pending = c.ssl_pending
    BY <1>1, <2>1, <2>3, RawTookIs, DataTookIs
  <2>5. conn'.ssl_pending = c.ssl_pending
    <3> HIDE DEF c, d
    <3> QED BY <2>1, <2>4 DEF Conns
  <2>6. Cardinality(InFirst(Raw, n)) = n
    <3>1. Len(Raw) \in Nat BY <1>1, <2>1, NonEmpty
    <3> QED BY <2>2, <3>1, FirstData
  <2> QED BY <1>1, <2>1, <2>2, <2>5, <2>6, TakesCredit
<1> QED BY <1>3, <1>4, <1>5, <1>6 DEF Below

\* What leaves the records and the window alone.
LEMMA SameCredit ==
  ASSUME CreditInv, UNCHANGED <<config, closed, sock, window>>,
         conn'.ssl_pending = conn.ssl_pending
  PROVE  CreditInv'
BY DEF CreditInv

\* The reads above it: those of a message that was loaded.
LEMMA ReadsCredit ==
  ASSUME DownInv, CreditInv, Alive, config.transport = "grpc", closed # "reset",
         NEW length \in Nat, Reads(length)
  PROVE  CreditInv'
<1>1. TunnelInv /\ ~config.vision /\ ~conn.vision_read_direct /\ conn \in Conns(framing)
  BY DEF DownInv, PlaceInv, FrameInv, TunnelInv, Configs
<1>2. CASE Below BY <1>2, BelowCredit
<1>3. CASE ConsumeResponse \/ ConsumeAddons \/ ReadBody(length)
  <2>1. PICK n : TransportRead(n)
    BY <1>3 DEF ConsumeResponse, ConsumeAddons, ReadBody
  <2> DEFINE m == Drop(conn.grpc_message, n)
  <2>2. /\ conn' = [conn EXCEPT !.grpc_message = m]
        /\ UNCHANGED <<config, closed, sock, window>>
    BY <2>1 DEF TransportRead
  <2> HIDE DEF m
  <2>3. conn'.ssl_pending = conn.ssl_pending BY <1>1, <2>2 DEF Conns
  <2> QED BY <2>2, <2>3, SameCredit
<1>4. ~(ReadDirect(length) \/ ReadHeader \/ ReadContent(length) \/ ReadPadding \/ CompleteFrame)
  BY <1>1 DEF ReadDirect, ReadHeader, ReadContent, ReadPadding, CompleteFrame, FrameRead,
              Unframing
<1>5. CASE ReadFails \/ ReadEnds
  BY <1>5, SameCredit DEF ReadFails, ReadEnds, upstream
<1> QED BY <1>2, <1>3, <1>4, <1>5 DEF Reads

\* A write takes of the window what it puts into DATA frames.
LEMMA WritesCredit ==
  ASSUME TunnelInv, CreditInv, config.transport = "grpc", closed # "reset",
         NEW f, sock \in Seq(Records(f)), NEW bytes \in Seq(Tokens(f)), NEW tls,
         Arrives(bytes, tls), conn' = conn,
         window' = window - Cardinality(InData(bytes))
  PROVE  CreditInv'
<1> DEFINE A == Left(conn.ssl_pending, sock)
           B == Left(conn.ssl_pending, sock')
           k == Cardinality(InData(bytes))
<1>1. IsFiniteSet(A) /\ window \in Int /\ window + Cardinality(A) = Window BY DEF CreditInv
<1>2. IsFiniteSet(B) /\ Cardinality(B) = Cardinality(A) + k BY <1>1, ArrivesCount
<1>3. k \in Nat
  <2>1. Len(bytes) \in Nat BY LenProperties
  <2> QED BY <2>1, InDataFinite
<1>4. Cardinality(A) \in Nat BY <1>1, FS_CardinalityType
<1>5. window' = window - k OBVIOUS
<1>6. Left(conn'.ssl_pending, sock') = B OBVIOUS
<1> HIDE DEF A, B, k
<1>7. window' \in Int /\ window' + Cardinality(B) = Window
  BY <1>1, <1>2, <1>3, <1>4, <1>5
<1> QED BY <1>2, <1>6, <1>7 DEF CreditInv

\* The server pays for a message.
LEMMA MessageCredit ==
  ASSUME TunnelInv, CreditInv, config.transport = "grpc", closed # "reset", conn' = conn,
         NEW tokens \in Seq(Tokens(framing)), NEW last \in BOOLEAN, SendMessage(tokens, last),
         \A i \in 1..Len(tokens) : tokens[i].k # "h2"
  PROVE  CreditInv'
<1>1. PICK bytes \in MessageWrites(tokens, last) : Arrives(bytes, TRUE) BY DEF SendMessage
<1>2. bytes \in Seq(Tokens(framing)) /\ Cardinality(InData(bytes)) = Len(tokens) + 1
  BY MessageType, MessageCount
<1>3. window \in Int /\ Len(tokens) \in Nat BY LenProperties DEF CreditInv
<1>4. window' = window - Cardinality(InData(bytes))
  <2>1. window' = window - Len(tokens) - 1 BY DEF SendMessage
  <2> QED BY <1>2, <1>3, <2>1
<1>5. sock \in Seq(Records(framing)) BY DEF TunnelInv
<1> QED BY <1>1, <1>2, <1>4, <1>5, WritesCredit

\* Nothing is paid for a frame that has no data.
LEMMA FrameCredit ==
  ASSUME TunnelInv, CreditInv, config.transport = "grpc", closed # "reset", conn' = conn,
         window' = window, NEW f, sock \in Seq(Records(f)),
         NEW t \in Tokens(f), t.k = "h2", Arrives(<<t>>, TRUE)
  PROVE  CreditInv'
<1> DEFINE bytes == <<t>>
<1>1. bytes \in Seq(Tokens(f)) OBVIOUS
<1>2. Cardinality(InData(bytes)) = 0 BY HeaderCount
<1>3. Arrives(bytes, TRUE) OBVIOUS
<1> HIDE DEF bytes
<1>4. window' = window - Cardinality(InData(bytes)) BY <1>2 DEF CreditInv
<1> QED BY <1>1, <1>3, <1>4, WritesCredit

\* The server's steps.
LEMMA ServerCredit ==
  ASSUME TunnelInv, StreamInv, CreditInv, config.transport = "grpc", closed' # "reset",
         ServerNext
  PROVE  CreditInv'
<1>1. /\ conn' = conn /\ config' = config /\ closed = "open"
      /\ addons \in Nat /\ sent \in Nat /\ sent <= Len(Payload) /\ ~config.vision
      /\ sock \in Seq(Records(framing)) /\ framing \in Framings
  BY SettingIs DEF ServerNext, ServerSends, ServerControls, ServerLeaves, ServerCloses,
                   TunnelInv, Configs
<1>2. Len(Payload) \in Nat BY <1>1, PayloadType, LenProperties
<1>3. CASE ServerSends
  <2>1. PICK n \in 0..Least(SendMax, Len(Payload) - sent) :
          SendMessage(SubSeq(Payload, sent + 1, sent + n), FALSE)
    BY <1>1, <1>3 DEF ServerSends
  <2> DEFINE tokens == SubSeq(Payload, sent + 1, sent + n)
  <2>2. n \in Nat /\ sent + n <= Len(Payload)
    <3>1. SendMax \in Nat BY ServerAssumption
    <3> QED BY <1>1, <1>2, <3>1 DEF Least
  <2>3. /\ tokens \in Seq(Tokens(framing)) /\ Len(tokens) = n
        /\ \A i \in 1..n : tokens[i] = Payload[sent + i]
    BY <1>1, <2>2, PayloadPart
  <2>4. \A i \in 1..n : sent + i \in 1..Len(Payload) BY <1>1, <1>2, <2>2
  <2> HIDE DEF tokens
  <2>5. \A i \in 1..Len(tokens) : tokens[i].k # "h2" BY <1>1, <2>3, <2>4, PayloadKinds
  <2>6. SendMessage(tokens, FALSE) BY <2>1 DEF tokens
  <2> QED BY <1>1, <2>3, <2>5, <2>6, MessageCredit
<1>4. CASE ServerControls
  <2>1. window' = window
        /\ \/ Arrives(<<>>, TRUE)
           \/ \E type \in {"settings", "ping", "data"} : Arrives(<<H2(type, 0, FALSE)>>, TRUE)
    BY <1>1, <1>4 DEF ServerControls
  <2>2. CASE Arrives(<<>>, TRUE)
    <3> DEFINE bytes == <<>>
    <3>1. bytes \in Seq(Tokens(framing)) OBVIOUS
    <3>2. Arrives(bytes, TRUE) BY <2>2
    <3>3. InData(bytes) = {} BY DEF InData
    <3> HIDE DEF bytes
    <3>4. Cardinality(InData(bytes)) = 0 BY <3>3, FS_EmptySet
    <3>5. window' = window - Cardinality(InData(bytes)) BY <1>1, <2>1, <3>4 DEF CreditInv
    <3> QED BY <1>1, <3>1, <3>2, <3>5, WritesCredit
  <2>3. ASSUME NEW type \in {"settings", "ping", "data"},
               Arrives(<<H2(type, 0, FALSE)>>, TRUE)
        PROVE  CreditInv'
    <3> DEFINE t == H2(type, 0, FALSE)
    <3>1. t \in Tokens(framing) /\ t.k = "h2" BY DEF H2, Tokens, H2Types
    <3>2. Arrives(<<t>>, TRUE) BY <2>3
    <3> HIDE DEF t
    <3> QED BY <1>1, <2>1, <3>1, <3>2, FrameCredit
  <2> QED BY <2>1, <2>2, <2>3
<1>5. CASE ServerLeaves
  <2> DEFINE t == H2("goaway", 0, FALSE)
             f == "leaving"
  <2>1. Arrives(<<t>>, TRUE) /\ window' = window BY <1>5 DEF ServerLeaves
  <2>2. t \in Tokens(f) /\ t.k = "h2" BY DEF H2, Tokens, H2Types
  <2>3. sock \in Seq(Records(f))
    <3>1. framing \in {"first", "leaving"} BY <1>1 DEF TunnelInv, Framings
    <3>2. f \in Framings BY DEF Framings
    <3> QED BY <1>1, <3>1, <3>2, Widen
  <2> HIDE DEF t, f
  <2> QED BY <1>1, <2>1, <2>2, <2>3, FrameCredit
<1>6. CASE ServerCloses
  <2>1. CASE UNCHANGED <<sock, window>>
    <3>1. closed' = "clean" BY <1>6 DEF ServerCloses
    <3> QED BY <1>1, <2>1 DEF CreditInv
  <2>2. CASE Arrives(<<H2("data", 0, TRUE)>>, TRUE) /\ window' = window
    <3> DEFINE t == H2("data", 0, TRUE)
    <3>1. t \in Tokens(framing) /\ t.k = "h2" BY DEF H2, Tokens, H2Types
    <3>2. Arrives(<<t>>, TRUE) BY <2>2
    <3> HIDE DEF t
    <3> QED BY <1>1, <2>2, <3>1, <3>2, FrameCredit
  <2>3. CASE sent < Len(Payload) /\ SendMessage(<<Payload[sent + 1]>>, TRUE)
    <3> DEFINE t      == Payload[sent + 1]
               tokens == <<t>>
    <3>1. sent + 1 \in 1..Len(Payload) BY <1>1, <1>2, <2>3
    <3>2. Payload \in Seq(Tokens(framing)) BY <1>1, PayloadType
    <3>3. t \in Tokens(framing) /\ t.k # "h2" BY <1>1, <3>1, <3>2, PayloadKinds, LenProperties
    <3> HIDE DEF t
    <3>4. tokens \in Seq(Tokens(framing)) /\ \A i \in 1..Len(tokens) : tokens[i].k # "h2"
      BY <3>3
    <3>5. SendMessage(tokens, TRUE) BY <2>3 DEF t
    <3> HIDE DEF tokens
    <3> QED BY <1>1, <3>4, <3>5, MessageCredit
  <2> QED BY <1>1, <1>6, <2>1, <2>2, <2>3 DEF ServerCloses
<1> QED BY <1>3, <1>4, <1>5, <1>6 DEF ServerNext

\* Whoever makes a step, what it takes of the one it gives to the other.
LEMMA CreditStep ==
  ASSUME DownInv, CreditInv, [Next]_vars
  PROVE  CreditInv'
<1>1. SUFFICES ASSUME config'.transport = "grpc", closed' # "reset" PROVE CreditInv'
  BY DEF CreditInv
<1>2. BufferSize \in Nat BY SizesAssumption
<1>3. TunnelInv /\ StreamInv /\ conn \in Conns(framing) BY DEF DownInv, PlaceInv, TunnelInv
<1>4. CASE Reads(BufferSize)
  <2>1. Alive
    <3>1. pc \in {"response", "addons", "body"} BY <1>4, ReadsWhere
    <3> QED BY <3>1 DEF Alive
  <2>2. config' = config /\ closed' = closed
    BY <1>4 DEF Reads, Below, SkipRecord, BeginDataFrame, NextDataFrame, LoadEnvelope,
                LoadMessage, ConsumeResponse, ConsumeAddons, TransportRead, ReadBody,
                ReadDirect, ReadHeader, ReadContent, ReadPadding, CompleteFrame, ReadFails,
                ReadEnds, upstream
  <2> QED BY <1>1, <1>2, <1>4, <2>1, <2>2, ReadsCredit
<1>5. CASE Server
  <2>1. ServerNext /\ config' = config
    BY <1>5 DEF Server, ServerNext, ServerSends, ServerControls, ServerLeaves, ServerCloses
  <2> QED BY <1>1, <1>3, <2>1, ServerCredit
<1>6. CASE SendRequest \/ Upload
  <2>1. /\ UNCHANGED <<config, closed, sock, window>>
        /\ conn' \in {conn, InitialWrote, BodyWrote}
    BY <1>6 DEF SendRequest, Upload
  <2> DEFINE a == config.vision
             b == conn.vision_write_peer_command # "continue"
             c == conn.vision_write_peer_command = "direct"
  <2>2. \/ conn' = conn
        \/ conn' = [conn EXCEPT !.vision_write_started = a]
        \/ conn' = [conn EXCEPT !.vision_write_started = TRUE,
                                !.vision_write_finished = b, !.vision_write_direct = c]
    BY <2>1 DEF InitialWrote, BodyWrote
  <2> HIDE DEF a, b, c
  <2>3. conn'.ssl_pending = conn.ssl_pending BY <1>3, <2>2 DEF Conns
  <2> QED BY <2>1, <2>3, SameCredit
<1>7. CASE ~(Reads(BufferSize) \/ Server \/ SendRequest \/ Upload)
  <2>1. UNCHANGED <<config, closed, sock, conn, window>>
    BY <1>7 DEF Next, Child, Target, OpenUpstream, ClientEnds, Download, Idle, Deliver,
                Interrupted, Close, ClientSends, ClientCloses, vars, upstream
  <2> QED BY <2>1, SameCredit
<1> QED BY <1>4, <1>5, <1>6, <1>7

\* A server begins with the whole window.
LEMMA CreditInit == Init => CreditInv
<1> SUFFICES ASSUME Init PROVE CreditInv OBVIOUS
<1> DEFINE p == conn.ssl_pending
<1>1. p = <<>> /\ sock = <<>> /\ window = Window BY DEF Init, NewConn
<1>2. Left(p, sock) = {}
  <2>1. Len(sock) = 0 /\ InData(p) = {} BY <1>1 DEF InData
  <2>2. \A j \in 0..Len(sock) : j = 0 BY <2>1
  <2> HIDE DEF p
  <2>3. \A j \in 0..Len(sock) : InData(At(p, sock, j)) = {} BY <2>1, <2>2 DEF At
  <2>4. \A z : z \notin Left(p, sock) BY <2>3 DEF Left
  <2> QED BY <2>4
<1>3. IsFiniteSet({}) /\ Cardinality({}) = 0 BY FS_EmptySet
<1>4. Window \in Nat BY SizesAssumption
<1> DEFINE left == Left(p, sock)
<1>5. left = {} BY <1>2
<1> HIDE DEF left
<1>6. IsFiniteSet(left) /\ window \in Int /\ window + Cardinality(left) = Window
  BY <1>1, <1>3, <1>4, <1>5
<1> QED BY <1>6 DEF CreditInv, left

\* HTTP/2 credit is neither lost nor invented: what the server may still send
\* and what the child has not yet read of DATA frames add up to the window
\* (grpc_data_read, grpc_next_data_frame).
THEOREM CreditReturned == Spec => []CreditKept
<1>1. Init => DownInv /\ CreditInv BY DownInit, CreditInit
<1>2. DownInv /\ CreditInv /\ [Next]_vars => (DownInv /\ CreditInv)' BY DownStep, CreditStep
<1>3. CreditInv => CreditKept
  <2>1. Unread = Left(conn.ssl_pending, sock)
    <3>1. \A j : Record(j) = At(conn.ssl_pending, sock, j) BY DEF Record, At
    <3> QED BY <3>1 DEF Unread, Left
  <2> QED BY <2>1 DEF CreditInv, CreditKept
<1> QED BY <1>1, <1>2, <1>3, PTL DEF Spec
=============================================================================
