----------------------------- MODULE MainProofs -----------------------------
(***************************************************************************)
(* Proofs about main(): what load_config() makes of a file, whole or cut,  *)
(* of any accepted link, what the downloads make of any answer, however it *)
(* is cut into reads, whom a probe asks, and what its result says.         *)
(*                                                                         *)
(* The first two follow the reading: FileInv says which fields of struct   *)
(* config are settled after so many lines, FetchInv how much of the answer *)
(* is in the file after so many units.  ProbeInv follows open_upstream():  *)
(* until it has returned, nothing is asked, and behind its TLS handshake   *)
(* the peer is the verified one.  ProbePlace says that the probe is at the *)
(* place of the stream behind what it has of the answer, ProbeEnd why it   *)
(* ended.                                                                  *)
(***************************************************************************)
EXTENDS Main, ReaderProofs

-----------------------------------------------------------------------------
(* The lines of a file.                                                    *)

Keys ==
  {"server", "port", "uuid", "transport", "security", "flow", "tls", "sni", "reality_public_key",
   "reality_short_id", "ws_host", "ws_path", "grpc_service", "grpc_authority", "ca_file"}

Base == <<"server", "port", "uuid", "transport", "security", "flow", "tls">>
Tls(l) == IF l.security # "none" THEN <<"sni">> ELSE <<>>
Reality(l) == IF l.security = "reality" THEN <<"reality_public_key", "reality_short_id">> ELSE <<>>
Ws(l) == IF l.transport = "ws" THEN <<"ws_host", "ws_path">> ELSE <<>>
Grpc(l) == IF l.transport = "grpc" THEN <<"grpc_service", "grpc_authority">> ELSE <<>>

\* Lines(l) is put together of six parts.
LEMMA Concat ==
  ASSUME NEW s \in Seq(Keys), NEW t \in Seq(Keys)
  PROVE  /\ s \o t \in Seq(Keys) /\ Len(s \o t) = Len(s) + Len(t)
         /\ \A i \in 1..Len(s) : (s \o t)[i] = s[i]
         /\ \A i \in 1..Len(t) : (s \o t)[Len(s) + i] = t[i]
<1>1. s \o t \in Seq(Keys) /\ Len(s \o t) = Len(s) + Len(t)
  BY ConcatProperties
<1>2. /\ \A i \in 1..Len(s) : (s \o t)[i] = s[i]
      /\ \A i \in 1..Len(t) : (s \o t)[Len(s) + i] = t[i]
  BY ConcatProperties
<1> QED BY <1>1, <1>2

\* Each part is a sequence of keys, of one length or empty.
LEMMA Parts ==
  ASSUME NEW l
  PROVE  /\ Base \in Seq(Keys) /\ Len(Base) = 7
         /\ Tls(l) \in Seq(Keys) /\ Len(Tls(l)) = (IF l.security # "none" THEN 1 ELSE 0)
         /\ Reality(l) \in Seq(Keys) /\ Len(Reality(l)) = (IF l.security = "reality" THEN 2 ELSE 0)
         /\ Ws(l) \in Seq(Keys) /\ Len(Ws(l)) = (IF l.transport = "ws" THEN 2 ELSE 0)
         /\ Grpc(l) \in Seq(Keys) /\ Len(Grpc(l)) = (IF l.transport = "grpc" THEN 2 ELSE 0)
         /\ <<"ca_file">> \in Seq(Keys) /\ Len(<<"ca_file">>) = 1
<1>1. Base \in Seq(Keys) /\ Len(Base) = 7 BY DEF Base, Keys
<1>2. Tls(l) \in Seq(Keys) /\ Len(Tls(l)) = (IF l.security # "none" THEN 1 ELSE 0)
  <2>1. CASE l.security # "none" BY <2>1 DEF Tls, Keys
  <2>2. CASE l.security = "none" BY <2>2 DEF Tls
  <2> QED BY <2>1, <2>2
<1>3. Reality(l) \in Seq(Keys) /\ Len(Reality(l)) = (IF l.security = "reality" THEN 2 ELSE 0)
  <2>1. CASE l.security = "reality" BY <2>1 DEF Reality, Keys
  <2>2. CASE l.security # "reality" BY <2>2 DEF Reality
  <2> QED BY <2>1, <2>2
<1>4. Ws(l) \in Seq(Keys) /\ Len(Ws(l)) = (IF l.transport = "ws" THEN 2 ELSE 0)
  <2>1. CASE l.transport = "ws" BY <2>1 DEF Ws, Keys
  <2>2. CASE l.transport # "ws" BY <2>2 DEF Ws
  <2> QED BY <2>1, <2>2
<1>5. Grpc(l) \in Seq(Keys) /\ Len(Grpc(l)) = (IF l.transport = "grpc" THEN 2 ELSE 0)
  <2>1. CASE l.transport = "grpc" BY <2>1 DEF Grpc, Keys
  <2>2. CASE l.transport # "grpc" BY <2>2 DEF Grpc
  <2> QED BY <2>1, <2>2
<1>6. <<"ca_file">> \in Seq(Keys) /\ Len(<<"ca_file">>) = 1 BY DEF Keys
<1> QED BY <1>1, <1>2, <1>3, <1>4, <1>5, <1>6

\* ... and these are the parts.
LEMMA LinesAre ==
  ASSUME NEW l
  PROVE  Lines(l) = Base \o Tls(l) \o Reality(l) \o Ws(l) \o Grpc(l) \o <<"ca_file">>
  BY DEF Lines, Base, Tls, Reality, Ws, Grpc

\* How many lines there are.
Count(l) ==
  8 + (IF l.security # "none" THEN 1 ELSE 0) + (IF l.security = "reality" THEN 2 ELSE 0)
    + (IF l.transport = "ws" THEN 2 ELSE 0) + (IF l.transport = "grpc" THEN 2 ELSE 0)

\* How many lines a file has, and what is on them.
LEMMA LinesAt ==
  ASSUME NEW l
  PROVE  /\ Lines(l) \in Seq(Keys) /\ Len(Lines(l)) = Count(l)
         /\ \A i \in 1..7 : Lines(l)[i] = Base[i]
         /\ l.security # "none" => Lines(l)[8] = "sni"
         /\ l.security = "reality" =>
              Lines(l)[9] = "reality_public_key" /\ Lines(l)[10] = "reality_short_id"
         /\ l.transport = "ws" =>
              LET n == Count(l) - 3 IN Lines(l)[n + 1] = "ws_host" /\ Lines(l)[n + 2] = "ws_path"
         /\ l.transport = "grpc" =>
              LET n == Count(l) - 3 IN
                Lines(l)[n + 1] = "grpc_service" /\ Lines(l)[n + 2] = "grpc_authority"
         /\ Lines(l)[Count(l)] = "ca_file"
<1> DEFINE L1 == Base \o Tls(l)
           L2 == L1 \o Reality(l)
           L3 == L2 \o Ws(l)
           L4 == L3 \o Grpc(l)
           L5 == L4 \o <<"ca_file">>
           n1 == 7 + (IF l.security # "none" THEN 1 ELSE 0)
           n2 == n1 + (IF l.security = "reality" THEN 2 ELSE 0)
           n3 == n2 + (IF l.transport = "ws" THEN 2 ELSE 0)
           n4 == n3 + (IF l.transport = "grpc" THEN 2 ELSE 0)
<1>0. Lines(l) = L5 BY LinesAre
<1>1. /\ L1 \in Seq(Keys) /\ Len(L1) = n1
      /\ \A i \in 1..7 : L1[i] = Base[i]
      /\ \A i \in 1..Len(Tls(l)) : L1[7 + i] = Tls(l)[i]
  <2>1. /\ Base \in Seq(Keys) /\ Len(Base) = 7
        /\ Tls(l) \in Seq(Keys) /\ 7 + Len(Tls(l)) = n1
    BY Parts
  <2>2. /\ L1 \in Seq(Keys) /\ Len(L1) = Len(Base) + Len(Tls(l))
        /\ \A i \in 1..Len(Base) : L1[i] = Base[i]
        /\ \A i \in 1..Len(Tls(l)) : L1[Len(Base) + i] = Tls(l)[i]
    BY <2>1, Concat
  <2> QED BY <2>1, <2>2
<1> HIDE DEF L1
<1>2. /\ L2 \in Seq(Keys) /\ Len(L2) = n2
      /\ \A i \in 1..n1 : L2[i] = L1[i]
      /\ \A i \in 1..Len(Reality(l)) : L2[n1 + i] = Reality(l)[i]
  <2>1. /\ L1 \in Seq(Keys) /\ Len(L1) = n1
        /\ Reality(l) \in Seq(Keys) /\ n1 + Len(Reality(l)) = n2
    BY <1>1, Parts
  <2>2. /\ L2 \in Seq(Keys) /\ Len(L2) = Len(L1) + Len(Reality(l))
        /\ \A i \in 1..Len(L1) : L2[i] = L1[i]
        /\ \A i \in 1..Len(Reality(l)) : L2[Len(L1) + i] = Reality(l)[i]
    BY <2>1, Concat
  <2> QED BY <2>1, <2>2
<1> HIDE DEF L2
<1>3. /\ L3 \in Seq(Keys) /\ Len(L3) = n3
      /\ \A i \in 1..n2 : L3[i] = L2[i]
      /\ \A i \in 1..Len(Ws(l)) : L3[n2 + i] = Ws(l)[i]
  <2>1. /\ L2 \in Seq(Keys) /\ Len(L2) = n2
        /\ Ws(l) \in Seq(Keys) /\ n2 + Len(Ws(l)) = n3
    BY <1>2, Parts
  <2>2. /\ L3 \in Seq(Keys) /\ Len(L3) = Len(L2) + Len(Ws(l))
        /\ \A i \in 1..Len(L2) : L3[i] = L2[i]
        /\ \A i \in 1..Len(Ws(l)) : L3[Len(L2) + i] = Ws(l)[i]
    BY <2>1, Concat
  <2> QED BY <2>1, <2>2
<1> HIDE DEF L3
<1>4. /\ L4 \in Seq(Keys) /\ Len(L4) = n4
      /\ \A i \in 1..n3 : L4[i] = L3[i]
      /\ \A i \in 1..Len(Grpc(l)) : L4[n3 + i] = Grpc(l)[i]
  <2>1. /\ L3 \in Seq(Keys) /\ Len(L3) = n3
        /\ Grpc(l) \in Seq(Keys) /\ n3 + Len(Grpc(l)) = n4
    BY <1>3, Parts
  <2>2. /\ L4 \in Seq(Keys) /\ Len(L4) = Len(L3) + Len(Grpc(l))
        /\ \A i \in 1..Len(L3) : L4[i] = L3[i]
        /\ \A i \in 1..Len(Grpc(l)) : L4[Len(L3) + i] = Grpc(l)[i]
    BY <2>1, Concat
  <2> QED BY <2>1, <2>2
<1> HIDE DEF L4
<1>5. /\ L5 \in Seq(Keys) /\ Len(L5) = n4 + 1
      /\ \A i \in 1..n4 : L5[i] = L4[i]
      /\ L5[n4 + 1] = "ca_file"
  <2>1. /\ L4 \in Seq(Keys) /\ Len(L4) = n4
        /\ <<"ca_file">> \in Seq(Keys) /\ n4 + Len(<<"ca_file">>) = n4 + 1
    BY <1>4, Parts
  <2>2. /\ L5 \in Seq(Keys) /\ Len(L5) = Len(L4) + Len(<<"ca_file">>)
        /\ \A i \in 1..Len(L4) : L5[i] = L4[i]
        /\ \A i \in 1..Len(<<"ca_file">>) : L5[Len(L4) + i] = <<"ca_file">>[i]
    BY <2>1, Concat
  <2>3. 1 \in 1..Len(<<"ca_file">>) BY Parts
  <2>4. L5[Len(L4) + 1] = <<"ca_file">>[1] BY <2>2, <2>3
  <2> QED BY <2>1, <2>2, <2>4
<1> HIDE DEF L5
<1>6. Len(Lines(l)) = Count(l) /\ Count(l) = n4 + 1 /\ Lines(l) \in Seq(Keys)
  BY <1>0, <1>5 DEF Count
<1>7. \A i \in 1..7 : Lines(l)[i] = Base[i]
  <2>1. /\ n1 \in Nat /\ n2 \in Nat /\ n3 \in Nat /\ n4 \in Nat
        /\ 7 <= n1 /\ n1 <= n2 /\ n2 <= n3 /\ n3 <= n4
    OBVIOUS
  <2> HIDE DEF n1, n2, n3, n4
  <2> QED BY <1>0, <1>1, <1>2, <1>3, <1>4, <1>5, <2>1
<1>8. l.security # "none" => Lines(l)[8] = "sni"
  <2> SUFFICES ASSUME l.security # "none" PROVE Lines(l)[8] = "sni" OBVIOUS
  <2>1. Tls(l) = <<"sni">> BY DEF Tls
  <2>2. L1[8] = "sni" BY <1>1, <2>1
  <2> QED BY <1>0, <1>2, <1>3, <1>4, <1>5, <2>2
<1>9. l.security = "reality" =>
        Lines(l)[9] = "reality_public_key" /\ Lines(l)[10] = "reality_short_id"
  <2> SUFFICES ASSUME l.security = "reality"
               PROVE  Lines(l)[9] = "reality_public_key" /\ Lines(l)[10] = "reality_short_id"
    OBVIOUS
  <2>1. Reality(l) = <<"reality_public_key", "reality_short_id">> BY DEF Reality
  <2>2. L2[9] = "reality_public_key" /\ L2[10] = "reality_short_id" BY <1>2, <2>1
  <2> QED BY <1>0, <1>3, <1>4, <1>5, <2>2
<1>10. l.transport = "ws" =>
         LET n == Count(l) - 3 IN Lines(l)[n + 1] = "ws_host" /\ Lines(l)[n + 2] = "ws_path"
  <2> SUFFICES ASSUME l.transport = "ws"
               PROVE  /\ Lines(l)[Count(l) - 3 + 1] = "ws_host"
                      /\ Lines(l)[Count(l) - 3 + 2] = "ws_path"
    OBVIOUS
  <2>1. Ws(l) = <<"ws_host", "ws_path">> BY DEF Ws
  <2>2. L3[n2 + 1] = "ws_host" /\ L3[n2 + 2] = "ws_path" BY <1>3, <2>1
  <2>3. n2 = Count(l) - 3 /\ n3 = n2 + 2 /\ n4 = n3 BY <1>6
  <2>4. n2 \in Nat OBVIOUS
  <2> HIDE DEF n1, n2, n3, n4
  <2> QED BY <1>0, <1>4, <1>5, <2>2, <2>3, <2>4
<1>11. l.transport = "grpc" =>
         LET n == Count(l) - 3 IN
           Lines(l)[n + 1] = "grpc_service" /\ Lines(l)[n + 2] = "grpc_authority"
  <2> SUFFICES ASSUME l.transport = "grpc"
               PROVE  /\ Lines(l)[Count(l) - 3 + 1] = "grpc_service"
                      /\ Lines(l)[Count(l) - 3 + 2] = "grpc_authority"
    OBVIOUS
  <2>1. Grpc(l) = <<"grpc_service", "grpc_authority">> BY DEF Grpc
  <2>2. L4[n3 + 1] = "grpc_service" /\ L4[n3 + 2] = "grpc_authority" BY <1>4, <2>1
  <2>3. n3 = Count(l) - 3 /\ n4 = n3 + 2 BY <1>6
  <2>4. n3 \in Nat OBVIOUS
  <2> HIDE DEF n1, n2, n3, n4
  <2> QED BY <1>0, <1>5, <2>2, <2>3, <2>4
<1>12. Lines(l)[Count(l)] = "ca_file" BY <1>0, <1>5, <1>6
<1> QED BY <1>6, <1>7, <1>8, <1>9, <1>10, <1>11, <1>12

\* Of the links the importer accepts, seven shapes of file.
LEMMA Shapes ==
  ASSUME NEW l \in Links, Accepts(l)
  PROVE  /\ l.transport \in {"tcp", "ws", "grpc"} /\ l.security \in {"none", "tls", "reality"}
         /\ l.transport = "ws" => l.security # "reality" /\ l.path = "/path"
         /\ l.transport = "grpc" => l.security # "none" /\ l.service = "service"
         /\ Count(l) \in 8..13 /\ Count(l) =
              CASE l.transport = "tcp" /\ l.security = "none"     -> 8
                [] l.transport = "tcp" /\ l.security = "tls"      -> 9
                [] l.transport = "tcp" /\ l.security = "reality"  -> 11
                [] l.transport = "ws" /\ l.security = "none"      -> 10
                [] l.transport = "ws" /\ l.security = "tls"       -> 11
                [] l.transport = "grpc" /\ l.security = "tls"     -> 11
                [] l.transport = "grpc" /\ l.security = "reality" -> 13
<1>1. /\ l.transport \in {"tcp", "ws", "grpc"} /\ l.security \in {"none", "tls", "reality"}
      /\ l.transport = "ws" => l.security # "reality" /\ l.path = "/path"
      /\ l.transport = "grpc" => l.security # "none" /\ l.service = "service"
  BY LinksAssumption DEF Accepts
<1>2. CASE l.transport = "tcp" BY <1>1, <1>2 DEF Count
<1>3. CASE l.transport = "ws" BY <1>1, <1>3 DEF Count
<1>4. CASE l.transport = "grpc" BY <1>1, <1>4 DEF Count
<1> QED BY <1>1, <1>2, <1>3, <1>4

\* Which line a key is on.
LEMMA Places ==
  ASSUME NEW l \in Links, Accepts(l), NEW i \in 1..Count(l)
  PROVE  LET key == Lines(l)[i] IN
           /\ key \in Keys
           /\ key = "transport" <=> i = 4
           /\ key = "security" <=> i = 5
           /\ key = "flow" <=> i = 6
           /\ key = "tls" <=> i = 7
           /\ key = "sni" <=> i = 8 /\ l.security # "none"
           /\ key = "reality_public_key" <=> i = 9 /\ l.security = "reality"
           /\ key = "reality_short_id" <=> i = 10 /\ l.security = "reality"
           /\ key = "ws_path" <=> i = Count(l) - 1 /\ l.transport = "ws"
           /\ key = "grpc_service" <=> i = Count(l) - 2 /\ l.transport = "grpc"
<1>1. Lines(l)[i] \in Keys BY LinesAt, Shapes
<1>2. CASE i \in 1..7
  <2>1. Lines(l)[i] = Base[i] BY <1>2, LinesAt
  <2>2. i \in {1, 2, 3, 4, 5, 6, 7} BY <1>2
  <2>3. Base[1] = "server" /\ Base[2] = "port" /\ Base[3] = "uuid" /\ Base[4] = "transport"
        /\ Base[5] = "security" /\ Base[6] = "flow" /\ Base[7] = "tls"
    BY DEF Base
  <2>4. i # 8 /\ i # 9 /\ i # 10 /\ i # Count(l)
        /\ (i = Count(l) - 1 => l.transport # "ws")
        /\ (i = Count(l) - 2 => l.transport # "grpc")
    BY <1>2, Shapes
  <2> QED BY <1>1, <2>1, <2>2, <2>3, <2>4
<1>3. CASE i = Count(l)
  <2>1. Lines(l)[i] = "ca_file" BY <1>3, LinesAt
  <2>2. i # 4 /\ i # 5 /\ i # 6 /\ i # 7 /\ i # Count(l) - 1 /\ i # Count(l) - 2
        /\ (i = 8 => l.security = "none") /\ (i \in {9, 10} => l.security # "reality")
    BY <1>3, Shapes
  <2> QED BY <1>1, <2>1, <2>2
<1>4. CASE i \notin 1..7 /\ i # Count(l) /\ l.transport = "tcp"
  <2>1. i \in {8, 9, 10} /\ l.security # "none" /\ (i # 8 => l.security = "reality")
    BY <1>4, Shapes
  <2>2. /\ i = 8 => Lines(l)[i] = "sni"
        /\ i = 9 => Lines(l)[i] = "reality_public_key"
        /\ i = 10 => Lines(l)[i] = "reality_short_id"
    <3>1. Lines(l)[8] = "sni" BY <2>1, LinesAt
    <3>2. l.security = "reality" =>
            Lines(l)[9] = "reality_public_key" /\ Lines(l)[10] = "reality_short_id"
      BY LinesAt
    <3> QED BY <2>1, <3>1, <3>2
  <2>3. l.transport # "ws" /\ l.transport # "grpc" BY <1>4
  <2> QED BY <1>1, <2>1, <2>2, <2>3
<1>5. CASE i \notin 1..7 /\ i # Count(l) /\ l.transport = "ws"
  <2>1. l.security # "reality" /\ l.transport # "grpc" BY <1>5, Shapes
  <2>2. \/ i = 8 /\ l.security = "tls"
        \/ i = Count(l) - 2 /\ i \in {8, 9} /\ (i = 8 => l.security = "none")
        \/ i = Count(l) - 1 /\ i \in {9, 10}
    BY <1>5, Shapes
  <2>3. Lines(l)[Count(l) - 2] = "ws_host" /\ Lines(l)[Count(l) - 1] = "ws_path"
    <3>1. Count(l) - 3 + 1 = Count(l) - 2 /\ Count(l) - 3 + 2 = Count(l) - 1 BY Shapes
    <3> QED BY <3>1, <1>5, LinesAt
  <2>4. i = 8 /\ l.security = "tls" => Lines(l)[i] = "sni" /\ i # Count(l) - 1
    <3>1. l.security = "tls" => Lines(l)[8] = "sni" BY LinesAt
    <3>2. l.security = "tls" => Count(l) = 11 BY <1>5, Shapes
    <3> QED BY <3>1, <3>2
  <2>5. Count(l) - 2 # Count(l) - 1 BY Shapes
  <2> QED BY <1>1, <1>5, <2>1, <2>2, <2>3, <2>4, <2>5
<1>6. CASE i \notin 1..7 /\ i # Count(l) /\ l.transport = "grpc"
  <2>1. l.security # "none" /\ l.transport # "ws" BY <1>6, Shapes
  <2>2. \/ i = 8
        \/ i \in {9, 10} /\ l.security = "reality"
        \/ i = Count(l) - 2 /\ i \in {9, 11} /\ (i = 9 => l.security = "tls")
        \/ i = Count(l) - 1 /\ i \in {10, 12} /\ (i = 10 => l.security = "tls")
    BY <1>6, Shapes
  <2>3. Lines(l)[Count(l) - 2] = "grpc_service" /\ Lines(l)[Count(l) - 1] = "grpc_authority"
    <3>1. Count(l) - 3 + 1 = Count(l) - 2 /\ Count(l) - 3 + 2 = Count(l) - 1 BY Shapes
    <3> QED BY <3>1, <1>6, LinesAt
  <2>4. /\ i = 8 => Lines(l)[i] = "sni" /\ i # Count(l) - 2
        /\ i = 9 /\ l.security = "reality" =>
             Lines(l)[i] = "reality_public_key" /\ i # Count(l) - 2
        /\ i = 10 /\ l.security = "reality" =>
             Lines(l)[i] = "reality_short_id" /\ i # Count(l) - 2
    <3>1. /\ Lines(l)[8] = "sni"
          /\ l.security = "reality" =>
               Lines(l)[9] = "reality_public_key" /\ Lines(l)[10] = "reality_short_id"
      BY <2>1, LinesAt
    <3>2. Count(l) \in {11, 13} /\ (l.security = "reality" => Count(l) = 13)
      BY <1>6, Shapes
    <3> QED BY <3>1, <3>2
  <2>5. Count(l) - 2 # Count(l) - 1 BY Shapes
  <2> QED BY <1>1, <1>6, <2>1, <2>2, <2>3, <2>4, <2>5
<1> QED BY <1>2, <1>3, <1>4, <1>5, <1>6, Shapes

-----------------------------------------------------------------------------
(* What load_config() knows at each line.                                  *)

Confs ==
  [saw : SUBSET {"server", "port", "uuid"}, transport : {"tcp", "ws", "grpc"},
   use_tls : BOOLEAN, use_reality : BOOLEAN, use_vision : BOOLEAN, reality_key_set : BOOLEAN,
   reality_short_id : {"none", "id", "spoiled"}, sni : {"none", "sni", "server", "blank"},
   ws_path : {"/", "/path", "path"}, grpc_service : {"GunService", "service", "a/b"}]

FileType ==
  /\ link \in Links /\ Accepts(link)
  /\ size \in 0..Count(link) /\ line \in 0..size
  /\ conf \in Confs
  /\ load \in {"reading", "ok", "bad"}

\* The fields whose line has been read are those of the link, and stay so;
\* before its line, the transport is plain TCP.
LinesRead ==
  load # "bad" =>
    LET tls == link.security # "none"
        reality == link.security = "reality"
    IN  /\ conf.transport = IF line >= 4 THEN link.transport ELSE "tcp"
        /\ line >= 5 => conf.use_tls = tls /\ conf.use_reality = reality
        /\ line >= 6 => conf.use_vision = link.vision
        /\ line >= 8 /\ tls => conf.sni = link.sni
        /\ line >= 10 /\ reality => (conf.reality_short_id = "id") = (link.sid > 0)
        /\ line >= Count(link) - 1 /\ link.transport = "ws" => conf.ws_path = link.path
        /\ line >= Count(link) - 2 /\ link.transport = "grpc" =>
             conf.grpc_service = link.service

Accepted == load = "ok" => line = size /\ Consistent(conf)

FileInv == FileType /\ LinesRead /\ Accepted

\* Each field has the keys that set it, and no other key does.
LEMMA ApplySets ==
  ASSUME conf \in Confs, link \in Links, Accepts(link), NEW key \in Keys
  PROVE  LET new == Apply(key)
             tls == link.security # "none"
         IN  /\ new \in Confs
             /\ new.transport = IF key = "transport" THEN link.transport ELSE conf.transport
             /\ new.use_tls = IF key \in {"security", "tls"} THEN tls ELSE conf.use_tls
             /\ new.use_reality =
                  IF key = "security" THEN link.security = "reality" ELSE conf.use_reality
             /\ new.use_vision = IF key = "flow" THEN link.vision ELSE conf.use_vision
             /\ new.sni = IF key = "sni" THEN link.sni ELSE conf.sni
             /\ key = "reality_short_id" =>
                  new.reality_short_id = IF link.sid = 0 THEN "none" ELSE "id"
             /\ key \notin {"reality_short_id", "reality_public_key"} =>
                  new.reality_short_id = conf.reality_short_id
             /\ new.ws_path = IF key = "ws_path" THEN link.path ELSE conf.ws_path
             /\ new.grpc_service = IF key = "grpc_service" THEN link.service ELSE conf.grpc_service
<1>1. /\ link.transport \in {"tcp", "ws", "grpc"}
      /\ link.security \in {"none", "tls", "reality"}
      /\ link.vision \in BOOLEAN /\ link.sni \in {"sni", "server", "blank"}
      /\ link.path \in {"/path", "path"} /\ link.service \in {"service", "a/b"}
      /\ link.sid \in Nat
  BY LinksAssumption DEF Accepts
<1>2. CASE key \in {"server", "port", "uuid"}
  BY <1>1, <1>2 DEF Apply, Confs
<1>3. CASE key = "transport"
  BY <1>1, <1>3 DEF Apply, Confs
<1>4. CASE key = "security"
  BY <1>1, <1>4 DEF Apply, Confs
<1>5. CASE key = "flow"
  BY <1>1, <1>5 DEF Apply, Confs
<1>6. CASE key = "tls"
  BY <1>1, <1>6 DEF Apply, Confs
<1>7. CASE key = "sni"
  BY <1>1, <1>7 DEF Apply, Confs
<1>8. CASE key = "reality_public_key"
  BY <1>1, <1>8 DEF Apply, Confs
<1>9. CASE key = "reality_short_id"
  BY <1>1, <1>9 DEF Apply, Confs
<1>10. CASE key = "ws_path"
  BY <1>1, <1>10 DEF Apply, Confs
<1>11. CASE key = "grpc_service"
  BY <1>1, <1>11 DEF Apply, Confs
<1>12. CASE key \in {"ws_host", "grpc_authority", "ca_file"}
  BY <1>1, <1>12 DEF Apply, Confs
<1> QED BY <1>2, <1>3, <1>4, <1>5, <1>6, <1>7, <1>8, <1>9, <1>10, <1>11, <1>12 DEF Keys

\* A line that is read settles its field and no other.
LEMMA ReadLineStep ==
  ASSUME FileInv, ReadLine
  PROVE  FileInv'
<1> DEFINE key == Lines(link)[line + 1]
<1>1. link' = link /\ size' = size /\ line' = line + 1 /\ load = "reading"
  BY DEF ReadLine
<1>2. line \in Nat /\ size \in Nat /\ line + 1 \in 1..Count(link) /\ line' \in 0..size
  <2>1. Count(link) \in Nat BY Shapes DEF FileInv, FileType
  <2> QED BY <1>1, <2>1 DEF ReadLine, FileInv, FileType
<1>3. link \in Links /\ Accepts(link) /\ conf \in Confs BY DEF FileInv, FileType
<1>4. /\ key \in Keys
      /\ key = "transport" <=> line + 1 = 4
      /\ key = "security" <=> line + 1 = 5
      /\ key = "flow" <=> line + 1 = 6
      /\ key = "tls" <=> line + 1 = 7
      /\ key = "sni" <=> line + 1 = 8 /\ link.security # "none"
      /\ key = "reality_public_key" <=> line + 1 = 9 /\ link.security = "reality"
      /\ key = "reality_short_id" <=> line + 1 = 10 /\ link.security = "reality"
      /\ key = "ws_path" <=> line + 1 = Count(link) - 1 /\ link.transport = "ws"
      /\ key = "grpc_service" <=> line + 1 = Count(link) - 2 /\ link.transport = "grpc"
  BY <1>2, <1>3, Places
<1>5. CASE Invalid(key)
  <2>1. load' = "bad" /\ conf' = conf BY <1>5 DEF ReadLine
  <2> QED BY <1>1, <1>2, <2>1 DEF FileInv, FileType, LinesRead, Accepted
<1>6. CASE ~Invalid(key)
  <2>1. load' = "reading" /\ conf' = Apply(key) BY <1>1, <1>6 DEF ReadLine
  <2> HIDE DEF key
  <2>2. LET tls == link.security # "none" IN
          /\ conf' \in Confs
          /\ conf'.transport = IF key = "transport" THEN link.transport ELSE conf.transport
          /\ conf'.use_tls = IF key \in {"security", "tls"} THEN tls ELSE conf.use_tls
          /\ conf'.use_reality =
               IF key = "security" THEN link.security = "reality" ELSE conf.use_reality
          /\ conf'.use_vision = IF key = "flow" THEN link.vision ELSE conf.use_vision
          /\ conf'.sni = IF key = "sni" THEN link.sni ELSE conf.sni
          /\ key = "reality_short_id" =>
               conf'.reality_short_id = IF link.sid = 0 THEN "none" ELSE "id"
          /\ key \notin {"reality_short_id", "reality_public_key"} =>
               conf'.reality_short_id = conf.reality_short_id
          /\ conf'.ws_path = IF key = "ws_path" THEN link.path ELSE conf.ws_path
          /\ conf'.grpc_service = IF key = "grpc_service" THEN link.service ELSE conf.grpc_service
    BY <1>3, <1>4, <2>1, ApplySets
  <2>3. FileType' BY <1>1, <1>2, <1>3, <2>1, <2>2 DEF FileInv, FileType
  <2>4. LinesRead'
    <3>1. Count(link) \in Nat /\ link.sid \in Nat BY <1>3, Shapes, LinksAssumption
    <3>2. LinesRead BY DEF FileInv
    <3>3. IF line' >= 4 THEN conf'.transport = link.transport ELSE conf'.transport = "tcp"
      <4>1. IF line >= 4 THEN conf.transport = link.transport ELSE conf.transport = "tcp"
        BY <2>1, <1>1, <3>2 DEF LinesRead
      <4>2. CASE line + 1 = 4 BY <4>2, <1>1, <1>2, <1>4, <2>2
      <4>3. CASE line + 1 # 4 BY <4>1, <4>3, <1>1, <1>2, <1>4, <2>2
      <4> QED BY <4>2, <4>3
    <3>4. line' >= 5 => /\ conf'.use_tls = (link.security # "none")
                        /\ conf'.use_reality = (link.security = "reality")
      BY <1>1, <1>2, <1>4, <2>2, <3>2 DEF LinesRead
    <3>5. line' >= 6 => conf'.use_vision = link.vision
      BY <1>1, <1>2, <1>4, <2>2, <3>2 DEF LinesRead
    <3>6. line' >= 8 /\ link.security # "none" => conf'.sni = link.sni
      BY <1>1, <1>2, <1>4, <2>2, <3>2 DEF LinesRead
    <3>7. line' >= 10 /\ link.security = "reality" =>
            (conf'.reality_short_id = "id") = (link.sid > 0)
      BY <1>1, <1>2, <1>4, <2>2, <3>1, <3>2 DEF LinesRead
    <3>8. line' >= Count(link) - 1 /\ link.transport = "ws" => conf'.ws_path = link.path
      BY <1>1, <1>2, <1>4, <2>2, <3>1, <3>2 DEF LinesRead
    <3>9. line' >= Count(link) - 2 /\ link.transport = "grpc" =>
            conf'.grpc_service = link.service
      BY <1>1, <1>2, <1>4, <2>2, <3>1, <3>2 DEF LinesRead
    <3> QED BY <1>1, <3>3, <3>4, <3>5, <3>6, <3>7, <3>8, <3>9 DEF LinesRead, Count
  <2>5. Accepted' BY <2>1 DEF Accepted
  <2> QED BY <2>3, <2>4, <2>5 DEF FileInv
<1> QED BY <1>5, <1>6

\* The default of sni is for a file without that line, or for one cut before it.
LEMMA LoadEndsStep ==
  ASSUME FileInv, LoadEnds
  PROVE  FileInv'
<1>1. link' = link /\ size' = size /\ line' = line /\ load = "reading" /\ line = size
  BY DEF LoadEnds
<1>2. FileType /\ LinesRead BY DEF FileInv
<1>3. conf \in Confs /\ link \in Links /\ Accepts(link) BY <1>2 DEF FileType
<1>4. /\ conf' \in Confs
      /\ \A f \in {"saw", "transport", "use_tls", "use_reality", "use_vision", "reality_key_set",
                   "reality_short_id", "ws_path", "grpc_service"} : conf'[f] = conf[f]
      /\ conf.sni # "none" => conf'.sni = conf.sni
  BY <1>3 DEF LoadEnds, Confs
<1>5. link.sni # "none" BY <1>3, LinksAssumption
<1>6. FileType' BY <1>1, <1>2, <1>4 DEF FileType, LoadEnds
<1>7. LinesRead' BY <1>1, <1>2, <1>4, <1>5 DEF LinesRead, Count
<1>8. Accepted'
  <2>1. load' = "ok" => Consistent(conf) BY DEF LoadEnds
  <2>2. Consistent(conf) => Consistent(conf') BY <1>4 DEF Consistent
  <2> QED BY <1>1, <2>1, <2>2 DEF Accepted, Consistent
<1> QED BY <1>6, <1>7, <1>8 DEF FileInv

\* Nothing has been read at the start.
LEMMA FileInit == Init => FileInv
<1> SUFFICES ASSUME Init PROVE FileInv OBVIOUS
<1>1. (CHOOSE x \in PlainLinks : TRUE) \in PlainLinks /\ PlainLinks \subseteq Links
  BY MainAssumption
<1>2. /\ link \in Links /\ Accepts(link)
      /\ line = 0 /\ conf = Defaults /\ load = "reading"
  BY <1>1 DEF Init, LoadInit
<1>3. size \in 0..Count(link)
  <2>1. Len(Lines(link)) = Count(link) /\ Count(link) \in Nat BY <1>2, LinesAt, Shapes
  <2> QED BY <2>1 DEF Init
<1>4. conf \in Confs BY <1>2 DEF Defaults, Confs
<1>5. Count(link) >= 8 /\ Count(link) \in Nat
      /\ (link.transport \in {"ws", "grpc"} => Count(link) >= 10)
  BY <1>2, Shapes
<1>6. FileType BY <1>2, <1>3, <1>4, <1>5 DEF FileType
<1>7. LinesRead
  <2>1. conf.transport = "tcp" BY <1>2 DEF Defaults
  <2> QED BY <1>2, <1>5, <2>1 DEF LinesRead
<1> QED BY <1>2, <1>6, <1>7 DEF FileInv, Accepted

\* Only load_config() changes any of it.
LEMMA FileStep ==
  ASSUME FileInv, [Next]_vars
  PROVE  FileInv'
<1>1. LoadConfig \/ UNCHANGED file
  BY DEF Next, Process, Load, Exits, Starts, Fetches, vars
<1>2. CASE UNCHANGED file
  BY <1>2 DEF FileInv, FileType, LinesRead, Accepted, file, Count
<1>3. CASE LoadConfig
  BY <1>3, ReadLineStep, LoadEndsStep DEF LoadConfig
<1> QED BY <1>1, <1>2, <1>3

\* load_config() at every line of every file.
THEOREM FileInvariance == Spec => []FileInv
<1>1. FileInv /\ [Next]_vars => FileInv' BY FileStep
<1> QED BY FileInit, <1>1, PTL DEF Spec

\* What apply_config_value() gets out of a whole file is what the importer
\* read in the link: no line undoes another.
THEOREM WholeFile == Spec => []LoadedAsLinked
<1>1. FileInv => LoadedAsLinked
  <2> SUFFICES ASSUME FileInv, load = "ok", Whole
               PROVE  LET tls == link.security # "none" IN
                        /\ conf.transport = link.transport
                        /\ conf.use_tls = tls
                        /\ conf.use_reality = (link.security = "reality")
                        /\ conf.use_vision = link.vision
                        /\ tls => conf.sni = link.sni
                        /\ conf.use_reality => (conf.reality_short_id = "id") = (link.sid > 0)
                        /\ link.transport = "ws" => conf.ws_path = link.path
                        /\ link.transport = "grpc" => conf.grpc_service = link.service
    BY DEF LoadedAsLinked
  <2>1. link \in Links /\ Accepts(link) /\ LinesRead /\ line = Count(link)
    BY LinesAt DEF FileInv, FileType, Accepted, Whole
  <2>2. /\ Count(link) \in Nat /\ Count(link) >= 8
        /\ link.security = "reality" => Count(link) >= 10
    BY <2>1, Shapes
  <2>3. /\ conf.transport = link.transport
        /\ conf.use_tls = (link.security # "none")
        /\ conf.use_reality = (link.security = "reality")
        /\ conf.use_vision = link.vision
        /\ link.security # "none" => conf.sni = link.sni
    BY <2>1, <2>2 DEF LinesRead
  <2>4. link.security = "reality" => (conf.reality_short_id = "id") = (link.sid > 0)
    BY <2>1, <2>2 DEF LinesRead
  <2>5. /\ link.transport = "ws" => conf.ws_path = link.path
        /\ link.transport = "grpc" => conf.grpc_service = link.service
    BY <2>1, <2>2 DEF LinesRead
  <2> QED BY <2>3, <2>4, <2>5
<1> QED BY FileInvariance, <1>1, PTL

\* A file cut short after its security= line, if load_config() takes it, has
\* the security of the link, and REALITY with its key.
THEOREM CutFile == Spec => []CutKeepsSecurity
<1>1. FileInv => CutKeepsSecurity
  BY DEF FileInv, FileType, LinesRead, Accepted, Consistent, CutKeepsSecurity
<1> QED BY FileInvariance, <1>1, PTL

\* load_config() leaves a combination of Configs.
LEMMA FileConfigs == FileInv => LoadedIsConfig
<1> SUFFICES ASSUME FileInv, load = "ok" PROVE Loaded(conf) \in Configs
  BY DEF LoadedIsConfig
<1>1. FileType /\ LinesRead /\ Consistent(conf) BY DEF FileInv, Accepted
<1>2. conf.transport \in {"tcp", link.transport}
  BY <1>1 DEF FileType, LinesRead
<1>3. "tcp" \in Transports /\ link.transport \in Transports
  BY <1>1, MainAssumption DEF FileType
<1> QED BY <1>1, <1>2, <1>3 DEF FileType, Confs, Consistent, Loaded, Configs

\* The checks at the end of load_config() let through only the configurations
\* that the relay and the probes are written for, cut files included.
THEOREM EngineConfigs == Spec => []LoadedIsConfig
BY FileInvariance, FileConfigs, PTL

-----------------------------------------------------------------------------
(* The downloads.                                                          *)

\* Positions(a, b) has one element for each position ...
LEMMA PositionsSeq ==
  ASSUME NEW a \in Nat, NEW b \in Nat, a <= b + 1
  PROVE  /\ Positions(a, b) \in Seq(Nat) /\ Len(Positions(a, b)) = b - a + 1
         /\ \A i \in 1..(b - a + 1) : Positions(a, b)[i] = a + i - 1
<1>1. b - a + 1 \in Nat OBVIOUS
<1>2. \A i \in 1..(b - a + 1) : a + i - 1 \in Nat OBVIOUS
<1>3. Positions(a, b) \in [1..(b - a + 1) -> Nat] BY <1>1, <1>2 DEF Positions
<1>4. Positions(a, b) \in Seq(Nat) BY <1>1, <1>3
<1> QED BY <1>1, <1>3, <1>4, LenProperties DEF Positions

\* ... and is continued by those that follow.
LEMMA PositionsConcat ==
  ASSUME NEW a \in Nat, NEW b \in Nat, NEW c \in Nat, a <= b + 1, b <= c
  PROVE  Positions(a, b) \o Positions(b + 1, c) = Positions(a, c)
<1> DEFINE s == Positions(a, b)
           t == Positions(b + 1, c)
           u == Positions(a, c)
<1>1. /\ s \in Seq(Nat) /\ Len(s) = b - a + 1
      /\ \A i \in 1..(b - a + 1) : s[i] = a + i - 1
  BY PositionsSeq
<1>2. /\ t \in Seq(Nat) /\ Len(t) = c - b
      /\ \A i \in 1..(c - b) : t[i] = b + i
  <2>1. b + 1 \in Nat /\ b + 1 <= c + 1 /\ c - (b + 1) + 1 = c - b OBVIOUS
  <2>2. /\ t \in Seq(Nat) /\ Len(t) = c - (b + 1) + 1
        /\ \A i \in 1..(c - (b + 1) + 1) : t[i] = b + 1 + i - 1
    BY <2>1, PositionsSeq
  <2> QED BY <2>1, <2>2
<1>3. /\ u \in Seq(Nat) /\ Len(u) = c - a + 1
      /\ \A i \in 1..(c - a + 1) : u[i] = a + i - 1
  <2>1. a <= c + 1 OBVIOUS
  <2> QED BY <2>1, PositionsSeq
<1> HIDE DEF s, t, u
<1>4. s \o t \in Seq(Nat) /\ Len(s \o t) = c - a + 1
  <2>1. s \o t \in Seq(Nat) /\ Len(s \o t) = Len(s) + Len(t)
    BY <1>1, <1>2, ConcatProperties
  <2> QED BY <2>1, <1>1, <1>2
<1>5. \A i \in 1..(c - a + 1) : (s \o t)[i] = u[i]
  <2> TAKE i \in 1..(c - a + 1)
  <2>1. CASE i <= Len(s)
    <3>1. (s \o t)[i] = s[i] BY <1>1, <1>2, <2>1, ConcatProperties
    <3> QED BY <3>1, <2>1, <1>1, <1>3
  <2>2. CASE i > Len(s)
    <3>1. (s \o t)[i] = t[i - Len(s)] BY <1>1, <1>2, <1>4, <2>2, ConcatProperties
    <3>2. i - Len(s) \in 1..(c - b) BY <1>1, <2>2
    <3>3. t[i - Len(s)] = b + (i - Len(s)) BY <3>2, <1>2
    <3>4. u[i] = a + i - 1 BY <1>3
    <3> QED BY <3>1, <3>3, <3>4, <1>1
  <2>3. i <= Len(s) \/ i > Len(s) BY <1>1
  <2> QED BY <2>1, <2>2, <2>3
<1>6. s \o t = u BY <1>3, <1>4, <1>5, SeqEqual
<1> QED BY <1>6 DEF s, t, u

FetchType ==
  /\ step \in {"none", "open", "read", "resolve", "answer", "ended"}
  /\ reply \in Replies /\ got \in Nat /\ exists \in BOOLEAN
  /\ fault \in {"none", "site", "lost", "disk"}
  /\ exit \in {"none", "ok", "failed"}

\* How far the reading is, at each point of the program: before the blank line
\* nothing is written and all that came fits MAX_HEADER_SIZE.
Reached ==
  /\ got <= reply.head + reply.body
  /\ exit # "none" => step = "ended"
  /\ step = "open" => got = 0
  /\ step \notin {"read", "ended"} => ~exists
  /\ step = "read" /\ ~exists => got < reply.head

\* What is in the file is the body as far as it has been read.
Written ==
  /\ ~exists /\ exit # "failed" => output = <<>>
  /\ exists => /\ exit # "failed" /\ Acceptable
               /\ reply.head <= got /\ got <= reply.head + reply.length
               /\ output = Positions(reply.head + 1, got)
               /\ exit = "ok" => got = reply.head + reply.length

FetchInv == FetchType /\ Reached /\ Written /\ GoodAnswerIsFetched

\* What an answer is made of.
LEMMA ReplyType ==
  ASSUME reply \in Replies
  PROVE  /\ reply.ok \in BOOLEAN
         /\ reply.head \in Nat /\ reply.head >= 1
         /\ reply.length \in Nat /\ reply.body \in Nat
         /\ HeaderMax \in Nat /\ RecordMax \in Nat /\ BodyMax \in Nat
BY FetchAssumption DEF Replies

\* The length of the file tells how far the reading is.
LEMMA WrittenLen ==
  ASSUME FetchInv, exists
  PROVE  Len(output) = got - reply.head /\ Len(output) \in Nat
<1>1. /\ reply.head + 1 \in Nat /\ got \in Nat /\ reply.head \in Nat
      /\ reply.head + 1 <= got + 1 /\ output = Positions(reply.head + 1, got)
  BY ReplyType DEF FetchInv, FetchType, Written
<1>2. Len(output) = got - (reply.head + 1) + 1 BY <1>1, PositionsSeq
<1> QED BY <1>1, <1>2

\* A step that fails leaves no file: what else FetchInv asks of it.
LEMMA FailedStep ==
  ASSUME FetchInv, NEW why \in {"none", "site", "lost", "disk"}, Failed(why),
         exit = "none", got' \in Nat, got' <= reply.head + reply.body,
         why = "none" /\ Acceptable /\ reply.length = reply.body =>
           ~exists /\ got' > HeaderMax
  PROVE  FetchInv'
<1>1. /\ step' = "ended" /\ exit' = "failed" /\ exists' = FALSE /\ fault' = why
      /\ reply' = reply /\ output' = output
  BY DEF Failed
<1>2. FetchType' BY <1>1 DEF FetchInv, FetchType
<1>3. Reached' BY <1>1 DEF Reached
<1>4. Written' BY <1>1 DEF Written
<1>5. GoodAnswerIsFetched'
  <2>1. ~exists => output = <<>> BY DEF FetchInv, Written
  <2> QED BY <1>1, <2>1 DEF GoodAnswerIsFetched, Acceptable
<1> QED BY <1>2, <1>3, <1>4, <1>5 DEF FetchInv

\* What SSL_read() returned either does not fit, ends in the header, or brings
\* the blank line.
LEMMA FetchHeaderStep ==
  ASSUME FetchInv, FetchHeader
  PROVE  FetchInv'
<1>1. step = "read" /\ ~exists /\ exit = "none" /\ output = <<>> /\ got < reply.head
  BY DEF FetchHeader, HeaderComplete, FetchInv, Reached, Written
<1>2. PICK count \in 1..RecordMax :
        /\ got + count <= reply.head + reply.body
        /\ got' = got + count
        /\ IF ~HeaderFits(got')
             THEN Failed("none")
             ELSE \/ /\ got' < reply.head
                     /\ UNCHANGED <<step, reply, output, exists, fault, exit>>
                  \/ /\ got' >= reply.head
                     /\ IF Acceptable /\ got' - reply.head <= reply.length
                          THEN \/ /\ output' = Positions(reply.head + 1, got')
                                  /\ exists' = TRUE
                                  /\ UNCHANGED <<step, reply, fault, exit>>
                               \/ Failed("disk")
                          ELSE Failed("none")
  BY DEF FetchHeader
<1>3. /\ reply.head \in Nat /\ reply.length \in Nat /\ reply.body \in Nat
      /\ HeaderMax \in Nat /\ RecordMax \in Nat
  BY ReplyType DEF FetchInv, FetchType
<1>4. got' \in Nat /\ got' <= reply.head + reply.body
  BY <1>2, <1>3 DEF FetchInv, FetchType
<1>5. CASE ~HeaderFits(got')
  <2>1. Failed("none") /\ got' > HeaderMax BY <1>2, <1>3, <1>4, <1>5 DEF HeaderFits
  <2> QED BY <1>1, <1>4, <2>1, FailedStep
<1>6. CASE got' < reply.head /\ UNCHANGED <<step, reply, output, exists, fault, exit>>
  BY <1>1, <1>4, <1>6
     DEF FetchInv, FetchType, Reached, Written, GoodAnswerIsFetched, Acceptable
<1>7. CASE got' >= reply.head /\ Acceptable /\ got' - reply.head <= reply.length
           /\ output' = Positions(reply.head + 1, got') /\ exists' = TRUE
           /\ UNCHANGED <<step, reply, fault, exit>>
  BY <1>1, <1>3, <1>4, <1>7
     DEF FetchInv, FetchType, Reached, Written, GoodAnswerIsFetched, Acceptable
<1>8. CASE Failed("disk")
  BY <1>1, <1>4, <1>8, FailedStep
<1>9. CASE /\ got' >= reply.head /\ ~(Acceptable /\ got' - reply.head <= reply.length)
           /\ Failed("none")
  <2>1. ~(Acceptable /\ reply.length = reply.body) BY <1>3, <1>4, <1>9
  <2> QED BY <1>1, <1>4, <1>9, <2>1, FailedStep
<1> QED BY <1>2, <1>5, <1>6, <1>7, <1>8, <1>9

\* What was read is appended, so the file stays a piece of the answer.
LEMMA FetchBodyStep ==
  ASSUME FetchInv, FetchBody
  PROVE  FetchInv'
<1>1. step = "read" /\ exists /\ exit = "none"
  BY DEF FetchBody, HeaderComplete, FetchInv, Reached
<1>2. PICK count \in 1..RecordMax :
        /\ got + count <= reply.head + reply.body
        /\ got' = got + count
        /\ IF Len(output) + count > reply.length
             THEN Failed("none")
             ELSE \/ Failed("disk")
                  \/ /\ output' = output \o Positions(got + 1, got')
                     /\ IF Len(output') = reply.length
                          THEN step' = "ended" /\ exit' = "ok"
                          ELSE UNCHANGED <<step, exit>>
                     /\ UNCHANGED <<reply, exists, fault>>
  BY DEF FetchBody
<1>3. /\ reply.head \in Nat /\ reply.length \in Nat /\ reply.body \in Nat
      /\ RecordMax \in Nat /\ got \in Nat /\ reply.head <= got
      /\ Acceptable /\ output = Positions(reply.head + 1, got)
  BY <1>1, ReplyType DEF FetchInv, FetchType, Written
<1>4. got' \in Nat /\ got' <= reply.head + reply.body /\ got <= got'
  BY <1>2, <1>3
<1>5. Len(output) = got - reply.head BY <1>1, WrittenLen
<1>6. CASE Len(output) + count > reply.length
  <2>1. Failed("none") /\ reply.length # reply.body
    BY <1>2, <1>3, <1>5, <1>6
  <2> QED BY <1>1, <1>4, <2>1, FailedStep
<1>7. CASE Failed("disk")
  BY <1>1, <1>4, <1>7, FailedStep
<1>8. CASE /\ ~(Len(output) + count > reply.length)
           /\ output' = output \o Positions(got + 1, got')
           /\ IF Len(output') = reply.length
                THEN step' = "ended" /\ exit' = "ok"
                ELSE UNCHANGED <<step, exit>>
           /\ UNCHANGED <<reply, exists, fault>>
  <2>1. output' = Positions(reply.head + 1, got')
    <3>1. reply.head + 1 \in Nat /\ reply.head + 1 <= got + 1 BY <1>3
    <3> QED BY <1>3, <1>4, <1>8, <3>1, PositionsConcat
  <2>2. Len(output') = got' - reply.head
    <3>1. reply.head + 1 \in Nat /\ reply.head + 1 <= got' + 1 BY <1>3, <1>4
    <3>2. Len(output') = got' - (reply.head + 1) + 1 BY <1>4, <2>1, <3>1, PositionsSeq
    <3> QED BY <1>3, <1>4, <3>2
  <2>3. got' <= reply.head + reply.length BY <1>2, <1>3, <1>5, <1>8
  <2>4. /\ reply' = reply /\ exists' = exists /\ fault' = fault
        /\ exit' \in {"none", "ok"}
        /\ exit' # "none" => step' = "ended" /\ got' = reply.head + reply.length
        /\ exit' = "none" => step' = "read"
    BY <1>1, <1>3, <1>4, <1>8, <2>2
  <2>5. FetchType' BY <1>1, <1>4, <2>4 DEF FetchInv, FetchType
  <2>6. Reached' BY <1>1, <1>4, <2>4 DEF Reached
  <2>7. Written' BY <1>1, <1>3, <1>4, <2>1, <2>3, <2>4 DEF Written, Acceptable
  <2>8. GoodAnswerIsFetched' BY <2>4 DEF GoodAnswerIsFetched
  <2> QED BY <2>5, <2>6, <2>7, <2>8 DEF FetchInv
<1> QED BY <1>2, <1>6, <1>7, <1>8

\* The end of the answer: success if the file has all of the body.
LEMMA ReadStopsStep ==
  ASSUME FetchInv, ReadStops
  PROVE  FetchInv'
<1>1. step = "read" /\ exit = "none" BY DEF ReadStops, FetchInv, Reached
<1>2. /\ reply.head \in Nat /\ reply.length \in Nat /\ reply.body \in Nat /\ got \in Nat
      /\ got <= reply.head + reply.body
  BY ReplyType DEF FetchInv, FetchType, Reached
<1>3. CASE /\ Complete /\ step' = "ended" /\ exit' = "ok"
           /\ UNCHANGED <<reply, got, output, exists, fault>>
  <2>1. exists /\ got - reply.head = reply.length
    BY <1>3, WrittenLen DEF Complete, HeaderComplete
  <2> QED BY <1>1, <1>2, <1>3, <2>1
       DEF FetchInv, FetchType, Reached, Written, GoodAnswerIsFetched, Acceptable
<1>4. CASE Loses("disk")
  BY <1>1, <1>2, <1>4, FailedStep DEF Loses
<1>5. CASE ~Complete /\ got < reply.head + reply.body /\ Loses("lost")
  BY <1>1, <1>2, <1>5, FailedStep DEF Loses
<1>6. CASE ~Complete /\ ~(got < reply.head + reply.body) /\ Loses("none")
  <2>1. exists BY <1>1, <1>2, <1>6 DEF FetchInv, Reached
  <2>2. Len(output) # reply.length BY <1>6, <2>1 DEF Complete, HeaderComplete
  <2>3. reply.length # reply.body BY <1>2, <1>6, <2>1, <2>2, WrittenLen
  <2> QED BY <1>1, <1>2, <1>6, <2>3, FailedStep DEF Loses
<1> QED BY <1>3, <1>4, <1>5, <1>6 DEF ReadStops

\* resolve_a_doh() writes no file.
LEMMA ResolveReadsStep ==
  ASSUME FetchInv, ResolveReads
  PROVE  FetchInv'
<1>1. /\ step = "answer" /\ step' = "ended" /\ exit = "none" /\ ~exists /\ output = <<>>
      /\ reply' = reply /\ output' = output /\ exists' = exists
  BY DEF ResolveReads, FetchInv, Reached, Written
<1>2. PICK read \in 0..RecordMax :
        /\ read <= reply.head + reply.body
        /\ got' = read
        /\ exit' = IF reply.ok /\ reply.length \in 1..reply.body
                        /\ reply.head + reply.length <= read
                     THEN "ok" ELSE "failed"
        /\ fault' = IF read < reply.head + reply.body THEN "lost" ELSE "none"
  BY DEF ResolveReads
<1>3. /\ reply.head \in Nat /\ reply.length \in Nat /\ reply.body \in Nat /\ RecordMax \in Nat
      /\ BodyMax \in Nat
  BY ReplyType DEF FetchInv, FetchType
<1>4. FetchType' BY <1>1, <1>2, <1>3 DEF FetchInv, FetchType
<1>5. Reached' BY <1>1, <1>2 DEF Reached
<1>6. Written' BY <1>1 DEF Written
<1>7. GoodAnswerIsFetched'
  <2> SUFFICES ASSUME exit' = "failed", fault' = "none", Acceptable, reply.length = reply.body
               PROVE  FALSE
    BY <1>1 DEF GoodAnswerIsFetched, Acceptable
  <2>1. read = reply.head + reply.body BY <1>2, <1>3
  <2>2. reply.ok /\ reply.length \in 1..reply.body BY <1>3 DEF Acceptable
  <2> QED BY <1>2, <1>3, <2>1, <2>2
<1> QED BY <1>4, <1>5, <1>6, <1>7 DEF FetchInv

\* Nothing has been read before the request is out.
LEMMA OpenSteps ==
  ASSUME FetchInv, OpenSite \/ ResolveOpens
  PROVE  FetchInv'
<1>1. exit = "none" /\ ~exists BY DEF OpenSite, ResolveOpens, FetchInv, Reached
<1>2. got \in Nat /\ got <= reply.head + reply.body /\ reply.head \in Nat /\ reply.head >= 1
  BY ReplyType DEF FetchInv, FetchType, Reached
<1>3. CASE Loses("site")
  BY <1>1, <1>2, <1>3, FailedStep DEF Loses
<1>4. CASE step = "open" /\ step' = "read" /\ UNCHANGED <<reply, got, output, exists, fault, exit>>
  BY <1>1, <1>2, <1>4
     DEF FetchInv, FetchType, Reached, Written, GoodAnswerIsFetched, Acceptable
<1>5. CASE /\ step = "resolve" /\ step' = "answer"
           /\ UNCHANGED <<reply, got, output, exists, fault, exit>>
  BY <1>1, <1>2, <1>5
     DEF FetchInv, FetchType, Reached, Written, GoodAnswerIsFetched, Acceptable
<1> QED BY <1>3, <1>4, <1>5 DEF OpenSite, ResolveOpens

\* Only the downloads change any of it.
LEMMA FetchStep ==
  ASSUME FetchInv, [Next]_vars
  PROVE  FetchInv'
<1>1. FetchNext \/ UNCHANGED fetch
  BY DEF Next, Process, Load, Exits, Starts, Fetches, vars
<1>2. CASE UNCHANGED fetch
  BY <1>2 DEF FetchInv, FetchType, Reached, Written, GoodAnswerIsFetched, Acceptable, fetch
<1>3. CASE FetchNext
  BY <1>3, OpenSteps, FetchHeaderStep, FetchBodyStep, ReadStopsStep, ResolveReadsStep
     DEF FetchNext
<1> QED BY <1>1, <1>2, <1>3

\* Nothing has been asked for at the start.
LEMMA FetchInitial == Init => FetchInv
<1> SUFFICES ASSUME Init PROVE FetchInv OBVIOUS
<1>1. [ok |-> TRUE, head |-> 1, length |-> 0, body |-> 0] \in Replies
  BY FetchAssumption DEF Replies
<1>2. (CHOOSE x \in Replies : TRUE) \in Replies BY <1>1
<1>3. /\ reply \in Replies
      /\ got = 0 /\ output = <<>> /\ exists = FALSE /\ fault = "none" /\ exit = "none"
  BY <1>2 DEF Init, FetchInit
<1>4. step \in {"none", "open", "resolve"} BY DEF Init
<1>5. reply.head \in Nat /\ reply.body \in Nat BY <1>3, ReplyType
<1>6. FetchType BY <1>3, <1>4 DEF FetchType
<1>7. Reached BY <1>3, <1>4, <1>5 DEF Reached
<1>8. Written /\ GoodAnswerIsFetched BY <1>3 DEF Written, GoodAnswerIsFetched
<1> QED BY <1>6, <1>7, <1>8 DEF FetchInv

\* The downloads at every read of every answer.
THEOREM FetchInvariance == Spec => []FetchInv
<1>1. FetchInv /\ [Next]_vars => FetchInv' BY FetchStep
<1> QED BY FetchInitial, <1>1, PTL DEF Spec

\* The file of a fetch_crunch_subscription() that succeeds is the body of the
\* answer, however the answer was cut into reads; one that fails leaves none.
THEOREM WholeFetch == Spec => []FetchedWhole
<1>1. FetchInv => FetchedWhole
  BY DEF FetchInv, FetchType, Written, FetchedWhole
<1> QED BY FetchInvariance, <1>1, PTL

\* With a network and a disk that work, fetch_crunch_subscription() fails on a
\* good answer only if the read with the end of the header is longer than
\* MAX_HEADER_SIZE.
THEOREM GoodAnswer == Spec => []GoodAnswerIsFetched
<1>1. FetchInv => GoodAnswerIsFetched BY DEF FetchInv
<1> QED BY FetchInvariance, <1>1, PTL

-----------------------------------------------------------------------------
(* The probes.                                                             *)

Early  == {"context", "connect", "handshake", "verify"}
Opened == {"upgrade", "switch", "request"}

ProbeFrames ==
  [layer : {"control", "notify", "hello", "request", "stream", "direct"},
   command : Commands \cup {"none"}, data : Seq({"first", "get"})]

Asks(s) == \E i \in 1..Len(s) : s[i].layer = "request"
Gets(s) == \E i \in 1..Len(s) : \E j \in 1..Len(s[i].data) : s[i].data[j] = "get"

\* A probe asks only when it has looked at who answers.
ProbeInv ==
  /\ host \in {"204", "page", "media", "none"}
  /\ up \in Seq(ProbeFrames) /\ response \in Seq(AnyBytes)
  /\ pc = "main" => framing = "first" /\ conn = NewConn /\ sock = <<>> /\ buffer = <<>>
  /\ pc \in {"response", "addons", "body"} => Https \/ Len(response) < ResponseMax
  /\ pc \in {"main", "serve"} \cup Early \cup Opened =>
       ~Asks(up) /\ ~Gets(up) /\ response = <<>>
  /\ pc \in Opened /\ config.tls => peer = "server"
  /\ config.tls /\ Asks(up) => peer = "server"
  /\ Https /\ Gets(up) => host_peer = "server"

\* What two sequences of frames ask, both ask.
LEMMA Asked ==
  ASSUME NEW s \in Seq(ProbeFrames), NEW t \in Seq(ProbeFrames)
  PROVE  /\ s \o t \in Seq(ProbeFrames)
         /\ Asks(s \o t) <=> Asks(s) \/ Asks(t)
         /\ Gets(s \o t) <=> Gets(s) \/ Gets(t)
<1> DEFINE u == s \o t
           p == Len(s)
           q == Len(t)
<1>1. /\ u \in Seq(ProbeFrames) /\ Len(u) = p + q /\ p \in Nat /\ q \in Nat
  BY ConcatProperties, LenProperties
<1>2. \A j \in 1..p : u[j] = s[j] BY ConcatProperties, <1>1
<1>3. \A j \in 1..q : u[p + j] = t[j] BY ConcatProperties, <1>1
<1> HIDE DEF u, p, q
<1>4. \A j \in 1..(p + q) : j \in 1..p \/ (j - p \in 1..q /\ u[j] = t[j - p])
  <2> TAKE j \in 1..(p + q)
  <2>1. CASE j <= p BY <1>1, <2>1
  <2>2. CASE j > p
    <3>1. j - p \in 1..q /\ p + (j - p) = j BY <1>1, <2>2
    <3>2. u[p + (j - p)] = t[j - p] BY <1>3, <3>1
    <3> QED BY <3>1, <3>2
  <2> QED BY <1>1, <2>1, <2>2
<1>5. /\ \A j \in 1..p : j \in 1..(p + q)
      /\ \A j \in 1..q : p + j \in 1..(p + q)
  BY <1>1
<1>6. Asks(u) <=> Asks(s) \/ Asks(t)
  <2>1. Asks(u) => Asks(s) \/ Asks(t) BY <1>1, <1>2, <1>4 DEF Asks, p, q
  <2>2. Asks(s) => Asks(u) BY <1>1, <1>2, <1>5 DEF Asks, p
  <2>3. Asks(t) => Asks(u) BY <1>1, <1>3, <1>5 DEF Asks, q
  <2> QED BY <2>1, <2>2, <2>3
<1>7. Gets(u) <=> Gets(s) \/ Gets(t)
  <2>1. Gets(u) => Gets(s) \/ Gets(t) BY <1>1, <1>2, <1>4 DEF Gets, p, q
  <2>2. Gets(s) => Gets(u) BY <1>1, <1>2, <1>5 DEF Gets, p
  <2>3. Gets(t) => Gets(u) BY <1>1, <1>3, <1>5 DEF Gets, q
  <2> QED BY <2>1, <2>2, <2>3
<1> QED BY <1>1, <1>6, <1>7 DEF u

\* A frame that is neither the request nor holds data.
LEMMA Aside ==
  ASSUME NEW s \in Seq(ProbeFrames), NEW f \in {Pong, Notify, Hello}
  PROVE  /\ Append(s, f) \in Seq(ProbeFrames)
         /\ Asks(Append(s, f)) <=> Asks(s)
         /\ Gets(Append(s, f)) <=> Gets(s)
<1> DEFINE t == <<f>>
<1>1. /\ f \in ProbeFrames /\ f.data = <<>> /\ f.layer # "request"
  <2>1. <<>> \in Seq({"first", "get"}) OBVIOUS
  <2>2. CASE f = Pong BY <2>1, <2>2 DEF Pong, ProbeFrames
  <2>3. CASE f = Notify BY <2>1, <2>3 DEF Notify, ProbeFrames
  <2>4. CASE f = Hello BY <2>1, <2>4 DEF Hello, ProbeFrames
  <2> QED BY <2>2, <2>3, <2>4
<1>2. t \in Seq(ProbeFrames) /\ Len(t) = 1 /\ t[1] = f BY <1>1
<1>3. Append(s, f) = s \o t BY <1>1, AppendIsConcat
<1> HIDE DEF t
<1>4. \A i \in 1..Len(t) : t[i] = f
  <2>1. \A i \in 1..Len(t) : i = 1 BY <1>2
  <2> QED BY <1>2, <2>1
<1>5. ~Asks(t) BY <1>1, <1>4 DEF Asks
<1>6. ~Gets(t)
  <2>1. Len(<<>>) = 0 OBVIOUS
  <2>2. Len(f.data) = 0 BY <1>1, <2>1
  <2> QED BY <1>4, <2>2 DEF Gets
<1> QED BY <1>2, <1>3, <1>5, <1>6, Asked

\* One unit fits the first frame.
LEMMA FirstFrames ==
  ASSUME config.vision \in BOOLEAN
  PROVE  InitialFrames(<<"first">>) \in Seq(ProbeFrames) /\ ~Gets(InitialFrames(<<"first">>))
<1> DEFINE data  == <<"first">>
           first == IF config.vision THEN Least(Len(data), ChunkSize) ELSE Len(data)
           rest  == Drop(data, first)
           f     == [layer   |-> "request",
                     command |-> IF config.vision THEN "continue" ELSE "none",
                     data    |-> Prefix(data, first)]
           t     == <<f>>
<1>1. data \in Seq({"first"}) /\ Len(data) = 1 OBVIOUS
<1>2. first = 1 BY <1>1, SizesAssumption DEF Least
<1> HIDE DEF data, first
<1>3. rest = <<>>
  <2>1. rest = SubSeq(data, 2, 1) BY <1>1, <1>2 DEF Drop
  <2> QED BY <2>1, SubSeqEmpty
<1>4. Prefix(data, first) \in Seq({"first"})
  <2>1. first \in Int /\ first <= Len(data) BY <1>1, <1>2
  <2> QED BY <1>1, <2>1, PrefixType
<1>5. InitialFrames(data) = t \o <<>>
  <2>1. InitialFrames(data) = t \o (IF rest = <<>> THEN <<>> ELSE Chunks(rest))
    BY DEF InitialFrames, first
  <2> QED BY <1>3, <2>1
<1>6. Prefix(data, first) \in Seq({"first", "get"}) BY <1>4, SeqMono
<1>7. f \in ProbeFrames BY <1>6 DEF ProbeFrames, Commands
<1>8. \A j \in 1..Len(f.data) : f.data[j] # "get" BY <1>4, LenProperties
<1> HIDE DEF f
<1>9. t \in Seq(ProbeFrames) /\ \A i \in 1..Len(t) : t[i] = f BY <1>7
<1> HIDE DEF t
<1>10. InitialFrames(data) = t BY <1>5, <1>9, ConcatEmptySeq
<1>11. ~Gets(t) BY <1>8, <1>9 DEF Gets
<1> QED BY <1>9, <1>10, <1>11 DEF data

\* The HTTPS request is body, not a VLESS request.
LEMMA GetFrames ==
  ASSUME TunnelInv
  PROVE  BodyFrames(<<"get">>) \in Seq(ProbeFrames) /\ ~Asks(BodyFrames(<<"get">>))
<1> DEFINE data == <<"get">>
           command == conn.vision_write_peer_command
<1>1. data \in Seq({"first", "get"}) /\ Len(data) = 1 OBVIOUS
<1>2. command \in Commands /\ conn.vision_write_direct \in BOOLEAN
  BY DEF TunnelInv, Conns, Said, Commands
<1> HIDE DEF data, command
<1>3. CASE Framing
  <2> DEFINE last == (1 + ChunkSize - 1) \div ChunkSize
             part(i) == SubSeq(data, (i - 1) * ChunkSize + 1, Least(i * ChunkSize, 1))
             F(i) == [layer   |-> "stream",
                      command |-> IF i = last THEN command ELSE "continue",
                      data    |-> part(i)]
             t == Chunks(data)
  <2>1. BodyFrames(data) = t BY <1>3 DEF BodyFrames
  <2>2. last = 1 BY SizesAssumption
  <2>3. t = [i \in 1..last |-> F(i)] BY <1>1 DEF Chunks, command
  <2> HIDE DEF last
  <2>4. \A i \in 1..last : part(i) \in Seq({"first", "get"})
    <3> TAKE i \in 1..last
    <3>1. i = 1 BY <2>2
    <3>2. (i - 1) * ChunkSize + 1 = 1 /\ i * ChunkSize = ChunkSize BY <3>1, SizesAssumption
    <3>3. Least(i * ChunkSize, 1) = 1 BY <3>2, SizesAssumption DEF Least
    <3>4. part(i) = Prefix(data, 1) BY <3>2, <3>3 DEF Prefix
    <3> HIDE DEF part
    <3>5. 1 \in Int /\ 1 <= Len(data) BY <1>1
    <3> QED BY <1>1, <3>4, <3>5, PrefixType
  <2> HIDE DEF part
  <2>5. \A i \in 1..last : F(i) \in ProbeFrames /\ F(i).layer = "stream"
    BY <1>2, <2>4 DEF ProbeFrames, Commands
  <2> HIDE DEF F, t
  <2>6. t \in Seq(ProbeFrames) /\ Len(t) = last /\ \A i \in 1..last : t[i].layer = "stream"
    BY <2>2, <2>3, <2>5, LenProperties
  <2>7. ~Asks(t) BY <2>6 DEF Asks
  <2> QED BY <2>1, <2>6, <2>7 DEF data
<1>4. CASE ~Framing
  <2> DEFINE f == Bare(data)
             t == <<f>>
  <2>1. BodyFrames(data) = t BY <1>4 DEF BodyFrames
  <2>2. f \in ProbeFrames /\ f.layer # "request" BY <1>1, <1>2 DEF Bare, ProbeFrames
  <2> HIDE DEF f
  <2>3. t \in Seq(ProbeFrames) /\ \A i \in 1..Len(t) : t[i] = f BY <2>2
  <2> HIDE DEF t
  <2>4. ~Asks(t) BY <2>2, <2>3 DEF Asks
  <2> QED BY <2>1, <2>3, <2>4 DEF data
<1> QED BY <1>3, <1>4

\* What main() does before and besides the reading keeps the types of the
\* connection.
LEMMA ProbeTypes ==
  ASSUME TunnelInv, ProbeInv, FileInv, Next
  PROVE  TunnelInv'
<1>0. /\ conn \in Conns(framing) /\ sock \in Seq(Records(framing))
      /\ buffer \in Seq(Bytes(framing)) /\ config.tls \in BOOLEAN /\ config.vision \in BOOLEAN
  BY DEF TunnelInv, Configs
<1>1. CASE Load \/ Exits \/ Fetches \/ CreateTlsContext \/ ConnectWithTimeout \/ TlsHandshake
           \/ VerifyPeer \/ Upgrade \/ Close
  <2>1. UNCHANGED <<config, sock, conn, addons, sent, framing, buffer>>
    <3>1. CASE Load BY <3>1 DEF Load, probing, upstream, server, reader
    <3>2. CASE Exits BY <3>2 DEF Exits, upstream, server
    <3>3. CASE Fetches BY <3>3 DEF Fetches, probing, upstream, server, reader
    <3>4. CASE CreateTlsContext \/ ConnectWithTimeout \/ TlsHandshake \/ VerifyPeer
      BY <3>4 DEF CreateTlsContext, ConnectWithTimeout, TlsHandshake, VerifyPeer, upstream,
                  server
    <3>5. CASE Upgrade \/ Close BY <3>5 DEF Upgrade, Close, server
    <3> QED BY <1>1, <3>1, <3>2, <3>3, <3>4, <3>5
  <2> QED BY <1>0, <2>1, Kept
<1>2. CASE Starts
  <2>1. /\ pc = "main" /\ config' = Loaded(conf) /\ load = "ok"
        /\ UNCHANGED <<sock, conn, addons, sent, framing, buffer>>
    BY <1>2 DEF Starts, server
  <2>2. framing = "first" BY <2>1 DEF ProbeInv
  <2>3. config' \in Configs BY <2>1, FileConfigs DEF LoadedIsConfig
  <2> QED BY <2>1, <2>2, <2>3 DEF TunnelInv
<1>3. CASE SwitchProtocols
  <2>1. /\ UNCHANGED <<config, addons, sent, framing, buffer>>
        /\ \/ conn' = conn /\ sock # <<>> /\ sock' = Tail(sock)
           \/ Raw # <<>> /\ conn' = RawTook(1) /\ sock' = RawTookSock(1)
           \/ conn' = conn /\ sock' = sock
    BY <1>3 DEF SwitchProtocols, SkipRecord, upstream, server
  <2>2. conn' \in Conns(framing) /\ sock' \in Seq(Records(framing))
    BY <1>0, <2>1, RawTookType, HeadTailProperties
  <2> QED BY <2>1, <2>2, Kept
<1>4. CASE SendRequest
  <2>1. /\ UNCHANGED <<config, sock, addons, sent, framing, buffer>>
        /\ conn' \in {conn, InitialWrote}
    BY <1>4 DEF SendRequest, server
  <2> QED BY <1>0, <2>1, WrittenType, Kept
<1>5. CASE Deliver
  <2>1. /\ UNCHANGED <<config, sock, addons, sent, framing>>
        /\ conn' \in {conn, BodyWrote} /\ buffer' = <<>>
    BY <1>5 DEF Deliver, server
  <2>2. buffer' \in Seq(Bytes(framing)) BY <2>1
  <2> QED BY <1>0, <2>1, <2>2, WrittenType, Kept
<1>6. CASE Verdict
  <2>1. CASE UNCHANGED <<upstream, server, reader>>
    <3>1. UNCHANGED <<config, sock, conn, addons, sent, framing, buffer>>
      BY <2>1 DEF upstream, server, reader
    <3> QED BY <1>0, <3>1, Kept
  <2>2. CASE /\ config' = config /\ sock' = <<>> /\ conn' = NewConn /\ addons' \in 0..1
             /\ sent' = 0 /\ framing' = "first" /\ buffer' = <<>>
    <3>1. conn' \in Conns(framing') BY <2>2 DEF NewConn, Conns, Said
    <3> QED BY <2>2, <3>1 DEF TunnelInv, Framings
  <2> QED BY <1>6, <2>1, <2>2 DEF Verdict
<1>7. CASE Reads(Length)
  <2>1. pc \in {"response", "addons", "body"} BY <1>7, ReadsWhere
  <2>2. Length \in Nat
    <3>1. Len(response) \in Nat BY LenProperties DEF ProbeInv
    <3> QED BY <2>1, <3>1, ResponseAssumption DEF Length, ProbeInv
  <2> QED BY <1>7, <2>2, ReadsStep
<1>8. CASE ServerSide
  <2>1. CASE ServerNext
    <3>1. buffer' = buffer BY <1>8 DEF ServerSide, reader
    <3> QED BY <2>1, <3>1, ServerStep
  <2>2. CASE /\ UNCHANGED <<config, conn, server>>
             /\ sock' = sock \/ \E ok \in BOOLEAN : Arrives(<<[k |-> "http", ok |-> ok]>>, config.tls)
    <3>1. UNCHANGED <<config, conn, addons, sent, framing, buffer>>
      BY <1>8, <2>2 DEF ServerSide, reader, server
    <3>2. \A ok \in BOOLEAN : <<[k |-> "http", ok |-> ok]>> \in Seq(Tokens(framing))
      BY DEF Tokens
    <3>3. sock' \in Seq(Records(framing)) BY <1>0, <2>2, <3>2, ArrivesType
    <3> QED BY <1>0, <3>1, <3>3, Kept
  <2> QED BY <1>8, <2>1, <2>2 DEF ServerSide, ServerAnswers, ServerNext
<1> QED BY <1>1, <1>2, <1>3, <1>4, <1>5, <1>6, <1>7, <1>8 DEF Next, Process, Probing

\* A probe has asked nothing at the start.
LEMMA ProbeInit == Init => TunnelInv /\ ProbeInv
<1> SUFFICES ASSUME Init PROVE TunnelInv /\ ProbeInv OBVIOUS
<1>1. /\ config = Loaded(Defaults) /\ sock = <<>> /\ conn = NewConn /\ buffer = <<>>
      /\ up = <<>> /\ response = <<>> /\ sent = 0 /\ framing = "first" /\ addons \in 0..1
      /\ pc = "main" /\ argv \in Argv /\ host = Hosts[argv]
  BY DEF Init, ServerInit
<1>2. config \in Configs
  BY <1>1, MainAssumption DEF Loaded, Defaults, Configs
<1>3. conn \in Conns(framing) BY <1>1 DEF NewConn, Conns, Said
<1>4. TunnelInv BY <1>1, <1>2, <1>3 DEF TunnelInv, Framings
<1>5. host \in {"204", "page", "media", "none"} BY <1>1 DEF Hosts
<1>6. up \in Seq(ProbeFrames) /\ response \in Seq(AnyBytes) /\ Len(up) = 0 BY <1>1
<1>7. ~Asks(up) /\ ~Gets(up) BY <1>6 DEF Asks, Gets
<1>8. ProbeInv BY <1>1, <1>5, <1>6, <1>7 DEF ProbeInv, Early, Opened
<1> QED BY <1>4, <1>8

\* Opening the upstream, and the request.
LEMMA OpenStep ==
  ASSUME TunnelInv, ProbeInv,
         CreateTlsContext \/ ConnectWithTimeout \/ TlsHandshake \/ VerifyPeer \/ Upgrade
           \/ SwitchProtocols \/ SendRequest
  PROVE  ProbeInv'
<1>0. up \in Seq(ProbeFrames) /\ config.tls \in BOOLEAN /\ config.vision \in BOOLEAN
  BY DEF ProbeInv, TunnelInv, Configs
<1>1. UNCHANGED <<config, host, peer, host_peer, response>>
  BY DEF CreateTlsContext, ConnectWithTimeout, TlsHandshake, VerifyPeer, Upgrade,
         SwitchProtocols, SendRequest, SkipRecord, upstream, peers
<1>2. CASE CreateTlsContext \/ ConnectWithTimeout \/ TlsHandshake \/ VerifyPeer
  <2>1. up' = up /\ pc \in Early /\ pc' \in Early \cup Opened \cup {"ended"}
    BY <1>2 DEF CreateTlsContext, ConnectWithTimeout, TlsHandshake, VerifyPeer, GivesUp,
                upstream, Early, Opened
  <2>2. pc' \in Opened /\ config.tls => peer = "server"
    BY <1>0, <1>2 DEF CreateTlsContext, ConnectWithTimeout, TlsHandshake, VerifyPeer, GivesUp,
                      Verified, Opened
  <2>3. pc' \notin {"main", "response", "addons", "body"} BY <2>1 DEF Early, Opened
  <2> QED BY <1>1, <2>1, <2>2, <2>3 DEF ProbeInv, Https, Asks, Gets
<1>3. CASE Upgrade
  <2>1. pc = "upgrade" /\ pc' \in {"switch", "request"} /\ up' \in {up, Append(up, Hello)}
    BY <1>3 DEF Upgrade
  <2>2. up' \in Seq(ProbeFrames) /\ (Asks(up') <=> Asks(up)) /\ (Gets(up') <=> Gets(up))
    BY <1>0, <2>1, Aside
  <2> QED BY <1>1, <2>1, <2>2 DEF ProbeInv, Https, Opened, Asks, Gets
<1>4. CASE SwitchProtocols
  <2>1. up' = up /\ pc = "switch" /\ pc' \in {"switch", "request", "ended"}
    BY <1>4 DEF SwitchProtocols, SkipRecord, upstream, GivesUp
  <2> QED BY <1>1, <2>1 DEF ProbeInv, Https, Opened, Early, Asks, Gets
<1>5. CASE SendRequest
  <2>0. pc = "request" BY <1>5 DEF SendRequest
  <2>1. ~Asks(up) /\ ~Gets(up) /\ (config.tls => peer = "server")
    BY <2>0 DEF ProbeInv, Opened
  <2>2. CASE up' = up /\ pc' = "close"
    BY <1>1, <2>2 DEF ProbeInv, Https, Opened, Early, Asks, Gets
  <2>3. CASE up' = up \o InitialFrames(<<"first">>) /\ pc' = "response"
    <3> DEFINE t == InitialFrames(<<"first">>)
    <3>1. t \in Seq(ProbeFrames) /\ ~Gets(t) BY <1>0, FirstFrames
    <3> HIDE DEF t
    <3>2. up' \in Seq(ProbeFrames) /\ ~Gets(up')
      BY <1>0, <2>1, <2>3, <3>1, Asked DEF t
    <3>3. response = <<>> BY <2>0 DEF ProbeInv, Opened
    <3>4. Len(<<>>) = 0 OBVIOUS
    <3>5. Len(response) < ResponseMax BY <3>3, <3>4, ResponseAssumption
    <3> QED BY <1>1, <2>1, <2>3, <3>2, <3>5 DEF ProbeInv, Https, Opened, Early, Gets, Asks
  <2> QED BY <1>5, <2>2, <2>3 DEF SendRequest, Ends
<1> QED BY <1>2, <1>3, <1>4, <1>5

\* The reading, and what the probe makes of it.
LEMMA AnswerStep ==
  ASSUME TunnelInv, ProbeInv,
         \/ Deliver \/ Verdict
         \/ (Reads(Length) \/ Close) /\ UNCHANGED probe
  PROVE  ProbeInv'
<1>0. up \in Seq(ProbeFrames) /\ response \in Seq(AnyBytes) /\ config.tls \in BOOLEAN
  BY DEF ProbeInv, TunnelInv, Configs
<1>1. CASE Reads(Length) /\ UNCHANGED probe
  <2>1. Length \in Nat /\ pc \in {"response", "addons", "body"}
    <3>1. pc \in {"response", "addons", "body"} BY <1>1, ReadsWhere
    <3>2. Len(response) \in Nat BY <1>0, LenProperties
    <3> QED BY <3>1, <3>2, ResponseAssumption DEF Length, ProbeInv
  <2>2. up' \in {up, Append(up, Pong)} BY <1>1, <2>1, ReadsKeep
  <2>3. up' \in Seq(ProbeFrames) /\ (Asks(up') <=> Asks(up)) /\ (Gets(up') <=> Gets(up))
    BY <1>0, <2>2, Aside
  <2>4. UNCHANGED <<config, host, peer, host_peer, response>>
    BY <1>1, ReadsConfig DEF probe, peers
  <2>5. pc' \in {"response", "addons", "body", "deliver", "close"} BY <1>1, ReadsWhere
  <2> QED BY <2>1, <2>3, <2>4, <2>5 DEF ProbeInv, Https, Early, Opened, Asks, Gets
<1>2. CASE Close /\ UNCHANGED probe
  <2>1. pc' = "ended" /\ up' \in {up, Append(up, Notify)} BY <1>2 DEF Close
  <2>2. up' \in Seq(ProbeFrames) /\ (Asks(up') <=> Asks(up)) /\ (Gets(up') <=> Gets(up))
    BY <1>0, <2>1, Aside
  <2>3. UNCHANGED <<config, host, peer, host_peer, response>>
    BY <1>2 DEF Close, probe, peers
  <2> QED BY <2>1, <2>2, <2>3 DEF ProbeInv, Https, Early, Opened, Asks, Gets
<1>3. CASE Deliver
  <2> DEFINE read == response \o buffer
             t == BodyFrames(<<"get">>)
  <2>1. UNCHANGED <<config, host, peer, host_peer>> /\ response' = read /\ pc = "deliver"
    BY <1>3 DEF Deliver, peers
  <2>2. read \in Seq(AnyBytes)
    <3>1. buffer \in Seq(AnyBytes)
      <4>1. buffer \in Seq(Bytes(framing)) /\ Bytes(framing) \subseteq AnyBytes
        BY DEF TunnelInv, AnyBytes
      <4> QED BY <4>1, SeqMono
    <3> QED BY <1>0, <3>1, ConcatProperties
  <2> HIDE DEF read
  <2>3. pc' \in {"close", "body"} /\ (pc' = "body" => ~(Len(read) >= ResponseMax))
    BY <1>3 DEF Deliver, Ends, read
  <2>4. pc' = "body" => Len(response') < ResponseMax
    BY <2>1, <2>2, <2>3, LenProperties, ResponseAssumption
  <2>5. t \in Seq(ProbeFrames) /\ ~Asks(t) BY GetFrames
  <2>6. \/ up' = up \o t /\ host_peer = "server"
        \/ up' = up
    BY <1>3 DEF Deliver, Verified
  <2> HIDE DEF t
  <2>7. /\ up' \in Seq(ProbeFrames) /\ (Asks(up') <=> Asks(up))
        /\ Gets(up') => Gets(up) \/ host_peer = "server"
    BY <1>0, <2>5, <2>6, Asked
  <2>8. response' \in Seq(AnyBytes) BY <2>1, <2>2
  <2> QED BY <2>1, <2>3, <2>4, <2>7, <2>8 DEF ProbeInv, Https, Early, Opened, Asks, Gets
<1>4. CASE Verdict
  <2>1. CASE UNCHANGED <<upstream, server, reader, host, peers, upgraded, response>>
    BY <2>1 DEF ProbeInv, upstream, server, reader, peers, Https, Early, Opened, Asks, Gets
  <2>2. CASE /\ host' = "media" /\ pc' = "context" /\ up' = <<>> /\ response' = <<>>
    <3>1. up' \in Seq(ProbeFrames) /\ response' \in Seq(AnyBytes) /\ Len(up') = 0 BY <2>2
    <3>2. ~Asks(up') /\ ~Gets(up') BY <3>1 DEF Asks, Gets
    <3> QED BY <2>2, <3>1, <3>2 DEF ProbeInv, Https, Early, Opened, Asks, Gets
  <2> QED BY <1>4, <2>1, <2>2 DEF Verdict
<1> QED BY <1>1, <1>2, <1>3, <1>4

\* Each step of main(), of the probe and of the server.
LEMMA ProbeStep ==
  ASSUME FileInv, TunnelInv, ProbeInv, [Next]_vars
  PROVE  ProbeInv'
<1>1. CASE Load \/ Fetches \/ UNCHANGED vars
  <2>1. UNCHANGED <<config, sock, conn, up, framing, pc, buffer, probe>>
    BY <1>1 DEF Load, Fetches, vars, probing, upstream, server, reader
  <2> QED BY <2>1 DEF ProbeInv, probe, peers, Https, Early, Opened, Asks, Gets
<1>2. CASE Exits
  <2>1. UNCHANGED <<config, up, host, peer, host_peer, response>> /\ pc' = "ended"
    BY <1>2 DEF Exits, upstream, peers
  <2> QED BY <2>1 DEF ProbeInv, Https, Early, Opened, Asks, Gets
<1>3. CASE Starts
  <2>1. /\ UNCHANGED <<up, host, peer, host_peer, response>> /\ pc = "main"
        /\ pc' \in {"serve", "connect", "context"}
    BY <1>3 DEF Starts
  <2> QED BY <2>1 DEF ProbeInv, Https, Early, Opened, Asks, Gets
<1>4. CASE ServerSide
  <2>1. UNCHANGED <<config, up, pc, host, peer, host_peer, response>>
    BY <1>4 DEF ServerSide, ServerAnswers, ServerCloses, ServerNext, ServerSends,
                ServerControls, ServerLeaves, reader, peers
  <2>2. pc # "main" BY <1>4 DEF ServerSide, ServerAnswers, Reading
  <2> QED BY <2>1, <2>2 DEF ProbeInv, Https, Early, Opened, Asks, Gets
<1> QED BY <1>1, <1>2, <1>3, <1>4, OpenStep, AnswerStep DEF Next, Process, Probing

\* The tunnel keeps its types.
LEMMA TunnelStep ==
  ASSUME FileInv, TunnelInv, ProbeInv, [Next]_vars
  PROVE  TunnelInv'
<1>1. CASE Next BY <1>1, ProbeTypes
<1>2. CASE UNCHANGED vars
  <2>1. UNCHANGED <<config, sock, conn, addons, sent, framing, buffer>>
    BY <1>2 DEF vars, probing, upstream, server, reader
  <2> QED BY <2>1 DEF TunnelInv
<1> QED BY <1>1, <1>2

\* open_upstream() and tunnel_bio_write() look before they speak: over TLS
\* the request, and with it the UUID, goes only to a peer whose certificate
\* was verified for the configuration, and what is asked of an HTTPS host only
\* to that host.
THEOREM VerifiedFirst == Spec => []RequestToVerified
<1>1. FileInv /\ TunnelInv /\ ProbeInv /\ [Next]_vars => TunnelInv' BY TunnelStep
<1>2. FileInv /\ TunnelInv /\ ProbeInv /\ [Next]_vars => ProbeInv' BY ProbeStep
<1>3. ProbeInv => RequestToVerified
  <2> SUFFICES ASSUME ProbeInv PROVE RequestToVerified OBVIOUS
  <2>1. "request" \in {up[i].layer : i \in 1..Len(up)} => Asks(up) BY DEF Asks
  <2>2. "get" \in UNION {{up[i].data[j] : j \in 1..Len(up[i].data)} : i \in 1..Len(up)}
          => Gets(up)
    BY DEF Gets
  <2> QED BY <2>1, <2>2 DEF ProbeInv, RequestToVerified
<1> QED BY ProbeInit, FileInvariance, <1>1, <1>2, <1>3, PTL DEF Spec

-----------------------------------------------------------------------------
(* Where in the stream a probe is.                                         *)

\* Nothing was read or sent over the tunnel.
Fresh ==
  /\ sock = <<>> /\ closed = "open" /\ conn = NewConn /\ sent = 0 /\ framing = "first"
  /\ response_pending = TRUE /\ buffer = <<>> /\ response = <<>>

\* Nothing but the answer to the WebSocket upgrade was.
Answered ==
  /\ closed = "open" /\ conn = NewConn /\ sent = 0 /\ framing = "first"
  /\ response_pending = TRUE /\ buffer = <<>> /\ response = <<>>
  /\ \E ok \in BOOLEAN :
       sock = <<[tls |-> config.tls, tokens |-> <<[k |-> "http", ok |-> ok]>>]>>

\* The server may close instead of answering the upgrade, or after it.
Refused == closed # "open" /\ sock = <<>> /\ conn = NewConn /\ response = <<>> /\ PlaceInv(0)
Closing ==
  closed # "open" /\ sent <= 1 /\ response_pending = TRUE /\ response = <<>> /\ PlaceInv(0)

Unopened == {"main", "serve", "upgrade"} \cup Early
Talking  == {"response", "addons", "body", "deliver"}
Over     == {"close", "ended"}

\* A probe is at the place behind what it has of the answer (ReaderProofs).  The
\* answer to the upgrade is read before the stream begins.
ProbePlace ==
  /\ addons \in {0, 1} /\ FlagInv
  /\ pc \in Unopened \cup {"switch", "request"} \cup Talking \cup Over
  /\ pc \in Unopened => Fresh /\ ~upgraded
  /\ pc = "switch" => IF upgraded THEN Answered ELSE Fresh \/ Refused
  /\ pc = "request" => Fresh \/ Closing
  /\ pc \in Talking => PlaceInv(Len(response))
  /\ pc \in Over => Fresh \/ PlaceInv(Len(response))

\* What the request wants to find out, and why the probe ended.
ProbeEnd ==
  /\ answer \in Answers
  /\ argv = "--check-config" => host = "none"
  /\ host = "none" => pc \in {"main", "serve", "context", "connect", "ended"} /\ end = "no"
  /\ pc \in Talking => Len(response) < ResponseMax
  /\ Https => Len(buffer) <= 1
  /\ Https /\ host_peer # "server" =>
       Len(response) = 0 \/ (Len(response) = 1 /\ pc \in Over)
  /\ end \in {"no", "error", "eof", "done"} /\ (pc \notin Over => end = "no")
  /\ end = "done" => Enough(response) \/ Len(response) >= ResponseMax
  /\ end \in {"error", "eof"} =>
       \/ closed = "reset" \/ framing = "leaving"
       \/ Https /\ host_peer # "server"
       \/ DataSent \in {0, Len(response)}
  /\ result # "none" => pc = "ended"
  /\ result = "ok" /\ host # "none" => host # "page" /\ Good
  /\ result = "failed" /\ end # "no" => ~Good

\* The place of a fresh connection.
LEMMA FreshPlace ==
  ASSUME TunnelInv, addons \in {0, 1}, Fresh, pc \notin Talking
  PROVE  PlaceInv(0) /\ Len(response) = 0
<1>1. pc \notin {"addons", "body", "deliver"} BY DEF Talking
<1>2. Len(<<>>) = 0 OBVIOUS
<1> QED BY <1>1, <1>2, PlaceInit DEF Fresh

\* A probe that neither reads nor delivers stays at its place.
LEMMA ProbeStays ==
  ASSUME NEW n \in Nat, PlaceInv(n), TunnelInv', conn' \in {conn, InitialWrote},
         UNCHANGED <<config, sock, closed, addons, sent, framing, response_pending, buffer>>,
         pc' = pc \/ pc' \in Over \/ (pc = "request" /\ pc' = "response" /\ response_pending)
  PROVE  PlaceInv(n)'
<1>1. TunnelInv /\ PhaseInv(n) BY DEF PlaceInv
<1>2. SameReads BY <1>1, WritesSame
<1>3. Alive' => Alive /\ (pc' = "addons" <=> pc = "addons") BY DEF Alive, Over
<1>4. PhaseInv(n)'
  <2>1. CASE pc' = pc BY <1>1, <1>2, <2>1 DEF PhaseInv, Alive, SameReads, SameFrame
  <2>2. CASE pc' \in Over BY <1>1, <2>2 DEF PhaseInv, Alive, Over
  <2>3. CASE pc = "request" /\ pc' = "response" /\ response_pending
    BY <1>1, <2>3 DEF PhaseInv, Alive
  <2> QED BY <2>1, <2>2, <2>3
<1> QED BY <1>2, <1>3, <1>4, StaysPlace

\* websocket_handshake()
LEMMA SwitchPlace ==
  ASSUME TunnelInv, TunnelInv', ProbePlace, SwitchProtocols
  PROVE  ProbePlace'
<1>1. /\ pc = "switch" /\ FlagInv /\ addons \in {0, 1}
      /\ UNCHANGED <<config, addons, sent, framing, response_pending, buffer, upgraded, response>>
  BY DEF SwitchProtocols, SkipRecord, upstream, server, ProbePlace
<1>2. /\ conn = NewConn /\ response = <<>> /\ (sock = <<>> \/ Answered)
      /\ IF upgraded THEN Answered ELSE Fresh \/ Refused
  BY <1>1 DEF ProbePlace, Fresh, Refused, Answered
<1>3. conn.ssl_pending = <<>> /\ conn.grpc_eof = FALSE BY <1>2 DEF NewConn
<1>4. CASE sock = <<>>
  <2>1. Raw = <<>> BY <1>3, <1>4 DEF Raw, Arrived
  <2>2. UNCHANGED <<sock, closed, conn>> /\ pc' = "ended"
    BY <1>4, <2>1 DEF SwitchProtocols, SkipRecord, upstream, GivesUp
  <2>3. ~upgraded
    <3> SUFFICES ASSUME upgraded PROVE FALSE OBVIOUS
    <3>1. PICK ok \in BOOLEAN :
            sock = <<[tls |-> config.tls, tokens |-> <<[k |-> "http", ok |-> ok]>>]>>
      BY <1>2 DEF Answered
    <3> QED BY <1>4, <3>1
  <2>4. PlaceInv(0) /\ Len(response) = 0
    <3>1. Len(<<>>) = 0 OBVIOUS
    <3>2. CASE Fresh BY <1>1, <3>2, FreshPlace DEF Talking
    <3>3. CASE Refused BY <1>2, <3>1, <3>3 DEF Refused
    <3> QED BY <1>2, <2>3, <3>2, <3>3
  <2>5. PlaceInv(0)' BY <1>1, <2>2, <2>4, ProbeStays DEF Over
  <2>6. Len(response') = 0 BY <1>1, <2>4
  <2>7. PlaceInv(Len(response))' BY <2>5, <2>6
  <2>8. FlagInv' BY <1>1, <2>2 DEF FlagInv
  <2> QED BY <1>1, <2>2, <2>7, <2>8 DEF ProbePlace, Unopened, Early, Talking, Over
<1>5. CASE Answered
  <2> DEFINE Record(ok) == [tls |-> config.tls, tokens |-> <<[k |-> "http", ok |-> ok]>>]
  <2>1. PICK ok \in BOOLEAN : sock = <<Record(ok)>> BY <1>5 DEF Answered
  <2>2. /\ sock # <<>> /\ Head(sock) = Record(ok) /\ Tail(sock) = <<>>
        /\ Head(sock).tls = config.tls /\ Head(sock).tokens = <<[k |-> "http", ok |-> ok]>>
    BY <2>1
  <2>3. /\ Arrived = <<[k |-> "http", ok |-> ok]>> /\ config.tls \in BOOLEAN
    BY <2>2 DEF Arrived, TunnelInv, Configs
  <2>4. Raw = Arrived BY <1>3, <2>2, <2>3 DEF Raw
  <2>5. Len(Raw) = 1 /\ Raw # <<>> /\ Drop(Raw, 1) = <<>>
    <3> DEFINE t == <<[k |-> "http", ok |-> ok]>>
    <3>1. Raw = t /\ Len(t) = 1 /\ t # <<>> BY <2>3, <2>4
    <3> HIDE DEF t
    <3>2. Drop(t, 1) = SubSeq(t, 2, 1) BY <3>1 DEF Drop
    <3> QED BY <3>1, <3>2, SubSeqEmpty
  <2>6. RawTookSock(1) = <<>>
    <3>1. 1 = Len(Arrived) BY <2>4, <2>5
    <3>2. Received(1) = Tail(sock) BY <3>1 DEF Received
    <3> QED BY <1>3, <2>2, <2>3, <3>2 DEF RawTookSock
  <2>7. RawTook(1) = NewConn
    <3> DEFINE d == Drop(Raw, 1)
    <3>1. d = <<>> /\ conn.ssl_pending = <<>> BY <1>3, <2>5
    <3> HIDE DEF d
    <3>2. [conn EXCEPT !.ssl_pending = d] = conn
      <4>1. conn \in Conns(framing) BY DEF TunnelInv
      <4> QED BY <3>1, <4>1 DEF Conns
    <3>3. RawTook(1) = IF config.tls THEN [conn EXCEPT !.ssl_pending = d] ELSE conn
      BY DEF RawTook, d
    <3> QED BY <1>2, <3>2, <3>3
  <2>8. conn' = NewConn /\ sock' = <<>> /\ closed' = closed /\ pc' \in {"request", "ended"}
    <3>1. ~SkipRecord
      <4> SUFFICES ASSUME SkipRecord PROVE FALSE OBVIOUS
      <4>1. Head(sock).tokens = <<>> BY DEF SkipRecord
      <4> QED BY <2>3, <2>4, <2>5, <4>1, <2>2
    <3>2. ~RawEof /\ ~RawBroken /\ ~RawTimeout
      BY <2>2, <2>5 DEF RawEof, RawBroken, RawTimeout
    <3> QED BY <2>6, <2>7, <3>1, <3>2 DEF SwitchProtocols, GivesUp
  <2>9. Fresh' BY <1>1, <1>5, <2>8 DEF Fresh, Answered
  <2>10. FlagInv' BY <2>8 DEF FlagInv, NewConn
  <2> QED BY <1>1, <2>8, <2>9, <2>10 DEF ProbePlace, Unopened, Early, Talking, Over
<1> QED BY <1>2, <1>4, <1>5

\* A read takes at most what it is asked for.
LEMMA ReadsLength ==
  ASSUME TunnelInv, NEW length \in Nat \ {0}, Reads(length), Len(buffer) <= length
  PROVE  Len(buffer') <= length
<1> DEFINE T == Tokens(framing)
<1>1. Arrived \in Seq(T) /\ Stream \in Seq(T) /\ Transport \in Seq(T) BY LayersType
<1> HIDE DEF T
<1>2. /\ Len(Arrived) \in Nat /\ Len(Stream) \in Nat /\ Len(Transport) \in Nat
  BY <1>1, LenProperties
<1>3. ASSUME NEW s \in Seq(T), NEW n \in Int, n <= Len(s), n <= length
      PROVE  Len(Prefix(s, n)) <= length
  <2>1. Len(Prefix(s, n)) = IF n >= 1 THEN n ELSE 0 BY <1>3, PrefixType
  <2> QED BY <1>3, <2>1
<1>4. CASE ReadBody(length)
  <2> DEFINE n == Least(length, Len(Transport))
  <2>1. n \in Int /\ n <= Len(Transport) /\ n <= length BY <1>2 DEF Least
  <2>2. buffer' = Prefix(Transport, n) BY <1>4 DEF ReadBody
  <2> HIDE DEF n
  <2> QED BY <1>1, <1>3, <2>1, <2>2
<1>5. CASE ReadDirect(length)
  <2> DEFINE n == Least(length, Len(Arrived))
             c == <<[k |-> "ciphertext"]>>
  <2>1. n \in Int /\ n <= Len(Arrived) /\ n <= length BY <1>2 DEF Least
  <2>2. buffer' = Prefix(Arrived, n) \/ buffer' = c BY <1>5 DEF ReadDirect
  <2>3. Len(c) = 1 OBVIOUS
  <2> HIDE DEF n, c
  <2>4. CASE buffer' = c
    <3>1. Len(buffer') = 1 BY <2>3, <2>4
    <3>2. 1 <= length OBVIOUS
    <3> QED BY <3>1, <3>2
  <2>5. CASE buffer' = Prefix(Arrived, n)
    <3>1. Len(Prefix(Arrived, n)) <= length BY <1>1, <1>3, <2>1
    <3> QED BY <2>5, <3>1
  <2> QED BY <2>2, <2>4, <2>5
<1>6. CASE ReadContent(length)
  <2> DEFINE n == Least(Least(conn.vision_read_content, length), Len(Stream))
  <2>0. conn.vision_read_content \in Int BY DEF TunnelInv, Conns
  <2>1. n \in Int /\ n <= Len(Stream) /\ n <= length BY <1>2, <2>0 DEF Least
  <2>2. buffer' = Prefix(Stream, n) BY <1>6 DEF ReadContent
  <2> HIDE DEF n
  <2> QED BY <1>1, <1>3, <2>1, <2>2
<1>7. CASE ~(ReadBody(length) \/ ReadDirect(length) \/ ReadContent(length))
  <2>1. buffer' = buffer
    BY <1>7 DEF Reads, Below, ConsumeResponse, ConsumeAddons, ReadHeader, ReadPadding,
                CompleteFrame, ReadFails, ReadEnds
  <2> QED BY <2>1
<1> QED BY <1>4, <1>5, <1>6, <1>7


\* What the server does to a probe that waits.
LEMMA AnswersPlace ==
  ASSUME TunnelInv, TunnelInv', ProbeInv, ProbePlace, ServerSide
  PROVE  ProbePlace'
<1>1. /\ addons \in {0, 1} /\ FlagInv /\ response \in Seq(AnyBytes)
      /\ UNCHANGED <<pc, response_pending, buffer, response>>
  BY DEF ProbePlace, ProbeInv, ServerSide, reader
<1>2. ASSUME ServerNext, NEW n \in Nat, PlaceInv(n), pc \notin Over
      PROVE  PlaceInv(n)' /\ FlagInv' /\ UNCHANGED <<conn, addons>>
  <2>1. Alive BY <1>2 DEF Alive, Over
  <2>2. PlaceInv(n)' BY <1>1, <1>2, <2>1, ServerPlace
  <2>3. UNCHANGED <<conn, addons>>
    BY <1>2 DEF ServerNext, ServerSends, ServerControls, ServerLeaves, ServerCloses
  <2>4. framing' = framing \/ framing # "leaving" BY <1>2, LeavingStays
  <2> QED BY <1>1, <2>2, <2>3, <2>4 DEF FlagInv
<1>3. CASE pc \in Talking /\ ServerNext
  <2>1. PICK n \in Nat : n = Len(response) BY <1>1, LenProperties
  <2>2. PlaceInv(n) BY <1>3, <2>1 DEF ProbePlace
  <2>3. PlaceInv(n)' /\ FlagInv' /\ addons' = addons BY <1>2, <1>3, <2>2 DEF Talking, Over
  <2>4. n = Len(response') BY <1>1, <2>1
  <2>5. PlaceInv(Len(response))' BY <2>3, <2>4
  <2> QED BY <1>1, <1>3, <2>3, <2>5 DEF ProbePlace, Unopened, Early, Talking, Over
<1>4. CASE pc = "request" /\ ServerCloses
  <2>1. closed = "open" /\ closed' # "open" /\ sent' \in {sent, sent + 1}
    BY <1>4 DEF ServerCloses
  <2>2. Fresh BY <1>4, <2>1 DEF ProbePlace, Closing
  <2>3. PlaceInv(0) BY <1>1, <1>4, <2>2, FreshPlace DEF Talking
  <2>4. PlaceInv(0)' /\ FlagInv' /\ addons' = addons
    BY <1>2, <1>4, <2>3 DEF Over, ServerNext
  <2>5. Closing' BY <1>1, <2>1, <2>2, <2>4 DEF Fresh, Closing
  <2> QED BY <1>1, <1>4, <2>4, <2>5 DEF ProbePlace, Unopened, Early, Talking, Over
<1>5. CASE /\ pc = "switch" /\ ~upgraded /\ closed = "open" /\ closed' \in {"clean", "reset"}
           /\ UNCHANGED <<config, sock, conn, up, window, server, upgraded>>
  <2>1. Fresh BY <1>5 DEF ProbePlace, Refused
  <2>2. PlaceInv(0) BY <1>1, <1>5, <2>1, FreshPlace DEF Talking
  <2>3. ServerNext BY <1>5 DEF ServerNext, ServerCloses, server
  <2>4. PlaceInv(0)' /\ FlagInv' /\ addons' = addons BY <1>2, <1>5, <2>2, <2>3 DEF Over
  <2>5. Refused' BY <1>1, <1>5, <2>1, <2>4 DEF Fresh, Refused
  <2> QED BY <1>1, <1>5, <2>4, <2>5 DEF ProbePlace, Unopened, Early, Talking, Over
<1>6. CASE /\ pc = "switch" /\ ~upgraded /\ closed = "open" /\ upgraded' = TRUE
           /\ \E ok \in BOOLEAN : Arrives(<<[k |-> "http", ok |-> ok]>>, config.tls)
           /\ UNCHANGED <<config, closed, conn, up, window, server>>
  <2>1. Fresh BY <1>6 DEF ProbePlace, Refused
  <2>2. PICK ok \in BOOLEAN : Arrives(<<[k |-> "http", ok |-> ok]>>, config.tls) BY <1>6
  <2> DEFINE r == [tls |-> config.tls, tokens |-> <<[k |-> "http", ok |-> ok]>>]
  <2>3. sock' = Append(sock, r) BY <2>1, <2>2 DEF Fresh, Arrives
  <2>4. sock' = <<[tls |-> config'.tls, tokens |-> <<[k |-> "http", ok |-> ok]>>]>>
    BY <1>6, <2>1, <2>3 DEF Fresh
  <2>5. /\ UNCHANGED <<config, closed, conn, addons, sent, framing>>
        /\ UNCHANGED <<pc, response_pending, buffer, response>>
    BY <1>1, <1>6 DEF server
  <2>6. Answered' BY <2>1, <2>4, <2>5 DEF Fresh, Answered
  <2>7. FlagInv' BY <1>1, <2>5 DEF FlagInv
  <2> QED BY <1>1, <1>6, <2>5, <2>6, <2>7 DEF ProbePlace, Unopened, Early, Talking, Over
<1> QED BY <1>3, <1>4, <1>5, <1>6 DEF ServerSide, ServerAnswers, Reading, Talking


\* A step of the probe's, or of the server's, takes it from place to place.
LEMMA PlaceStep ==
  ASSUME TunnelInv, TunnelInv', ProbeInv, ProbePlace, ProbeEnd, [Next]_vars
  PROVE  ProbePlace'
<1>1. /\ addons \in {0, 1} /\ FlagInv /\ response \in Seq(AnyBytes)
      /\ pc \in Unopened \cup {"switch", "request"} \cup Talking \cup Over
  BY DEF ProbePlace, ProbeInv
<1>2. ASSUME Fresh', addons' \in {0, 1}, pc' \in Unopened \cup {"switch", "request"} \cup Over,
             pc' \in Unopened \cup {"switch"} => ~upgraded'
      PROVE  ProbePlace'
  <2>1. FlagInv' BY <1>2 DEF FlagInv, Fresh, NewConn
  <2> QED BY <1>2, <2>1 DEF ProbePlace, Unopened, Early, Talking, Over
<1>3. ASSUME PlaceInv(Len(response))', FlagInv', addons' = addons, pc' \in Talking \cup Over
      PROVE  ProbePlace'
  BY <1>1, <1>3 DEF ProbePlace, Unopened, Early, Talking, Over
<1>4. CASE Load \/ Fetches \/ UNCHANGED vars
  <2>1. /\ UNCHANGED <<config, sock, closed, conn, addons, sent, framing, response_pending, buffer>>
        /\ UNCHANGED <<pc, upgraded, response>>
    BY <1>4 DEF Load, Fetches, vars, probing, upstream, server, reader, probe
  <2>2. ASSUME NEW n \in Nat, PlaceInv(n) PROVE PlaceInv(n)' BY <2>1, <2>2, ProbeStays
  <2>3. PlaceInv(0) => PlaceInv(0)' BY <2>2
  <2>4. PlaceInv(Len(response)) => PlaceInv(Len(response))'
    <3>1. PICK n \in Nat : n = Len(response) BY <1>1, LenProperties
    <3>2. PlaceInv(n) => PlaceInv(n)' BY <2>2
    <3>3. n = Len(response') BY <2>1, <3>1
    <3> QED BY <3>1, <3>2, <3>3
  <2>5. (Fresh => Fresh') /\ (Answered => Answered') BY <2>1 DEF Fresh, Answered
  <2>6. (Refused => Refused') /\ (Closing => Closing') BY <2>1, <2>3 DEF Refused, Closing
  <2>7. FlagInv' BY <1>1, <2>1 DEF FlagInv
  <2> QED BY <2>1, <2>4, <2>5, <2>6, <2>7 DEF ProbePlace
<1>5. CASE Exits \/ Starts \/ CreateTlsContext \/ ConnectWithTimeout \/ TlsHandshake
           \/ VerifyPeer \/ Upgrade
  <2>1. /\ UNCHANGED <<sock, closed, conn, addons, sent, framing, response_pending, buffer>>
        /\ UNCHANGED <<upgraded, response>>
    BY <1>5 DEF Exits, Starts, CreateTlsContext, ConnectWithTimeout, TlsHandshake, VerifyPeer,
                Upgrade, upstream, server
  <2>2. pc \in Unopened /\ pc' \in Unopened \cup {"switch", "request"} \cup Over
    BY <1>5 DEF Exits, Starts, CreateTlsContext, ConnectWithTimeout, TlsHandshake, VerifyPeer,
                Upgrade, GivesUp, Unopened, Early, Over
  <2>3. Fresh /\ ~upgraded BY <2>2 DEF ProbePlace
  <2>4. Fresh' BY <2>1, <2>3 DEF Fresh
  <2> QED BY <1>1, <1>2, <2>1, <2>2, <2>3, <2>4
<1>6. CASE SwitchProtocols BY <1>6, SwitchPlace
<1>7. CASE SendRequest
  <2>1. /\ pc = "request" /\ conn' \in {conn, InitialWrote} /\ pc' \in {"response", "close"}
        /\ UNCHANGED <<config, sock, closed, addons, sent, framing, response_pending, buffer>>
        /\ response' = response
    BY <1>7 DEF SendRequest, server, Ends
  <2>2. PlaceInv(0) /\ Len(response) = 0
    <3>1. Len(<<>>) = 0 OBVIOUS
    <3>2. Fresh \/ Closing BY <2>1 DEF ProbePlace
    <3> QED BY <1>1, <2>1, <3>1, <3>2, FreshPlace DEF Closing, Talking
  <2>3. response_pending
    <3>1. CASE Fresh BY <3>1 DEF Fresh
    <3>2. CASE Closing BY <3>2 DEF Closing
    <3> QED BY <2>1, <3>1, <3>2 DEF ProbePlace
  <2>4. PlaceInv(0)' BY <2>1, <2>2, <2>3, ProbeStays DEF Over
  <2>5. Len(response') = 0 BY <2>1, <2>2
  <2>6. PlaceInv(Len(response))' BY <2>4, <2>5
  <2>7. FlagInv'
    <3>1. SameGrpc(conn') BY <2>1, WritesGrpc
    <3> QED BY <1>1, <2>1, <3>1 DEF FlagInv, SameGrpc
  <2> QED BY <1>3, <2>1, <2>6, <2>7 DEF Talking, Over
<1>8. PICK n \in Nat : n = Len(response) BY <1>1, LenProperties
<1>9. CASE Deliver
  <2>1. /\ pc = "deliver" /\ pc' \in {"body", "close"} /\ buffer' = <<>>
        /\ conn' \in {conn, BodyWrote} /\ response' = response \o buffer
        /\ UNCHANGED <<config, sock, closed, addons, sent, framing, response_pending>>
    BY <1>9 DEF Deliver, Ends, server
  <2>2. PlaceInv(n) BY <1>8, <2>1 DEF ProbePlace, Talking
  <2>3. SameReads BY <2>1, WritesSame
  <2>4. buffer \in Seq(AnyBytes) BY BufferBytes
  <2>5. PICK more \in Nat : more = Len(response') /\ more = n + Len(buffer)
    <3>1. response' \in Seq(AnyBytes) /\ Len(response') = Len(response) + Len(buffer)
      BY <1>1, <2>1, <2>4, ConcatProperties
    <3> QED BY <1>8, <3>1, LenProperties
  <2>6. PlaceInv(more)' BY <2>1, <2>2, <2>3, <2>5, DeliverPlace
  <2>7. PlaceInv(Len(response))' BY <2>5, <2>6
  <2>8. FlagInv'
    <3>1. SameGrpc(conn') BY <2>1, WritesGrpc
    <3> QED BY <1>1, <2>1, <3>1 DEF FlagInv, SameGrpc
  <2> QED BY <1>3, <2>1, <2>7, <2>8 DEF Talking, Over
<1>10. CASE Verdict
  <2>1. CASE UNCHANGED <<upstream, server, reader, host, peers, upgraded, response>>
    <3>1. /\ UNCHANGED <<config, sock, closed, conn, addons, sent, framing, response_pending, buffer>>
          /\ UNCHANGED <<pc, response>>
      BY <2>1 DEF upstream, server, reader
    <3>2. pc = "ended" BY <1>10 DEF Verdict
    <3>3. PlaceInv(n)
      <4>1. CASE Fresh BY <1>1, <1>8, <3>2, <4>1, FreshPlace DEF Talking
      <4>2. CASE PlaceInv(Len(response)) BY <1>8, <4>2
      <4> QED BY <3>2, <4>1, <4>2 DEF ProbePlace, Over
    <3>4. PlaceInv(n)' BY <3>1, <3>3, ProbeStays
    <3>5. n = Len(response') BY <1>8, <3>1
    <3>6. PlaceInv(Len(response))' BY <3>4, <3>5
    <3>7. FlagInv' BY <1>1, <3>1 DEF FlagInv
    <3> QED BY <1>3, <3>1, <3>2, <3>6, <3>7 DEF Over
  <2>2. CASE ~(UNCHANGED <<upstream, server, reader, host, peers, upgraded, response>>)
    <3>1. /\ pc' = "context" /\ sock' = <<>> /\ closed' = "open" /\ conn' = NewConn
          /\ addons' \in 0..1 /\ sent' = 0 /\ framing' = "first" /\ response_pending' = TRUE
          /\ buffer' = <<>> /\ upgraded' = FALSE /\ response' = <<>>
      BY <1>10, <2>2 DEF Verdict
    <3>2. Fresh' BY <3>1 DEF Fresh
    <3>3. addons' \in {0, 1} BY <3>1
    <3> QED BY <1>2, <3>1, <3>2, <3>3 DEF Unopened, Early
  <2> QED BY <2>1, <2>2
<1>11. CASE Reads(Length) /\ UNCHANGED probe
  <2>1. /\ pc \in Talking /\ pc' \in Talking \cup Over /\ response' = response
    <3>1. /\ pc \in {"response", "addons", "body"}
          /\ pc' \in {"response", "addons", "body", "deliver", "close"}
      BY <1>11, ReadsWhere
    <3> QED BY <1>11, <3>1 DEF probe, Talking, Over
  <2>2. Length \in Nat \ {0}
    <3>1. n < ResponseMax BY <1>8, <2>1 DEF ProbeEnd
    <3> QED BY <1>8, <3>1, ResponseAssumption DEF Length
  <2>3. PlaceInv(n) BY <1>8, <2>1 DEF ProbePlace
  <2>4. PlaceInv(n)' BY <1>11, <2>2, <2>3, ReadsPlace
  <2>5. n = Len(response') BY <1>8, <2>1
  <2>6. PlaceInv(Len(response))' BY <2>4, <2>5
  <2>7. FlagInv' BY <1>1, <1>11, <2>2, FlagStep
  <2>8. addons' = addons
    BY <1>11 DEF Reads, Below, ConsumeResponse, ConsumeAddons, ReadBody, ReadDirect, ReadHeader,
                 ReadContent, ReadPadding, CompleteFrame, ReadFails, ReadEnds, server
  <2> QED BY <1>3, <2>1, <2>6, <2>7, <2>8
<1>12. CASE Close /\ UNCHANGED probe
  <2>1. /\ UNCHANGED <<config, sock, closed, conn, addons, sent, framing, response_pending, buffer>>
        /\ pc = "close" /\ pc' = "ended" /\ response' = response
    BY <1>12 DEF Close, server, probe
  <2>2. PlaceInv(n)
    <3>1. CASE Fresh BY <1>1, <1>8, <2>1, <3>1, FreshPlace DEF Talking
    <3>2. CASE PlaceInv(Len(response)) BY <1>8, <3>2
    <3> QED BY <2>1, <3>1, <3>2 DEF ProbePlace, Over
  <2>3. PlaceInv(n)' BY <2>1, <2>2, ProbeStays DEF Over
  <2>4. n = Len(response') BY <1>8, <2>1
  <2>5. PlaceInv(Len(response))' BY <2>3, <2>4
  <2>6. FlagInv' BY <1>1, <2>1 DEF FlagInv
  <2> QED BY <1>3, <2>1, <2>5, <2>6 DEF Over
<1>13. CASE ServerSide BY <1>13, AnswersPlace
<1> QED BY <1>4, <1>5, <1>6, <1>7, <1>9, <1>10, <1>11, <1>12, <1>13 DEF Next, Process, Probing


\* A read that ends the probe has failed or has come to the end.
LEMMA ReadsStop ==
  ASSUME NEW length, Reads(length), end' # end
  PROVE  (ReadFails \/ ReadEnds) /\ pc' = "close"
<1>1. ReadFails \/ ReadEnds
  BY DEF Reads, Below, ConsumeResponse, ConsumeAddons, ReadBody, ReadDirect, ReadHeader,
         ReadContent, ReadPadding, CompleteFrame
<1>2. pc' = "close" BY <1>1 DEF ReadFails, ReadEnds, Fails, Ends
<1> QED BY <1>1, <1>2

\* A read leaves the server and the probe's answer as they are; one that ends
\* the probe has a cause.
LEMMA EndReads ==
  ASSUME TunnelInv, TunnelInv', ProbeInv, ProbePlace, ProbeEnd,
         Reads(Length), UNCHANGED <<probe, argv>>
  PROVE  ProbeEnd'
<1>1. /\ pc \in Talking /\ pc' \in Talking \cup Over
      /\ UNCHANGED <<argv, host, host_peer, answer, response, result>>
  <2>1. /\ pc \in {"response", "addons", "body"}
        /\ pc' \in {"response", "addons", "body", "deliver", "close"}
    BY ReadsWhere
  <2> QED BY <2>1 DEF probe, peers, Talking, Over
<1>2. end = "no" /\ host # "none" /\ result = "none"
  BY <1>1 DEF ProbeEnd, Talking, Over
<1>3. PICK n \in Nat : n = Len(response) BY LenProperties DEF ProbeInv
<1>4. n < ResponseMax BY <1>1, <1>3 DEF ProbeEnd
<1>5. Length \in Nat \ {0} BY <1>3, <1>4, ResponseAssumption DEF Length
<1>6. UNCHANGED <<closed, addons, sent, framing>>
  BY DEF Reads, Below, ConsumeResponse, ConsumeAddons, ReadBody, ReadDirect, ReadHeader,
         ReadContent, ReadPadding, CompleteFrame, ReadFails, ReadEnds, server, upstream,
         SkipRecord, BeginDataFrame, NextDataFrame, LoadEnvelope, LoadMessage, TransportRead
<1>7. DataSent' = DataSent BY <1>6 DEF DataSent, Response
<1>8. Https' = Https BY <1>1 DEF Https
<1>9. Https => Len(buffer') <= 1
  <2> SUFFICES ASSUME Https PROVE Len(buffer') <= 1 OBVIOUS
  <2>1. Length = 1 BY DEF Length
  <2>2. Len(buffer) <= 1 BY DEF ProbeEnd
  <2> QED BY <2>1, <2>2, ReadsLength
<1>10. end' = "no" \/ (pc' = "close" /\ end' \in {"error", "eof"}) BY <1>2, ReadsEnd
<1>11. end' # "no" => closed = "reset" \/ framing = "leaving" \/ DataSent \in {0, n}
  <2> SUFFICES ASSUME end' # "no"
               PROVE  closed = "reset" \/ framing = "leaving" \/ DataSent \in {0, n}
    OBVIOUS
  <2>1. (ReadFails \/ ReadEnds) /\ pc' = "close" BY <1>2, ReadsStop
  <2>2. PlaceInv(n) /\ FlagInv BY <1>1, <1>3 DEF ProbePlace
  <2>3. Alive BY <1>1 DEF Alive, Talking
  <2>4. /\ LocalInv(n) /\ Ahead(Setting, Here(n), conn.ssl_pending, sock, closed, There)
    BY <2>2, <2>3 DEF PlaceInv, LocalInv
  <2>5. closed = "reset" \/ framing = "leaving" \/ Exhausted(n)
    BY <2>1, <2>2, <2>4, StopIsEnd
  <2> QED BY <2>5 DEF Exhausted
<1>12. end' \in {"error", "eof"} =>
         closed' = "reset" \/ framing' = "leaving" \/ DataSent' \in {0, Len(response')}
  BY <1>1, <1>3, <1>6, <1>7, <1>11
<1>13. Https /\ host_peer # "server" => Len(response) = 0 BY <1>1 DEF ProbeEnd, Talking, Over
<1>14. pc' \notin Over => end' = "no" BY <1>10 DEF Over
<1> QED BY <1>1, <1>2, <1>8, <1>9, <1>10, <1>12, <1>13, <1>14 DEF ProbeEnd

\* The probe looks at what it has.
LEMMA EndDelivers ==
  ASSUME TunnelInv, ProbeInv, ProbeEnd, Deliver, argv' = argv
  PROVE  ProbeEnd'
<1>1. /\ pc = "deliver" /\ response' = response \o buffer /\ buffer' = <<>>
      /\ UNCHANGED <<argv, host, host_peer, answer, result, closed, addons, sent, framing>>
  BY DEF Deliver, peers, server
<1>2. end = "no" /\ host # "none" /\ result = "none"
  BY <1>1 DEF ProbeEnd, Talking, Over
<1>3. Https' = Https BY <1>1 DEF Https
<1>4. /\ Len(buffer) \in Nat /\ Len(response) \in Nat
      /\ Len(response') = Len(response) + Len(buffer)
  <2>1. buffer \in Seq(AnyBytes) /\ response \in Seq(AnyBytes) BY BufferBytes DEF ProbeInv
  <2> QED BY <1>1, <2>1, ConcatProperties, LenProperties
<1>5. \/ InnerHandshake(response') /\ ~Verified(host_peer) /\ Ends("error")
      \/ (Enough(response') \/ Len(response') >= ResponseMax) /\ Ends("done")
      \/ /\ ~(InnerHandshake(response') /\ ~Verified(host_peer))
         /\ ~(Len(response') >= ResponseMax)
         /\ pc' = "body" /\ end' = end
  <2> DEFINE read == response \o buffer
  <2>1. read = response' BY <1>1
  <2>2. \/ InnerHandshake(read) /\ ~Verified(host_peer) /\ Ends("error")
        \/ (Enough(read) \/ Len(read) >= ResponseMax) /\ Ends("done")
        \/ /\ ~(InnerHandshake(read) /\ ~Verified(host_peer))
           /\ ~(Len(read) >= ResponseMax)
           /\ pc' = "body" /\ end' = end
    <3> HIDE DEF read
    <3>1. CASE InnerHandshake(read) /\ ~Verified(host_peer)
      BY <3>1 DEF Deliver, read
    <3>2. CASE ~(InnerHandshake(read) /\ ~Verified(host_peer))
               /\ (Enough(read) \/ Len(read) >= ResponseMax)
      BY <3>2 DEF Deliver, read
    <3>3. CASE ~(InnerHandshake(read) /\ ~Verified(host_peer))
               /\ ~(Enough(read) \/ Len(read) >= ResponseMax)
      BY <3>3 DEF Deliver, read
    <3> QED BY <3>1, <3>2, <3>3
  <2> QED BY <2>1, <2>2
<1>6. /\ pc' \in {"body", "close"} /\ end' \in {"no", "error", "done"}
      /\ pc' = "body" => end' = "no" /\ ~(Len(response') >= ResponseMax)
      /\ end' = "error" => Https /\ host_peer # "server"
      /\ end' = "done" => Enough(response') \/ Len(response') >= ResponseMax
  BY <1>2, <1>5 DEF Ends, InnerHandshake, Verified
<1>7. pc' = "body" => Len(response') < ResponseMax
  BY <1>4, <1>6, ResponseAssumption
<1>8. Https /\ host_peer # "server" => Len(response') = 0 \/ (Len(response') = 1 /\ pc' = "close")
  <2> SUFFICES ASSUME Https, host_peer # "server", Len(response') # 0
               PROVE  Len(response') = 1 /\ pc' = "close"
    OBVIOUS
  <2>1. Len(response) = 0 /\ Len(buffer) <= 1 BY <1>1 DEF ProbeEnd, Over
  <2>2. Len(response') = 1 BY <1>4, <2>1
  <2>3. InnerHandshake(response') /\ ~Verified(host_peer) BY <2>2 DEF InnerHandshake, Verified
  <2> QED BY <1>5, <2>2, <2>3 DEF Ends
<1>9. Len(buffer') = 0 BY <1>1
<1>10. Enough(response)' <=> Enough(response') BY <1>1 DEF Enough, HeaderEnd, Status, Https
<1> QED BY <1>1, <1>2, <1>3, <1>6, <1>7, <1>8, <1>9, <1>10 DEF ProbeEnd, Talking, Over


\* Each step keeps what the request wants to find out, and why it ended.
LEMMA EndStep ==
  ASSUME TunnelInv, TunnelInv', ProbeInv, ProbePlace, ProbeEnd, [Next]_vars
  PROVE  ProbeEnd'
<1>1. Len(<<>>) = 0 /\ ResponseMax \in Nat /\ 0 < ResponseMax BY ResponseAssumption
<1>2. CASE Load \/ Fetches \/ UNCHANGED vars \/ (Close /\ UNCHANGED <<argv, probe>>)
  <2>1. /\ UNCHANGED <<argv, host, host_peer, answer, response, result, buffer, end>>
        /\ UNCHANGED <<closed, addons, sent, framing>>
        /\ pc' = pc \/ (pc = "close" /\ pc' = "ended")
    BY <1>2 DEF Load, Fetches, Close, vars, probing, upstream, server, reader, probe, peers
  <2>2. DataSent' = DataSent /\ Https' = Https BY <2>1 DEF DataSent, Response, Https
  <2>3. (Enough(response)' <=> Enough(response)) /\ (Good' <=> Good)
    BY <2>1, <2>2 DEF Enough, Good, HeaderEnd, Status
  <2> QED BY <2>1, <2>2, <2>3 DEF ProbeEnd, Talking, Over
<1>3. CASE \/ Exits
           \/ Starts
           \/ SwitchProtocols /\ argv' = argv
           \/ /\ CreateTlsContext \/ ConnectWithTimeout \/ TlsHandshake \/ VerifyPeer \/ Upgrade
              /\ argv' = argv
  <2>1. /\ UNCHANGED <<argv, host, host_peer, answer, response, buffer, end>>
        /\ pc \in Unopened \cup {"switch"} /\ pc' \notin Talking \cup {"close"}
    BY <1>3 DEF Exits, Starts, SwitchProtocols, CreateTlsContext, ConnectWithTimeout,
                TlsHandshake, VerifyPeer, Upgrade, GivesUp, server, peers, Unopened, Early,
                Talking
  <2>2. end = "no" /\ result = "none" BY <2>1 DEF ProbeEnd, Unopened, Early, Over
  <2>3. host = "none" => pc' \in {"main", "serve", "context", "connect", "ended"}
    BY <1>3 DEF ProbeEnd, Exits, Starts, SwitchProtocols, CreateTlsContext,
                ConnectWithTimeout, TlsHandshake, VerifyPeer, Upgrade, GivesUp
  <2>4. result' # "none" => pc' = "ended" /\ (result' = "ok" => host = "none")
    BY <1>3, <2>2 DEF ProbeEnd, Exits, Starts, SwitchProtocols, CreateTlsContext,
                      ConnectWithTimeout, TlsHandshake, VerifyPeer, Upgrade, GivesUp
  <2>5. Https' = Https BY <2>1 DEF Https
  <2>6. Https /\ host_peer # "server" => Len(response) = 0
    BY <2>1 DEF ProbeEnd, Unopened, Early, Over
  <2> QED BY <2>1, <2>2, <2>3, <2>4, <2>5, <2>6 DEF ProbeEnd
<1>4. CASE SendRequest /\ argv' = argv
  <2>1. /\ UNCHANGED <<argv, host, host_peer, answer, response, result, buffer>>
        /\ UNCHANGED <<closed, addons, sent, framing>>
        /\ pc = "request"
        /\ (pc' = "response" /\ end' = end) \/ (pc' = "close" /\ end' = "error")
    BY <1>4 DEF SendRequest, Ends, server, peers
  <2>2. end = "no" /\ result = "none" /\ host # "none" BY <2>1 DEF ProbeEnd, Over
  <2>3. response = <<>> /\ sent <= 1
    <3>1. Fresh \/ Closing BY <2>1 DEF ProbePlace
    <3> QED BY <3>1 DEF Fresh, Closing
  <2>4. DataSent' = 0
    <3>1. addons \in Nat /\ sent \in Nat BY DEF TunnelInv
    <3>2. Len(Response) = addons + 1 BY <3>1, PayloadIs
    <3>3. DataSent = 0 BY <2>3, <3>1, <3>2 DEF DataSent
    <3>4. DataSent' = DataSent BY <2>1 DEF DataSent, Response
    <3> QED BY <3>3, <3>4
  <2>5. Https' = Https BY <2>1 DEF Https
  <2> QED BY <1>1, <2>1, <2>2, <2>3, <2>4, <2>5 DEF ProbeEnd, Talking, Over
<1>5. CASE Deliver /\ argv' = argv BY <1>5, EndDelivers
<1>6. CASE Verdict /\ argv' = argv
  <2>1. CASE Good /\ host = "page"
    <3>1. /\ host' = "media" /\ pc' = "context" /\ buffer' = <<>> /\ end' = "no"
          /\ response' = <<>> /\ answer' \in Answers /\ result' = "none"
      BY <1>6, <2>1 DEF Verdict
    <3>2. argv # "--check-config" BY <2>1 DEF ProbeEnd
    <3> QED BY <1>1, <1>6, <3>1, <3>2 DEF ProbeEnd, Talking, Over
  <2>2. CASE ~(Good /\ host = "page")
    <3>1. /\ UNCHANGED <<argv, pc, host, host_peer, answer, response, buffer, end>>
          /\ UNCHANGED <<closed, addons, sent, framing>>
          /\ pc = "ended" /\ result' = (IF Good THEN "ok" ELSE "failed")
      BY <1>6, <2>2 DEF Verdict, upstream, server, reader, peers
    <3>2. DataSent' = DataSent /\ Https' = Https BY <3>1 DEF DataSent, Response, Https
    <3>3. (Enough(response)' <=> Enough(response)) /\ (Good' <=> Good)
      BY <3>1, <3>2 DEF Enough, Good, HeaderEnd, Status
    <3> QED BY <2>2, <3>1, <3>2, <3>3 DEF ProbeEnd, Talking, Over
  <2> QED BY <2>1, <2>2
<1>7. CASE Reads(Length) /\ UNCHANGED <<argv, probe>> BY <1>7, EndReads
<1>8. CASE ServerSide /\ argv' = argv
  <2>1. /\ UNCHANGED <<argv, pc, host, host_peer, answer, response, result, buffer, end>>
        /\ pc \in {"switch", "request"} \cup Talking
    BY <1>8 DEF ServerSide, ServerAnswers, Reading, reader, peers, Talking
  <2>2. end = "no" /\ result = "none" BY <2>1 DEF ProbeEnd, Talking, Over
  <2>3. Https' = Https BY <2>1 DEF Https
  <2> QED BY <2>1, <2>2, <2>3 DEF ProbeEnd
<1>9. CASE Probing /\ argv' = argv
  <2>1. ASSUME Reads(Length) \/ Close, UNCHANGED probe PROVE ProbeEnd'
    BY <1>2, <1>7, <1>9, <2>1
  <2> QED BY <1>3, <1>4, <1>5, <1>6, <1>9, <2>1 DEF Probing
<1> QED BY <1>2, <1>3, <1>8, <1>9 DEF Next, Process

LEMMA PlaceInitial == Init => ProbePlace /\ ProbeEnd
<1> SUFFICES ASSUME Init PROVE ProbePlace /\ ProbeEnd OBVIOUS
<1>1. /\ sock = <<>> /\ closed = "open" /\ conn = NewConn /\ sent = 0 /\ framing = "first"
      /\ addons \in 0..1 /\ response_pending = TRUE /\ buffer = <<>> /\ end = "no"
      /\ upgraded = FALSE /\ response = <<>> /\ result = "none" /\ pc = "main"
      /\ argv \in Argv /\ host = Hosts[argv]
  BY DEF Init, ServerInit
<1>2. Fresh BY <1>1 DEF Fresh
<1>3. FlagInv BY <1>1 DEF FlagInv, NewConn
<1>4. ProbePlace
  <2>1. addons \in {0, 1} BY <1>1
  <2> QED BY <1>1, <1>2, <1>3, <2>1 DEF ProbePlace, Unopened, Early, Talking, Over
<1>5. answer \in Answers BY DEF Init, Answers
<1>6. argv = "--check-config" => host = "none" BY <1>1 DEF Hosts
<1>7. Len(<<>>) = 0 OBVIOUS
<1> QED BY <1>1, <1>4, <1>5, <1>6, <1>7 DEF ProbeEnd, Talking, Over


\* The invariant of the probes.
PlaceInvariant == TunnelInv /\ ProbeInv /\ ProbePlace /\ ProbeEnd

THEOREM ProbeInvariance == Spec => []PlaceInvariant
<1>1. Init => PlaceInvariant BY ProbeInit, PlaceInitial DEF PlaceInvariant
<1>2. FileInv /\ PlaceInvariant /\ [Next]_vars => PlaceInvariant'
  <2> SUFFICES ASSUME FileInv, PlaceInvariant, [Next]_vars PROVE PlaceInvariant' OBVIOUS
  <2>1. TunnelInv /\ ProbeInv /\ ProbePlace /\ ProbeEnd BY DEF PlaceInvariant
  <2>2. TunnelInv' BY <2>1, TunnelStep
  <2>3. ProbeInv' BY <2>1, ProbeStep
  <2>4. ProbePlace' BY <2>1, <2>2, PlaceStep
  <2>5. ProbeEnd' BY <2>1, <2>2, EndStep
  <2> QED BY <2>2, <2>3, <2>4, <2>5 DEF PlaceInvariant
<1> QED BY FileInvariance, <1>1, <1>2, PTL DEF Spec

\* What a probe that has ended has of the answer, the server has sent.
LEMMA EndedHas ==
  ASSUME PlaceInvariant, pc = "ended"
  PROVE  Len(response) \in Nat /\ (Len(response) <= DataSent \/ (Len(response) = 0 /\ Fresh))
<1>1. response \in Seq(AnyBytes) BY DEF PlaceInvariant, ProbeInv
<1>2. PICK n \in Nat : n = Len(response) BY <1>1, LenProperties
<1>3. CASE Fresh
  <2>1. Len(<<>>) = 0 OBVIOUS
  <2> QED BY <1>2, <1>3, <2>1 DEF Fresh
<1>4. CASE PlaceInv(Len(response))
  <2>1. GotInv(n) BY <1>2, <1>4 DEF PlaceInv
  <2>2. Len(buffer) \in Nat
    <3>1. buffer \in Seq(AnyBytes) BY BufferBytes DEF PlaceInvariant
    <3> QED BY <3>1, LenProperties
  <2>3. DataSent \in Int
    <3>1. sent \in Nat /\ addons \in Nat BY DEF PlaceInvariant, TunnelInv
    <3> QED BY <3>1, PayloadIs DEF DataSent
  <2> QED BY <1>2, <2>1, <2>2, <2>3 DEF GotInv
<1> QED BY <1>3, <1>4 DEF PlaceInvariant, ProbePlace, Over

\* A probe that exits with 0 has had the answer it asks for.  Nothing between
\* the server and the probe is counted as answer, a frame's header, a ping or
\* the VLESS response; the second host of the YouTube probe is verified.
THEOREM ProbeSuccess == Spec => []ProbeOkIsReal
<1>1. PlaceInvariant => ProbeOkIsReal
  <2> SUFFICES ASSUME PlaceInvariant, result = "ok", host # "none"
               PROVE  /\ DataSent >= Status
                      /\ \/ host = "204" /\ answer # "bad"
                         \/ host = "media" /\ answer = "good" /\ host_peer = "server"
    BY DEF ProbeOkIsReal
  <2>1. /\ pc = "ended" /\ host # "page" /\ Good /\ answer \in Answers
        /\ Https /\ host_peer # "server" => Len(response) = 0 \/ Len(response) = 1
    BY DEF PlaceInvariant, ProbeEnd
  <2>2. /\ Len(response) \in Nat
        /\ Len(response) <= DataSent \/ Len(response) = 0
    BY <2>1, EndedHas
  <2>3. host = "204" \/ host = "media" BY <2>1 DEF PlaceInvariant, ProbeInv
  <2>4. Len(response) >= Status /\ (Https => Len(response) >= 3 /\ Enough(response))
    <3>1. CASE Https BY <2>1, <2>2, <3>1 DEF Good, Enough, HeaderEnd, Status
    <3>2. CASE ~Https BY <2>1, <3>2 DEF Good
    <3> QED BY <3>1, <3>2
  <2>5. Status \in {1, 2} BY DEF Status
  <2>6. DataSent \in Int
    <3>1. sent \in Nat /\ addons \in Nat BY DEF PlaceInvariant, TunnelInv
    <3> QED BY <3>1, PayloadIs DEF DataSent
  <2>7. DataSent >= Status BY <2>2, <2>4, <2>5, <2>6
  <2>8. CASE host = "204" BY <2>1, <2>7, <2>8 DEF Good
  <2>9. CASE host = "media"
    <3>1. Https BY <2>9 DEF Https
    <3>2. answer # "bad" /\ answer # "short" BY <2>1, <2>4, <2>9, <3>1 DEF Good, Enough
    <3>3. host_peer = "server"
      <4> SUFFICES ASSUME host_peer # "server" PROVE FALSE OBVIOUS
      <4>1. Len(response) = 0 \/ Len(response) = 1 BY <2>1, <3>1
      <4>2. Len(response) >= 3 BY <2>4, <3>1
      <4> QED BY <2>2, <4>1, <4>2
    <3> QED BY <2>1, <2>7, <2>9, <3>2, <3>3 DEF Answers
  <2> QED BY <2>3, <2>8, <2>9
<1> QED BY ProbeInvariance, <1>1, PTL

\* A probe fails only for a cause: a tunnel that was opened and whose host
\* answers well, and whose server says all of the answer, passes it, however
\* the answer is framed and cut.  The buffer has to hold the headers of an
\* answer: response[] is of 2048 bytes in probe_config(), which wants the status
\* line, and of 8192 in probe_https_target().
THEOREM ProbeFailure == ASSUME ResponseMax >= 3 PROVE Spec => []ProbeFailsForCause
<1>1. PlaceInvariant => ProbeFailsForCause
  <2> SUFFICES ASSUME PlaceInvariant, result = "failed", end # "no", answer = "good",
                      ~(Https /\ host_peer # "server"), closed # "reset", framing # "leaving",
                      ~(DataSent < (IF Https THEN HeaderEnd ELSE Status))
               PROVE  FALSE
    BY DEF ProbeFailsForCause
  <2>1. /\ pc = "ended" /\ ~Good /\ end \in {"error", "eof", "done"}
        /\ end = "done" => Enough(response) \/ Len(response) >= ResponseMax
        /\ end \in {"error", "eof"} => DataSent \in {0, Len(response)}
    BY DEF PlaceInvariant, ProbeEnd
  <2>2. Len(response) \in Nat BY <2>1, EndedHas
  <2>3. /\ DataSent \in Int
        /\ ResponseMax \in Nat /\ ResponseMax >= 3
    <3>1. sent \in Nat /\ addons \in Nat BY DEF PlaceInvariant, TunnelInv
    <3> QED BY <3>1, PayloadIs, ResponseAssumption DEF DataSent
  <2> DEFINE need == IF Https THEN HeaderEnd ELSE Status
  <2>4. need = (IF Https THEN 3 ELSE 1) BY DEF HeaderEnd, Status
  <2>5. ~(DataSent < need) OBVIOUS
  <2> HIDE DEF need
  <2>6. Len(response) >= need
    <3>1. CASE end = "done"
      <4>1. CASE Enough(response)
        <5>1. Len(response) >= HeaderEnd BY <4>1 DEF Enough
        <5>2. HeaderEnd = (IF Https THEN 3 ELSE 2) BY DEF HeaderEnd, Status
        <5> QED BY <2>2, <2>4, <5>1, <5>2
      <4>2. CASE Len(response) >= ResponseMax BY <2>2, <2>3, <2>4, <4>2
      <4> QED BY <2>1, <3>1, <4>1, <4>2
    <3>2. CASE end \in {"error", "eof"} BY <2>1, <2>2, <2>3, <2>4, <2>5, <3>2
    <3> QED BY <2>1, <3>1, <3>2
  <2>7. Good
    <3>1. CASE Https
      <4>1. HeaderEnd = 3 BY <3>1 DEF HeaderEnd, Status
      <4> QED BY <2>4, <2>6, <3>1, <4>1 DEF Good, Enough
    <3>2. CASE ~Https
      <4>1. Status = 1 BY <3>2 DEF Status
      <4> QED BY <2>4, <2>6, <3>2, <4>1 DEF Good
    <3> QED BY <3>1, <3>2
  <2> QED BY <2>1, <2>7
<1> QED BY ProbeInvariance, <1>1, PTL
=============================================================================
