-------------------------- MODULE LoginPathProofs --------------------------
(***************************************************************************)
(* What holds of module LoginPath for every client, server, cut of the     *)
(* bytes and change of the tables.                                         *)
(***************************************************************************)
EXTENDS LoginPath, PacketsProofs

\* What is known of the client at each place of HandleConnection.
Known ==
    /\ pc \notin {"handshake", "done"} => IsHandshake(handshake_data_pack)
    /\ pc \in {"connect"} \cup Online => route # None
    /\ pc \in Online => handshake_data_pack.protocol_version >= 0
    /\ pc \notin Reading \cup {"forward", "done"} => mark = read

\* Nothing is copied before both sides are greeted, and a ForwardData has bytes
\* to write only while it writes.
Copying ==
    /\ pc \notin {"forward", "done"} => \A d \in Sides : fwd[d] = "off"
    /\ pc = "forward" => \A d \in Sides : fwd[d] # "off"
    /\ pc \notin Online => \A d \in Sides : pending[d] = <<>>
    /\ \A d \in Sides :
          pending[d] # <<>> => fwd[d] = "write" \/ (d = "server" /\ pc # "forward")
    /\ pc \notin Online \cup {"done"} => served = <<>>
    /\ pc \notin {"status", "forward", "done"} => toClient = <<>>
    /\ pc \notin {"forward", "done"} => spoke = 0

\* What the server is to get for what was taken so far.
Said ==
    IF pc = "greet" THEN Rewritten
    ELSE IF pc = "greetLogin" THEN Rewritten \o login ELSE Due

\* Nobody writes to d any more.
Mute(d) == peer[d] # "up" \/ fwd[d] = "over"

\* What has come from the client has reached the server, or is on its way to it,
\* as long as there is somebody to write it.
Forwarded ==
    /\ pc \in Online =>
          \/ served \o pending["server"] = Said
          \/ Mute("server") /\ IsStart(served, Said)
    /\ pc = "done" /\ served # <<>> => IsStart(served, Due)

\* And what has come from the server.
Returned ==
    pc = "forward" =>
        \/ toClient \o pending["client"] = SubSeq(Reply, 1, heard)
        \/ Mute("client") /\ IsStart(toClient, Reply)

\* Nobody but the server has ended anything.
Undisturbed ==
    peer["client"] = "up" /\ ~kicked /\ ~unheard /\ peer["server"] # "reset"

\* Then the copying to the client ends first, and with all that was said.
Ordered ==
    Undisturbed =>
        /\ fwd["server"] = "over" => fwd["client"] = "over"
        /\ fwd["client"] = "over" =>
              /\ peer["server"] = "closed"
              /\ heard = spoke /\ toClient = SubSeq(Reply, 1, heard)

Inv == TypeOK /\ Known /\ Copying /\ Forwarded /\ Returned /\ Ordered

\* The packet that s begins with, and what comes behind it.
First(s)  == SubSeq(ReadVarint(s).rest, 1, ReadVarint(s).value)
Behind(s) == Drop(ReadVarint(s).rest, ReadVarint(s).value)

\* The packets of a login, wherever they were cut, as long as somebody asks.
Parsed ==
    /\ pc \notin {"handshake", "done"} \/ served # <<>> =>
          handshake_data_pack = ParseHandshake(First(stream))
    /\ pc = "handshake" => mark = 0
    /\ pc \in {"gate", "login"} => Drop(stream, mark) = Behind(stream)
    /\ pc \in {"accepted", "connect"} \cup Online \/ served # <<>> =>
          /\ login = Frame(First(Behind(stream)))
          /\ ParseLogin(First(Behind(stream))).ok
          /\ user_name = ParseLogin(First(Behind(stream))).user_name
          /\ First(Behind(stream)) \in Seq(Byte) /\ Len(First(Behind(stream))) \in Short
          /\ Drop(stream, mark) = Behind(Behind(stream))
    /\ served # <<>> =>
          /\ IsHandshake(handshake_data_pack) /\ route # None
          /\ handshake_data_pack.protocol_version >= 0

-----------------------------------------------------------------------------
(* The values that the steps compute. *)

\* What the streams, texts and targets are.
LEMMA ConstantsAre ==
    /\ Streams \subseteq Seq(Byte) /\ Reply \in Seq(Byte) /\ Motds \subseteq Seq(Byte)
    /\ \A t \in Targets \cup {Default} :
           t.addr \in Seq(Byte) /\ t.port \in Seq(Byte) /\ Len(t.port) = 2
    /\ None \notin Targets \cup {Default}
    /\ NoPattern \notin Patterns
<1>1. \A t \in Targets \cup {Default} : t \in Target
  BY LoginPathAssumption
<1>2. ASSUME NEW t \in Target
      PROVE  t.addr \in Seq(Byte) /\ t.port \in Seq(Byte) /\ Len(t.port) = 2
  <2>1. t.addr \in Seq(Byte) /\ t.port \in [1 .. 2 -> Byte]
    BY DEF Target
  <2>2. t.port \in Seq(Byte) /\ Len(t.port) = 2
    <3>1. PICK p \in [1 .. 2 -> Byte] : p = t.port
      BY <2>1
    <3>2. p \in Seq(Byte)
      BY SeqDef
    <3>3. DOMAIN p = 1 .. 2 /\ DOMAIN p = 1 .. Len(p) /\ Len(p) \in Nat
      BY <3>2, LenProperties
    <3>4. Len(p) = 2
      BY <3>3
    <3> QED
      BY <3>1, <3>2, <3>4
  <2> QED
    BY <2>1, <2>2
<1> QED
  BY <1>1, <1>2, LoginPathAssumption

\* What is read of the packet that is being read.
LEMMA PacketIs ==
    ASSUME TypeOK
    PROVE  /\ stream \in Seq(Byte) /\ mark \in Nat /\ read \in Nat /\ read <= Len(stream)
           /\ Packet \in Seq(Byte) /\ Len(Packet) = read - mark
           /\ Body \in Seq(Byte) /\ Size.value \in Int /\ Size.ok \in BOOLEAN
<1>1. /\ stream \in Seq(Byte) /\ mark \in Nat /\ read \in Nat
      /\ mark <= read /\ read <= Len(stream)
  BY ConstantsAre DEF TypeOK
<1>2. Packet \in Seq(Byte) /\ Len(Packet) = read - mark
  BY <1>1 DEF Packet
<1>3. ReadVarint(Packet).ok \in BOOLEAN /\ ReadVarint(Packet).value \in Int
      /\ ReadVarint(Packet).rest \in Seq(Byte)
  BY <1>2, ReadVarintIs
<1> QED
  BY <1>1, <1>2, <1>3 DEF Size, Body

\* A login is sent to a target or to the default.
LEMMA RouteIs ==
    ASSUME TypeOK, NEW a, NEW n PROVE RouteOf(a, n) \in Targets \cup {Default}
<1>1. ByUser(n) \in Targets \cup {None}
  BY DEF ByUser, TypeOK
<1>2. ByDomain(a) \in Targets \cup {None}
  <2>1. dn_proxy_map # None => dn_proxy_map.second \in [Keys -> Targets \cup {None}]
    BY DEF TypeOK
  <2> QED
    BY <2>1 DEF ByDomain
<1> QED
  BY <1>1, <1>2 DEF RouteOf

\* The end of an address from its first NUL on.
LEMMA SuffixIs ==
    ASSUME NEW address \in Seq(Byte)
    PROVE  \E n \in 0 .. Len(address) :
               /\ \A i \in 1 .. n : address[i] # 0
               /\ n = Len(address) \/ address[n + 1] = 0
               /\ Suffix(address) = Drop(address, n)
<1> DEFINE Ends(n) == /\ \A i \in 1 .. n : address[i] # 0
                      /\ n = Len(address) \/ address[n + 1] = 0
<1>1. \E n \in 0 .. Len(address) : Ends(n)
  <2> DEFINE T == {n \in 0 .. Len(address) : n = Len(address) \/ address[n + 1] = 0}
  <2>1. T \subseteq Nat /\ Len(address) \in T
    OBVIOUS
  <2>2. PICK n \in T : \A m \in T : n <= m
    <3> HIDE DEF T
    <3>1. T # {}
      BY <2>1
    <3> QED
      BY <2>1, <3>1, LeastElement
  <2>3. ASSUME NEW i \in 1 .. n PROVE address[i] # 0
    <3>1. n \in 0 .. Len(address)
      BY <2>2
    <3>2. i - 1 \in 0 .. Len(address) /\ (i - 1) + 1 = i /\ ~(n <= i - 1)
      BY <3>1
    <3>3. i - 1 \notin T
      BY <2>2, <3>2
    <3> QED
      BY <3>2, <3>3
  <2> QED
    BY <2>2, <2>3
<1>2. PICK n : n = CHOOSE m \in 0 .. Len(address) : Ends(m)
  OBVIOUS
<1>3. n \in 0 .. Len(address) /\ Ends(n)
  BY <1>1, <1>2
<1>4. Suffix(address) = Drop(address, n)
  BY <1>2 DEF Suffix
<1> QED
  BY <1>3, <1>4

\* The handshake for the server: the client's, with the route's address and port.
Dialled ==
    [handshake_data_pack EXCEPT
        !.server_address = route.addr \o Suffix(@), !.server_port = route.port]

\* It keeps the version and the next state, and its address and port are bytes.
LEMMA DialledIs ==
    ASSUME IsHandshake(handshake_data_pack), route \in Targets \cup {Default}
    PROVE  /\ Dialled = [ok |-> TRUE,
                         protocol_version |-> handshake_data_pack.protocol_version,
                         server_address |->
                             route.addr \o Suffix(handshake_data_pack.server_address),
                         server_port |-> route.port,
                         next_state |-> handshake_data_pack.next_state]
           /\ Dialled.server_address \in Seq(Byte)
           /\ Dialled.server_port \in Seq(Byte) /\ Len(Dialled.server_port) = 2
           /\ Dialled.next_state \in {1, 2} \cap Short
<1>1. /\ handshake_data_pack =
             [ok |-> TRUE, protocol_version |-> handshake_data_pack.protocol_version,
              server_address |-> handshake_data_pack.server_address,
              server_port |-> handshake_data_pack.server_port,
              next_state |-> handshake_data_pack.next_state]
      /\ handshake_data_pack.server_address \in Seq(Byte)
      /\ handshake_data_pack.next_state \in {1, 2} \cap Short
  BY DEF IsHandshake
<1>2. Dialled = [ok |-> TRUE,
                 protocol_version |-> handshake_data_pack.protocol_version,
                 server_address |->
                     route.addr \o Suffix(handshake_data_pack.server_address),
                 server_port |-> route.port,
                 next_state |-> handshake_data_pack.next_state]
  <2>1. PICK v, a, p, x, r, q :
            /\ handshake_data_pack =
                   [ok |-> TRUE, protocol_version |-> v, server_address |-> a,
                    server_port |-> p, next_state |-> x]
            /\ r = route.addr \o Suffix(a) /\ q = route.port
    BY <1>1
  <2>2. Dialled = [handshake_data_pack EXCEPT !.server_address = r, !.server_port = q]
    BY <2>1 DEF Dialled
  <2>3. Dialled = [ok |-> TRUE, protocol_version |-> v, server_address |-> r,
                   server_port |-> q, next_state |-> x]
    BY <2>1, <2>2
  <2> QED
    BY <2>1, <2>3
<1>3. route.addr \o Suffix(handshake_data_pack.server_address) \in Seq(Byte)
  <2>1. Suffix(handshake_data_pack.server_address) \in Seq(Byte)
    <3>1. PICK a \in Seq(Byte) : a = handshake_data_pack.server_address
      BY <1>1
    <3>2. PICK n \in 0 .. Len(a) : Suffix(a) = Drop(a, n)
      BY SuffixIs
    <3>3. Drop(a, n) \in Seq(Byte)
      BY EndsAre
    <3> QED
      BY <3>1, <3>2, <3>3
  <2> QED
    BY <2>1, ConstantsAre, JoinedAre
<1> QED
  BY <1>1, <1>2, <1>3, ConstantsAre

\* The packet for the server is its frame.
LEMMA RewrittenIs ==
    ASSUME IsHandshake(handshake_data_pack), route \in Targets \cup {Default},
           handshake_data_pack.protocol_version >= 0
    PROVE  Rewritten = HandshakeBuffer(Dialled) /\ Rewritten \in Seq(Byte)
<1>1. Rewritten = HandshakeBuffer(Dialled)
  BY DEF Rewritten, Dialled
<1>2. handshake_data_pack.protocol_version \in Nat
      /\ handshake_data_pack.next_state \in Nat
  BY DEF IsHandshake
<1>3. /\ Dialled.protocol_version \in Nat /\ Dialled.next_state \in Nat
      /\ Dialled.server_address \in Seq(Byte) /\ Dialled.server_port \in Seq(Byte)
  <2>1. /\ Dialled.protocol_version = handshake_data_pack.protocol_version
        /\ Dialled.next_state = handshake_data_pack.next_state
    <3>1. \A v, a, p, x : Dialled = [ok |-> TRUE, protocol_version |-> v,
                                     server_address |-> a, server_port |-> p,
                                     next_state |-> x]
                          => Dialled.protocol_version = v /\ Dialled.next_state = x
      OBVIOUS
    <3> QED
      BY <3>1, DialledIs
  <2>2. Dialled.server_address \in Seq(Byte) /\ Dialled.server_port \in Seq(Byte)
    BY DialledIs
  <2> QED
    BY <1>2, <2>1, <2>2
<1>4. HandshakeBuffer(Dialled) \in Seq(Byte)
  BY <1>3, HandshakeBufferIs
<1> QED
  BY <1>1, <1>4

-----------------------------------------------------------------------------
(* Every step is one of these. *)

\* A change of the tables leaves the session alone.
LEMMA TableCallIs ==
    ASSUME TypeOK, TableCall
    PROVE  /\ UNCHANGED session
           /\ lastCall' \in {"ok", "threw"} /\ calls' \in 0 .. MaxCalls
           /\ dn_proxy_map' \in {None} \cup [first  : Patterns \cup {NoPattern},
                                             second : [Keys -> Targets \cup {None}]]
           /\ user_proxy_map' \in [UserNames -> Targets \cup {None}]
           /\ motd' \in Motds
<1> DEFINE Table == [first  : Patterns \cup {NoPattern},
                     second : [Keys -> Targets \cup {None}]]
           Users == [UserNames -> Targets \cup {None}]
<1>1. /\ dn_proxy_map \in {None} \cup Table /\ user_proxy_map \in Users /\ motd \in Motds
      /\ calls \in 0 .. MaxCalls
  BY DEF TypeOK
<1>2. NoMappings \in [Keys -> Targets \cup {None}]
  BY DEF NoMappings
<1>3. ASSUME NEW o \in {"ok", "threw"}, Call(o)
      PROVE  UNCHANGED session /\ lastCall' \in {"ok", "threw"} /\ calls' \in 0 .. MaxCalls
  BY <1>1, <1>3, LoginPathAssumption DEF Call
<1>4. ASSUME NEW p \in Patterns, EnableDomainNameProxy(p)
      PROVE  /\ dn_proxy_map' \in Table /\ UNCHANGED <<user_proxy_map, motd>>
             /\ Call("ok") \/ Call("threw")
  <2>1. PICK m \in Table : m = IF dn_proxy_map = None
                               THEN [first |-> NoPattern, second |-> NoMappings]
                               ELSE dn_proxy_map
    BY <1>1, <1>2
  <2>2. [m EXCEPT !.first = p] \in Table
    OBVIOUS
  <2>3. dn_proxy_map' = IF p \in Broken THEN m ELSE [m EXCEPT !.first = p]
    BY <1>4, <2>1 DEF EnableDomainNameProxy
  <2>4. Call("ok") \/ Call("threw")
    BY <1>4 DEF EnableDomainNameProxy
  <2>5. UNCHANGED <<user_proxy_map, motd>>
    BY <1>4 DEF EnableDomainNameProxy
  <2> HIDE DEF Table
  <2> QED
    BY <2>1, <2>2, <2>3, <2>4, <2>5
<1>5. ASSUME NEW k \in Keys, NEW t \in Targets, AddDomainNameProxyMapping(k, t)
      PROVE  /\ dn_proxy_map' \in Table /\ UNCHANGED <<user_proxy_map, motd>> /\ Call("ok")
  BY <1>1, <1>5 DEF AddDomainNameProxyMapping
<1>6. ASSUME NEW k \in Keys, RemoveDomainNameProxyMapping(k)
      PROVE  /\ dn_proxy_map' \in Table /\ UNCHANGED <<user_proxy_map, motd>> /\ Call("ok")
  BY <1>1, <1>6 DEF RemoveDomainNameProxyMapping
<1>7. ASSUME MappingThrows
      PROVE  UNCHANGED <<dn_proxy_map, user_proxy_map, motd>> /\ Call("threw")
  BY <1>7 DEF MappingThrows, tables
<1>8. ASSUME DisableDomainNameProxy
      PROVE  dn_proxy_map' = None /\ UNCHANGED <<user_proxy_map, motd>> /\ Call("ok")
  BY <1>8 DEF DisableDomainNameProxy
<1>9. ASSUME ClearUserProxy
      PROVE  user_proxy_map' \in Users /\ UNCHANGED <<dn_proxy_map, motd>> /\ Call("ok")
  BY <1>9 DEF ClearUserProxy
<1>10. ASSUME NEW n \in UserNames, NEW t \in Targets, SetUserProxy(n, t)
       PROVE  user_proxy_map' \in Users /\ UNCHANGED <<dn_proxy_map, motd>> /\ Call("ok")
  BY <1>1, <1>10 DEF SetUserProxy
<1>11. ASSUME NEW n \in UserNames, DeleteUserProxy(n)
       PROVE  user_proxy_map' \in Users /\ UNCHANGED <<dn_proxy_map, motd>> /\ Call("ok")
  BY <1>1, <1>11 DEF DeleteUserProxy
<1>12. ASSUME NEW m \in Motds, SetMotd(m)
       PROVE  /\ motd' \in Motds /\ UNCHANGED <<dn_proxy_map, user_proxy_map>>
              /\ UNCHANGED session /\ lastCall' = "ok" /\ calls' \in 0 .. MaxCalls
  BY <1>1, <1>12, LoginPathAssumption DEF SetMotd
<1> HIDE DEF Table, Users
<1>13. CASE \E p \in Patterns : EnableDomainNameProxy(p)
  BY <1>1, <1>3, <1>4, <1>13 DEF Table, Users
<1>14. CASE \E k \in Keys, t \in Targets : AddDomainNameProxyMapping(k, t)
  BY <1>1, <1>3, <1>5, <1>14 DEF Table, Users
<1>15. CASE \E k \in Keys : RemoveDomainNameProxyMapping(k)
  BY <1>1, <1>3, <1>6, <1>15 DEF Table, Users
<1>16. CASE MappingThrows
  BY <1>1, <1>3, <1>7, <1>16 DEF Table, Users
<1>17. CASE DisableDomainNameProxy
  BY <1>1, <1>3, <1>8, <1>17 DEF Table, Users
<1>18. CASE ClearUserProxy
  BY <1>1, <1>3, <1>9, <1>18 DEF Table, Users
<1>19. CASE \E n \in UserNames, t \in Targets : SetUserProxy(n, t)
  BY <1>1, <1>3, <1>10, <1>19 DEF Table, Users
<1>20. CASE \E n \in UserNames : DeleteUserProxy(n)
  BY <1>1, <1>3, <1>11, <1>20 DEF Table, Users
<1>21. CASE \E m \in Motds : SetMotd(m)
  BY <1>1, <1>12, <1>21 DEF Table, Users
<1> QED
  BY <1>13, <1>14, <1>15, <1>16, <1>17, <1>18, <1>19, <1>20, <1>21 DEF TableCall

-----------------------------------------------------------------------------
(* Types. *)

\* A connection begins with every variable of its type.
LEMMA TypeInit == Init => TypeOK
<1>1. Streams \subseteq Seq(Byte) /\ Reply \in Seq(Byte)
  BY ConstantsAre
<1> SUFFICES ASSUME Init PROVE TypeOK
  OBVIOUS
<1>2. /\ stream \in Streams /\ mark \in 0 .. read /\ read \in 0 .. Len(stream)
      /\ heard \in 0 .. spoke /\ spoke \in 0 .. Len(Reply) /\ calls \in 0 .. MaxCalls
  <2>1. Len(stream) \in Nat /\ Len(Reply) \in Nat /\ MaxCalls \in Nat
    BY <1>1, LoginPathAssumption DEF Init
  <2> QED
    BY <2>1 DEF Init
<1>3. /\ fwd \in [Sides -> {"off", "read", "write", "over"}]
      /\ pending \in [Sides -> Seq(Byte)] /\ peer \in [Sides -> {"up", "closed", "reset"}]
      /\ user_proxy_map \in [UserNames -> Targets \cup {None}]
      /\ served \in Seq(Byte) /\ toClient \in Seq(Byte)
      /\ login \in Seq(Byte) /\ user_name \in Seq(Byte)
  BY DEF Init
<1> QED
  BY <1>2, <1>3 DEF Init, TypeOK, Reading

\* And no step takes one out of it.
LEMMA TypeStep ==
    ASSUME TypeOK, Known, Next PROVE TypeOK'
<1>1. /\ stream \in Seq(Byte) /\ mark \in Nat /\ read \in Nat /\ mark <= read
      /\ read <= Len(stream) /\ Len(stream) \in Nat
  BY PacketIs DEF TypeOK
<1>2. Packet \in Seq(Byte) /\ Body \in Seq(Byte) /\ Size.value \in Int
  BY PacketIs
<1>3. Reply \in Seq(Byte) /\ Len(Reply) \in Nat
  BY ConstantsAre
<1>4. BufferSize \in Nat
  BY LoginPathAssumption
<1> USE DEF Sides, Reading, Online
<1>5. ASSUME ReadMore PROVE TypeOK'
  BY <1>1, <1>2, <1>5, SMTT(30) DEF ReadMore, TypeOK, parsed, bytes, tables
<1>6. ASSUME ReadClient PROVE TypeOK'
  <2>1. PICK k \in 1 .. BufferSize :
            /\ read + k <= Len(stream) /\ read' = read + k
            /\ pending' = [pending EXCEPT !["server"] = SubSeq(stream, read + 1, read + k)]
    BY <1>6 DEF ReadClient
  <2>2. SubSeq(stream, read + 1, read + k) \in Seq(Byte)
    BY <1>1, <1>4, <2>1
  <2> QED
    BY <1>1, <1>4, <1>6, <2>1, <2>2 DEF ReadClient, TypeOK, parsed, bytes, tables
<1>7. ASSUME TakeHandshake PROVE TypeOK'
  <2>1. IsHandshake(ParseHandshake(Body))
    BY <1>2, <1>7, ParseHandshakeIs DEF TakeHandshake
  <2>2. ParseHandshake(Body) \in Handshakes
    <3>1. PICK h : h = ParseHandshake(Body)
      OBVIOUS
    <3>2. IsHandshake(h)
      BY <2>1, <3>1
    <3>3. h \in Handshakes
      <4>1. PICK v \in Int, a \in Seq(Byte), p \in Seq(Byte), x \in {1, 2} :
                h = [ok |-> TRUE, protocol_version |-> v, server_address |-> a,
                     server_port |-> p, next_state |-> x]
        BY <3>2 DEF IsHandshake
      <4> QED
        BY <4>1 DEF Handshakes
    <3> QED
      BY <3>1, <3>3
  <2>3. /\ handshake_data_pack' = ParseHandshake(Body)
        /\ pc' \in {"status", "gate"} /\ mark' = read
        /\ UNCHANGED <<stream, read, fwd, peer, kicked, unheard, tables, lastCall, calls,
                       login, user_name, route, bytes>>
    BY <1>7 DEF TakeHandshake, Goto
  <2> QED
    BY <1>1, <2>2, <2>3 DEF TypeOK, bytes, tables
<1>8. ASSUME LoginGate PROVE TypeOK'
  BY <1>1, <1>8 DEF LoginGate, Goto, TypeOK, parsed, bytes, tables
<1>9. ASSUME TakeLogin PROVE TypeOK'
  <2>1. Frame(Body) \in Seq(Byte) /\ ParseLogin(Body).user_name \in Seq(Byte)
    BY <1>2, FrameIs, ParseLoginIs
  <2> QED
    BY <1>1, <1>9, <2>1 DEF TakeLogin, Goto, TypeOK, bytes, tables
<1>10. ASSUME PacketThrows PROVE TypeOK'
  BY <1>1, <1>10 DEF PacketThrows, Goto, TypeOK, parsed, bytes, tables
<1>11. ASSUME NEW p \in Seq(Byte), Send(p)
       PROVE  toClient' \in Seq(Byte) /\ UNCHANGED <<pending, served, spoke, heard>>
  <2>1. toClient \in Seq(Byte)
    BY DEF TypeOK
  <2>2. toClient \o p \in Seq(Byte)
    BY <2>1, JoinedAre
  <2> QED
    BY <1>11, <2>1, <2>2 DEF Send
<1>12. ASSUME StatusRequest PROVE TypeOK'
  <2>1. motd \in Seq(Byte)
    BY ConstantsAre DEF TypeOK
  <2>2. StatusResponse(motd) \in Seq(Byte)
    BY <2>1, AnswersAre
  <2>3. Send(StatusResponse(motd))
    BY <1>12 DEF StatusRequest
  <2>4. toClient' \in Seq(Byte) /\ UNCHANGED <<pending, served, spoke, heard>>
    BY <1>11, <2>2, <2>3
  <2> QED
    BY <1>1, <1>12, <2>4 DEF StatusRequest, Goto, TypeOK, parsed, tables
<1>13. ASSUME PingRequest PROVE TypeOK'
  <2>2. Pong(ParsePing(Body).payload) \in Seq(Byte)
    BY <1>2, ParsePingIs, AnswersAre
  <2>3. Send(Pong(ParsePing(Body).payload))
    BY <1>13 DEF PingRequest
  <2>4. toClient' \in Seq(Byte) /\ UNCHANGED <<pending, served, spoke, heard>>
    BY <1>11, <2>2, <2>3
  <2> QED
    BY <1>1, <1>13, <2>4 DEF PingRequest, Goto, TypeOK, parsed, tables
<1>14. ASSUME Route PROVE TypeOK'
  <2>1. route' \in Targets \cup {Default}
    BY <1>14, RouteIs DEF Route
  <2> QED
    BY <1>1, <1>14, <2>1 DEF Route, Goto, TypeOK, parsed, bytes, tables
<1>15. ASSUME Connected PROVE TypeOK'
  <2>1. pending' = pending \/ pending' = [pending EXCEPT !["server"] = Rewritten]
    BY <1>15 DEF Connected
  <2>2. ASSUME pending' # pending PROVE Rewritten \in Seq(Byte)
    <3>1. IsHandshake(handshake_data_pack) /\ route \in Targets \cup {Default}
      BY <1>15 DEF Connected, Known, TypeOK
    <3>2. handshake_data_pack.protocol_version \in Int
          /\ ~(handshake_data_pack.protocol_version < 0)
      BY <1>15, <2>2, <3>1 DEF Connected, IsHandshake
    <3> QED
      BY <3>1, <3>2, RewrittenIs
  <2>3. pending' \in [Sides -> Seq(Byte)]
    BY <2>1, <2>2 DEF TypeOK
  <2>4. pc' \in {"done", "greet"} /\ mark' \in {mark, read}
        /\ UNCHANGED <<stream, read, fwd, peer, kicked, unheard, tables, lastCall, calls>>
    BY <1>15 DEF Connected, Goto
  <2> QED
    BY <1>1, <1>15, <2>3, <2>4 DEF Connected, TypeOK, parsed, bytes, tables
<1>16. ASSUME Refuse PROVE TypeOK'
  <2>2. LoginFailure \in Seq(Byte)
    BY <1>2, AnswersAre
  <2>3. Send(LoginFailure)
    BY <1>16 DEF Refuse
  <2>4. toClient' \in Seq(Byte) /\ UNCHANGED <<pending, served, spoke, heard>>
    BY <1>11, <2>2, <2>3
  <2> QED
    BY <1>1, <1>16, <2>4 DEF Refuse, Goto, TypeOK, parsed, tables
<1>17. ASSUME IoThrows PROVE TypeOK'
  BY <1>1, <1>17 DEF IoThrows, Goto, TypeOK, parsed, bytes, tables
<1>18. ASSUME GreetLogin PROVE TypeOK'
  BY <1>1, <1>18 DEF GreetLogin, Goto, TypeOK, parsed, bytes, tables
<1>19. ASSUME Forward PROVE TypeOK'
  BY <1>1, <1>19 DEF Forward, TypeOK, parsed, bytes, tables
<1>20. ASSUME StartThrows PROVE TypeOK'
  BY <1>1, <1>20 DEF StartThrows, Goto, TypeOK, parsed, bytes, tables
<1>21. ASSUME ReadServer PROVE TypeOK'
  <2>1. PICK k \in 1 .. BufferSize :
            /\ heard + k <= spoke /\ heard' = heard + k
            /\ pending' = [pending EXCEPT !["client"] = SubSeq(Reply, heard + 1, heard + k)]
    BY <1>21 DEF ReadServer
  <2>0. /\ heard \in Nat /\ spoke \in Nat /\ spoke <= Len(Reply) /\ heard <= spoke
        /\ k \in Nat
    BY <1>3, <1>4, <2>1, SMTT(30) DEF TypeOK
  <2>2. SubSeq(Reply, heard + 1, heard + k) \in Seq(Byte)
    BY <1>3, <2>0, <2>1
  <2>3. heard' \in 0 .. spoke
    BY <2>0, <2>1
  <2>4. pending' \in [Sides -> Seq(Byte)]
    BY <2>1, <2>2 DEF TypeOK
  <2> QED
    BY <1>1, <1>21, <2>3, <2>4 DEF ReadServer, TypeOK, parsed, tables
<1>22. ASSUME Finish PROVE TypeOK'
  BY <1>1, <1>22 DEF Finish, Goto, TypeOK, parsed, bytes, tables
<1>23. ASSUME NEW d \in Sides, WriteSome(d) PROVE TypeOK'
  <2>1. pending[d] \in Seq(Byte) /\ served \in Seq(Byte) /\ toClient \in Seq(Byte)
    BY DEF TypeOK
  <2>2. PICK k \in 1 .. Len(pending[d]) :
            /\ Written(d, Drop(pending[d], k))
            /\ \/ served' = served \o SubSeq(pending[d], 1, k) /\ UNCHANGED toClient
               \/ toClient' = toClient \o SubSeq(pending[d], 1, k) /\ UNCHANGED served
    BY <1>23 DEF WriteSome
  <2>3. Drop(pending[d], k) \in Seq(Byte) /\ SubSeq(pending[d], 1, k) \in Seq(Byte)
    <3>1. k \in 0 .. Len(pending[d])
      BY <2>1
    <3> QED
      BY <2>1, <3>1, EndsAre
  <2>4. served' \in Seq(Byte) /\ toClient' \in Seq(Byte)
    <3>1. /\ served \o SubSeq(pending[d], 1, k) \in Seq(Byte)
          /\ toClient \o SubSeq(pending[d], 1, k) \in Seq(Byte)
      BY <2>1, <2>3, JoinedAre
    <3> QED
      BY <2>1, <2>2, <3>1
  <2>5. pending' \in [Sides -> Seq(Byte)]
        /\ fwd' \in [Sides -> {"off", "read", "write", "over"}]
    <3>1. pending \in [Sides -> Seq(Byte)] /\ fwd \in [Sides -> {"off", "read", "write", "over"}]
      BY DEF TypeOK
    <3>2. /\ pending' = [pending EXCEPT ![d] = Drop(pending[d], k)]
          /\ fwd' \in {fwd, [fwd EXCEPT ![d] = "read"]}
      BY <2>2 DEF Written
    <3>3. pending' \in [Sides -> Seq(Byte)]
      BY <2>3, <3>1, <3>2
    <3>4. fwd' \in [Sides -> {"off", "read", "write", "over"}]
      BY <3>1, <3>2
    <3> QED
      BY <3>3, <3>4
  <2>6. UNCHANGED <<stream, pc, read, mark, handshake_data_pack, login, user_name, route,
                    spoke, heard, peer, kicked, unheard, dn_proxy_map, user_proxy_map,
                    motd, lastCall, calls>>
    BY <1>23 DEF WriteSome, parsed, tables
  <2> QED
    BY <2>4, <2>5, <2>6 DEF TypeOK
<1>24. ASSUME NEW d \in Sides, WriteLost(d) PROVE TypeOK'
  <2>1. pending' \in [Sides -> Seq(Byte)]
        /\ fwd' \in [Sides -> {"off", "read", "write", "over"}]
    BY <1>24 DEF WriteLost, Written, TypeOK
  <2> QED
    BY <1>1, <1>24, <2>1 DEF WriteLost, TypeOK, parsed, tables
<1>25. ASSUME NEW d \in Sides, WriteThrows(d) PROVE TypeOK'
  BY <1>1, <1>25 DEF WriteThrows, TypeOK, parsed, tables
<1>26. ASSUME NEW d \in Sides, ReadEnds(d) PROVE TypeOK'
  BY <1>1, <1>26 DEF ReadEnds, TypeOK, parsed, bytes, tables
<1>27. ASSUME Speak PROVE TypeOK'
  BY <1>1, <1>3, <1>27 DEF Speak, TypeOK, parsed, tables
<1>28. ASSUME Kick PROVE TypeOK'
  BY <1>1, <1>28 DEF Kick, TypeOK, parsed, bytes, tables
<1>29. ASSUME NEW d \in Sides, NEW how \in {"closed", "reset"}, HangUp(d, how) PROVE TypeOK'
  BY <1>1, <1>29 DEF HangUp, TypeOK, parsed, bytes, tables
<1>30. ASSUME TableCall PROVE TypeOK'
  BY <1>30, TableCallIs DEF TypeOK, session, parsed, bytes
<1> QED
  BY <1>5, <1>6, <1>7, <1>8, <1>9, <1>10, <1>12, <1>13, <1>14, <1>15, <1>16, <1>17,
     <1>18, <1>19, <1>20, <1>21, <1>22, <1>23, <1>24, <1>25, <1>26, <1>27, <1>28,
     <1>29, <1>30 DEF Next, Hear, Serve, World

-----------------------------------------------------------------------------
(* Where the client is, and who writes. *)

\* Where the coroutine is tells what it knows, after every step.
LEMMA KnownStep ==
    ASSUME TypeOK, Known, Next PROVE Known'
<1> USE DEF Reading, Online
<1>1. ASSUME ReadMore PROVE Known'
  BY <1>1 DEF ReadMore, Known, parsed, bytes
<1>2. ASSUME ReadClient PROVE Known'
  BY <1>2 DEF ReadClient, Known, parsed, bytes
<1>3. ASSUME TakeHandshake PROVE Known'
  <2>1. Body \in Seq(Byte)
    BY PacketIs
  <2>2. IsHandshake(ParseHandshake(Body))
    BY <1>3, <2>1, ParseHandshakeIs DEF TakeHandshake
  <2> QED
    BY <1>3, <2>2 DEF TakeHandshake, Goto, Known, parsed, bytes
<1>4. ASSUME LoginGate PROVE Known'
  BY <1>4 DEF LoginGate, Goto, Known, parsed, bytes
<1>5. ASSUME TakeLogin PROVE Known'
  BY <1>5 DEF TakeLogin, Goto, Known, parsed, bytes
<1>6. ASSUME PacketThrows PROVE Known'
  BY <1>6 DEF PacketThrows, Goto, Known, parsed, bytes
<1>7. ASSUME StatusRequest PROVE Known'
  BY <1>7 DEF StatusRequest, Goto, Send, Known, parsed, bytes
<1>8. ASSUME PingRequest PROVE Known'
  BY <1>8 DEF PingRequest, Goto, Send, Known, parsed, bytes
<1>9. ASSUME Route PROVE Known'
  <2>1. route' # None
    BY <1>9, RouteIs, ConstantsAre DEF Route
  <2> QED
    BY <1>9, <2>1 DEF Route, Goto, Known, parsed, bytes
<1>10. ASSUME Connected PROVE Known'
  <2>1. /\ IsHandshake(handshake_data_pack) /\ route # None
        /\ handshake_data_pack.protocol_version \in Int
    BY <1>10 DEF Connected, Known, IsHandshake
  <2> QED
    BY <1>10, <2>1 DEF Connected, Goto, Known, parsed, bytes
<1>11. ASSUME Refuse PROVE Known'
  BY <1>11 DEF Refuse, Goto, Send, Known, parsed, bytes
<1>12. ASSUME IoThrows PROVE Known'
  BY <1>12 DEF IoThrows, Goto, Known, parsed, bytes
<1>13. ASSUME GreetLogin PROVE Known'
  BY <1>13 DEF GreetLogin, Goto, Known, parsed, bytes
<1>14. ASSUME Forward PROVE Known'
  BY <1>14 DEF Forward, Known, parsed, bytes
<1>15. ASSUME StartThrows PROVE Known'
  BY <1>15 DEF StartThrows, Goto, Known, parsed, bytes
<1>16. ASSUME ReadServer PROVE Known'
  BY <1>16 DEF ReadServer, Known, parsed, bytes
<1>17. ASSUME Finish PROVE Known'
  BY <1>17 DEF Finish, Goto, Known, parsed, bytes
<1>18. ASSUME NEW d \in Sides, WriteSome(d) PROVE Known'
  BY <1>18 DEF WriteSome, Writing, Written, Known, parsed, bytes
<1>19. ASSUME NEW d \in Sides, WriteLost(d) PROVE Known'
  BY <1>19 DEF WriteLost, Writing, Written, Known, parsed, bytes
<1>20. ASSUME NEW d \in Sides, WriteThrows(d) PROVE Known'
  BY <1>20 DEF WriteThrows, Writing, Known, parsed, bytes
<1>21. ASSUME NEW d \in Sides, ReadEnds(d) PROVE Known'
  BY <1>21 DEF ReadEnds, Known, parsed, bytes
<1>22. ASSUME Speak PROVE Known'
  BY <1>22 DEF Speak, Known, parsed, bytes
<1>23. ASSUME Kick PROVE Known'
  BY <1>23 DEF Kick, Known, parsed, bytes
<1>24. ASSUME NEW d \in Sides, NEW how \in {"closed", "reset"}, HangUp(d, how)
      PROVE  Known'
  BY <1>24 DEF HangUp, Known, parsed, bytes
<1>25. ASSUME TableCall PROVE Known'
  BY <1>25, TableCallIs DEF Known, parsed, bytes, session
<1> QED
  BY <1>1, <1>2, <1>3, <1>4, <1>5, <1>6, <1>7, <1>8, <1>9, <1>10, <1>11, <1>12,
     <1>13, <1>14, <1>15, <1>16, <1>17, <1>18, <1>19, <1>20, <1>21, <1>22, <1>23,
     <1>24, <1>25 DEF Next, Hear, Serve, World

\* Only a step to "forward" starts the two copies, and only they write on.
LEMMA CopyingStep ==
    ASSUME TypeOK, Copying, Next PROVE Copying'
<1> USE DEF Reading, Online, Sides
<1>1. fwd \in [Sides -> {"off", "read", "write", "over"}] /\ pending \in [Sides -> Seq(Byte)]
  BY DEF TypeOK
<1>2. ASSUME ReadMore PROVE Copying'
  BY <1>1, <1>2 DEF ReadMore, Copying, parsed, bytes
<1>3. ASSUME ReadClient PROVE Copying'
  BY <1>1, <1>3 DEF ReadClient, Copying, parsed, bytes
<1>4. ASSUME TakeHandshake PROVE Copying'
  BY <1>1, <1>4 DEF TakeHandshake, Goto, Copying, parsed, bytes
<1>5. ASSUME LoginGate PROVE Copying'
  BY <1>1, <1>5 DEF LoginGate, Goto, Copying, parsed, bytes
<1>6. ASSUME TakeLogin PROVE Copying'
  BY <1>1, <1>6 DEF TakeLogin, Goto, Copying, parsed, bytes
<1>7. ASSUME PacketThrows PROVE Copying'
  BY <1>1, <1>7 DEF PacketThrows, Goto, Copying, parsed, bytes
<1>8. ASSUME StatusRequest PROVE Copying'
  BY <1>1, <1>8 DEF StatusRequest, Goto, Send, Copying, parsed, bytes
<1>9. ASSUME PingRequest PROVE Copying'
  BY <1>1, <1>9 DEF PingRequest, Goto, Send, Copying, parsed, bytes
<1>10. ASSUME Route PROVE Copying'
  BY <1>1, <1>10 DEF Route, Goto, Copying, parsed, bytes
<1>11. ASSUME Connected PROVE Copying'
  BY <1>1, <1>11 DEF Connected, Goto, Copying, parsed, bytes
<1>12. ASSUME Refuse PROVE Copying'
  BY <1>1, <1>12 DEF Refuse, Goto, Send, Copying, parsed, bytes
<1>13. ASSUME IoThrows PROVE Copying'
  BY <1>1, <1>13 DEF IoThrows, Goto, Copying, parsed, bytes
<1>14. ASSUME GreetLogin PROVE Copying'
  BY <1>1, <1>14 DEF GreetLogin, Goto, Copying, parsed, bytes
<1>15. ASSUME Forward PROVE Copying'
  BY <1>1, <1>15 DEF Forward, Copying, parsed, bytes
<1>16. ASSUME StartThrows PROVE Copying'
  BY <1>1, <1>16 DEF StartThrows, Goto, Copying, parsed, bytes
<1>17. ASSUME ReadServer PROVE Copying'
  BY <1>1, <1>17 DEF ReadServer, Copying, parsed, bytes
<1>18. ASSUME Finish PROVE Copying'
  BY <1>1, <1>18 DEF Finish, Goto, Copying, parsed, bytes
<1>19. ASSUME NEW d \in Sides, WriteSome(d) PROVE Copying'
  BY <1>1, <1>19 DEF WriteSome, Writing, Written, Copying, parsed, bytes
<1>20. ASSUME NEW d \in Sides, WriteLost(d) PROVE Copying'
  BY <1>1, <1>20 DEF WriteLost, Writing, Written, Copying, parsed, bytes
<1>21. ASSUME NEW d \in Sides, WriteThrows(d) PROVE Copying'
  BY <1>1, <1>21 DEF WriteThrows, Writing, Copying, parsed, bytes
<1>22. ASSUME NEW d \in Sides, ReadEnds(d) PROVE Copying'
  BY <1>1, <1>22 DEF ReadEnds, Copying, parsed, bytes
<1>23. ASSUME Speak PROVE Copying'
  BY <1>1, <1>23 DEF Speak, Copying, parsed, bytes
<1>24. ASSUME Kick PROVE Copying'
  BY <1>1, <1>24 DEF Kick, Copying, parsed, bytes
<1>25. ASSUME NEW d \in Sides, NEW how \in {"closed", "reset"}, HangUp(d, how)
      PROVE  Copying'
  BY <1>1, <1>25 DEF HangUp, Copying, parsed, bytes
<1>26. ASSUME TableCall PROVE Copying'
  BY <1>1, <1>26, TableCallIs DEF Copying, parsed, bytes, session
<1> QED
  BY <1>2, <1>3, <1>4, <1>5, <1>6, <1>7, <1>8, <1>9, <1>10, <1>11, <1>12, <1>13,
     <1>14, <1>15, <1>16, <1>17, <1>18, <1>19, <1>20, <1>21, <1>22, <1>23, <1>24,
     <1>25, <1>26 DEF Next, Hear, Serve, World

-----------------------------------------------------------------------------
(* Beginnings. *)

\* A sequence starts with itself, with nothing, and with what something was put
\* behind.
LEMMA Starts ==
    ASSUME NEW s \in Seq(Byte), NEW t \in Seq(Byte)
    PROVE  IsStart(s, s \o t) /\ IsStart(s, s) /\ IsStart(<<>>, s)
<1>1. SubSeq(s \o t, 1, Len(s)) = s /\ Len(s \o t) = Len(s) + Len(t)
  BY JoinedAre
<1>2. Len(s) \in Nat /\ Len(t) \in Nat /\ SubSeq(s, 1, Len(s)) = s
  OBVIOUS
<1>3. Len(s) <= Len(s \o t)
  BY <1>1, <1>2
<1>4. SubSeq(s, 1, 0) = <<>> /\ Len(<<>>) = 0
  OBVIOUS
<1> QED
  BY <1>1, <1>2, <1>3, <1>4 DEF IsStart

\* What comes behind a beginning.
LEMMA StartIs ==
    ASSUME NEW s \in Seq(Byte), NEW t \in Seq(Byte), IsStart(s, t)
    PROVE  \E r \in Seq(Byte) : t = s \o r
<1>1. Len(s) \in 0 .. Len(t) /\ s = SubSeq(t, 1, Len(s))
  BY DEF IsStart
<1>2. Drop(t, Len(s)) \in Seq(Byte) /\ t = SubSeq(t, 1, Len(s)) \o Drop(t, Len(s))
  BY <1>1, EndsAre
<1> QED
  BY <1>1, <1>2

\* What starts t starts t with more behind it.
LEMMA StartOfMore ==
    ASSUME NEW s \in Seq(Byte), NEW t \in Seq(Byte), NEW u \in Seq(Byte), IsStart(s, t)
    PROVE  IsStart(s, t \o u)
<1>1. PICK r \in Seq(Byte) : t = s \o r
  BY StartIs
<1>2. (s \o r) \o u = s \o (r \o u) /\ r \o u \in Seq(Byte)
  <2>1. Cat(Cat(s, r), u) = Cat(s, Cat(r, u)) /\ Cat(r, u) \in Seq(Byte)
    BY CatIs
  <2> QED
    BY <2>1 DEF Cat
<1>3. IsStart(s, s \o (r \o u))
  BY <1>2, Starts
<1> QED
  BY <1>1, <1>2, <1>3

\* The bytes of s from one place to another.
LEMMA PieceIs ==
    ASSUME NEW s \in Seq(Byte), NEW l \in Nat, NEW m \in Nat, l <= m, m <= Len(s)
    PROVE  /\ SubSeq(s, l + 1, m) \in Seq(Byte) /\ Len(SubSeq(s, l + 1, m)) = m - l
           /\ \A i \in 1 .. m - l : SubSeq(s, l + 1, m)[i] = s[l + i]
<1>1. Len(s) \in Nat
  OBVIOUS
<1> QED
  BY <1>1

\* And on to a third.
LEMMA PiecesAre ==
    ASSUME NEW s \in Seq(Byte), NEW l \in Nat, NEW m \in Nat, NEW n \in Nat,
           l <= m, m <= n, n <= Len(s)
    PROVE  /\ SubSeq(s, l + 1, n) = SubSeq(s, l + 1, m) \o SubSeq(s, m + 1, n)
           /\ Drop(s, l) = SubSeq(s, l + 1, m) \o Drop(s, m)
           /\ SubSeq(s, l + 1, l) = <<>>
<1>0. Len(s) \in Nat
  OBVIOUS
<1>1. m <= Len(s)
  BY <1>0
<1>2. ASSUME NEW e \in Nat, m <= e, e <= Len(s)
      PROVE  SubSeq(s, l + 1, e) = SubSeq(s, l + 1, m) \o SubSeq(s, m + 1, e)
  <2>0. l <= e
    BY <1>2
  <2>1. PICK a \in Seq(Byte) : a = SubSeq(s, l + 1, m)
    BY <1>1, PieceIs
  <2>2. Len(a) = m - l /\ \A i \in 1 .. m - l : a[i] = s[l + i]
    BY <1>1, <2>1, PieceIs
  <2>3. PICK b \in Seq(Byte) : b = SubSeq(s, m + 1, e)
    BY <1>2, PieceIs
  <2>4. Len(b) = e - m /\ \A i \in 1 .. e - m : b[i] = s[m + i]
    BY <1>2, <2>3, PieceIs
  <2>5. PICK c \in Seq(Byte) : c = SubSeq(s, l + 1, e)
    BY <1>2, <2>0, PieceIs
  <2>6. Len(c) = e - l /\ \A i \in 1 .. e - l : c[i] = s[l + i]
    BY <1>2, <2>0, <2>5, PieceIs
  <2>7. PICK d \in Seq(Byte) : d = a \o b
    BY JoinedAre
  <2>8. /\ Len(d) = Len(a) + Len(b)
        /\ \A i \in 1 .. Len(a) : d[i] = a[i]
        /\ \A i \in 1 .. Len(b) : d[Len(a) + i] = b[i]
    BY <2>7, JoinedAre
  <2>9. Len(d) = Len(c)
    BY <1>2, <2>2, <2>4, <2>6, <2>8
  <2>10. ASSUME NEW i \in 1 .. Len(c) PROVE d[i] = c[i]
    <3>1. i \in 1 .. e - l
      BY <2>6
    <3>2. CASE i <= m - l
      <4>1. i \in 1 .. m - l
        BY <3>2
      <4> QED
        BY <2>2, <2>6, <2>8, <3>1, <4>1
    <3>3. CASE ~(i <= m - l)
      <4>1. PICK j \in 1 .. e - m : j = i - (m - l)
        BY <3>1, <3>3, <1>2
      <4>2. d[(m - l) + j] = b[j]
        BY <2>2, <2>4, <2>8
      <4>3. (m - l) + j = i /\ m + j = l + i
        BY <4>1
      <4> QED
        BY <2>4, <2>6, <3>1, <4>2, <4>3
    <3> QED
      BY <3>2, <3>3
  <2>11. d = c
    BY <2>9, <2>10, SeqEqual
  <2> QED
    BY <2>1, <2>3, <2>5, <2>7, <2>11
<1>3. SubSeq(s, l + 1, n) = SubSeq(s, l + 1, m) \o SubSeq(s, m + 1, n)
  BY <1>2
<1>4. Drop(s, l) = SubSeq(s, l + 1, m) \o Drop(s, m)
  <2>1. PICK e \in Nat : e = Len(s) /\ m <= e /\ e <= Len(s)
    BY <1>0, <1>1
  <2>2. SubSeq(s, l + 1, e) = SubSeq(s, l + 1, m) \o SubSeq(s, m + 1, e)
    BY <1>2, <2>1
  <2>3. Drop(s, l) = SubSeq(s, l + 1, e) /\ Drop(s, m) = SubSeq(s, m + 1, e)
    BY <2>1 DEF Drop
  <2> QED
    BY <2>2, <2>3, Zenon
<1>5. SubSeq(s, l + 1, l) = <<>>
  OBVIOUS
<1> QED
  BY <1>3, <1>4, <1>5

-----------------------------------------------------------------------------
(* What the server gets. *)

\* What was said so far is bytes, and starts what is due.
LEMMA SaidIs ==
    ASSUME TypeOK, Known, pc \in Online
    PROVE  /\ Rewritten \in Seq(Byte) /\ Said \in Seq(Byte) /\ Due \in Seq(Byte)
           /\ Rewritten \o login \in Seq(Byte)
           /\ SubSeq(stream, mark + 1, read) \in Seq(Byte)
           /\ IsStart(Said, Due)
<1>1. Rewritten \in Seq(Byte)
  <2>1. /\ IsHandshake(handshake_data_pack) /\ route \in Targets \cup {Default}
        /\ handshake_data_pack.protocol_version >= 0
    BY DEF Known, TypeOK, Online
  <2> QED
    BY <2>1, RewrittenIs
<1>2. login \in Seq(Byte) /\ stream \in Seq(Byte) /\ mark \in Nat /\ read \in Nat
      /\ mark <= read /\ read <= Len(stream)
  BY PacketIs DEF TypeOK
<1>3. PICK r \in Seq(Byte), l \in Seq(Byte), p \in Seq(Byte) :
          r = Rewritten /\ l = login /\ p = SubSeq(stream, mark + 1, read)
  BY <1>1, <1>2, PieceIs
<1>4. r \o l \in Seq(Byte) /\ (r \o l) \o p \in Seq(Byte)
  BY JoinedAre
<1>5. Due = (r \o l) \o p
  BY <1>3 DEF Due
<1>6. IsStart(r \o l, (r \o l) \o p) /\ IsStart(r, r \o l)
      /\ IsStart((r \o l) \o p, (r \o l) \o p)
  BY <1>4, Starts
<1>7. IsStart(r, (r \o l) \o p)
  BY <1>4, <1>6, StartOfMore
<1>8. Said \in {r, r \o l, Due}
  BY <1>3 DEF Said
<1> QED
  BY <1>3, <1>4, <1>5, <1>6, <1>7, <1>8

\* A part of what was said, and what is left to say of it.
LEMMA SomeWritten ==
    ASSUME NEW s \in Seq(Byte), NEW p \in Seq(Byte), NEW k \in 1 .. Len(p)
    PROVE  (s \o SubSeq(p, 1, k)) \o Drop(p, k) = s \o p
<1>1. k \in 0 .. Len(p)
  OBVIOUS
<1>2. PICK a : a = SubSeq(p, 1, k)
  OBVIOUS
<1>3. PICK b : b = Drop(p, k)
  OBVIOUS
<1>4. a \in Seq(Byte) /\ b \in Seq(Byte) /\ p = a \o b
  <2>1. /\ SubSeq(p, 1, k) \in Seq(Byte) /\ Drop(p, k) \in Seq(Byte)
        /\ p = SubSeq(p, 1, k) \o Drop(p, k)
    BY <1>1, EndsAre
  <2>2. SubSeq(p, 1, k) \o Drop(p, k) = a \o b
    BY <1>2, <1>3
  <2> QED
    BY <1>2, <1>3, <2>1, <2>2
<1>5. Cat(Cat(s, a), b) = Cat(s, Cat(a, b))
  BY <1>4, CatIs
<1>6. (s \o a) \o b = s \o p
  BY <1>4, <1>5 DEF Cat
<1> QED
  BY <1>2, <1>3, <1>6

\* Nothing that this depends on changes.
LEMMA SaidStays ==
    ASSUME UNCHANGED <<stream, read, mark, handshake_data_pack, login, route>>
    PROVE  Rewritten' = Rewritten /\ Due' = Due /\ (pc' = pc => Said' = Said)
<1>1. Rewritten' = Rewritten
  BY DEF Rewritten
<1>2. Due' = Due
  BY <1>1 DEF Due
<1> QED
  BY <1>1, <1>2 DEF Said

\* Of a step that leaves the server's side alone, or closes it.
LEMMA ServerSideStays ==
    ASSUME Forwarded, pc' = pc,
           UNCHANGED <<stream, read, mark, handshake_data_pack, login, route>>,
           UNCHANGED served, pending["server"]' = pending["server"],
           Mute("server") => Mute("server")'
    PROVE  Forwarded'
  BY SaidStays DEF Forwarded

\* No step loses, repeats or reorders a byte for the server.
LEMMA ForwardedStep ==
    ASSUME TypeOK, Known, Copying, Forwarded, Next PROVE Forwarded'
<1> USE DEF Reading, Online, Sides
<1>1. /\ fwd \in [Sides -> {"off", "read", "write", "over"}]
      /\ pending \in [Sides -> Seq(Byte)] /\ served \in Seq(Byte) /\ login \in Seq(Byte)
      /\ peer \in [Sides -> {"up", "closed", "reset"}]
  BY DEF TypeOK
<1>2. /\ stream \in Seq(Byte) /\ mark \in Nat /\ read \in Nat /\ mark <= read
      /\ read <= Len(stream)
  BY PacketIs DEF TypeOK
<1>3. ASSUME pc \notin Online, pc # "done", pc' \notin Online, UNCHANGED served
      PROVE  Forwarded'
  BY <1>3 DEF Forwarded, Copying
<1>4. ASSUME ReadMore PROVE Forwarded'
  BY <1>3, <1>4 DEF ReadMore, bytes
<1>5. ASSUME ReadClient PROVE Forwarded'
  <2>1. PICK k \in 1 .. BufferSize :
            /\ read + k <= Len(stream) /\ read' = read + k
            /\ pending' = [pending EXCEPT !["server"] = SubSeq(stream, read + 1, read + k)]
    BY <1>5 DEF ReadClient
  <2>2. /\ pc = "forward" /\ pc' = "forward" /\ served' = served
        /\ fwd["server"] = "read" /\ peer' = peer
        /\ UNCHANGED <<stream, mark, handshake_data_pack, login, route>>
    BY <1>5 DEF ReadClient, parsed
  <2>3. PICK n \in Nat : n = read + k /\ read <= n /\ n <= Len(stream)
    BY <1>2, <2>1, LoginPathAssumption
  <2>4. PICK a \in Seq(Byte), b \in Seq(Byte) :
            /\ a = SubSeq(stream, mark + 1, read) /\ b = SubSeq(stream, read + 1, n)
            /\ SubSeq(stream, mark + 1, n) = a \o b
    <3>1. /\ SubSeq(stream, mark + 1, read) \in Seq(Byte)
          /\ SubSeq(stream, read + 1, n) \in Seq(Byte)
      BY <1>2, <2>3, PieceIs
    <3>2. SubSeq(stream, mark + 1, n) =
              SubSeq(stream, mark + 1, read) \o SubSeq(stream, read + 1, n)
      BY <1>2, <2>3, PiecesAre
    <3> QED
      BY <3>1, <3>2
  <2>5. PICK r \in Seq(Byte) : r = Rewritten \o login
    BY <2>2, SaidIs
  <2>6. Due = r \o a /\ Said = Due
    BY <2>2, <2>4, <2>5 DEF Due, Said
  <2>7. Due' = r \o (a \o b) /\ Said' = Due'
    <3>1. Rewritten' = Rewritten
      BY <2>2 DEF Rewritten
    <3> QED
      BY <2>1, <2>2, <2>3, <2>4, <2>5, <3>1 DEF Due, Said
  <2>8. PICK t \in Seq(Byte) : t = r \o a
    BY JoinedAre
  <2>9. (r \o a) \o b = r \o (a \o b)
    <3>1. Cat(Cat(r, a), b) = Cat(r, Cat(a, b))
      BY CatIs
    <3> QED
      BY <3>1 DEF Cat
  <2>10. pending["server"] = <<>> /\ pending'["server"] = b
    BY <1>1, <2>1, <2>2, <2>3, <2>4 DEF Copying
  <2>11. served \o <<>> = served
    BY <1>1
  <2>12. CASE served \o pending["server"] = Said
    <3>1. served = t
      BY <2>6, <2>8, <2>10, <2>11, <2>12
    <3>2. served' \o pending'["server"] = Said'
      BY <2>2, <2>7, <2>8, <2>9, <2>10, <3>1
    <3> QED
      BY <2>2, <3>2 DEF Forwarded
  <2>13. CASE Mute("server") /\ IsStart(served, Said)
    <3>1. IsStart(served, t \o b)
      BY <1>1, <2>6, <2>8, <2>13, StartOfMore
    <3>2. IsStart(served', Said')
      BY <2>2, <2>7, <2>8, <2>9, <3>1
    <3>3. Mute("server")'
      BY <2>2, <2>13 DEF Mute
    <3> QED
      BY <2>2, <3>2, <3>3 DEF Forwarded
  <2> QED
    BY <2>2, <2>12, <2>13 DEF Forwarded
<1>6. ASSUME TakeHandshake PROVE Forwarded'
  BY <1>3, <1>6 DEF TakeHandshake, Goto, bytes
<1>7. ASSUME LoginGate PROVE Forwarded'
  BY <1>3, <1>7 DEF LoginGate, Goto, bytes
<1>8. ASSUME TakeLogin PROVE Forwarded'
  BY <1>3, <1>8 DEF TakeLogin, Goto, bytes
<1>9. ASSUME PacketThrows PROVE Forwarded'
  BY <1>3, <1>9 DEF PacketThrows, Goto, bytes
<1>10. ASSUME StatusRequest PROVE Forwarded'
  BY <1>3, <1>10 DEF StatusRequest, Send, Goto
<1>11. ASSUME PingRequest PROVE Forwarded'
  BY <1>3, <1>11 DEF PingRequest, Send, Goto
<1>12. ASSUME Route PROVE Forwarded'
  BY <1>3, <1>12 DEF Route, Goto, bytes
<1>13. ASSUME Connected PROVE Forwarded'
  <2>1. CASE pc' = "done"
    BY <1>3, <1>13, <2>1 DEF Connected, Goto
  <2>2. CASE pc' # "done"
    <3>1. /\ pc' = "greet" /\ served' = served /\ served = <<>>
          /\ pending' = [pending EXCEPT !["server"] = Rewritten]
          /\ UNCHANGED <<handshake_data_pack, route>>
      BY <1>13, <2>2 DEF Connected, Goto, Copying, parsed
    <3>2. Rewritten' = Rewritten
      BY <3>1 DEF Rewritten
    <3>3. Rewritten \in Seq(Byte)
      <4>1. /\ IsHandshake(handshake_data_pack) /\ route \in Targets \cup {Default}
            /\ ~(handshake_data_pack.protocol_version < 0)
        BY <1>13, <2>2 DEF Connected, Goto, Known, TypeOK
      <4>2. handshake_data_pack.protocol_version >= 0
        BY <4>1 DEF IsHandshake
      <4> QED
        BY <4>1, <4>2, RewrittenIs
    <3>4. <<>> \o Rewritten = Rewritten
      BY <3>3
    <3>5. served' \o pending'["server"] = Said'
      BY <1>1, <3>1, <3>2, <3>4 DEF Said
    <3> QED
      BY <3>1, <3>5 DEF Forwarded
  <2> QED
    BY <2>1, <2>2
<1>14. ASSUME Refuse PROVE Forwarded'
  BY <1>3, <1>14 DEF Refuse, Send, Goto
<1>15. ASSUME IoThrows PROVE Forwarded'
  BY <1>3, <1>15 DEF IoThrows, Goto, bytes
\* The login and the copying go on where the handshake and the login ended.
<1>16. ASSUME pc \in Online, pending["server"] = <<>>, pc' \in Online, UNCHANGED served,
              NEW m \in Seq(Byte), pending'["server"] = m, Said' = Said \o m,
              Mute("server") => Mute("server")'
       PROVE  Forwarded'
  <2>1. served \o <<>> = served
    BY <1>1
  <2>2. served = Said \/ (Mute("server") /\ IsStart(served, Said))
    BY <1>16, <2>1 DEF Forwarded
  <2>3. Said \in Seq(Byte)
    BY <1>16, SaidIs
  <2>4. IsStart(served, Said) => IsStart(served, Said \o m)
    BY <1>1, <2>3, StartOfMore
  <2> QED
    BY <1>16, <2>2, <2>4 DEF Forwarded
<1>17. ASSUME GreetLogin PROVE Forwarded'
  <2>1. /\ pc = "greet" /\ pc' = "greetLogin" /\ pending["server"] = <<>>
        /\ pending' = [pending EXCEPT !["server"] = login]
        /\ UNCHANGED <<handshake_data_pack, route, login, served, fwd, peer>>
    BY <1>17 DEF GreetLogin, Goto, parsed
  <2>2. Said' = Said \o login
    <3>1. Rewritten' = Rewritten
      BY <2>1 DEF Rewritten
    <3> QED
      BY <2>1, <3>1 DEF Said
  <2>3. Mute("server") => Mute("server")'
    BY <2>1 DEF Mute
  <2>4. pending'["server"] = login
    BY <1>1, <2>1
  <2> QED
    BY <1>1, <1>16, <2>1, <2>2, <2>3, <2>4
<1>18. ASSUME Forward PROVE Forwarded'
  <2>1. /\ pc = "greetLogin" /\ pc' = "forward" /\ pending["server"] = <<>>
        /\ fwd["server"] = "off" /\ mark = read
        /\ UNCHANGED <<stream, read, mark, handshake_data_pack, route, login, served,
                       pending, peer>>
    BY <1>18 DEF Forward, parsed, bytes, Known, Copying
  <2>2. Said' = Said \o <<>>
    <3>1. Due' = Due
      BY <2>1, SaidStays
    <3>2. SubSeq(stream, mark + 1, read) = <<>>
      BY <1>2, <2>1, PiecesAre
    <3>3. Due = Said \o <<>>
      BY <2>1, <3>2 DEF Due, Said
    <3> QED
      BY <2>1, <3>1, <3>3 DEF Said
  <2>3. Mute("server") => Mute("server")'
    BY <2>1 DEF Mute
  <2>4. <<>> \in Seq(Byte) /\ pending'["server"] = <<>>
    BY <2>1
  <2> QED
    BY <1>16, <2>1, <2>2, <2>3, <2>4
\* HandleConnection ends with nothing left to write.
<1>19. ASSUME pc \in Online, pc' = "done", UNCHANGED served, Due' = Due,
              IsStart(served, Said)
       PROVE  Forwarded'
  <2>1. Said \in Seq(Byte) /\ Due \in Seq(Byte) /\ IsStart(Said, Due)
    BY <1>19, SaidIs
  <2>2. PICK r \in Seq(Byte) : Due = Said \o r
    BY <2>1, StartIs
  <2>3. IsStart(served, Due)
    BY <1>1, <1>19, <2>1, <2>2, StartOfMore
  <2> QED
    BY <1>19, <2>3 DEF Forwarded
<1>20. ASSUME pc \in Online PROVE IsStart(served, Said)
  <2>1. ASSUME served \o pending["server"] = Said PROVE IsStart(served, Said)
    <3>1. IsStart(served, served \o pending["server"])
      BY <1>1, Starts
    <3> QED
      BY <2>1, <3>1
  <2> QED
    BY <1>20, <2>1 DEF Forwarded
<1>21. ASSUME StartThrows PROVE Forwarded'
  <2>1. /\ pc \in Online /\ pc' = "done" /\ mark' = mark
        /\ UNCHANGED <<stream, read, handshake_data_pack, login, route, served>>
    BY <1>21 DEF StartThrows, Goto, parsed, bytes
  <2>2. Due' = Due
    BY <2>1, SaidStays
  <2> QED
    BY <1>19, <1>20, <2>1, <2>2
<1>22. ASSUME Finish PROVE Forwarded'
  <2>1. /\ pc \in Online /\ pc' = "done" /\ mark' = mark
        /\ UNCHANGED <<stream, read, handshake_data_pack, login, route, served>>
    BY <1>22 DEF Finish, Goto, parsed, bytes
  <2>2. Due' = Due
    BY <2>1, SaidStays
  <2> QED
    BY <1>19, <1>20, <2>1, <2>2
<1>23. ASSUME ReadServer PROVE Forwarded'
  <2>1. /\ UNCHANGED <<pc, stream, read, mark, handshake_data_pack, login, route, served>>
        /\ pending'["server"] = pending["server"]
        /\ fwd'["server"] = fwd["server"] /\ peer' = peer
    BY <1>1, <1>23 DEF ReadServer, parsed
  <2> QED
    BY <2>1, ServerSideStays DEF Mute
<1>24. ASSUME NEW d \in Sides, WriteSome(d) PROVE Forwarded'
  <2>1. /\ UNCHANGED <<pc, stream, read, mark, handshake_data_pack, login, route, peer>>
        /\ pending[d] # <<>> /\ peer[d] = "up"
    BY <1>24 DEF WriteSome, Writing, parsed
  <2>2. PICK k \in 1 .. Len(pending[d]) :
            /\ Written(d, Drop(pending[d], k))
            /\ d = "server" => served' = served \o SubSeq(pending[d], 1, k)
            /\ d = "client" => served' = served
    BY <1>24 DEF WriteSome
  <2>3. CASE d = "client"
    <3>1. /\ pending'["server"] = pending["server"] /\ fwd'["server"] = fwd["server"]
          /\ served' = served
      BY <1>1, <2>2, <2>3 DEF Written
    <3> QED
      BY <2>1, <3>1, ServerSideStays DEF Mute
  <2>4. CASE d = "server"
    <3>1. pc \in Online
      BY <2>1, <2>4 DEF Copying
    <3>2. ~Mute("server")
      BY <1>24, <2>1, <2>4 DEF WriteSome, Writing, Mute, Copying
    <3>3. served \o pending["server"] = Said
      BY <3>1, <3>2 DEF Forwarded
    <3>4. PICK p \in Seq(Byte) : p = pending["server"]
      BY <1>1
    <3>5. served' = served \o SubSeq(p, 1, k) /\ pending'["server"] = Drop(p, k)
      BY <1>1, <2>2, <2>4, <3>4 DEF Written
    <3>6. k \in 1 .. Len(p)
      BY <2>2, <2>4, <3>4
    <3>7. (served \o SubSeq(p, 1, k)) \o Drop(p, k) = served \o p
      BY <1>1, <3>6, SomeWritten
    <3>8. served' \o pending'["server"] = Said'
      BY <2>1, <3>3, <3>4, <3>5, <3>7, SaidStays
    <3> QED
      BY <2>1, <3>1, <3>8 DEF Forwarded
  <2> QED
    BY <2>3, <2>4
\* The rest of what was to be written is lost, and no more is written.
<1>25. ASSUME pc \in Online, Mute("server")', UNCHANGED served,
              UNCHANGED <<pc, stream, read, mark, handshake_data_pack, login, route>>
       PROVE  Forwarded'
  BY <1>20, <1>25, SaidStays DEF Forwarded
<1>26. ASSUME NEW d \in Sides, WriteLost(d) PROVE Forwarded'
  <2>1. /\ UNCHANGED <<pc, stream, read, mark, handshake_data_pack, login, route, peer,
                       served>>
        /\ pending[d] # <<>> /\ peer[d] # "up" /\ Written(d, <<>>)
    BY <1>26 DEF WriteLost, Writing, parsed
  <2>2. CASE d = "client"
    <3>1. pending'["server"] = pending["server"] /\ fwd'["server"] = fwd["server"]
      BY <1>1, <2>1, <2>2 DEF Written
    <3> QED
      BY <2>1, <3>1, ServerSideStays DEF Mute
  <2>3. CASE d = "server"
    <3>1. pc \in Online
      BY <2>1, <2>3 DEF Copying
    <3>2. Mute("server")'
      BY <2>1, <2>3 DEF Mute
    <3> QED
      BY <1>25, <2>1, <3>1, <3>2
  <2> QED
    BY <2>2, <2>3
<1>27. ASSUME NEW d \in Sides, WriteThrows(d) PROVE Forwarded'
  <2>1. /\ UNCHANGED <<stream, read, mark, handshake_data_pack, login, route, peer, served>>
        /\ pending[d] # <<>> /\ pending' = [pending EXCEPT ![d] = <<>>]
        /\ \/ pc = "forward" /\ fwd' = [fwd EXCEPT ![d] = "over"] /\ UNCHANGED pc
           \/ pc # "forward" /\ pc' = "done" /\ UNCHANGED fwd
    BY <1>27 DEF WriteThrows, Writing, parsed
  <2>2. pc \in Online
    BY <2>1 DEF Copying
  <2>3. CASE pc # "forward"
    BY <1>19, <1>20, <2>1, <2>2, <2>3, SaidStays
  <2>4. CASE pc = "forward" /\ d = "client"
    <3>1. pending'["server"] = pending["server"] /\ fwd'["server"] = fwd["server"]
          /\ UNCHANGED pc
      BY <1>1, <2>1, <2>4
    <3> QED
      BY <2>1, <3>1, ServerSideStays DEF Mute
  <2>5. CASE pc = "forward" /\ d = "server"
    <3>1. fwd'["server"] = "over" /\ UNCHANGED pc
      BY <1>1, <2>1, <2>5
    <3> QED
      BY <1>25, <2>1, <2>2, <3>1 DEF Mute
  <2> QED
    BY <2>3, <2>4, <2>5
<1>28. ASSUME NEW d \in Sides, ReadEnds(d) PROVE Forwarded'
  <2>1. /\ UNCHANGED <<pc, stream, read, mark, handshake_data_pack, login, route, peer,
                       served, pending>>
        /\ fwd' = [fwd EXCEPT ![d] = "over"]
    BY <1>28 DEF ReadEnds, parsed, bytes
  <2>2. Mute("server") => Mute("server")'
    BY <1>1, <2>1 DEF Mute
  <2> QED
    BY <2>1, <2>2, ServerSideStays
<1>29. ASSUME Speak \/ Kick \/ TableCall PROVE Forwarded'
  <2>1. /\ UNCHANGED <<pc, stream, read, mark, handshake_data_pack, login, route, peer,
                       served, pending, fwd>>
    BY <1>29, TableCallIs DEF Speak, Kick, session, parsed, bytes
  <2> QED
    BY <2>1, ServerSideStays DEF Mute
<1>30. ASSUME NEW d \in Sides, NEW how \in {"closed", "reset"}, HangUp(d, how)
       PROVE  Forwarded'
  <2>1. /\ UNCHANGED <<pc, stream, read, mark, handshake_data_pack, login, route, served,
                       pending, fwd>>
        /\ peer[d] = "up" /\ peer' = [peer EXCEPT ![d] = how]
    BY <1>30 DEF HangUp, parsed, bytes
  <2>2. Mute("server") => Mute("server")'
    BY <1>1, <2>1 DEF Mute
  <2> QED
    BY <2>1, <2>2, ServerSideStays
<1> QED
  BY <1>4, <1>5, <1>6, <1>7, <1>8, <1>9, <1>10, <1>11, <1>12, <1>13, <1>14, <1>15, <1>17,
     <1>18, <1>21, <1>22, <1>23, <1>24, <1>26, <1>27, <1>28, <1>29, <1>30
  DEF Next, Hear, Serve, World

-----------------------------------------------------------------------------
(* What the client gets, and who ends first. *)

\* No step loses, repeats or reorders a byte for the client.
LEMMA ReturnedStep ==
    ASSUME TypeOK, Copying, Returned, Next PROVE Returned'
<1> USE DEF Reading, Online, Sides
<1>1. /\ fwd \in [Sides -> {"off", "read", "write", "over"}]
      /\ pending \in [Sides -> Seq(Byte)] /\ toClient \in Seq(Byte)
      /\ peer \in [Sides -> {"up", "closed", "reset"}]
      /\ heard \in Nat /\ spoke \in Nat /\ heard <= spoke /\ spoke <= Len(Reply)
      /\ Reply \in Seq(Byte) /\ Len(Reply) \in Nat
  BY ConstantsAre DEF TypeOK
\* The copying to the client has not begun, or is over.
<1>2. ASSUME pc' # "forward" PROVE Returned'
  BY <1>2 DEF Returned
<1>3. CASE ReadMore \/ TakeHandshake \/ LoginGate \/ TakeLogin \/ PacketThrows
           \/ StatusRequest \/ PingRequest \/ Route \/ Connected \/ Refuse \/ IoThrows
           \/ GreetLogin \/ StartThrows \/ Finish
  BY <1>2, <1>3 DEF ReadMore, TakeHandshake, LoginGate, TakeLogin, PacketThrows,
     StatusRequest, PingRequest, Route, Connected, Refuse, IoThrows, GreetLogin,
     StartThrows, Finish, Goto
<1>4. ASSUME Forward PROVE Returned'
  <2>1. /\ toClient = <<>> /\ fwd["client"] = "off" /\ pending["client"] = <<>>
        /\ spoke = 0 /\ UNCHANGED <<toClient, pending, heard>>
    BY <1>4 DEF Forward, Copying, bytes
  <2>2. heard' = 0 /\ SubSeq(Reply, 1, 0) = <<>> /\ <<>> \o <<>> = <<>>
    BY <1>1, <2>1
  <2> QED
    BY <2>1, <2>2 DEF Returned
\* It goes on as it was.
<1>5. ASSUME pc' = pc, UNCHANGED <<toClient, heard>>,
             pending'["client"] = pending["client"],
             Mute("client") => Mute("client")'
      PROVE  Returned'
  BY <1>5 DEF Returned
\* Nothing more is written to the client.
<1>6. ASSUME pc' = pc, UNCHANGED toClient, Mute("client")'
      PROVE  Returned'
  <2>1. ASSUME pc = "forward" PROVE IsStart(toClient, Reply)
    <3>1. ASSUME toClient \o pending["client"] = SubSeq(Reply, 1, heard)
          PROVE  IsStart(toClient, Reply)
      <4>0. heard \in 0 .. Len(Reply)
        BY <1>1
      <4>1. PICK r \in Seq(Byte) : r = SubSeq(Reply, 1, heard)
        BY <1>1, <4>0, EndsAre
      <4>2. PICK q \in Seq(Byte) : Reply = r \o q
        <5>1. /\ Drop(Reply, heard) \in Seq(Byte)
              /\ Reply = SubSeq(Reply, 1, heard) \o Drop(Reply, heard)
          BY <1>1, <4>0, EndsAre
        <5>2. Reply = r \o Drop(Reply, heard)
          BY <4>1, <5>1
        <5> QED
          BY <5>1, <5>2
      <4>3. IsStart(toClient, r)
        BY <1>1, <3>1, <4>1, Starts
      <4> QED
        BY <1>1, <4>2, <4>3, StartOfMore
    <3> QED
      BY <2>1, <3>1 DEF Returned
  <2> QED
    BY <1>6, <2>1 DEF Returned
<1>7. ASSUME ReadClient PROVE Returned'
  <2>1. /\ UNCHANGED <<pc, toClient, heard, peer>> /\ fwd'["client"] = fwd["client"]
        /\ pending'["client"] = pending["client"]
    BY <1>1, <1>7 DEF ReadClient
  <2> QED
    BY <1>5, <2>1 DEF Mute
<1>8. ASSUME ReadServer PROVE Returned'
  <2>1. PICK k \in 1 .. BufferSize :
            /\ heard + k <= spoke /\ heard' = heard + k
            /\ pending' = [pending EXCEPT !["client"] = SubSeq(Reply, heard + 1, heard + k)]
    BY <1>8 DEF ReadServer
  <2>2. /\ pc = "forward" /\ pc' = pc /\ fwd["client"] = "read"
        /\ pending["client"] = <<>> /\ UNCHANGED <<toClient, peer>>
    BY <1>8 DEF ReadServer, Copying
  <2>3. PICK n \in Nat : n = heard + k /\ heard <= n /\ n <= Len(Reply)
    BY <1>1, <2>1, LoginPathAssumption
  <2>4. SubSeq(Reply, 1, n) = SubSeq(Reply, 1, heard) \o SubSeq(Reply, heard + 1, n)
    <3>1. 0 \in Nat /\ 0 <= heard /\ 0 + 1 = 1
      BY <1>1
    <3>2. SubSeq(Reply, 0 + 1, n) =
              SubSeq(Reply, 0 + 1, heard) \o SubSeq(Reply, heard + 1, n)
      BY <1>1, <2>3, <3>1, PiecesAre
    <3> QED
      BY <3>1, <3>2
  <2>5. toClient \o <<>> = toClient
    BY <1>1
  <2>6. pending'["client"] = SubSeq(Reply, heard + 1, n)
    BY <1>1, <2>1, <2>3
  <2>7. CASE toClient \o pending["client"] = SubSeq(Reply, 1, heard)
    <3>1. toClient = SubSeq(Reply, 1, heard)
      BY <2>2, <2>5, <2>7
    <3>2. toClient' \o pending'["client"] = SubSeq(Reply, 1, heard')
      BY <2>1, <2>2, <2>3, <2>4, <2>6, <3>1
    <3> QED
      BY <2>2, <3>2 DEF Returned
  <2>8. CASE Mute("client")
    <3>1. Mute("client")'
      BY <2>2, <2>8 DEF Mute
    <3> QED
      BY <1>6, <2>2, <3>1
  <2> QED
    BY <2>2, <2>7, <2>8 DEF Returned
<1>9. ASSUME NEW d \in Sides, WriteSome(d) PROVE Returned'
  <2>1. UNCHANGED <<pc, heard, peer>> /\ pending[d] # <<>> /\ peer[d] = "up"
    BY <1>9 DEF WriteSome, Writing
  <2>2. PICK k \in 1 .. Len(pending[d]) :
            /\ Written(d, Drop(pending[d], k))
            /\ d = "client" => toClient' = toClient \o SubSeq(pending[d], 1, k)
            /\ d = "server" => toClient' = toClient
    BY <1>9 DEF WriteSome
  <2>3. CASE d = "server"
    <3>1. /\ pending'["client"] = pending["client"] /\ fwd'["client"] = fwd["client"]
          /\ toClient' = toClient
      BY <1>1, <2>2, <2>3 DEF Written
    <3> QED
      BY <1>5, <2>1, <3>1 DEF Mute
  <2>4. CASE d = "client"
    <3>1. ASSUME pc = "forward" PROVE ~Mute("client")
      BY <1>9, <2>1, <2>4, <3>1 DEF WriteSome, Writing, Mute
    <3>2. PICK p \in Seq(Byte) : p = pending["client"]
      BY <1>1
    <3>3. toClient' = toClient \o SubSeq(p, 1, k) /\ pending'["client"] = Drop(p, k)
      BY <1>1, <2>2, <2>4, <3>2 DEF Written
    <3>4. k \in 1 .. Len(p)
      BY <2>2, <2>4, <3>2
    <3>5. (toClient \o SubSeq(p, 1, k)) \o Drop(p, k) = toClient \o p
      BY <1>1, <3>4, SomeWritten
    <3> QED
      BY <2>1, <3>1, <3>2, <3>3, <3>5 DEF Returned
  <2> QED
    BY <2>3, <2>4
<1>10. ASSUME NEW d \in Sides, WriteLost(d) PROVE Returned'
  <2>1. UNCHANGED <<pc, toClient, heard, peer>> /\ peer[d] # "up" /\ Written(d, <<>>)
    BY <1>10 DEF WriteLost
  <2>2. CASE d = "server"
    <3>1. pending'["client"] = pending["client"] /\ fwd'["client"] = fwd["client"]
      BY <1>1, <2>1, <2>2 DEF Written
    <3> QED
      BY <1>5, <2>1, <3>1 DEF Mute
  <2>3. CASE d = "client"
    BY <1>6, <2>1, <2>3 DEF Mute
  <2> QED
    BY <2>2, <2>3
<1>11. ASSUME NEW d \in Sides, WriteThrows(d) PROVE Returned'
  <2>1. /\ UNCHANGED <<toClient, heard, peer>>
        /\ pending' = [pending EXCEPT ![d] = <<>>]
        /\ \/ pc = "forward" /\ fwd' = [fwd EXCEPT ![d] = "over"] /\ UNCHANGED pc
           \/ pc' = "done"
    BY <1>11 DEF WriteThrows
  <2>2. CASE d = "server" /\ pc' = pc
    <3>1. pc' # "forward" \/ fwd'["client"] = fwd["client"]
      BY <1>1, <2>1, <2>2
    <3>2. pending'["client"] = pending["client"]
      BY <1>1, <2>1, <2>2
    <3> QED
      BY <1>2, <1>5, <2>1, <2>2, <3>1, <3>2 DEF Mute
  <2>3. CASE d = "client" /\ pc' = pc
    <3>1. pc' # "forward" \/ fwd'["client"] = "over"
      BY <1>1, <2>1, <2>3
    <3> QED
      BY <1>2, <1>6, <2>1, <2>3, <3>1 DEF Mute
  <2> QED
    BY <1>2, <2>1, <2>2, <2>3
<1>12. ASSUME NEW d \in Sides, ReadEnds(d) PROVE Returned'
  <2>1. /\ UNCHANGED <<pc, toClient, heard, peer, pending>>
        /\ fwd' = [fwd EXCEPT ![d] = "over"]
    BY <1>12 DEF ReadEnds, bytes
  <2>2. Mute("client") => Mute("client")'
    BY <1>1, <2>1 DEF Mute
  <2> QED
    BY <1>5, <2>1, <2>2
<1>13. ASSUME Speak \/ Kick \/ TableCall PROVE Returned'
  <2>1. UNCHANGED <<pc, toClient, heard, peer, pending, fwd>>
    BY <1>13, TableCallIs DEF Speak, Kick, session, bytes
  <2> QED
    BY <1>5, <2>1 DEF Mute
<1>14. ASSUME NEW d \in Sides, NEW how \in {"closed", "reset"}, HangUp(d, how)
       PROVE  Returned'
  <2>1. /\ UNCHANGED <<pc, toClient, heard, pending, fwd>>
        /\ peer[d] = "up" /\ peer' = [peer EXCEPT ![d] = how]
    BY <1>14 DEF HangUp, bytes
  <2>2. Mute("client") => Mute("client")'
    BY <1>1, <2>1 DEF Mute
  <2> QED
    BY <1>5, <2>1, <2>2
<1> QED
  BY <1>3, <1>4, <1>7, <1>8, <1>9, <1>10, <1>11, <1>12, <1>13, <1>14
  DEF Next, Hear, Serve, World

\* No step ends the copy to the server before that to the client, of two peers
\* that stay.
LEMMA OrderedStep ==
    ASSUME TypeOK, Copying, Returned, Ordered, Next PROVE Ordered'
<1> USE DEF Reading, Online, Sides
<1>1. /\ fwd \in [Sides -> {"off", "read", "write", "over"}]
      /\ peer \in [Sides -> {"up", "closed", "reset"}] /\ pending \in [Sides -> Seq(Byte)]
      /\ kicked \in BOOLEAN /\ unheard \in BOOLEAN /\ toClient \in Seq(Byte)
  BY DEF TypeOK
\* Nothing has ended, or it has ended before.
<1>2. ASSUME fwd'["client"] # "over", fwd'["server"] # "over" PROVE Ordered'
  BY <1>2 DEF Ordered
<1>3. ASSUME UNCHANGED <<peer, kicked, unheard, fwd, heard, spoke, toClient>>
      PROVE  Ordered'
  BY <1>3 DEF Ordered, Undisturbed
<1>4. CASE ReadMore \/ TakeHandshake \/ LoginGate \/ TakeLogin \/ PacketThrows
           \/ Route \/ Connected \/ IoThrows \/ GreetLogin \/ StartThrows \/ Finish
           \/ TableCall
  BY <1>3, <1>4, TableCallIs DEF ReadMore, TakeHandshake, LoginGate, TakeLogin,
     PacketThrows, Route, Connected, IoThrows, GreetLogin, StartThrows, Finish, Goto,
     bytes, session
<1>5. CASE StatusRequest \/ PingRequest \/ Refuse
  <2>1. pc \notin {"forward", "done"} /\ fwd' = fwd
    BY <1>5 DEF StatusRequest, PingRequest, Refuse, Goto
  <2> QED
    BY <1>2, <2>1 DEF Copying
<1>6. CASE Forward
  BY <1>2, <1>6 DEF Forward
<1>7. CASE ReadClient
  <2>1. /\ UNCHANGED <<peer, kicked, unheard, heard, spoke, toClient>>
        /\ fwd' = [fwd EXCEPT !["server"] = "write"]
    BY <1>7 DEF ReadClient
  <2> QED
    BY <1>1, <2>1 DEF Ordered, Undisturbed
<1>8. CASE ReadServer
  <2>1. /\ UNCHANGED <<peer, kicked, unheard>> /\ fwd["client"] = "read"
        /\ fwd' = [fwd EXCEPT !["client"] = "write"]
    BY <1>8 DEF ReadServer
  <2> QED
    BY <1>1, <2>1 DEF Ordered, Undisturbed
<1>9. ASSUME NEW d \in Sides, WriteSome(d) PROVE Ordered'
  <2>1. /\ UNCHANGED <<peer, kicked, unheard, heard, spoke>>
        /\ fwd' \in {fwd, [fwd EXCEPT ![d] = "read"]}
        /\ d = "server" => toClient' = toClient
        /\ d = "client" => fwd["client"] = "write"
        /\ fwd[d] = "write" \/ fwd' = fwd
    BY <1>1, <1>9 DEF WriteSome, Writing, Written
  <2>2. CASE d = "client"
    BY <1>1, <2>1, <2>2 DEF Ordered, Undisturbed
  <2>3. CASE d = "server"
    BY <1>1, <2>1, <2>3 DEF Ordered, Undisturbed
  <2> QED
    BY <2>2, <2>3
<1>10. ASSUME NEW d \in Sides, WriteLost(d) PROVE Ordered'
  <2>1. ~Undisturbed'
    BY <1>1, <1>10 DEF WriteLost, Undisturbed
  <2> QED
    BY <2>1 DEF Ordered
<1>11. ASSUME NEW d \in Sides, WriteThrows(d) PROVE Ordered'
  <2>1. CASE d = "server"
    <3>1. ~Undisturbed'
      BY <1>11, <2>1 DEF WriteThrows, Undisturbed
    <3> QED
      BY <3>1 DEF Ordered
  <2>2. CASE d = "client"
    <3>1. /\ fwd["client"] = "write" /\ UNCHANGED <<peer, kicked>>
          /\ (unheard' => unheard) /\ (unheard => unheard')
          /\ peer["client"] # "up" \/ kicked \/ fwd["server"] = "over"
      BY <1>1, <1>11, <2>2 DEF WriteThrows, Writing, Shut
    <3>2. ~Undisturbed'
      BY <1>1, <3>1 DEF Ordered, Undisturbed
    <3> QED
      BY <3>2 DEF Ordered
  <2> QED
    BY <2>1, <2>2
<1>12. ASSUME ReadEnds("server") PROVE Ordered'
  <2>1. /\ UNCHANGED <<peer, kicked, unheard, heard, spoke, toClient>>
        /\ fwd' = [fwd EXCEPT !["server"] = "over"] /\ fwd["server"] = "read"
        /\ \/ fwd["client"] = "over" \/ kicked
           \/ peer["client"] # "up"
    BY <1>1, <1>12 DEF ReadEnds, Shut, Other, bytes
  <2> QED
    BY <1>1, <2>1 DEF Ordered, Undisturbed
<1>13. ASSUME ReadEnds("client") PROVE Ordered'
  <2>1. /\ UNCHANGED <<peer, kicked, unheard, heard, spoke, toClient>>
        /\ fwd' = [fwd EXCEPT !["client"] = "over"] /\ fwd["client"] = "read"
        /\ pc = "forward"
        /\ \/ fwd["server"] = "over" \/ peer["server"] = "reset"
           \/ peer["server"] = "closed" /\ heard = spoke
    BY <1>1, <1>13 DEF ReadEnds, Shut, Other, bytes
  <2>2. pending["client"] = <<>> /\ toClient \o <<>> = toClient
    BY <1>1, <2>1 DEF Copying
  <2>3. Undisturbed => toClient = SubSeq(Reply, 1, heard)
    BY <2>1, <2>2 DEF Returned, Mute, Undisturbed
  <2> QED
    BY <1>1, <2>1, <2>3 DEF Ordered, Undisturbed
<1>14. CASE Speak
  <2>1. /\ UNCHANGED <<peer, kicked, unheard, fwd, heard, toClient>> /\ peer["server"] = "up"
    BY <1>14 DEF Speak
  <2> QED
    BY <1>1, <2>1 DEF Ordered, Undisturbed
<1>15. CASE Kick
  BY <1>15 DEF Kick, Ordered, Undisturbed
<1>16. ASSUME NEW d \in Sides, NEW how \in {"closed", "reset"}, HangUp(d, how)
       PROVE  Ordered'
  <2>1. /\ UNCHANGED <<kicked, unheard, fwd, heard, spoke, toClient>> /\ peer[d] = "up"
        /\ peer' = [peer EXCEPT ![d] = how]
    BY <1>16 DEF HangUp, bytes
  <2> QED
    BY <1>1, <2>1 DEF Ordered, Undisturbed
<1>17. \A d \in Sides : ReadEnds(d) => Ordered'
  BY <1>12, <1>13
<1> QED
  BY <1>4, <1>5, <1>6, <1>7, <1>8, <1>9, <1>10, <1>11, <1>14, <1>15, <1>16, <1>17
  DEF Next, Hear, Serve, World

-----------------------------------------------------------------------------
(* The invariants of the runs. *)

\* The invariant holds before the first byte.
LEMMA InvInit == Init => Inv
<1> SUFFICES ASSUME Init PROVE Inv
  OBVIOUS
<1>1. TypeOK
  BY TypeInit
<1>2. Known /\ Copying /\ Returned
  BY DEF Init, Known, Copying, Returned, Reading, Online, Sides
<1>3. Forwarded
  BY DEF Init, Forwarded, Online
<1>4. Ordered
  BY DEF Init, Ordered, Sides
<1> QED
  BY <1>1, <1>2, <1>3, <1>4 DEF Inv

\* It says nothing of anything but the variables.
LEMMA InvStutters ==
    ASSUME Inv, UNCHANGED vars PROVE Inv'
<1> USE DEF vars, session, parsed, bytes, tables
<1>1. TypeOK' /\ Known' /\ Copying' /\ Returned'
  BY DEF Inv, TypeOK, Known, Copying, Returned, Mute
<1>2. Forwarded'
  <2>1. Rewritten' = Rewritten /\ Due' = Due /\ Said' = Said
    BY SaidStays
  <2> QED
    BY <2>1 DEF Inv, Forwarded, Mute
<1>3. Ordered'
  BY DEF Inv, Ordered, Undisturbed
<1> QED
  BY <1>1, <1>2, <1>3 DEF Inv

\* Every step keeps it.
LEMMA InvStep ==
    ASSUME Inv, [Next]_vars PROVE Inv'
<1>1. CASE Next
  BY <1>1, TypeStep, KnownStep, CopyingStep, ForwardedStep, ReturnedStep, OrderedStep
  DEF Inv
<1>2. CASE UNCHANGED vars
  BY <1>2, InvStutters
<1> QED
  BY <1>1, <1>2

\* So it holds in every reachable state.
LEMMA Always == Spec => []Inv
<1>1. Init => Inv
  BY InvInit
<1>2. Inv /\ [Next]_vars => Inv'
  BY InvStep
<1> QED
  BY <1>1, <1>2, PTL DEF Spec

\* Every variable keeps its type, whatever the client's bytes are: what is
\* parsed, rewritten and copied is bytes, and nothing is read past the end of
\* the stream (HandleConnection and ForwardData).
THEOREM TypeCorrect == Spec => []TypeOK
<1>1. Inv => TypeOK
  BY DEF Inv
<1> QED
  BY <1>1, Always, PTL

\* What the server and the client have received is the beginning of what is
\* meant for them: nothing is lost, repeated or out of order before a later
\* byte, for every stream, reply, buffer size, cut of reads and writes, hang-up
\* and kick (ForwardData, and the greeting of the server before it).
THEOREM StreamsIntact == Spec => []Intact
<1>1. Inv => Intact
  <2> SUFFICES ASSUME Inv PROVE Intact
    OBVIOUS
  <2>1. /\ TypeOK /\ Known /\ Copying /\ Forwarded /\ Returned
        /\ served \in Seq(Byte) /\ toClient \in Seq(Byte) /\ pending \in [Sides -> Seq(Byte)]
    BY DEF Inv, TypeOK
  <2>2. ASSUME served # <<>> PROVE IsStart(served, Due)
    <3>1. CASE pc \in Online
      <4>1. /\ Said \in Seq(Byte) /\ Due \in Seq(Byte) /\ IsStart(Said, Due)
        BY <2>1, <3>1, SaidIs
      <4>2. IsStart(served, Said)
        <5>1. pending["server"] \in Seq(Byte)
          BY <2>1 DEF Sides
        <5>2. IsStart(served, served \o pending["server"])
          BY <2>1, <5>1, Starts
        <5> QED
          BY <2>1, <3>1, <5>2 DEF Forwarded
      <4>3. PICK r \in Seq(Byte) : Due = Said \o r
        BY <4>1, StartIs
      <4> QED
        BY <2>1, <4>1, <4>2, <4>3, StartOfMore
    <3>2. CASE pc = "done"
      BY <2>1, <2>2, <3>2 DEF Forwarded
    <3> QED
      BY <2>1, <2>2, <3>1, <3>2 DEF Copying
  <2>3. ASSUME pc = "forward" PROVE IsStart(toClient, Reply)
    <3>1. /\ Reply \in Seq(Byte) /\ heard \in 0 .. Len(Reply)
          /\ pending["client"] \in Seq(Byte)
      BY <2>1, ConstantsAre DEF TypeOK, Sides
    <3>2. PICK r \in Seq(Byte) : r = SubSeq(Reply, 1, heard)
      BY <3>1, EndsAre
    <3>3. PICK q \in Seq(Byte) : Reply = r \o q
      <4>1. /\ Drop(Reply, heard) \in Seq(Byte)
            /\ Reply = SubSeq(Reply, 1, heard) \o Drop(Reply, heard)
        BY <3>1, EndsAre
      <4>2. Reply = r \o Drop(Reply, heard)
        BY <3>2, <4>1
      <4> QED
        BY <4>1, <4>2
    <3>4. IsStart(toClient, toClient \o pending["client"])
      BY <2>1, <3>1, Starts
    <3>5. IsStart(toClient, r) => IsStart(toClient, Reply)
      BY <2>1, <3>3, StartOfMore
    <3> QED
      BY <2>1, <2>3, <3>2, <3>4, <3>5 DEF Returned
  <2> QED
    BY <2>2, <2>3 DEF Intact
<1> QED
  BY <1>1, Always, PTL

\* What a server says before it hangs up reaches a client that stays and was not
\* sending: the copying to the client always ends before the copying from it,
\* which would shut the client's socket (ForwardData's closing of both).
THEOREM LastWordsHeard == Spec => []LastWords
<1>1. Inv => LastWords
  <2> SUFFICES ASSUME Inv, pc = "done", \A d \in Sides : fwd[d] = "over",
                      peer["server"] = "closed", peer["client"] = "up", ~kicked, ~unheard
               PROVE  toClient = SubSeq(Reply, 1, spoke)
    BY DEF LastWords
  <2>1. Undisturbed /\ fwd["client"] = "over"
    BY DEF Undisturbed, Sides
  <2> QED
    BY <2>1 DEF Inv, Ordered
<1> QED
  BY <1>1, Always, PTL

\* A call that fails changes no login's way: EnableDomainNameProxy with a text
\* that is no expression may leave an empty table behind, which matches nothing.
THEOREM FailuresHarmless == Spec => FailedCallHarmless
<1>1. ASSUME TypeOK, [Next]_vars, lastCall' = "threw"
      PROVE  \A a \in Hosts, n \in UserNames : RouteOf(a, n)' = RouteOf(a, n)
  <2>1. CASE UNCHANGED <<dn_proxy_map, user_proxy_map>>
    BY <2>1 DEF RouteOf, ByUser, ByDomain
  <2>2. CASE \E p \in Patterns : EnableDomainNameProxy(p)
    <3>1. PICK p \in Patterns : EnableDomainNameProxy(p)
      BY <2>2
    <3>2. p \in Broken
      BY <1>1, <3>1 DEF EnableDomainNameProxy, Call
    <3>3. /\ user_proxy_map' = user_proxy_map
          /\ dn_proxy_map' = IF dn_proxy_map = None
                             THEN [first |-> NoPattern, second |-> NoMappings]
                             ELSE dn_proxy_map
      BY <3>1, <3>2 DEF EnableDomainNameProxy
    <3>4. CASE dn_proxy_map # None
      BY <3>3, <3>4 DEF RouteOf, ByUser, ByDomain
    <3>5. CASE dn_proxy_map = None
      <4>1. \A a : ByDomain(a) = None /\ ByDomain(a)' = None
        BY <3>3, <3>5 DEF ByDomain, Matches
      <4>2. \A n : ByUser(n)' = ByUser(n)
        BY <3>3 DEF ByUser
      <4> QED
        BY <4>1, <4>2 DEF RouteOf
    <3> QED
      BY <3>4, <3>5
  <2>3. ASSUME Hear \/ Serve \/ World PROVE UNCHANGED <<dn_proxy_map, user_proxy_map>>
    BY <2>3 DEF Hear, Serve, World, ReadMore, ReadClient, TakeHandshake, LoginGate,
       TakeLogin, PacketThrows, StatusRequest, PingRequest, Route, Connected, Refuse,
       IoThrows, GreetLogin, Forward, StartThrows, ReadServer, Finish, WriteSome,
       WriteLost, WriteThrows, ReadEnds, Speak, Kick, HangUp, Goto, tables
  <2>4. CASE TableCall
    BY <1>1, <2>1, <2>2, <2>4 DEF TableCall, AddDomainNameProxyMapping,
       RemoveDomainNameProxyMapping, MappingThrows, DisableDomainNameProxy,
       ClearUserProxy, SetUserProxy, DeleteUserProxy, SetMotd, Call, tables
  <2>5. CASE UNCHANGED vars
    BY <2>1, <2>5 DEF vars, tables
  <2> QED
    BY <1>1, <2>1, <2>3, <2>4, <2>5 DEF Next
<1>2. TypeOK /\ [Next]_vars =>
          [lastCall' = "threw" =>
              \A a \in Hosts, n \in UserNames : RouteOf(a, n)' = RouteOf(a, n)]_vars
  BY <1>1
<1> QED
  BY <1>2, TypeCorrect, PTL DEF Spec, FailedCallHarmless

-----------------------------------------------------------------------------
(* What the packets are, wherever they were cut. *)

\* A packet that is complete is the one that comes next in the stream.
LEMMA NextPacket ==
    ASSUME TypeOK, Complete
    PROVE  /\ First(Drop(stream, mark)) = Body /\ Behind(Drop(stream, mark)) = Drop(stream, read)
           /\ Body \in Seq(Byte) /\ Len(Body) \in Short
<1>1. /\ stream \in Seq(Byte) /\ mark \in Nat /\ read \in Nat
      /\ mark <= read /\ read <= Len(stream)
  BY PacketIs DEF TypeOK
<1>2. PICK p \in Seq(Byte) : p = Packet
  BY PacketIs
<1>3. PICK b \in Seq(Byte) : b = Body
  BY PacketIs
<1>4. ReadVarint(p).ok /\ ReadVarint(p).value = Len(b) /\ ReadVarint(p).rest = b
  BY <1>2, <1>3 DEF Complete, Size, Body
<1>5. PICK t \in Seq(Byte) : t = Drop(stream, read)
  <2>1. read \in 0 .. Len(stream)
    BY <1>1
  <2> QED
    BY <1>1, <2>1, EndsAre
<1>6. Drop(stream, mark) = p \o t
  <2>1. Drop(stream, mark) = SubSeq(stream, mark + 1, read) \o Drop(stream, read)
    <3>1. Len(stream) \in Nat /\ Len(stream) <= Len(stream)
      BY <1>1
    <3> QED
      BY <1>1, <3>1, PiecesAre
  <2> QED
    BY <1>2, <1>5, <2>1 DEF Packet
<1>7. PICK u \in Seq(Byte) : u = p \o t
  BY JoinedAre
<1>8. ReadVarint(u) = [ok |-> TRUE, value |-> Len(b), rest |-> b \o t]
  BY <1>4, <1>7, ReadVarintOfMore
<1>9. SubSeq(b \o t, 1, Len(b)) = b /\ Drop(b \o t, Len(b)) = t
  BY JoinedAre
<1>10. First(u) = b /\ Behind(u) = t
  BY <1>8, <1>9 DEF First, Behind
<1>11. Len(b) \in Short
  <2>1. ReadVarint(p).value >= 0
    BY <1>4
  <2> QED
    BY <1>4, <2>1, ReadIsShort
<1> QED
  BY <1>3, <1>5, <1>6, <1>7, <1>10, <1>11

\* What was parsed is kept, and nothing is served that was not asked for before.
LEMMA ParsedStays ==
    ASSUME TypeOK, Copying, Parsed, mark' = mark,
           UNCHANGED <<stream, handshake_data_pack, login, user_name>>,
           route' = route \/ served = <<>>,
           \/ pc' = pc \/ pc' = "done"
           \/ pc = "gate" /\ pc' = "login"
           \/ pc \in {"accepted", "connect"} \cup Online /\ pc' \in {"connect"} \cup Online,
           served' = served
    PROVE  Parsed'
<1>1. First(stream)' = First(stream) /\ Behind(stream)' = Behind(stream)
  BY DEF First, Behind
<1>2. /\ First(Behind(stream))' = First(Behind(stream))
      /\ Behind(Behind(stream))' = Behind(Behind(stream))
  BY <1>1 DEF First, Behind
<1>3. Drop(stream, mark)' = Drop(stream, mark)
  OBVIOUS
<1> QED
  BY <1>1, <1>2, <1>3 DEF Parsed, Online

\* Every step keeps what was parsed, or parses the next packet of the stream.
LEMMA ParsedStep ==
    ASSUME TypeOK, Known, Copying, Parsed, Next PROVE Parsed'
<1> USE DEF Reading, Online, Sides
<1>1. mark \in Nat /\ read \in Nat /\ stream \in Seq(Byte)
  BY PacketIs
<1>2. CASE ReadMore \/ ReadClient \/ ReadServer \/ Forward \/ Speak \/ Kick \/ TableCall
           \/ (\E d \in Sides : WriteLost(d) \/ WriteThrows(d) \/ ReadEnds(d))
           \/ (\E d \in Sides, how \in {"closed", "reset"} : HangUp(d, how))
  <2>1. /\ mark' = mark /\ UNCHANGED <<stream, handshake_data_pack, login, user_name>>
        /\ route' = route /\ served' = served
        /\ pc' = pc \/ pc' = "done" \/ (pc \in Online /\ pc' \in Online)
    BY <1>2, TableCallIs DEF ReadMore, ReadClient, ReadServer, Forward, Speak, Kick,
       WriteLost, WriteThrows, ReadEnds, HangUp, parsed, bytes, session
  <2> QED
    BY <2>1, ParsedStays
<1>3. CASE PacketThrows \/ LoginGate \/ StatusRequest \/ PingRequest \/ Connected \/ Refuse
           \/ IoThrows \/ GreetLogin \/ StartThrows \/ Finish
  <2>1. /\ UNCHANGED <<stream, handshake_data_pack, login, user_name>>
        /\ route' = route /\ served' = served
        /\ \/ pc' = "done" /\ mark' = mark
           \/ pc = "gate" /\ pc' = "login" /\ mark' = read
           \/ pc = "status" /\ pc' = "status"
           \/ pc \in {"connect", "greet"} /\ pc' \in Online /\ mark' = read
    BY <1>3 DEF PacketThrows, LoginGate, StatusRequest, PingRequest, Connected, Refuse,
       IoThrows, GreetLogin, StartThrows, Finish, Goto, Send, parsed, bytes
  <2>2. CASE pc' = "status"
    <3>1. pc = "status" /\ served = <<>>
      BY <2>1, <2>2 DEF Copying
    <3>2. First(stream)' = First(stream)
      BY <2>1 DEF First
    <3> QED
      BY <2>1, <2>2, <3>1, <3>2 DEF Parsed
  <2>3. CASE pc' # "status"
    <3>1. mark' = mark
      BY <2>1, <2>3 DEF Known
    <3> QED
      BY <2>1, <2>3, <3>1, ParsedStays
  <2> QED
    BY <2>2, <2>3
<1>4. CASE Route
  <2>1. /\ pc = "accepted" /\ pc' = "connect" /\ mark' = read
        /\ UNCHANGED <<stream, handshake_data_pack, login, user_name>> /\ served' = served
    BY <1>4 DEF Route, Goto, parsed, bytes
  <2>2. mark' = mark /\ served = <<>>
    BY <2>1 DEF Known, Copying
  <2> QED
    BY <2>1, <2>2, ParsedStays
<1>5. CASE TakeHandshake
  <2>1. /\ pc = "handshake" /\ Complete /\ pc' \in {"status", "gate"} /\ mark' = read
        /\ handshake_data_pack' = ParseHandshake(Body)
        /\ stream' = stream /\ served' = served
    BY <1>5 DEF TakeHandshake, Goto, bytes
  <2>2. mark = 0 /\ Drop(stream, 0) = stream /\ served = <<>>
    BY <1>1, <2>1 DEF Parsed, Copying, Drop
  <2>3. Body = First(stream) /\ Drop(stream, read) = Behind(stream)
    BY <2>1, <2>2, NextPacket
  <2>4. First(stream)' = First(stream) /\ Behind(stream)' = Behind(stream)
    BY <2>1 DEF First, Behind
  <2>5. Drop(stream, mark)' = Drop(stream, read)
    BY <2>1
  <2> QED
    BY <2>1, <2>2, <2>3, <2>4, <2>5 DEF Parsed
<1>6. CASE TakeLogin
  <2>1. /\ pc = "login" /\ Complete /\ pc' = "accepted" /\ mark' = read
        /\ ParseLogin(Body).ok /\ login' = Frame(Body)
        /\ user_name' = ParseLogin(Body).user_name
        /\ UNCHANGED <<stream, handshake_data_pack>> /\ served' = served
    BY <1>6 DEF TakeLogin, Goto, bytes
  <2>2. Drop(stream, mark) = Behind(stream) /\ served = <<>>
        /\ handshake_data_pack = ParseHandshake(First(stream))
    BY <2>1 DEF Parsed, Copying
  <2>3. /\ Body = First(Behind(stream)) /\ Drop(stream, read) = Behind(Behind(stream))
        /\ Body \in Seq(Byte) /\ Len(Body) \in Short
    BY <2>1, <2>2, NextPacket
  <2>4. First(stream)' = First(stream) /\ Behind(stream)' = Behind(stream)
    BY <2>1 DEF First, Behind
  <2>5. /\ First(Behind(stream))' = First(Behind(stream))
        /\ Behind(Behind(stream))' = Behind(Behind(stream))
    BY <2>4 DEF First, Behind
  <2>6. Drop(stream, mark)' = Drop(stream, read)
    BY <2>1
  <2> QED
    BY <2>1, <2>2, <2>3, <2>4, <2>5, <2>6 DEF Parsed
<1>7. ASSUME NEW d \in Sides, WriteSome(d) PROVE Parsed'
  <2>1. /\ UNCHANGED <<stream, mark, pc, route, handshake_data_pack, login, user_name>>
        /\ pending[d] # <<>> /\ (d = "client" => served' = served)
    BY <1>7 DEF WriteSome, Writing, parsed
  <2>2. CASE d = "client"
    BY <2>1, <2>2, ParsedStays
  <2>3. CASE d = "server"
    <3>1. pc \in Online
      BY <2>1, <2>3 DEF Copying
    <3>2. First(stream)' = First(stream) /\ Behind(stream)' = Behind(stream)
      BY <2>1 DEF First, Behind
    <3>3. /\ First(Behind(stream))' = First(Behind(stream))
          /\ Behind(Behind(stream))' = Behind(Behind(stream))
      BY <3>2 DEF First, Behind
    <3>4. Drop(stream, mark)' = Drop(stream, mark)
      BY <2>1
    <3>5. /\ IsHandshake(handshake_data_pack) /\ route # None
          /\ handshake_data_pack.protocol_version >= 0
      BY <3>1 DEF Known
    <3> QED
      BY <2>1, <3>1, <3>2, <3>3, <3>4, <3>5 DEF Parsed
  <2> QED
    BY <2>2, <2>3
<1> QED
  BY <1>2, <1>3, <1>4, <1>5, <1>6, <1>7 DEF Next, Hear, Serve, World

\* The packets are the stream's, in every reachable state.
LEMMA AlwaysParsed == Spec => []Parsed
<1>1. Init => Parsed
  BY DEF Init, Parsed, Online
<1>2. ASSUME Inv, Parsed, [Next]_vars PROVE Parsed'
  <2>1. CASE Next
    BY <1>2, <2>1, ParsedStep DEF Inv
  <2>2. CASE UNCHANGED vars
    <3>1. /\ mark' = mark /\ UNCHANGED <<stream, handshake_data_pack, login, user_name>>
          /\ route' = route /\ served' = served /\ pc' = pc
      BY <2>2 DEF vars, session, parsed, bytes
    <3> QED
      BY <1>2, <3>1, ParsedStays DEF Inv
  <2> QED
    BY <1>2, <2>1, <2>2
<1> QED
  BY <1>1, <1>2, Always, PTL DEF Spec
-----------------------------------------------------------------------------
(* What a server hears, and what it makes of it. *)

\* A client's handshake as a server at r gets it.
Redirected(h, r) ==
    [h EXCEPT !.server_address = r.addr \o Suffix(@), !.server_port = r.port]

\* All that such a server is to hear of a client that says s.
Translated(s, r) ==
    HandshakeBuffer(Redirected(ParseHandshake(First(s)), r))
    \o Frame(First(Behind(s))) \o Behind(Behind(s))

\* Two packets, and what comes behind them.
Packed(b, c, t) == Frame(b) \o Frame(c) \o t

\* They come apart again.
LEMMA TwoFrames ==
    ASSUME NEW b \in Seq(Byte), NEW c \in Seq(Byte), NEW t \in Seq(Byte),
           Len(b) \in Short, Len(c) \in Short
    PROVE  /\ Packed(b, c, t) \in Seq(Byte) /\ First(Packed(b, c, t)) = b
           /\ First(Behind(Packed(b, c, t))) = c /\ Behind(Behind(Packed(b, c, t))) = t
<1>0. PICK s : s = Packed(b, c, t)
  OBVIOUS
<1>1. PICK f \in Seq(Byte), g \in Seq(Byte) : f = Frame(b) /\ g = Frame(c)
  BY FrameIs
<1>2. PICK u \in Seq(Byte) : u = g \o t
  BY JoinedAre
<1>3. s = f \o u
  <2>1. (f \o g) \o t = f \o (g \o t)
    <3>1. Cat(Cat(f, g), t) = Cat(f, Cat(g, t))
      BY CatIs
    <3> QED
      BY <3>1 DEF Cat
  <2> QED
    BY <1>0, <1>1, <1>2, <2>1 DEF Packed
<1>4. ASSUME NEW x \in Seq(Byte), Len(x) \in Short, NEW y \in Seq(Byte),
             NEW z, z = Frame(x) \o y
      PROVE  First(z) = x /\ Behind(z) = y
  <2>1. ReadVarint(z) = [ok |-> TRUE, value |-> Len(x), rest |-> x \o y]
    BY <1>4, FramesReadBack
  <2>2. SubSeq(x \o y, 1, Len(x)) = x /\ Drop(x \o y, Len(x)) = y
    BY JoinedAre
  <2> QED
    BY <2>1, <2>2 DEF First, Behind
<1>5. First(s) = b /\ Behind(s) = u
  BY <1>1, <1>3, <1>4
<1>6. First(u) = c /\ Behind(u) = t
  BY <1>1, <1>2, <1>4
<1>7. s \in Seq(Byte)
  BY <1>3, JoinedAre
<1> QED
  BY <1>0, <1>5, <1>6, <1>7

\* A handshake is longer than the address in it.
LEMMA BodyIsLonger ==
    ASSUME NEW h, h.protocol_version \in Nat, h.next_state \in Nat,
           h.server_address \in Seq(Byte), h.server_port \in Seq(Byte)
    PROVE  Len(h.server_address) <= Len(HandshakeBody(h))
<1>1. PICK z \in Seq(Byte), v \in Seq(Byte), a \in Seq(Byte), l \in Seq(Byte),
           p \in Seq(Byte), x \in Seq(Byte) :
          /\ z = ToVarint(0) /\ v = ToVarint(h.protocol_version)
          /\ a = h.server_address /\ l = ToVarint(Len(h.server_address))
          /\ p = h.server_port /\ x = ToVarint(h.next_state)
  BY VarintIs, FrameIs DEF IsVarint
<1>2. HandshakeBody(h) = Cat(Cat(Cat(Cat(z, v), Cat(l, a)), p), x)
  BY <1>1 DEF HandshakeBody, Frame, Cat
<1>3. ASSUME NEW s \in Seq(Byte), NEW t \in Seq(Byte)
      PROVE  /\ Cat(s, t) \in Seq(Byte)
             /\ Len(s) <= Len(Cat(s, t)) /\ Len(t) <= Len(Cat(s, t))
  <2>1. s \o t \in Seq(Byte) /\ Len(s \o t) = Len(s) + Len(t)
    BY JoinedAre
  <2>2. Len(s) \in Nat /\ Len(t) \in Nat
    OBVIOUS
  <2> QED
    BY <2>1, <2>2 DEF Cat
<1>4. PICK c1 \in Seq(Byte) : c1 = Cat(l, a) /\ Len(a) <= Len(c1)
  BY <1>3
<1>5. PICK c0 \in Seq(Byte) : c0 = Cat(z, v)
  BY <1>3
<1>6. PICK c2 \in Seq(Byte) : c2 = Cat(c0, c1) /\ Len(c1) <= Len(c2)
  BY <1>3
<1>7. PICK c3 \in Seq(Byte) : c3 = Cat(c2, p) /\ Len(c2) <= Len(c3)
  BY <1>3
<1>8. PICK c4 \in Seq(Byte) : c4 = Cat(c3, x) /\ Len(c3) <= Len(c4)
  BY <1>3
<1>9. HandshakeBody(h) = c4
  BY <1>2, <1>4, <1>5, <1>6, <1>7, <1>8
<1>10. /\ Len(a) \in Nat /\ Len(c1) \in Nat /\ Len(c2) \in Nat /\ Len(c3) \in Nat
       /\ Len(c4) \in Nat
  BY SMTT(30)
<1>11. Len(a) <= Len(c4)
  BY <1>4, <1>6, <1>7, <1>8, <1>10
<1> QED
  BY <1>1, <1>9, <1>11

\* A server hears the client's own packets: the handshake with the address and
\* port of its route, the Forge suffix kept, the login as the client wrote it, and
\* what follows, of which nothing is lost or changed.  This is for every stream,
\* cut, hang-up, kick and change of the tables: what is read is the stream's
\* first packets, however few bytes a read returned (HandleConnection,
\* ForwardData).
THEOREM ServedIsTranslated ==
    Spec => [](served # <<>> => IsStart(served, Translated(stream, route)))
<1>1. ASSUME Inv, Parsed, Intact, served # <<>>
      PROVE  IsStart(served, Translated(stream, route))
  <2>1. TypeOK /\ served \in Seq(Byte) /\ login \in Seq(Byte)
    BY <1>1 DEF Inv, TypeOK
  <2>2. /\ stream \in Seq(Byte) /\ mark \in Nat /\ read \in Nat
        /\ mark <= read /\ read <= Len(stream)
    BY <2>1, PacketIs DEF TypeOK
  <2>3. /\ IsHandshake(handshake_data_pack) /\ route \in Targets \cup {Default}
        /\ handshake_data_pack.protocol_version >= 0
    BY <1>1, <2>1 DEF Parsed, TypeOK
  <2>4. PICK a \in Seq(Byte) : a = Rewritten \o login
    BY <2>1, <2>3, RewrittenIs, JoinedAre
  <2>5. PICK b \in Seq(Byte) : b = SubSeq(stream, mark + 1, read)
    BY <2>2, PieceIs
  <2>6. PICK c \in Seq(Byte) : c = Drop(stream, read)
    <3>1. read \in 0 .. Len(stream)
      BY <2>2
    <3> QED
      BY <2>2, <3>1, EndsAre
  <2>7. Drop(stream, mark) = b \o c
    <3>1. Len(stream) \in Nat /\ Len(stream) <= Len(stream)
      BY <2>2
    <3>2. Drop(stream, mark) = SubSeq(stream, mark + 1, read) \o Drop(stream, read)
      BY <2>2, <3>1, PiecesAre
    <3> QED
      BY <2>5, <2>6, <3>2
  <2>8. Translated(stream, route) = a \o (b \o c)
    <3>1. /\ handshake_data_pack = ParseHandshake(First(stream))
          /\ login = Frame(First(Behind(stream)))
          /\ Behind(Behind(stream)) = Drop(stream, mark)
      BY <1>1 DEF Parsed
    <3>2. Rewritten = HandshakeBuffer(Redirected(ParseHandshake(First(stream)), route))
      BY <3>1 DEF Rewritten, Redirected
    <3> QED
      BY <2>4, <2>7, <3>1, <3>2 DEF Translated
  <2>9. PICK d \in Seq(Byte) : d = a \o b
    BY JoinedAre
  <2>10. IsStart(served, d)
    BY <1>1, <2>4, <2>5, <2>9 DEF Intact, Due
  <2>11. IsStart(served, d \o c)
    BY <2>1, <2>10, StartOfMore
  <2>12. (a \o b) \o c = a \o (b \o c)
    <3>1. Cat(Cat(a, b), c) = Cat(a, Cat(b, c))
      BY CatIs
    <3> QED
      BY <3>1 DEF Cat
  <2> QED
    BY <2>8, <2>9, <2>11, <2>12
<1>2. Inv /\ Parsed /\ Intact =>
          (served # <<>> => IsStart(served, Translated(stream, route)))
  BY <1>1
<1> QED
  BY <1>2, Always, AlwaysParsed, StreamsIntact, PTL

\* Of a client that writes its packets as the proxy would, this is: the
\* handshake h with another address and port, and the rest byte by byte.
THEOREM LoginsTranslated ==
    ASSUME NEW h, IsHandshake(h), h.protocol_version >= 0, Len(HandshakeBody(h)) \in Short,
           NEW body \in Seq(Byte), Len(body) \in Short, NEW rest \in Seq(Byte), NEW r
    PROVE  Translated(HandshakeBuffer(h) \o Frame(body) \o rest, r)
               = HandshakeBuffer(Redirected(h, r)) \o Frame(body) \o rest
<1>1. h.protocol_version \in Nat /\ h.next_state \in Nat
      /\ h.server_address \in Seq(Byte) /\ h.server_port \in Seq(Byte)
  BY DEF IsHandshake
<1>2. HandshakeBody(h) \in Seq(Byte) /\ HandshakeBuffer(h) = Frame(HandshakeBody(h))
  BY <1>1, HandshakeBufferIs
<1>3. PICK s : s = HandshakeBuffer(h) \o Frame(body) \o rest
  OBVIOUS
<1>4. First(s) = HandshakeBody(h) /\ First(Behind(s)) = body /\ Behind(Behind(s)) = rest
  <2>1. PICK f \in Seq(Byte) : f = HandshakeBody(h)
    BY <1>2
  <2>2. Len(f) \in Short /\ s = Packed(f, body, rest)
    BY <1>2, <1>3, <2>1 DEF Packed
  <2>3. First(s) = f /\ First(Behind(s)) = body /\ Behind(Behind(s)) = rest
    BY <2>2, TwoFrames
  <2> QED
    BY <2>1, <2>3
<1>5. ParseHandshake(First(s)) = h
  BY <1>4, HandshakesReadBack
<1> QED
  BY <1>3, <1>4, <1>5 DEF Translated

\* What the server is given for a login says so to a reader of the protocol: a
\* handshake with the route's address and port, the client's version and next
\* state, a login with the name the proxy has let in, and behind them what the
\* client has said since (HandShakeDataPack::ToBuffer, StartLoginDataPack,
\* ForwardData).  A handshake is as long as an Integer can say.
Understood ==
    pc \in Online /\ Len(HandshakeBody(Dialled)) \in Short =>
        /\ ParseHandshake(First(Due)) = Dialled
        /\ ParseLogin(First(Behind(Due))).ok
        /\ ParseLogin(First(Behind(Due))).user_name = user_name
        /\ Behind(Behind(Due)) = SubSeq(stream, mark + 1, read)

\* The server understands the login as it was meant for it.
THEOREM ServersUnderstand == Spec => []Understood
<1>1. ASSUME Inv, Parsed, pc \in Online, Len(HandshakeBody(Dialled)) \in Short
      PROVE  /\ ParseHandshake(First(Due)) = Dialled
             /\ ParseLogin(First(Behind(Due))).ok
             /\ ParseLogin(First(Behind(Due))).user_name = user_name
             /\ Behind(Behind(Due)) = SubSeq(stream, mark + 1, read)
  <2>1. TypeOK /\ Known
    BY <1>1 DEF Inv
  <2>2. /\ IsHandshake(handshake_data_pack) /\ route \in Targets \cup {Default}
        /\ handshake_data_pack.protocol_version >= 0
    BY <1>1, <2>1 DEF Known, TypeOK, Online
  <2>3. PICK b : b = First(Behind(stream))
    OBVIOUS
  <2>4. /\ b \in Seq(Byte) /\ Len(b) \in Short /\ login = Frame(b)
        /\ ParseLogin(b).ok /\ user_name = ParseLogin(b).user_name
    BY <1>1, <2>3 DEF Parsed
  <2>5. PICK t \in Seq(Byte) : t = SubSeq(stream, mark + 1, read)
    BY <1>1, <2>1, SaidIs
  <2>6. PICK d : d = Dialled
    OBVIOUS
  <2>7. /\ d = [ok |-> TRUE, protocol_version |-> d.protocol_version,
                server_address |-> d.server_address, server_port |-> d.server_port,
                next_state |-> d.next_state]
        /\ d.protocol_version = handshake_data_pack.protocol_version
        /\ d.server_address \in Seq(Byte) /\ d.server_port \in Seq(Byte)
        /\ Len(d.server_port) = 2 /\ d.next_state \in {1, 2} \cap Short
    <3>1. \A v, a, p, x : d = [ok |-> TRUE, protocol_version |-> v,
                               server_address |-> a, server_port |-> p, next_state |-> x]
              => /\ d.protocol_version = v
                 /\ d = [ok |-> TRUE, protocol_version |-> d.protocol_version,
                         server_address |-> d.server_address,
                         server_port |-> d.server_port, next_state |-> d.next_state]
      OBVIOUS
    <3> QED
      BY <2>2, <2>6, <3>1, DialledIs
  <2>8. d.protocol_version \in Short /\ d.protocol_version >= 0
        /\ d.protocol_version \in Nat /\ d.next_state \in Nat
    BY <2>2, <2>7, ShortIs DEF IsHandshake
  <2>9. Len(d.server_address) \in Short
    <3>1. Len(d.server_address) <= Len(HandshakeBody(d)) /\ Len(d.server_address) \in Nat
      BY <2>7, <2>8, BodyIsLonger
    <3> QED
      BY <1>1, <2>6, <3>1, ShortIs
  <2>10. IsHandshake(d)
    BY <2>7, <2>8, <2>9 DEF IsHandshake
  <2>11. HandshakeBody(d) \in Seq(Byte) /\ HandshakeBuffer(d) = Frame(HandshakeBody(d))
    BY <2>7, <2>8, HandshakeBufferIs
  <2>12. Due = Frame(HandshakeBody(d)) \o Frame(b) \o t
    BY <2>2, <2>4, <2>5, <2>6, <2>11, RewrittenIs DEF Due
  <2>13. /\ First(Due) = HandshakeBody(d) /\ First(Behind(Due)) = b
         /\ Behind(Behind(Due)) = t
    <3>1. PICK f \in Seq(Byte) : f = HandshakeBody(d)
      BY <2>11
    <3>2. PICK s : s = Due
      OBVIOUS
    <3>3. Len(f) \in Short /\ s = Packed(f, b, t)
      BY <1>1, <2>6, <2>12, <3>1, <3>2 DEF Packed
    <3>4. First(s) = f /\ First(Behind(s)) = b /\ Behind(Behind(s)) = t
      BY <2>4, <3>3, TwoFrames
    <3> QED
      BY <3>1, <3>2, <3>4
  <2>14. ParseHandshake(HandshakeBody(d)) = d
    BY <2>8, <2>10, HandshakesReadBack
  <2> QED
    BY <2>4, <2>5, <2>6, <2>13, <2>14
<1>2. Inv /\ Parsed => Understood
  BY <1>1 DEF Understood
<1> QED
  BY <1>2, Always, AlwaysParsed, PTL

-----------------------------------------------------------------------------
(* Where a login is sent. *)

\* An address has one key in a pattern, the star's text.
LEMMA InstanceIs ==
    ASSUME NEW p \in Patterns, NEW a, NEW k \in Keys
    PROVE  Instance(p, k, a) <=> Matches(p, a) /\ Star(p, a) = k
<1>1. /\ p.before \in Seq(Byte) /\ p.after \in Seq(Byte) /\ k \in Seq(Byte)
      /\ p # NoPattern
  BY LoginPathAssumption DEF Pattern
<1>2. ASSUME Instance(p, k, a) PROVE Star(p, a) = k
  <2>1. PICK b \in Seq(Byte), f \in Seq(Byte), c \in Seq(Byte) :
            b = p.before /\ f = p.after /\ c = b \o k
    BY <1>1, JoinedAre
  <2>2. PICK e \in Seq(Byte) : e = c \o f /\ e = a
    BY <1>2, <2>1, JoinedAre DEF Instance
  <2>3. /\ Len(c) = Len(b) + Len(k) /\ Len(e) = Len(c) + Len(f)
        /\ \A i \in 1 .. Len(k) : c[Len(b) + i] = k[i]
        /\ \A i \in 1 .. Len(c) : e[i] = c[i]
    <3>1. /\ Len(b \o k) = Len(b) + Len(k)
          /\ \A i \in 1 .. Len(k) : (b \o k)[Len(b) + i] = k[i]
      BY <1>1, JoinedAre
    <3>2. /\ Len(c \o f) = Len(c) + Len(f)
          /\ \A i \in 1 .. Len(c) : (c \o f)[i] = c[i]
      BY JoinedAre
    <3> QED
      BY <2>1, <2>2, <3>1, <3>2
  <2>4. PICK l \in Nat, m \in Nat : l = Len(b) /\ m = Len(c)
    OBVIOUS
  <2>5. /\ Len(k) \in Nat /\ Len(f) \in Nat /\ m = l + Len(k) /\ Len(e) - Len(f) = m
        /\ l <= m /\ m <= Len(e) /\ m - l = Len(k)
    BY <2>3, <2>4
  <2>6. Star(p, a) = SubSeq(e, l + 1, m)
    BY <2>1, <2>2, <2>4, <2>5 DEF Star
  <2>7. PICK d \in Seq(Byte) : d = SubSeq(e, l + 1, m)
    BY <2>5, PieceIs
  <2>8. Len(d) = Len(k) /\ \A i \in 1 .. Len(k) : d[i] = e[l + i]
    BY <2>5, <2>7, PieceIs
  <2>9. ASSUME NEW i \in 1 .. Len(k) PROVE d[i] = k[i]
    <3>1. l + i \in 1 .. Len(c)
      BY <2>4, <2>5
    <3> QED
      BY <2>3, <2>4, <2>8, <3>1
  <2>10. d = k
    BY <1>1, <2>8, <2>9, SeqEqual
  <2> QED
    BY <2>6, <2>7, <2>10
<1> QED
  BY <1>1, <1>2 DEF Instance, Matches

\* The tables as they are looked up are the tables as they are meant.
LEMMA RouteIsWanted ==
    ASSUME TypeOK, NEW a, NEW n PROVE RouteOf(a, n) \in Wanted(a, n)
<1>1. Wanted(a, n) = IF OwnServer(n) # {} THEN OwnServer(n)
                     ELSE IF HostServer(a) # {} THEN HostServer(a) ELSE {Default}
  BY DEF Wanted
<1>2. CASE ByUser(n) # None
  <2>1. n \in UserNames /\ ByUser(n) = user_proxy_map[n]
    BY <1>2 DEF ByUser
  <2>2. ByUser(n) \in OwnServer(n)
    BY <1>2, <2>1 DEF OwnServer
  <2> QED
    BY <1>1, <1>2, <2>2 DEF RouteOf
<1>3. ASSUME ByUser(n) = None PROVE OwnServer(n) = {}
  BY <1>3 DEF ByUser, OwnServer
<1>4. ASSUME dn_proxy_map # None, NEW k \in Keys
      PROVE  Instance(dn_proxy_map.first, k, a)
                 <=> Matches(dn_proxy_map.first, a) /\ Star(dn_proxy_map.first, a) = k
  <2>1. dn_proxy_map.first \in Patterns \cup {NoPattern}
    BY <1>4 DEF TypeOK
  <2>2. CASE dn_proxy_map.first = NoPattern
    BY <2>2 DEF Instance, Matches
  <2>3. CASE dn_proxy_map.first \in Patterns
    BY <2>3, InstanceIs
  <2> QED
    BY <2>1, <2>2, <2>3
<1>5. ASSUME ByDomain(a) # None PROVE ByDomain(a) \in HostServer(a)
  <2>1. PICK k \in Keys : /\ dn_proxy_map # None /\ Matches(dn_proxy_map.first, a)
                          /\ Star(dn_proxy_map.first, a) = k
                          /\ ByDomain(a) = dn_proxy_map.second[k]
    BY <1>5 DEF ByDomain
  <2>2. Instance(dn_proxy_map.first, k, a)
    BY <1>4, <2>1
  <2> QED
    BY <1>5, <2>1, <2>2 DEF HostServer
<1>6. ASSUME ByDomain(a) = None PROVE HostServer(a) = {}
  <2>1. ASSUME dn_proxy_map # None, NEW k \in Keys, Instance(dn_proxy_map.first, k, a)
        PROVE  dn_proxy_map.second[k] = None
    BY <1>4, <1>6, <2>1 DEF ByDomain
  <2> QED
    BY <2>1 DEF HostServer
<1>7. CASE ByUser(n) = None /\ ByDomain(a) # None
  BY <1>1, <1>3, <1>5, <1>7 DEF RouteOf
<1>8. CASE ByUser(n) = None /\ ByDomain(a) = None
  BY <1>1, <1>3, <1>6, <1>8 DEF RouteOf
<1> QED
  BY <1>2, <1>7, <1>8

\* Only Route lets a login in or changes its way, by the tables as they are then.
LEMMA RouteStep ==
    ASSUME TypeOK, Parsed, [Next]_vars,
           route' # route \/ (pc # "connect" /\ pc' = "connect")
    PROVE  /\ pc = "accepted"
           /\ route' \in Wanted(ParseHandshake(First(stream)).server_address,
                                ParseLogin(First(Behind(stream))).user_name)
<1>1. Route
  BY TableCallIs DEF Next, Hear, Serve, World, ReadMore, ReadClient, TakeHandshake,
     LoginGate, TakeLogin, PacketThrows, StatusRequest, PingRequest, Connected, Refuse,
     IoThrows, GreetLogin, Forward, StartThrows, ReadServer, Finish, WriteSome,
     WriteLost, WriteThrows, ReadEnds, Speak, Kick, HangUp, vars, session, Goto
<1>2. pc = "accepted" /\ route' = RouteOf(handshake_data_pack.server_address, user_name)
  BY <1>1 DEF Route
<1>3. /\ handshake_data_pack = ParseHandshake(First(stream))
      /\ user_name = ParseLogin(First(Behind(stream))).user_name
  BY <1>2 DEF Parsed
<1> QED
  BY <1>2, <1>3, RouteIsWanted

\* A login is let in and sent where the tables want the player and the address
\* that its own packets name, as they are at that moment, whatever calls were
\* made, succeeded or failed before: the player's entry first, then that of the
\* address as it came, suffix and all, then the default (the lookups between
\* on_login and the connect in HandleConnection).
THEOREM RoutedAsWanted ==
    Spec => [][route' # route \/ (pc # "connect" /\ pc' = "connect") =>
                  route' \in Wanted(ParseHandshake(First(stream)).server_address,
                                    ParseLogin(First(Behind(stream))).user_name)]_vars
<1>1. TypeOK /\ Parsed /\ [Next]_vars =>
          [route' # route \/ (pc # "connect" /\ pc' = "connect") =>
              route' \in Wanted(ParseHandshake(First(stream)).server_address,
                                ParseLogin(First(Behind(stream))).user_name)]_vars
  BY RouteStep
<1> QED
  BY <1>1, TypeCorrect, AlwaysParsed, PTL DEF Spec

-----------------------------------------------------------------------------
(* What a client is answered. *)

\* The answer to p, a request or a ping, from a proxy whose motd is m.
Answers(p, m) ==
    {StatusResponse(m) : i \in GetID(p) \cap {0}}
    \cup {Pong(ParsePing(p).payload) : i \in {j \in GetID(p) : j = 1 /\ ParsePing(p).ok}}

\* An answer is for the packet behind the last one that was answered, and it is
\* of that packet: a ping's own payload, the motd of that moment.
NextAnswered ==
    pc' = "status" =>
        \/ pc = "status" /\ mark' = mark /\ toClient' = toClient
        \/ /\ pc = "handshake" /\ Drop(stream, mark') = Behind(stream)
           /\ toClient' = <<>>
        \/ /\ pc = "status"
           /\ mark < mark' /\ Drop(stream, mark') = Behind(Drop(stream, mark))
           /\ \E s \in Answers(First(Drop(stream, mark)), motd) :
                 toClient' = IF peer["client"] = "up" THEN toClient \o s ELSE toClient

\* A packet that was answered is the next of the stream.
LEMMA AnswerStep ==
    ASSUME TypeOK, Copying, Parsed, [Next]_vars PROVE NextAnswered
<1>1. CASE StatusRequest \/ PingRequest
  <2>1. /\ pc = "status" /\ Complete /\ mark' = read
        /\ \/ 0 \in GetID(Body) /\ Send(StatusResponse(motd))
           \/ /\ 1 \in GetID(Body) /\ ParsePing(Body).ok
              /\ Send(Pong(ParsePing(Body).payload))
    BY <1>1 DEF StatusRequest, PingRequest, Goto
  <2>2. First(Drop(stream, mark)) = Body /\ Behind(Drop(stream, mark)) = Drop(stream, read)
    BY <2>1, NextPacket
  <2>3. mark < read
    <3>1. /\ Packet \in Seq(Byte) /\ Len(Packet) = read - mark
          /\ mark \in Nat /\ read \in Nat
      BY PacketIs
    <3>2. PICK p \in Seq(Byte) : p = Packet
      BY <3>1
    <3>3. ReadVarint(p).ok
      BY <2>1, <3>2 DEF Complete, Size
    <3>4. Taken(p) > 0 /\ Taken(p) \in Nat /\ Len(p) = Taken(p) + Len(ReadVarint(p).rest)
          /\ Len(ReadVarint(p).rest) \in Nat
      BY <3>3, ReadVarintIs, TakenIs
    <3> QED
      BY <3>1, <3>2, <3>4
  <2>4. \E s \in Answers(Body, motd) :
            toClient' = IF peer["client"] = "up" THEN toClient \o s ELSE toClient
    BY <2>1 DEF Answers, Send
  <2> QED
    BY <2>1, <2>2, <2>3, <2>4 DEF NextAnswered
<1>2. CASE TakeHandshake
  <2>1. pc = "handshake" /\ Complete /\ mark' = read /\ toClient' = toClient
    BY <1>2 DEF TakeHandshake, Goto, bytes
  <2>2. mark = 0 /\ Drop(stream, 0) = stream /\ toClient = <<>>
    BY <2>1, PacketIs DEF Parsed, Copying, Drop
  <2>3. Drop(stream, read) = Behind(stream)
    BY <2>1, <2>2, NextPacket
  <2> QED
    BY <2>1, <2>2, <2>3 DEF NextAnswered
<1>3. ASSUME ~StatusRequest, ~PingRequest, ~TakeHandshake, pc' = "status"
      PROVE  pc = "status" /\ mark' = mark /\ toClient' = toClient
  <2>1. CASE UNCHANGED vars
    BY <1>3, <2>1 DEF vars, session, bytes
  <2>2. CASE ReadMore \/ TableCall \/ Speak \/ Kick
             \/ \E d \in Sides, how \in {"closed", "reset"} : HangUp(d, how)
    BY <1>3, <2>2, TableCallIs DEF ReadMore, Speak, Kick, HangUp, session, bytes
  <2>3. ASSUME NEW d \in Sides,
               WriteSome(d) \/ WriteLost(d) \/ WriteThrows(d) \/ ReadEnds(d)
        PROVE  FALSE
    <3>1. CASE ReadEnds(d)
      BY <1>3, <3>1 DEF ReadEnds
    <3>2. CASE WriteSome(d) \/ WriteLost(d) \/ WriteThrows(d)
      <4>1. pc = "status" /\ pending[d] # <<>>
        BY <1>3, <3>2 DEF WriteSome, WriteLost, WriteThrows, Writing
      <4> QED
        BY <4>1 DEF Copying, Online
    <3> QED
      BY <2>3, <3>1, <3>2
  <2>4. CASE ReadClient \/ LoginGate \/ TakeLogin \/ PacketThrows \/ Route \/ Connected
             \/ Refuse \/ IoThrows \/ GreetLogin \/ Forward \/ StartThrows \/ ReadServer
             \/ Finish
    BY <1>3, <2>4 DEF ReadClient, LoginGate, TakeLogin, PacketThrows, Route, Connected,
       Refuse, IoThrows, GreetLogin, Forward, StartThrows, ReadServer, Finish, Goto
  <2> QED
    BY <1>3, <2>1, <2>2, <2>3, <2>4 DEF Next, Hear, Serve, World
<1> QED
  BY <1>1, <1>2, <1>3 DEF NextAnswered

\* The packets of a list of requests are answered as they come in the stream:
\* none is answered twice and none is passed over (the loop of HandleConnection
\* for a status client).  A client that is gone gets nothing.
THEOREM RequestsAnswered == Spec => [][NextAnswered]_vars
<1>1. Inv /\ Parsed /\ [Next]_vars => [NextAnswered]_vars
  BY AnswerStep DEF Inv
<1> QED
  BY <1>1, Always, AlwaysParsed, PTL DEF Spec

=============================================================================
