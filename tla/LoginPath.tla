----------------------------- MODULE LoginPath -----------------------------
(***************************************************************************)
(* What one connection makes of the bytes that come in (HandleConnection   *)
(* and ForwardData, src/proxy.cpp): the packets it reads, the server it is *)
(* sent to, the packets that are rewritten for that server, and the bytes  *)
(* that are copied after them; and the route tables with the calls that    *)
(* change them meanwhile.  What sessions do to each other is module Proxy. *)
(*                                                                         *)
(* read counts the bytes taken from the client's stream.  A read asks for  *)
(* what is missing and no more, so what arrived and was not asked for      *)
(* needs no variable.                                                      *)
(***************************************************************************)
EXTENDS Packets

CONSTANTS
    Streams,        \* what a client may have to say
    Reply,          \* what the server has to say
    Default,        \* remote_server_addr and remote_server_port
    Patterns,       \* texts of dnproxy enable
    Broken,         \* those of them that are no regular expression
    Keys,           \* domain_name of dnproxy add
    Targets,
    UserNames,      \* users of userproxy set
    Motds,          \* texts of the motd
    BufferSize,     \* of ForwardData
    MaxCalls,       \* bound: changes of the tables, which are made while the
                    \* login is on its way: nobody looks before and after
    Hosts,          \* addresses that are asked for
    NoPattern,      \* std::regex that was never assigned
    None

Target  == [addr : Seq(Byte), port : [1 .. 2 -> Byte]]
Pattern == [before : Seq(Byte), star : BOOLEAN, after : Seq(Byte)]

ASSUME LoginPathAssumption ==
    /\ Streams \subseteq Seq(Byte) /\ Reply \in Seq(Byte)
    /\ Targets \subseteq Target /\ Default \in Target
    /\ Patterns \subseteq Pattern /\ Broken \subseteq Patterns
    /\ \A s \in {Keys, UserNames, Hosts, Motds} : s \subseteq Seq(Byte)
    /\ BufferSize \in Nat \ {0} /\ MaxCalls \in Nat
    /\ NoPattern \notin Pattern /\ None \notin Target
    /\ None \notin [first : Patterns \cup {NoPattern},
                    second : [Keys -> Targets \cup {None}]]

VARIABLES
    stream,           \* what this client has to say
    pc,               \* where HandleConnection is suspended
    read,             \* how much of the stream was read
    mark,             \* how much of it is dealt with: packets before this one
    handshake_data_pack,
    login,            \* login_start_row_packet
    user_name,
    route,            \* remote_server_addr_real, remote_server_port_real
    fwd,              \* the two ForwardData, named by where they write
    pending,          \* what is being written to each side
    served,           \* what the server has received
    toClient,         \* what the client has received
    spoke, heard,     \* how much of Reply was sent, and was read
    peer,             \* whether each side is there
    kicked,           \* KickByUsername has shut the client's socket
    unheard           \* history: the server was gone when client's bytes came

VARIABLES
    dn_proxy_map,     \* None, or the expression and the table
    user_proxy_map,
    motd,
    lastCall,         \* how the last call ended
    calls

parsed  == <<handshake_data_pack, login, user_name>>
bytes   == <<pending, served, toClient, spoke, heard>>
tables  == <<dn_proxy_map, user_proxy_map, motd>>
session ==
    <<stream, pc, read, mark, parsed, route, fwd, bytes, peer, kicked, unheard>>
vars    == <<session, tables, lastCall, calls>>

Sides   == {"client", "server"}
Reading == {"handshake", "status", "login"}
Online  == {"greet", "greetLogin", "forward"}   \* in users

Other(d) == IF d = "client" THEN "server" ELSE "client"

Init ==
    /\ stream \in Streams
    /\ pc = "handshake" /\ read = 0 /\ mark = 0
    /\ handshake_data_pack = None /\ login = <<>> /\ user_name = <<>>
    /\ route = None
    /\ fwd = [d \in Sides |-> "off"]
    /\ pending = [d \in Sides |-> <<>>]
    /\ served = <<>> /\ toClient = <<>> /\ spoke = 0 /\ heard = 0
    /\ peer = [d \in Sides |-> "up"] /\ kicked = FALSE /\ unheard = FALSE
    /\ dn_proxy_map = None /\ user_proxy_map = [n \in UserNames |-> None]
    /\ motd \in Motds /\ lastCall = "ok" /\ calls = 0

(***************************************************************************)
(* The tables.  Each call is one task on the strand; what its caller waits *)
(* for is module Proxy's call.                                             *)
(***************************************************************************)

Call(outcome) ==
    /\ calls < MaxCalls /\ pc \in {"gate", "login", "accepted"}
    /\ calls' = calls + 1
    /\ lastCall' = outcome
    /\ UNCHANGED session

NoMappings == [k \in Keys |-> None]

\* Mutant: the table is made anew before the expression is built.
EnableDomainNameProxy_Anew(p) ==
    /\ Call(IF p \in Broken THEN "threw" ELSE "ok")
    /\ dn_proxy_map' = [first  |-> IF p \in Broken THEN NoPattern ELSE p,
                        second |-> NoMappings]
    /\ UNCHANGED <<user_proxy_map, motd>>

\* The expression is built after an empty table was put in place.
EnableDomainNameProxy(p) ==
    /\ Call(IF p \in Broken THEN "threw" ELSE "ok")
    /\ dn_proxy_map' =
          LET map == IF dn_proxy_map = None
                     THEN [first |-> NoPattern, second |-> NoMappings]
                     ELSE dn_proxy_map
          IN  IF p \in Broken THEN map ELSE [map EXCEPT !.first = p]
    /\ UNCHANGED <<user_proxy_map, motd>>

\* insert leaves a mapping that is there as it is.
AddDomainNameProxyMapping(k, t) ==
    /\ dn_proxy_map # None
    /\ Call("ok")
    /\ dn_proxy_map' =
          [dn_proxy_map EXCEPT !.second[k] = IF @ = None THEN t ELSE @]
    /\ UNCHANGED <<user_proxy_map, motd>>

RemoveDomainNameProxyMapping(k) ==
    /\ dn_proxy_map # None
    /\ Call("ok")
    /\ dn_proxy_map' = [dn_proxy_map EXCEPT !.second[k] = None]
    /\ UNCHANGED <<user_proxy_map, motd>>

\* Of a mapping, with no table to put it in or take it from.
MappingThrows ==
    /\ dn_proxy_map = None
    /\ Call("threw")
    /\ UNCHANGED tables

DisableDomainNameProxy ==
    /\ Call("ok")
    /\ dn_proxy_map' = None
    /\ UNCHANGED <<user_proxy_map, motd>>

SetUserProxy(n, t) ==
    /\ Call("ok")
    /\ user_proxy_map' = [user_proxy_map EXCEPT ![n] = t]
    /\ UNCHANGED <<dn_proxy_map, motd>>

DeleteUserProxy(n) ==
    /\ Call("ok")
    /\ user_proxy_map' = [user_proxy_map EXCEPT ![n] = None]
    /\ UNCHANGED <<dn_proxy_map, motd>>

ClearUserProxy ==
    /\ Call("ok")
    /\ user_proxy_map' = [n \in UserNames |-> None]
    /\ UNCHANGED <<dn_proxy_map, motd>>

\* The motd is looked at by status clients only.
SetMotd(m) ==
    /\ calls < MaxCalls /\ pc = "status"
    /\ motd' = m
    /\ lastCall' = "ok" /\ calls' = calls + 1
    /\ UNCHANGED <<session, dn_proxy_map, user_proxy_map>>

\* What a star stands for when address is to be an instance of p, which is
\* anchored at both ends.
Star(p, address) ==
    SubSeq(address, Len(p.before) + 1, Len(address) - Len(p.after))

Matches(p, address) ==
    /\ p # NoPattern
    /\ address = p.before \o Star(p, address) \o p.after
    /\ p.star <=> Star(p, address) # <<>>

ByDomain(address) ==
    IF /\ dn_proxy_map # None
       /\ Matches(dn_proxy_map.first, address)
       /\ Star(dn_proxy_map.first, address) \in Keys
    THEN dn_proxy_map.second[Star(dn_proxy_map.first, address)]
    ELSE None

ByUser(name) == IF name \in UserNames THEN user_proxy_map[name] ELSE None

\* Mutant: the domain goes before the player.
RouteOf_DomainFirst(address, name) ==
    IF ByDomain(address) # None THEN ByDomain(address)
    ELSE IF ByUser(name) # None THEN ByUser(name)
    ELSE Default

RouteOf(address, name) ==
    IF ByUser(name) # None THEN ByUser(name)
    ELSE IF ByDomain(address) # None THEN ByDomain(address)
    ELSE Default

(***************************************************************************)
(* Reading packets                                                         *)
(***************************************************************************)

Packet == SubSeq(stream, mark + 1, read)
Size   == ReadVarint(Packet)
Body   == Size.rest
Garbled  == IF Size.ok THEN Size.value < 0 ELSE Len(Packet) = MaxVarint
Complete == Size.ok /\ Size.value = Len(Body)

\* A byte of the length, or up to what is missing of the rest.
ReadMore ==
    /\ pc \in Reading /\ ~Garbled /\ ~Complete
    /\ \E k \in 1 .. IF Size.ok THEN Size.value - Len(Body) ELSE 1 :
          /\ read + k <= Len(stream)
          /\ read' = read + k
    /\ UNCHANGED <<stream, pc, mark, parsed, route, fwd, bytes, peer, kicked,
                   unheard, tables, lastCall, calls>>

\* Mutant: the packet ends one byte later.
Goto_OffByOne(next) ==
    /\ pc' = next
    /\ mark' = IF next = "done" THEN mark ELSE read + 1
    /\ UNCHANGED <<stream, read, fwd, peer, kicked, unheard, tables, lastCall,
                   calls>>

\* The packet is done with, and HandleConnection goes on at next, or ends.
Goto(next) ==
    /\ pc' = next
    /\ mark' = IF next = "done" THEN mark ELSE read
    /\ UNCHANGED <<stream, read, fwd, peer, kicked, unheard, tables, lastCall,
                   calls>>

TakeHandshake ==
    /\ pc = "handshake" /\ Complete
    /\ LET h == ParseHandshake(Body)
       IN  /\ h.ok
           /\ handshake_data_pack' = h
           /\ Goto(IF h.next_state = 1 THEN "status" ELSE "gate")
    /\ UNCHANGED <<login, user_name, route, bytes>>

\* A packet for the client, which a peer that is gone does not get.
Send(packet) ==
    /\ toClient' = IF peer["client"] = "up" THEN toClient \o packet ELSE toClient
    /\ UNCHANGED <<pending, served, spoke, heard>>

StatusRequest ==
    /\ pc = "status" /\ Complete
    /\ 0 \in GetID(Body)
    /\ Send(StatusResponse(motd))
    /\ Goto("status")
    /\ UNCHANGED <<parsed, route>>

PingRequest ==
    /\ pc = "status" /\ Complete
    /\ 1 \in GetID(Body) /\ ParsePing(Body).ok
    /\ Send(Pong(ParsePing(Body).payload))
    /\ Goto("status")
    /\ UNCHANGED <<parsed, route>>

\* Of a packet that cannot be read or is none of those that may come here.
PacketThrows ==
    /\ pc \in Reading
    /\ \/ Garbled
       \/ /\ Complete
          /\ \/ pc = "handshake" /\ ~ParseHandshake(Body).ok
             \/ pc = "login" /\ ~ParseLogin(Body).ok
             \/ pc = "status" /\ ~(GetID(Body) \subseteq {0, 1})
             \/ pc = "status" /\ 1 \in GetID(Body) /\ ~ParsePing(Body).ok
    /\ Goto("done")
    /\ UNCHANGED <<parsed, route, bytes>>

\* The limit allows the login.
LoginGate ==
    /\ pc = "gate"
    /\ Goto("login")
    /\ UNCHANGED <<parsed, route, bytes>>

TakeLogin ==
    /\ pc = "login" /\ Complete
    /\ ParseLogin(Body).ok
    /\ login' = Frame(Body)
    /\ user_name' = ParseLogin(Body).user_name
    /\ Goto("accepted")
    /\ UNCHANGED <<handshake_data_pack, route, bytes>>

\* on_login lets the user in; without a pause the tables are asked.
Route ==
    /\ pc = "accepted"
    /\ route' = RouteOf(handshake_data_pack.server_address, user_name)
    /\ Goto("connect")
    /\ UNCHANGED <<parsed, bytes>>

\* Too many players, a veto of on_login, a name that is online.
Refuse ==
    /\ pc \in {"gate", "accepted", "connect"}
    /\ Send(LoginFailure)
    /\ Goto("done")
    /\ UNCHANGED <<parsed, route>>

\* A read, write or log line about a client that is gone; a failed connect.
IoThrows ==
    /\ \/ pc \in Reading \cup {"gate"} /\ peer["client"] # "up"
       \/ pc = "connect"
    /\ Goto("done")
    /\ UNCHANGED <<parsed, route, bytes>>

(***************************************************************************)
(* The server: greeting it, and copying                                    *)
(***************************************************************************)

\* Mutant: the address is taken as the C string it starts with.
Suffix_Cut(address) == <<>>

\* From the first NUL on: what a Forge client adds to the address.
Suffix(address) ==
    LET text == CHOOSE n \in 0 .. Len(address) :
                    /\ \A i \in 1 .. n : address[i] # 0
                    /\ n = Len(address) \/ address[n + 1] = 0
    IN  Drop(address, text)

Rewritten ==
    HandshakeBuffer([handshake_data_pack EXCEPT
        !.server_address = route.addr \o Suffix(@), !.server_port = route.port])

\* ToVarint throws for a negative version: the session ends at once.
Connected ==
    /\ pc = "connect"
    /\ IF handshake_data_pack.protocol_version < 0
       THEN UNCHANGED pending /\ Goto("done")
       ELSE /\ pending' = [pending EXCEPT !["server"] = Rewritten]
            /\ Goto("greet")
    /\ UNCHANGED <<parsed, route, served, toClient, spoke, heard>>

Shut(d) ==
    \/ \E e \in Sides : fwd[e] = "over"
    \/ d = "client" /\ kicked

Writing(d) ==
    /\ pending[d] # <<>>
    /\ \/ fwd[d] = "write"
       \/ d = "server" /\ pc \in {"greet", "greetLogin"}

\* Mutant: one async_write_some, whatever it has taken.
Written_Short(d, rest) ==
    /\ pending' = [pending EXCEPT ![d] = <<>>]
    /\ fwd' = IF fwd[d] = "write" THEN [fwd EXCEPT ![d] = "read"] ELSE fwd

\* A coroutine that has written all of its buffer reads again.
Written(d, rest) ==
    /\ pending' = [pending EXCEPT ![d] = rest]
    /\ fwd' = IF fwd[d] = "write" /\ rest = <<>>
              THEN [fwd EXCEPT ![d] = "read"] ELSE fwd

WriteSome(d) ==
    /\ Writing(d) /\ peer[d] = "up" /\ ~Shut(d)
    /\ \E k \in 1 .. Len(pending[d]) :
          /\ Written(d, Drop(pending[d], k))
          /\ IF d = "server"
             THEN /\ served' = served \o SubSeq(pending[d], 1, k)
                  /\ UNCHANGED toClient
             ELSE /\ toClient' = toClient \o SubSeq(pending[d], 1, k)
                  /\ UNCHANGED served
    /\ UNCHANGED <<stream, pc, read, mark, parsed, route, spoke, heard, peer,
                   kicked, unheard, tables, lastCall, calls>>

\* The system takes the bytes, and the peer is gone.
WriteLost(d) ==
    /\ Writing(d) /\ peer[d] # "up" /\ ~Shut(d)
    /\ Written(d, <<>>)
    /\ unheard' = (unheard \/ d = "server")
    /\ UNCHANGED <<stream, pc, read, mark, parsed, route, served, toClient,
                   spoke, heard, peer, kicked, tables, lastCall, calls>>

\* A ForwardData that cannot write shuts both sockets; the greeting just ends.
WriteThrows(d) ==
    /\ Writing(d)
    /\ peer[d] # "up" \/ Shut(d)
    /\ IF pc = "forward"
       THEN fwd' = [fwd EXCEPT ![d] = "over"] /\ UNCHANGED pc
       ELSE pc' = "done" /\ UNCHANGED fwd
    /\ pending' = [pending EXCEPT ![d] = <<>>]
    /\ unheard' = (unheard \/ d = "server")
    /\ UNCHANGED <<stream, read, mark, parsed, route, served, toClient,
                   spoke, heard, peer, kicked, tables, lastCall, calls>>

\* Mutant: the login waits for an answer to the handshake.
GreetLogin_Answered ==
    /\ pc = "greet" /\ pending["server"] = <<>> /\ spoke > 0
    /\ pending' = [pending EXCEPT !["server"] = login]
    /\ Goto("greetLogin")
    /\ UNCHANGED <<parsed, route, served, toClient, spoke, heard>>

\* The handshake is written, the login follows.
GreetLogin ==
    /\ pc = "greet" /\ pending["server"] = <<>>
    /\ pending' = [pending EXCEPT !["server"] = login]
    /\ Goto("greetLogin")
    /\ UNCHANGED <<parsed, route, served, toClient, spoke, heard>>

Forward ==
    /\ pc = "greetLogin" /\ pending["server"] = <<>>
    /\ pc' = "forward"
    /\ fwd' = [d \in Sides |-> "read"]
    /\ UNCHANGED <<stream, read, mark, parsed, route, bytes, peer, kicked,
                   unheard, tables, lastCall, calls>>

\* on_proxy_start, or the log line behind it, throws.
StartThrows ==
    /\ pc = "greetLogin" /\ pending["server"] = <<>>
    /\ Goto("done")
    /\ UNCHANGED <<parsed, route, bytes>>

ReadClient ==
    /\ pc = "forward" /\ fwd["server"] = "read"
    /\ \E k \in 1 .. BufferSize :
          /\ read + k <= Len(stream)
          /\ read' = read + k
          /\ pending' = [pending EXCEPT !["server"] =
                            SubSeq(stream, read + 1, read + k)]
    /\ fwd' = [fwd EXCEPT !["server"] = "write"]
    /\ UNCHANGED <<stream, pc, mark, parsed, route, served, toClient, spoke,
                   heard, peer, kicked, unheard, tables, lastCall, calls>>

ReadServer ==
    /\ pc = "forward" /\ fwd["client"] = "read" /\ peer["server"] # "reset"
    /\ \E k \in 1 .. BufferSize :
          /\ heard + k <= spoke
          /\ heard' = heard + k
          /\ pending' = [pending EXCEPT !["client"] =
                            SubSeq(Reply, heard + 1, heard + k)]
    /\ fwd' = [fwd EXCEPT !["client"] = "write"]
    /\ UNCHANGED <<stream, pc, read, mark, parsed, route, served, toClient,
                   spoke, peer, kicked, unheard, tables, lastCall, calls>>

\* Mutant: a server that has hung up is not read any more.
ReadEnds_AtOnce(d) ==
    /\ pc = "forward" /\ fwd[d] = "read"
    /\ Shut(Other(d)) \/ peer[Other(d)] # "up"
    /\ fwd' = [fwd EXCEPT ![d] = "over"]
    /\ UNCHANGED <<stream, pc, read, mark, parsed, route, bytes, peer, kicked,
                   unheard, tables, lastCall, calls>>

\* No more bytes, or an error; either shuts both sockets.
ReadEnds(d) ==
    /\ pc = "forward" /\ fwd[d] = "read"
    /\ \/ Shut(Other(d)) \/ peer[Other(d)] = "reset"
       \/ peer[Other(d)] = "closed" /\ (d = "client" => heard = spoke)
    /\ fwd' = [fwd EXCEPT ![d] = "over"]
    /\ UNCHANGED <<stream, pc, read, mark, parsed, route, bytes, peer, kicked,
                   unheard, tables, lastCall, calls>>

Finish ==
    /\ pc = "forward" /\ \A d \in Sides : fwd[d] = "over"
    /\ Goto("done")
    /\ UNCHANGED <<parsed, route, bytes>>

(***************************************************************************)
(* The peers, and the console                                              *)
(***************************************************************************)

\* What it says while it is greeted is read no earlier.
Speak ==
    /\ pc = "forward" /\ peer["server"] = "up" /\ spoke < Len(Reply)
    /\ spoke' = spoke + 1
    /\ UNCHANGED <<stream, pc, read, mark, parsed, route, fwd, pending, served,
                   toClient, heard, peer, kicked, unheard, tables, lastCall, calls>>

\* A client that resets its connection is one that closes it before it is heard.
HangUp(d, how) ==
    /\ peer[d] = "up" /\ pc # "done"
    /\ d = "server" => pc \in Online
    /\ how = "reset" => d = "server"
    /\ peer' = [peer EXCEPT ![d] = how]
    /\ UNCHANGED <<stream, pc, read, mark, parsed, route, fwd, bytes, kicked,
                   unheard, tables, lastCall, calls>>

Kick ==
    /\ pc \in Online /\ ~kicked
    /\ kicked' = TRUE
    /\ UNCHANGED <<stream, pc, read, mark, parsed, route, fwd, bytes, peer,
                   unheard, tables, lastCall, calls>>

TableCall ==
    \/ \E p \in Patterns : EnableDomainNameProxy(p)
    \/ \E k \in Keys, t \in Targets : AddDomainNameProxyMapping(k, t)
    \/ \E k \in Keys : RemoveDomainNameProxyMapping(k)
    \/ MappingThrows \/ DisableDomainNameProxy \/ ClearUserProxy
    \/ \E n \in UserNames, t \in Targets : SetUserProxy(n, t)
    \/ \E n \in UserNames : DeleteUserProxy(n)
    \/ \E m \in Motds : SetMotd(m)

\* Reads of the client, and what its packets lead to.
Hear ==
    \/ ReadMore \/ ReadClient
    \/ TakeHandshake \/ LoginGate \/ TakeLogin \/ PacketThrows
    \/ StatusRequest \/ PingRequest

\* What the proxy does about a login without waiting for the client.
Serve ==
    \/ Route \/ Connected \/ Refuse \/ IoThrows
    \/ GreetLogin \/ Forward \/ StartThrows \/ ReadServer \/ Finish
    \/ \E d \in Sides : WriteSome(d) \/ WriteLost(d) \/ WriteThrows(d) \/ ReadEnds(d)

World ==
    \/ Speak \/ Kick
    \/ \E d \in Sides, how \in {"closed", "reset"} : HangUp(d, how)

Next == Hear \/ Serve \/ World \/ TableCall

Spec     == Init /\ [][Next]_vars
FairSpec == Spec /\ WF_vars(Serve)

-----------------------------------------------------------------------------

Handshakes ==
    [ok : {TRUE}, protocol_version : Int, server_address : Seq(Byte),
     server_port : Seq(Byte), next_state : {1, 2}]

\* Each variable has its type.
TypeOK ==
    /\ stream \in Streams
    /\ pc \in Reading \cup Online \cup {"gate", "accepted", "connect", "done"}
    /\ mark \in 0 .. read /\ read \in 0 .. Len(stream)
    /\ handshake_data_pack \in Handshakes \cup {None}
    /\ login \in Seq(Byte) /\ user_name \in Seq(Byte)
    /\ route \in Targets \cup {Default, None}
    /\ fwd \in [Sides -> {"off", "read", "write", "over"}]
    /\ pending \in [Sides -> Seq(Byte)]
    /\ served \in Seq(Byte) /\ toClient \in Seq(Byte)
    /\ heard \in 0 .. spoke /\ spoke \in 0 .. Len(Reply)
    /\ peer \in [Sides -> {"up", "closed", "reset"}] /\ kicked \in BOOLEAN
    /\ unheard \in BOOLEAN
    /\ dn_proxy_map \in {None} \cup [first  : Patterns \cup {NoPattern},
                                     second : [Keys -> Targets \cup {None}]]
    /\ user_proxy_map \in [UserNames -> Targets \cup {None}]
    /\ motd \in Motds /\ lastCall \in {"ok", "threw"} /\ calls \in 0 .. MaxCalls

IsStart(s, t) == Len(s) <= Len(t) /\ s = SubSeq(t, 1, Len(s))

\* What the server is to get for what was read from the client.
Due == Rewritten \o login \o SubSeq(stream, mark + 1, read)

\* Either side gets what the other has for it, a server the rewritten handshake
\* and the login first, nothing of it twice, out of order or left out before a
\* later byte, however the reads and writes cut it and whoever hangs up meanwhile.
Intact ==
    /\ served # <<>> => IsStart(served, Due)
    /\ pc = "forward" => IsStart(toClient, Reply)

\* What a server says before it hangs up (the reason of a kick) reaches a
\* client that stays: the other ForwardData, which shuts the client's socket
\* when it ends, does not get in first.  Unless the client was sending: then
\* the write to the server may fail first.
LastWords ==
    (/\ pc = "done" /\ \A d \in Sides : fwd[d] = "over"
     /\ peer["server"] = "closed" /\ peer["client"] = "up" /\ ~kicked /\ ~unheard)
        => toClient = SubSeq(Reply, 1, spoke)

\* A call that fails changes no login's way, though EnableDomainNameProxy has
\* put an empty table in place by then.
FailedCallHarmless ==
    [][lastCall' = "threw" =>
        \A a \in Hosts, n \in UserNames : RouteOf(a, n)' = RouteOf(a, n)]_vars

\* The pattern of the table with key for its star is address.
Instance(p, key, address) ==
    /\ p # NoPattern
    /\ address = p.before \o key \o p.after
    /\ p.star <=> key # <<>>

\* The server that a player has of his own, and that of the host address.
OwnServer(name) ==
    {user_proxy_map[n] : n \in {x \in UserNames : x = name}} \ {None}

HostServer(address) ==
    IF dn_proxy_map = None THEN {}
    ELSE {dn_proxy_map.second[k] : k \in
             {x \in Keys : Instance(dn_proxy_map.first, x, address)}} \ {None}

\* Where the tables want a client: a player's own entry goes before the
\* domain's, and the domain's before the default.
Wanted(address, name) ==
    IF OwnServer(name) # {} THEN OwnServer(name)
    ELSE IF HostServer(address) # {} THEN HostServer(address) ELSE {Default}

\* When a login has come with everything its client has to say, the server gets
\* it all, unless one of the two leaves, the console kicks or the login ends
\* before the copying.
AllDelivered ==
    (pc \in {"accepted", "forward"} /\ read = Len(stream)) ~>
        \/ pc = "forward" /\ served = Due
        \/ kicked \/ \E d \in Sides : peer[d] # "up"
        \/ pc = "done" /\ fwd["client"] = "off"

=============================================================================
