------------------------------ MODULE Clients ------------------------------
(***************************************************************************)
(* Clients of LoginPath that say what a client of the protocol may say, or *)
(* something else, and what the protocol makes of it.  VarInts are written *)
(* here as sums of digits, apart from the loops of module Packets.         *)
(***************************************************************************)
EXTENDS LoginPath

CONSTANTS
    Logins,    \* messages of clients that want to play,
    Pings,     \* of those that want the status of the server,
    Others,    \* and of those that are not to be let through
    Junk       \* bytes that are no message

Messages == Logins \cup Pings \cup Others

\* The digits of n and, where pad says so, zeros more than it needs.
Digits(n, pad) ==
    LET u    == IF n < 0 THEN n + 2^Width ELSE n
        need == CHOOSE k \in 1 .. u + 1 :
                    /\ u < 2^(Group * k)
                    /\ \A j \in 1 .. k - 1 : u >= 2^(Group * j)
        len  == need + pad
    IN  [i \in 1 .. len |-> ((u \div 2^(Group * (i - 1))) % 2^Group)
                            + IF i < len THEN 2^Group ELSE 0]

Text(s, pad) == Digits(Len(s), pad) \o s

Opening(m, addr, port, pad) ==
    Digits(0, pad) \o Digits(m.version, pad) \o Text(addr, pad) \o port
    \o Digits(m.next, 0)

LoginStart(m) == Digits(0, m.pad) \o Text(m.name, m.pad) \o m.uuid

\* What m says of its packets, and behind them, when n of them are left.
Left(m) ==
    LET last[n \in 0 .. Len(m.packets)] ==
            IF n = 0 THEN m.rest
            ELSE Text(m.packets[Len(m.packets) - n + 1], m.pad) \o last[n - 1]
    IN  last

\* What a client says that means m.
Wire(m) ==
    Text(Opening(m, m.host \o m.forge, <<3, 0>>, m.pad), m.pad)
    \o Left(m)[Len(m.packets)]

-----------------------------------------------------------------------------

Number  == 0 .. 2^(Width - 1) - 1
Message ==
    [version : Int, next : Number, host : Seq(Byte), forge : Seq(Byte),
     name : Seq(Byte), uuid : Seq(Byte), rest : Seq(Byte), pad : Nat,
     packets : Seq(Seq(Byte))]

\* A zero is where a Forge client's suffix begins.
Unmarked(s) == \A i \in 1 .. Len(s) : s[i] # 0

\* Another id than a login's, or a name that is longer than the packet.
NoLogin(p) ==
    \/ \E n \in Number \ {0} : IsStart(Digits(n, 0), p)
    \/ \E n \in Number : LET head == <<0>> \o Digits(n, 0)
                         IN  IsStart(head, p) /\ Len(p) < Len(head) + n

ASSUME ClientsAssumption ==
    /\ Messages \subseteq Message /\ Width > 1 /\ IntWidth > 1
    /\ \A m \in Messages :
          /\ m.version \in -(2^(Width - 1)) .. 2^(Width - 1) - 1
          /\ Unmarked(m.host)
          /\ m.forge # <<>> => m.forge[1] = 0     \* a Forge client's suffix
          /\ Len(Opening(m, m.host \o m.forge, <<3, 0>>, m.pad)) \in Number
          /\ \A i \in 1 .. Len(m.packets) : Len(m.packets[i]) \in Number
          \* VarInts with their zeros are not longer than VarInts may be
          /\ m.pad < MaxVarint /\ Width - 1 <= Group * (MaxVarint - m.pad)
          /\ m.version < 0 => Width <= Group * (MaxVarint - m.pad)
    /\ \A m \in Logins :
          m.version >= 0 /\ m.next = 2 /\ m.packets = <<LoginStart(m)>>
    /\ \A m \in Pings : m.next = 1 /\ m.rest = <<>>
    /\ \A m \in Others :
          \/ m.version < 0 /\ m.next = 2 /\ m.packets = <<LoginStart(m)>>
          \/ m.next \notin {1, 2}
          \/ m.next = 2 /\ m.packets # <<>> /\ NoLogin(m.packets[1])
    \* the names of hosts in the tables have no zero
    /\ \A k \in Keys : Unmarked(k)
    /\ \A p \in Patterns : Unmarked(p.before) /\ Unmarked(p.after)
    /\ \A s \in Junk :    \* the length has no end, or is negative
          \/ \A i \in 1 .. Len(s) : i <= MaxVarint => More(s[i])
          \/ \E n \in 1 .. 2^(Width - 1) : IsStart(Digits(-n, 0), s)
    /\ Streams = {Wire(m) : m \in Messages} \cup Junk

Meaning == [s \in {Wire(m) : m \in Messages} |->
                CHOOSE m \in Messages : Wire(m) = s]

-----------------------------------------------------------------------------

IsLogin(s) == s \in DOMAIN Meaning /\ Meaning[s] \in Logins

\* The server hears what the client means: the packets the protocol has for
\* it, with the address and port of the route for those the client dialled and
\* the Forge suffix kept, then what the client says next.  A client that says
\* anything else is not heard at all.
Meant ==
    LET m == Meaning[stream]
    IN  IF ~IsLogin(stream) \/ route = None THEN <<>>
        ELSE Text(Opening(m, route.addr \o m.forge, route.port, 0), 0)
             \o Text(m.packets[1], 0) \o m.rest

Delivered == IsStart(served, Meant)

Request(p) == p = <<0>> \/ (Len(p) = 1 + PayloadSize /\ p[1] = 1)

\* How many of m's packets are requests, up to the first that is none.
Asked(m) ==
    CHOOSE n \in 0 .. Len(m.packets) :
        /\ \A i \in 1 .. n : Request(m.packets[i])
        /\ n = Len(m.packets) \/ ~Request(m.packets[n + 1])

Answer(p, json) == Text(IF p = <<0>> THEN <<0>> \o Text(json, 0) ELSE p, 0)

\* The answers to m's first requests, the motd being json[i] at the i-th.
Told(m, json) ==
    LET upto[n \in 0 .. Asked(m)] ==
            IF n = 0 THEN <<>> ELSE upto[n - 1] \o Answer(m.packets[n], json[n])
    IN  upto

\* A list of requests is answered one by one, in order, each ping with its own
\* payload; nothing is promised for the packets after one that is no request.
Answered ==
    LET m    == Meaning[stream]
        good == Asked(m)
    IN  (stream \in DOMAIN Meaning /\ m \in Pings) =>
            \E json \in [1 .. good -> Motds] :
                \/ IsStart(toClient, Told(m, json)[good])
                \/ IsStart(Told(m, json)[good], toClient) /\ good < Len(m.packets)

\* A login that is let in goes where the tables want it at that moment, whatever
\* was changed while it was read: to the player's own server, else to that of the
\* host the client dialled, else to the default.  Of a Forge client less is said:
\* its host is looked up with the suffix behind it (proxy.cpp:368) and not found,
\* so it may go to the default though the host has a server.
RoutedByTables ==
    [][(route' # route \/ (pc # "connect" /\ pc' = "connect")) =>
          LET m == Meaning[stream]
          IN  \/ route' \in Wanted(m.host, m.name)
              \/ m.forge # <<>> /\ OwnServer(m.name) = {} /\ route' = Default]_vars

=============================================================================
