---------------------------- MODULE MCLoginPath ----------------------------
(***************************************************************************)
(* Instances of Clients for TLC.  6 ends the domain, 5 and 7 are hosts in  *)
(* it, 1 and 2 are names.                                                  *)
(***************************************************************************)
EXTENDS Clients

Client == [version |-> 1, next |-> 2, host |-> <<3>>, forge |-> <<>>, pad |-> 0,
           name |-> <<1>>, uuid |-> <<>>, packets |-> <<>>, rest |-> <<>>]

LogsIn(m) == [m EXCEPT !.packets = <<LoginStart(m)>>]

MCLogins ==
    {LogsIn(m) : m \in
        {[Client EXCEPT !.rest = <<0, 7, 2>>],
         [Client EXCEPT !.host = <<5, 6>>, !.pad = 1],
         [Client EXCEPT !.host = <<5, 6>>, !.name = <<2>>],
         [Client EXCEPT !.host = <<7, 6>>, !.version = 15, !.rest = <<4>>],
         [Client EXCEPT !.host = <<5, 6>>, !.forge = <<0, 6>>, !.uuid = <<7>>]}}

MCPings ==
    {[Client EXCEPT !.next = 1, !.packets = p, !.pad = q] :
        p \in {<<<<0>>, <<1, 5>>, <<0>>>>, <<<<1, 2>>, <<3>>, <<0>>>>, <<<<>>>>, <<<<1>>>>},
        q \in {0, 1}}

\* A negative version, an unknown state, a packet that is no login.
MCOthers ==
    {LogsIn([Client EXCEPT !.version = -3]), LogsIn([Client EXCEPT !.next = 3]),
     [Client EXCEPT !.packets = <<<<1, 1, 1>>>>],
     [Client EXCEPT !.packets = <<<<0, 2, 1>>>>]}

\* A length that does not end, and one that is negative.
MCJunk    == {<<4, 4, 4>>, Digits(-1, 0) \o <<0>>}
MCStreams == {Wire(m) : m \in MCLogins \cup MCPings \cup MCOthers} \cup MCJunk

MCMotds    == {<<7>>, <<>>}
MCReason   == <<5>>
MCReply    == <<4, 2, 1>>
MCDefault  == [addr |-> <<7, 7>>, port |-> <<1, 1>>]
MCTargets  == {MCDefault, [addr |-> <<5>>, port |-> <<2, 6>>]}
MCWild     == [before |-> <<>>, star |-> TRUE,  after |-> <<6>>]
MCExact    == [before |-> <<5>>, star |-> FALSE, after |-> <<6>>]
MCBroken   == [before |-> <<4>>, star |-> FALSE, after |-> <<>>]
MCBrokens  == {MCBroken}
MCPatterns == {MCWild, MCExact, MCBroken}
MCKeys     == {<<>>, <<5>>}
MCNames    == {<<1>>}
MCHosts    == {<<5, 6>>, <<7, 6>>, <<3>>}

\* A session that has its route does not look at the tables any more.
MCView == IF route = None THEN vars ELSE session

=============================================================================
