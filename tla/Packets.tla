------------------------------ MODULE Packets ------------------------------
(***************************************************************************)
(* The packets of src/datapackage.cpp and the VarInt and String of         *)
(* src/rbslib/DataType.cpp, as functions of sequences of bytes.            *)
(*                                                                         *)
(* The sizes are constants, so that small bytes and short numbers do what  *)
(* the real ones do: a byte carries Group = 7 bits and a bit for "more",   *)
(* the loops stop after MaxVarint = 10 bytes, an Integer has Width = 64    *)
(* bits, an int has IntWidth = 32, and a ping has PayloadSize = 8 bytes.   *)
(***************************************************************************)
EXTENDS Integers, Sequences

CONSTANTS
    Group, MaxVarint, Width, IntWidth, PayloadSize,
    Reason    \* the text of a LoginFailure

Byte == 0 .. 2^(Group + 1) - 1

ASSUME PacketsAssumption ==
    /\ {Group, MaxVarint, Width, IntWidth, PayloadSize} \subseteq Nat \ {0}
    /\ Width - 1 <= Group * MaxVarint    \* what ToVarint writes can be read
    /\ Reason \in Seq(Byte)

More(b) == b >= 2^Group

Take(s, n) == SubSeq(s, 1, IF n < Len(s) THEN n ELSE Len(s))
Drop(s, n) == SubSeq(s, n + 1, Len(s))

Signed(v, w) ==
    LET u == v % 2^w IN IF u < 2^(w - 1) THEN u ELSE u - 2^w

(***************************************************************************)
(* VarInts                                                                 *)
(***************************************************************************)

\* What the groups of s add up to; bits past Width are shifted out.
Value(s) ==
    LET sum[i \in 0 .. Len(s)] ==
            IF i = 0 THEN 0
            ELSE sum[i - 1] + (s[i] % 2^Group) * 2^(Group * (i - 1))
    IN  Signed(sum[Len(s)], Width)

\* How many bytes the loop takes from s: it stops at a last byte, at the end
\* of s or after MaxVarint bytes.
Taken(s) ==
    CHOOSE n \in 0 .. MaxVarint :
        /\ n <= Len(s)
        /\ \A i \in 1 .. n - 1 : More(s[i])
        /\ \/ n = Len(s) \/ n = MaxVarint
           \/ n > 0 /\ ~More(s[n])

\* An Integer that could not be read keeps its value, 0 when it is new.
ReadVarint(s) ==
    LET n  == Taken(s)
        ok == n > 0 /\ ~More(s[n])
    IN  [ok |-> ok, value |-> IF ok THEN Value(SubSeq(s, 1, n)) ELSE 0,
         rest |-> Drop(s, n)]

\* Of a number that is not negative; ToVarint throws for the others.
ToVarint(v) ==
    LET enc[n \in Nat] ==
            IF n < 2^Group THEN <<n>>
            ELSE <<2^Group + (n % 2^Group)>> \o enc[n \div 2^Group]
    IN  enc[v]

(***************************************************************************)
(* Length and contents: a String, and every packet                         *)
(***************************************************************************)

Frame(body) == ToVarint(Len(body)) \o body

\* A negative length does not allocate, a short text throws.
ReadString(s) ==
    LET n    == ReadVarint(s)
        ok   == n.ok /\ n.value \in 0 .. Len(n.rest)
        size == IF ok THEN n.value ELSE 0
    IN  [ok |-> ok, value |-> Take(n.rest, size), rest |-> Drop(n.rest, size)]

(***************************************************************************)
(* Packets.  Whether a VarInt was read is asked only for lengths: a missing*)
(* id or version is 0.                                                     *)
(***************************************************************************)

ParseHandshake(body) ==
    LET id   == ReadVarint(body)
        ver  == ReadVarint(id.rest)
        addr == ReadString(ver.rest)
        next == ReadVarint(Drop(addr.rest, 2))
    IN  [ok |-> /\ id.value = 0 /\ addr.ok /\ Len(addr.rest) >= 2
                /\ next.value \in {1, 2},
         protocol_version |-> ver.value, server_address |-> addr.value,
         server_port |-> Take(addr.rest, 2), next_state |-> next.value]

HandshakeBuffer(h) ==
    Frame(ToVarint(0) \o ToVarint(h.protocol_version) \o Frame(h.server_address)
          \o h.server_port \o ToVarint(h.next_state))

ParseLogin(body) ==
    LET id   == ReadVarint(body)
        name == ReadString(id.rest)
    IN  [ok |-> id.value = 0 /\ name.ok, user_name |-> name.value]

\* GetID reads on behind a packet whose id does not end (an empty one): the
\* buffer has ten bytes more than were ever written, the choice is theirs.
\* An id that is too long leaves in the Integer what was read before it.
GetID(body) ==
    {LET id == ReadVarint(body \o <<b>>)
     IN  Signed(IF id.ok THEN id.value ELSE Len(body), IntWidth)
        : b \in 0 .. 2^Group - 1}

\* The id of a new PingDataPack is 1.
ParsePing(body) ==
    LET id == ReadVarint(body)
    IN  [ok |-> (id.ok => id.value = 1) /\ Len(id.rest) >= PayloadSize,
         payload |-> Take(id.rest, PayloadSize)]

StatusResponse(json) == Frame(ToVarint(0) \o Frame(json))
\* Mutant: the id of the status response.
Pong_Id0(payload) == Frame(ToVarint(0) \o payload)
Pong(payload)  == Frame(ToVarint(1) \o payload)
LoginFailure   == Frame(ToVarint(0) \o Frame(Reason))

=============================================================================
