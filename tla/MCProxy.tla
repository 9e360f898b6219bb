------------------------------ MODULE MCProxy ------------------------------
(***************************************************************************)
(* Proxy on small instances, and statements of the documentation that the  *)
(* code does not keep.  Each of these is the property of a run of its own, *)
(* which ends in a counterexample.                                         *)
(***************************************************************************)
EXTENDS Proxy, TLC

Symmetry == Permutations(Conns) \cup Permutations(Names)

\* proxy.h:268, README.md:167: MaxPlayer is the largest number of players
\* online.  The limit is set before the first client comes.
OnlineWithinLimit == maxPlayer >= 0 => Cardinality(Online) <= maxPlayer

LimitBeforeClients ==
    maxPlayer' # maxPlayer => \A c \in Conns : pc[c] = "none"

LimitFirstSpec == Init /\ [][Next /\ LimitBeforeClients]_vars

\* proxy.h:227: the destructor waits until all connections are closed.
DestroyedAfterClosed ==
    life = "destroyed" => \A c \in Conns : pc[c] \in {"none", "done"}

=============================================================================
