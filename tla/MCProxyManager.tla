--------------------------- MODULE MCProxyManager ---------------------------
(***************************************************************************)
(* Instances of ProxyManager for TLC.                                      *)
(***************************************************************************)
EXTENDS ProxyManager, TLC

CONSTANTS default, lobby, any, lan, wan, p1, p2, none

\* Two services on one port of two addresses, where bind does not tell them
\* apart; one of them has no id.
MCRequests ==
    {[id |-> lobby, addr |-> lan, port |-> p2, max |-> 0],
     [id |-> none, addr |-> wan, port |-> p2, max |-> 0]}

\* And one that takes the port of the fallback once that is removed.
MCMoreRequests ==
    MCRequests \cup {[id |-> lobby, addr |-> lan, port |-> p1, max |-> 0]}

MCFallback == [id |-> default, addr |-> any, port |-> p1, max |-> 0]

Symmetry == Permutations(Callers)

=============================================================================
