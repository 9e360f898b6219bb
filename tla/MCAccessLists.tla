---------------------------- MODULE MCAccessLists ----------------------------
(***************************************************************************)
(* Instances of AccessLists for TLC.                                       *)
(***************************************************************************)
EXTENDS AccessLists

CONSTANTS n1, n2

\* Every command with one name or two.
MCLines == {<<n1>>, <<n2>>, <<n1, n2>>, <<n2, n1>>}

\* With one name: a command that is done with it, and one that names it again.
MCTwice == {<<n1>>, <<n1, n1>>}

=============================================================================
