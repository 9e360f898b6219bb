---------------------------- MODULE SharedSocket ----------------------------
(***************************************************************************)
(* What the copies of a TCPConnection promise together: its socket is open *)
(* as long as there is one of them, and the last takes it along.           *)
(***************************************************************************)
CONSTANTS Connections, Handles

VARIABLES
    holders,    \* the handles of each connection
    sock        \* its socket: new, open, closed

socketVars == <<holders, sock>>

Init ==
    /\ holders = [c \in Connections |-> {}]
    /\ sock = [c \in Connections |-> "new"]

Open(c, h) ==
    /\ sock[c] = "new"
    /\ sock' = [sock EXCEPT ![c] = "open"]
    /\ holders' = [holders EXCEPT ![c] = {h}]

\* A handle is made from another one, which stays or, when it is moved, goes.
Share(c, h) ==
    /\ holders[c] # {} /\ h \notin holders[c]
    /\ \E gone \in SUBSET holders[c] :
          /\ \A g1, g2 \in gone : g1 = g2
          /\ holders' = [holders EXCEPT ![c] = (@ \ gone) \cup {h}]
    /\ UNCHANGED sock

Release(c, h) ==
    /\ h \in holders[c]
    /\ holders' = [holders EXCEPT ![c] = @ \ {h}]
    /\ sock' = IF holders[c] = {h} THEN [sock EXCEPT ![c] = "closed"] ELSE sock

Next == \E c \in Connections, h \in Handles : Open(c, h) \/ Share(c, h) \/ Release(c, h)

Spec == Init /\ [][Next]_socketVars

=============================================================================
