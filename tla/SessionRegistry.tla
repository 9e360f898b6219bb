-------------------------- MODULE SessionRegistry --------------------------
(***************************************************************************)
(* What a Proxy promises the program around it about the players that are  *)
(* online: a name belongs to at most one session, a session keeps its name *)
(* until it leaves, and on_logout is called exactly when it leaves.  Only  *)
(* the destructor ends sessions without the callback.                      *)
(***************************************************************************)
CONSTANTS Sessions, Names, None

VARIABLES
    owner,    \* the session that holds each name
    loggedOut, \* the sessions whose on_logout has been called
    closed    \* the registry is gone

registryVars == <<owner, loggedOut, closed>>

Init ==
    /\ owner = [n \in Names |-> None]
    /\ loggedOut = {}
    /\ closed = FALSE

\* A session takes a free name, once in its life.
Join(s, n) ==
    /\ ~closed
    /\ owner[n] = None /\ s \notin loggedOut
    /\ \A m \in Names : owner[m] # s
    /\ owner' = [owner EXCEPT ![n] = s]
    /\ UNCHANGED <<loggedOut, closed>>

\* The name becomes free and the callback runs in the same step.
Leave(n) ==
    /\ ~closed
    /\ owner[n] # None
    /\ owner' = [owner EXCEPT ![n] = None]
    /\ loggedOut' = loggedOut \cup {owner[n]}
    /\ UNCHANGED closed

Close ==
    /\ ~closed
    /\ owner' = [n \in Names |-> None]
    /\ closed' = TRUE
    /\ UNCHANGED loggedOut

Next ==
    \/ \E s \in Sessions, n \in Names : Join(s, n)
    \/ \E n \in Names : Leave(n)
    \/ Close

Spec == Init /\ [][Next]_registryVars
=============================================================================
