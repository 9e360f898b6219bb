---------------------------- MODULE ProxyProofs ----------------------------
(***************************************************************************)
(* Theorems about Proxy for every value of its constants: any number of    *)
(* connections, names, callers and io threads.                             *)
(***************************************************************************)
EXTENDS Proxy, SequenceTheorems, TLAPS

-----------------------------------------------------------------------------
(* Facts about the helpers, so that the proofs of the steps need not open  *)
(* their definitions.                                                      *)

SockStates == {"none", "open", "shut", "closed"}
SockType   == [Ref -> SockStates]

\* A socket is the client's or the server's of one connection.
LEMMA RefFacts ==
  /\ \A c \in Conns : /\ Client(c) \in Ref /\ Server(c) \in Ref
                      /\ Both(c) \subseteq Ref
  /\ \A c, d \in Conns : /\ Client(c) # Server(d)
                         /\ Client(c) = Client(d) => c = d
                         /\ Server(c) = Server(d) => c = d
  /\ \A r \in Ref : \E c \in Conns : r = Client(c) \/ r = Server(c)
BY DEF Ref, Side, Client, Server, Both

\* Shutting sockets down leaves each in one of its states.
LEMMA ShutDownType == sock \in SockType => \A S : ShutDown(S) \in SockType
BY DEF ShutDown, SockType, SockStates

\* Destroying sockets leaves each in one of its states.
LEMMA DestroyedType == sock \in SockType => \A S : Destroyed(S) \in SockType
BY DEF Destroyed, SockType, SockStates

\* Opening a socket leaves each in one of its states.
LEMMA OpenType ==
  sock \in SockType => \A r : [sock EXCEPT ![r] = "open"] \in SockType
BY DEF SockType, SockStates

\* A step of a coroutine leaves each at one of its labels.
LEMMA GotoType ==
  ASSUME pc \in [Conns -> PCs], NEW c \in Conns, NEW label \in PCs,
         Goto(c, label)
  PROVE  pc' \in [Conns -> PCs]
BY DEF Goto

\* A callback adds one of its kinds to the history of its connection.
LEMMA HappensType ==
  ASSUME events \in [Conns -> Seq(Events)], NEW c \in Conns,
         NEW e \in Events, Happens(c, e)
  PROVE  events' \in [Conns -> Seq(Events)]
<1>1. Append(events[c], e) \in Seq(Events)
  OBVIOUS
<1> QED
  BY <1>1 DEF Happens

\* The clean-up of a coroutine keeps what it touches in range.
LEMMA CleanUpType ==
  ASSUME TypeOK, NEW c \in Conns, CleanUp(c)
  PROVE  /\ pc' \in [Conns -> PCs] /\ connections' \subseteq Ref
         /\ sock' \in SockType /\ users' \in [Names -> Conns \cup {None}]
<1>1. "done" \in PCs
  BY DEF PCs
<1>2. sock' \in SockType
  BY DestroyedType DEF CleanUp, TypeOK, SockType, SockStates
<1> QED
  BY <1>1, <1>2, GotoType DEF CleanUp, TypeOK

-----------------------------------------------------------------------------
(* Type correctness. *)

\* Every step of HandleConnection keeps the variables in their types.
LEMMA TypeHandle ==
  ASSUME TypeOK, NEW c \in Conns, HandleConnection(c)
  PROVE  TypeOK'
<1> USE DEF SockType, SockStates, TypeOK, serverVars, loginVars
<1>1. ASSUME NEW from, NEW to \in PCs, Advance(c, from, to) PROVE TypeOK'
  BY <1>1, GotoType DEF Advance
<1>2. CASE Handshake(c) \/ StatusRequest(c) \/ PingRequest(c)
           \/ StatusResponse(c) \/ ReplyWritten(c) \/ LoginGate(c)
           \/ RegisterTaken(c) \/ Greet(c) \/ GreetFails(c)
           \/ ProxyEndSkipped(c)
  <2>1. \E from \in PCs, to \in PCs : Advance(c, from, to)
    BY <1>2, Zenon DEF Handshake, StatusRequest, PingRequest, StatusResponse,
       ReplyWritten, LoginGate, RegisterTaken, Greet, GreetFails,
       ProxyEndSkipped, PCs, SessionPCs, WaitingPCs
  <2> QED
    BY <2>1, <1>1
<1>3. CASE EnterPool(c)
  BY <1>3, GotoType, RefFacts DEF EnterPool, PCs, WaitingPCs
<1>4. CASE EnterPoolFails(c)
  BY <1>4, GotoType, DestroyedType DEF EnterPoolFails, PCs
<1>5. ASSUME NEW n \in Names, NEW u \in UUIDs, LoginStart(c, n, u)
      PROVE TypeOK'
  BY <1>5, GotoType DEF LoginStart, PCs
<1>6. CASE LoginAccepted(c)
  BY <1>6, GotoType, HappensType DEF LoginAccepted, PCs, WaitingPCs, Events
<1>7. CASE LoginDenied(c)
  BY <1>7, GotoType, HappensType DEF LoginDenied, PCs, WaitingPCs, Events
<1>8. CASE LoginThrows(c)
  BY <1>8, GotoType, HappensType, DestroyedType DEF LoginThrows, PCs, Events
<1>9. CASE ConnectOk(c)
  BY <1>9, GotoType, OpenType DEF ConnectOk, PCs
<1>10. CASE Register(c)
  BY <1>10, GotoType, RefFacts DEF Register, PCs, SessionPCs
<1>11. CASE Refuse(c)
  BY <1>11, GotoType, HappensType, DestroyedType DEF Refuse, PCs, Events
<1>12. CASE IoThrows(c) \/ Leave(c)
  BY <1>12, GotoType, DestroyedType DEF IoThrows, Leave, PCs
<1>13. CASE ProxyStart(c)
  BY <1>13, GotoType, HappensType, RefFacts
     DEF ProxyStart, PCs, SessionPCs, Events
<1>14. CASE ProxyStartThrows(c)
  <2>1. events[c] \o <<"on_proxy_start", "on_logout">> \in Seq(Events)
    BY DEF Events
  <2> QED
    BY <1>14, <2>1, CleanUpType DEF ProxyStartThrows
<1>15. CASE ProxyEnd(c)
  BY <1>15, GotoType, HappensType DEF ProxyEnd, PCs, SessionPCs, Events
<1>16. CASE CloseSession(c)
  BY <1>16, CleanUpType, HappensType DEF CloseSession, Events
<1> QED
  BY <1>2, <1>3, <1>4, <1>5, <1>6, <1>7, <1>8, <1>9, <1>10, <1>11, <1>12,
     <1>13, <1>14, <1>15, <1>16 DEF HandleConnection

\* Every step of a Proxy keeps the variables in their types.
LEMMA TypeStep == TypeOK /\ [Next]_vars => TypeOK'
<1> SUFFICES ASSUME TypeOK, [Next]_vars PROVE TypeOK'
  OBVIOUS
<1> USE DEF TypeOK, SockType, SockStates, serverVars, loginVars, connVars
<1>1. CASE Start \/ StartFails \/ AcceptLoopEnds \/ RunOutOfWork
  BY <1>1 DEF Start, StartFails, AcceptLoopEnds, RunOutOfWork
<1>2. ASSUME NEW c \in Conns, Accept(c) PROVE TypeOK'
  BY <1>2, GotoType, OpenType DEF Accept, PCs
<1>3. ASSUME NEW c \in Conns, HandleConnection(c) PROVE TypeOK'
  BY <1>3, TypeHandle
<1>4. ASSUME NEW r \in Ref, ForwardData(r) \/ PeerCloses(r) PROVE TypeOK'
  <2>1. CASE Receive(r) \/ Written(r)
    BY <2>1 DEF Receive, Written
  <2>2. CASE ForwardEnds(r)
    BY <2>2, ShutDownType DEF ForwardEnds
  <2>3. CASE PeerCloses(r)
    BY <2>3, ShutDownType DEF PeerCloses
  <2> QED
    BY <1>4, <2>1, <2>2, <2>3 DEF ForwardData
<1>5. ASSUME NEW k \in Callers, Manage(k) PROVE TypeOK'
  <2>1. CASE Post(k)
    BY <1>5, <2>1 DEF Post
  <2>2. CASE KickByUsername(k)
    BY <1>5, <2>2, ShutDownType DEF KickByUsername, Serves
  <2>3. CASE KickByUUID(k)
    <3>1. sock' = sock \/ \E S : sock' = ShutDown(S)
      BY <2>3, Zenon DEF KickByUUID
    <3>2. sock' \in SockType
      BY <3>1, ShutDownType
    <3> QED
      BY <2>3, <3>2 DEF KickByUUID, Serves
  <2>4. CASE GetUsersInfo(k)
    BY <1>5, <2>4 DEF GetUsersInfo, Serves
  <2> QED
    BY <1>5, <2>1, <2>2, <2>3, <2>4 DEF Manage
<1>6. ASSUME NEW m \in Limits, SetMaxPlayer(m) PROVE TypeOK'
  BY <1>6 DEF SetMaxPlayer
<1>7. CASE DtorBegin \/ DtorPost \/ DtorCloseAll \/ DtorStop
  BY <1>7, ShutDownType DEF DtorBegin, DtorPost, DtorCloseAll, DtorStop
<1>8. CASE DtorDestroy
  <2>1. sock' \in SockType
    BY <1>8, DestroyedType DEF DtorDestroy
  <2>2. pc' \in [Conns -> PCs]
    BY <1>8 DEF DtorDestroy, PCs
  <2> QED
    BY <1>8, <2>1, <2>2 DEF DtorDestroy
<1>9. CASE UNCHANGED vars
  BY <1>9 DEF vars
<1> QED
  BY <1>1, <1>2, <1>3, <1>4, <1>5, <1>6, <1>7, <1>8, <1>9
     DEF Next, Destructor

\* The variables of a Proxy always have their types.
THEOREM TypeCorrect == Spec => []TypeOK
<1>1. Init => TypeOK
  BY ProxyAssumption DEF Init, TypeOK, PCs, Ref, Side
<1> QED
  BY <1>1, TypeStep, PTL DEF Spec


-----------------------------------------------------------------------------
(* The inductive invariant.                                                *)

\* The steps that change no coroutine of HandleConnection and destroy no
\* socket.
Quiet ==
  \/ Start \/ StartFails \/ AcceptLoopEnds \/ RunOutOfWork
  \/ \E r \in Ref : ForwardData(r) \/ PeerCloses(r)
  \/ \E k \in Callers : Manage(k)
  \/ \E m \in Limits : SetMaxPlayer(m)
  \/ DtorBegin \/ DtorPost \/ DtorCloseAll \/ DtorStop
  \/ UNCHANGED vars

\* The steps that only move a coroutine on, with the points they connect.
Arcs == {<<"handshake", "status">>, <<"handshake", "gate">>,
         <<"status", "query">>, <<"status", "replying">>,
         <<"query", "replying">>, <<"replying", "status">>,
         <<"gate", "refusing">>, <<"gate", "loginStart">>,
         <<"register", "refusing">>, <<"greeting", "starting">>,
         <<"greeting", "closing">>, <<"forwarding", "closing">>}

Plain(c) == \E a \in Arcs : Advance(c, a[1], a[2])

\* The steps of HandleConnection that do more.
Effect(c) ==
  \/ EnterPool(c) \/ EnterPoolFails(c)
  \/ \E n \in Names, u \in UUIDs : LoginStart(c, n, u)
  \/ LoginAccepted(c) \/ LoginDenied(c) \/ LoginThrows(c)
  \/ ConnectOk(c) \/ Register(c) \/ Refuse(c) \/ IoThrows(c) \/ Leave(c)
  \/ ProxyStart(c) \/ ProxyStartThrows(c) \/ ProxyEnd(c) \/ CloseSession(c)

\* To advance along an arc is a plain step.
LEMMA PlainArc ==
  ASSUME NEW c, NEW a \in Arcs, Advance(c, a[1], a[2]) PROVE Plain(c)
BY DEF Plain

\* A step of a coroutine is a plain one or one with an effect.
LEMMA HandleCases ==
  ASSUME NEW c, HandleConnection(c) PROVE Plain(c) \/ Effect(c)
<1> DEFINE P(from, to) == Advance(c, from, to) => Plain(c)
<1>1. \A a \in Arcs : P(a[1], a[2])
  BY PlainArc
<1>2. /\ P("handshake", "status") /\ P("handshake", "gate")
      /\ P("status", "query") /\ P("status", "replying")
      /\ P("query", "replying") /\ P("replying", "status")
      /\ P("gate", "refusing") /\ P("gate", "loginStart")
      /\ P("register", "refusing") /\ P("greeting", "starting")
      /\ P("greeting", "closing") /\ P("forwarding", "closing")
  <2> HIDE DEF P
  <2> QED
    BY <1>1 DEF Arcs
<1>3. CASE Handshake(c) \/ StatusRequest(c) \/ PingRequest(c)
           \/ StatusResponse(c) \/ ReplyWritten(c) \/ LoginGate(c)
           \/ RegisterTaken(c) \/ Greet(c) \/ GreetFails(c)
           \/ ProxyEndSkipped(c)
  BY <1>2, <1>3 DEF Handshake, StatusRequest, PingRequest, StatusResponse,
     ReplyWritten, LoginGate, RegisterTaken, Greet, GreetFails,
     ProxyEndSkipped
<1> QED
  BY <1>3, Zenon DEF HandleConnection, Effect

\* Every step is of one of the five kinds the proofs below go through.
LEMMA NextCases ==
  ASSUME [Next]_vars
  PROVE  \/ Quiet \/ DtorDestroy
         \/ \E c \in Conns : Accept(c) \/ Plain(c) \/ Effect(c)
BY HandleCases, Zenon DEF Next, Destructor, Quiet

\* A socket that is shut down is as alive as before: it is not destroyed.
LEMMA ShutDownLive ==
  ASSUME NEW S, NEW r \in Ref, sock' = ShutDown(S) PROVE Live(r) = Live(r)'
BY DEF ShutDown, Live

\* A quiet step leaves what the invariant speaks of as it is.
LEMMA QuietFacts ==
  ASSUME Quiet
  PROVE  /\ UNCHANGED <<pc, name, users, connections, events>>
         /\ \A r \in Ref : Live(r) = Live(r)'
<1> USE DEF serverVars, loginVars, connVars
<1>1. CASE Start \/ StartFails \/ AcceptLoopEnds \/ RunOutOfWork
  BY <1>1 DEF Start, StartFails, AcceptLoopEnds, RunOutOfWork, Live
<1>2. ASSUME NEW r \in Ref, ForwardData(r) \/ PeerCloses(r)
      PROVE  UNCHANGED <<pc, name, users, connections, events>>
             /\ \A q \in Ref : Live(q) = Live(q)'
  <2>1. CASE Receive(r) \/ Written(r)
    BY <2>1 DEF Receive, Written, Live
  <2>2. CASE ForwardEnds(r)
    BY <2>2, ShutDownLive DEF ForwardEnds
  <2>3. CASE PeerCloses(r)
    BY <2>3, ShutDownLive DEF PeerCloses
  <2> QED
    BY <1>2, <2>1, <2>2, <2>3 DEF ForwardData
<1>3. ASSUME NEW k \in Callers, Manage(k)
      PROVE  UNCHANGED <<pc, name, users, connections, events>>
             /\ \A q \in Ref : Live(q) = Live(q)'
  <2>1. CASE Post(k)
    BY <2>1 DEF Post, Live
  <2>2. CASE KickByUsername(k) \/ KickByUUID(k) \/ GetUsersInfo(k)
    <3>1. UNCHANGED <<pc, name, users, connections, events>>
      BY <2>2, Zenon DEF KickByUsername, KickByUUID, GetUsersInfo, Serves
    <3>2. sock' = sock \/ \E S : sock' = ShutDown(S)
      BY <2>2, Zenon DEF KickByUsername, KickByUUID, GetUsersInfo
    <3> QED
      BY <3>1, <3>2, ShutDownLive DEF Live
  <2> QED
    BY <1>3, <2>1, <2>2 DEF Manage
<1>4. ASSUME NEW m \in Limits, SetMaxPlayer(m)
      PROVE  UNCHANGED <<pc, name, users, connections, events>>
             /\ \A q \in Ref : Live(q) = Live(q)'
  BY <1>4 DEF SetMaxPlayer, Live
<1>5. CASE DtorBegin \/ DtorPost \/ DtorStop
  BY <1>5 DEF DtorBegin, DtorPost, DtorStop, Live
<1>6. CASE DtorCloseAll
  BY <1>6, ShutDownLive DEF DtorCloseAll
<1>7. CASE UNCHANGED vars
  BY <1>7 DEF vars, Live
<1> QED
  BY <1>1, <1>2, <1>3, <1>4, <1>5, <1>6, <1>7 DEF Quiet

\* What happens at one point of HandleConnection, for every point.
LEMMA HistoryFacts ==
  /\ \A l \in {"none", "spawned", "handshake", "status", "query", "replying",
               "gate", "loginStart", "loginCall"} : HistoryAt(l) = {<<>>}
  /\ \A l \in {"connecting", "register", "greeting", "starting"} :
        HistoryAt(l) = {<<"on_login">>}
  /\ HistoryAt("forwarding") = {<<"on_login", "on_proxy_start">>}
  /\ HistoryAt("closing") =
        {<<"on_login">>, <<"on_login", "on_proxy_start">>,
         <<"on_login", "on_proxy_start", "on_proxy_end">>}
  /\ HistoryAt("refusing") =
        {<<>>, <<"on_login_denies">>, <<"on_login">>}
  /\ HistoryAt("leaving") =
        {<<>>, <<"on_login_denies">>, <<"on_login">>,
         <<"login_failure">>, <<"on_login_denies", "login_failure">>,
         <<"on_login", "login_failure">>}
  /\ HistoryAt("done") = Histories
BY DEF HistoryAt

\* The histories are short sequences; SMT does not compute Append on them.
LEMMA Append0 == ASSUME NEW e PROVE Append(<<>>, e) = <<e>>
OBVIOUS

\* Histories are short sequences; appending to one callback, spelled out.
LEMMA Append1 ==
  ASSUME NEW S, NEW a \in S, NEW e \in S PROVE Append(<<a>>, e) = <<a, e>>
<1> DEFINE s == Append(<<a>>, e)
           t == <<a, e>>
<1>1. s \in Seq(S) /\ t \in Seq(S) /\ Len(s) = 2 /\ Len(t) = 2
  OBVIOUS
<1>2. s[1] = a /\ s[2] = e /\ t[1] = a /\ t[2] = e
  OBVIOUS
<1>3. \A i \in 1 .. 2 : s[i] = t[i]
  BY <1>2
<1> QED
  BY <1>1, <1>3, SeqEqual

\* Appending to two callbacks.
LEMMA Append2 ==
  ASSUME NEW S, NEW a \in S, NEW b \in S, NEW e \in S
  PROVE  Append(<<a, b>>, e) = <<a, b, e>>
<1> DEFINE s == Append(<<a, b>>, e)
           t == <<a, b, e>>
<1>1. s \in Seq(S) /\ t \in Seq(S) /\ Len(s) = 3 /\ Len(t) = 3
  OBVIOUS
<1>2. /\ s[1] = a /\ s[2] = b /\ s[3] = e
      /\ t[1] = a /\ t[2] = b /\ t[3] = e
  OBVIOUS
<1>3. \A i \in 1 .. 3 : s[i] = t[i]
  BY <1>2
<1> QED
  BY <1>1, <1>3, SeqEqual

\* Appending to three callbacks.
LEMMA Append3 ==
  ASSUME NEW S, NEW a \in S, NEW b \in S, NEW d \in S, NEW e \in S
  PROVE  Append(<<a, b, d>>, e) = <<a, b, d, e>>
<1> DEFINE s == Append(<<a, b, d>>, e)
           t == <<a, b, d, e>>
<1>1. s \in Seq(S) /\ t \in Seq(S) /\ Len(s) = 4 /\ Len(t) = 4
  OBVIOUS
<1>2. /\ s[1] = a /\ s[2] = b /\ s[3] = d /\ s[4] = e
      /\ t[1] = a /\ t[2] = b /\ t[3] = d /\ t[4] = e
  OBVIOUS
<1>3. \A i \in 1 .. 4 : s[i] = t[i]
  BY <1>2
<1> QED
  BY <1>1, <1>3, SeqEqual

\* One callback put before two.
LEMMA Concat12 ==
  ASSUME NEW S, NEW a \in S, NEW b \in S, NEW e \in S
  PROVE  <<a>> \o <<b, e>> = <<a, b, e>>
<1> DEFINE s == <<a>> \o <<b, e>>
           t == <<a, b, e>>
<1>1. s \in Seq(S) /\ t \in Seq(S) /\ Len(s) = 3 /\ Len(t) = 3
  OBVIOUS
<1>2. /\ s[1] = a /\ s[2] = b /\ s[3] = e
      /\ t[1] = a /\ t[2] = b /\ t[3] = e
  OBVIOUS
<1>3. \A i \in 1 .. 3 : s[i] = t[i]
  BY <1>2
<1> QED
  BY <1>1, <1>3, SeqEqual

\* Where a plain step leads: what a label says of its coroutine's session,
\* name and history is kept.
LEMMA ArcFacts ==
  \A a \in Arcs :
    /\ a[1] \in PooledPCs /\ a[2] \in PooledPCs
    /\ a[1] \in SessionPCs <=> a[2] \in SessionPCs
    /\ a[2] \in NamedPCs => a[1] \in NamedPCs
    /\ a[2] \in SessionPCs \cup {"register"}
          => a[1] \in SessionPCs \cup {"register"}
    /\ HistoryAt(a[1]) \subseteq HistoryAt(a[2])
<1>1. \A a \in Arcs : HistoryAt(a[1]) \subseteq HistoryAt(a[2])
  BY HistoryFacts DEF Arcs
<1> QED
  BY <1>1 DEF Arcs, PooledPCs, FramePCs, PCs, SessionPCs, WaitingPCs, NamedPCs

\* While a coroutine runs, the object is not destroyed.
LEMMA RunningAlive ==
  IInv /\ Running => life # "destroyed" /\ \A c \in Conns : pc[c] # "abandoned"
BY DEF IInv, LifeInv, Running

\* A plain step keeps every part of the invariant.
LEMMA PlainStep ==
  ASSUME IInv, NEW c \in Conns, Plain(c)
  PROVE  UsersInv' /\ PoolInv' /\ SockInv' /\ EventsInv' /\ LifeInv'
<1> PICK a \in Arcs : Advance(c, a[1], a[2])
  BY DEF Plain
<1>1. /\ pc[c] = a[1] /\ pc' = [pc EXCEPT ![c] = a[2]] /\ Running
      /\ UNCHANGED <<life, io, name, sock, users, connections, events>>
  BY DEF Advance, Goto, serverVars, loginVars
<1>2. pc \in [Conns -> PCs] /\ users \in [Names -> Conns \cup {None}]
  BY DEF IInv, TypeOK
<1>3. UsersInv'
  BY <1>1, <1>2, ArcFacts DEF IInv, UsersInv
<1>4. PoolInv'
  BY <1>1, <1>2, ArcFacts DEF IInv, PoolInv
<1>5. SockInv'
  BY <1>1, <1>2, ArcFacts DEF IInv, SockInv, Live, PooledPCs
<1>6. EventsInv'
  <2>1. a[2] # "abandoned" /\ a[1] # "abandoned"
    BY ArcFacts DEF PooledPCs, FramePCs
  <2> QED
    BY <1>1, <1>2, <2>1, ArcFacts DEF IInv, EventsInv, LoggedOut
<1>7. LifeInv'
  <2>1. a[2] # "abandoned"
    BY ArcFacts DEF PooledPCs, FramePCs
  <2> QED
    BY <1>1, <1>2, <2>1, RunningAlive DEF IInv, LifeInv
<1> QED
  BY <1>3, <1>4, <1>5, <1>6, <1>7

\* A step that moves no coroutine and destroys no socket keeps every part of
\* the invariant.
LEMMA QuietInv ==
  ASSUME IInv, Quiet
  PROVE  UsersInv' /\ PoolInv' /\ SockInv' /\ EventsInv' /\ LifeInv'
<1>1. UsersInv' /\ PoolInv'
  BY QuietFacts DEF IInv, UsersInv, PoolInv
<1>2. SockInv'
  BY QuietFacts, RefFacts DEF IInv, SockInv
<1>3. EventsInv'
  BY QuietFacts DEF IInv, EventsInv, LoggedOut
<1>4. LifeInv'
  <2>1. CASE UNCHANGED <<life, io>>
    BY <2>1, QuietFacts DEF IInv, LifeInv
  <2>2. CASE Start \/ StartFails \/ RunOutOfWork
    BY <2>2, QuietFacts DEF IInv, LifeInv, Start, StartFails, RunOutOfWork,
                            Running
  <2>3. CASE DtorBegin \/ DtorPost \/ DtorCloseAll \/ DtorStop
    BY <2>3, QuietFacts DEF IInv, LifeInv, DtorBegin, DtorPost, DtorCloseAll,
                            DtorStop
  <2>4. Quiet => \/ UNCHANGED <<life, io>>
                 \/ Start \/ StartFails \/ RunOutOfWork
                 \/ DtorBegin \/ DtorPost \/ DtorCloseAll \/ DtorStop
    BY Zenon DEF Quiet, AcceptLoopEnds, ForwardData, Receive, Written,
       ForwardEnds, PeerCloses, Manage, Post, KickByUsername, KickByUUID,
       GetUsersInfo, Serves, SetMaxPlayer, serverVars, vars
  <2> QED
    BY <2>1, <2>2, <2>3, <2>4
<1> QED
  BY <1>1, <1>2, <1>3, <1>4

\* A coroutine that is outside a session moves to a point outside a session.
LEMMA OutsideUsers ==
  ASSUME IInv, NEW c \in Conns, NEW to \in PCs, Goto(c, to),
         UNCHANGED <<users, name>>,
         pc[c] \notin SessionPCs, to \notin SessionPCs,
         to \in NamedPCs => pc[c] \in NamedPCs
  PROVE  UsersInv'
BY DEF IInv, TypeOK, UsersInv, Goto

\* Entering the map, and a session that moves on.
LEMMA InsideUsers ==
  ASSUME IInv, NEW c \in Conns, NEW to \in SessionPCs, Goto(c, to),
         UNCHANGED name,
         \/ pc[c] \in SessionPCs /\ UNCHANGED users
         \/ /\ pc[c] = "register" /\ users[name[c]] = None
            /\ users' = [users EXCEPT ![name[c]] = c]
  PROVE  UsersInv'
<1> USE DEF IInv, TypeOK, UsersInv, Goto, NamedPCs
<1>1. CASE pc[c] \in SessionPCs /\ UNCHANGED users
  BY <1>1
<1>2. CASE /\ pc[c] = "register" /\ users[name[c]] = None
           /\ users' = [users EXCEPT ![name[c]] = c]
  <2>1. name[c] \in Names /\ "register" \notin SessionPCs
    BY <1>2 DEF SessionPCs
  <2>2. \A d \in Conns : pc[d] \in SessionPCs => name[d] # name[c]
    BY <1>2, ProxyAssumption DEF ProxyAssumption
  <2>3. \A n \in Names : users'[n] # None =>
           name'[users'[n]] = n /\ pc'[users'[n]] \in SessionPCs
    BY <1>2, <2>1
  <2>4. \A d \in Conns : pc'[d] \in SessionPCs => users'[name'[d]] = d
    BY <1>2, <2>1, <2>2
  <2>5. \A d \in Conns : pc'[d] \in NamedPCs => name'[d] \in Names
    BY <1>2, <2>1
  <2> QED
    BY <2>3, <2>4, <2>5
<1> QED
  BY <1>1, <1>2

\* The clean-up of a session leaves no trace of it.
LEMMA CleanUpInv ==
  ASSUME IInv, NEW c \in Conns, pc[c] \in SessionPCs, CleanUp(c),
         UNCHANGED name
  PROVE  UsersInv' /\ PoolInv' /\ SockInv'
<1> USE DEF IInv, TypeOK, CleanUp, Goto
<1>1. /\ "done" \notin NamedPCs /\ "done" \notin FramePCs
      /\ "done" \notin PooledPCs /\ "done" \notin SessionPCs
      /\ "done" # "register" /\ SessionPCs \subseteq NamedPCs
  BY DEF NamedPCs, SessionPCs, FramePCs, PooledPCs
<1>2. name[c] \in Names /\ users[name[c]] = c
  BY <1>1 DEF UsersInv
<1>3. UsersInv'
  <2>1. \A n \in Names : n # name[c] => users[n] # c
    BY ProxyAssumption DEF UsersInv, ProxyAssumption
  <2>2. \A d \in Conns : pc[d] \in SessionPCs /\ d # c => name[d] # name[c]
    BY <1>2 DEF UsersInv
  <2>3. \A n \in Names : users'[n] # None =>
           name'[users'[n]] = n /\ pc'[users'[n]] \in SessionPCs
    BY <1>2, <2>1 DEF UsersInv
  <2>4. \A d \in Conns : pc'[d] \in SessionPCs => users'[name'[d]] = d
    BY <1>1, <1>2, <2>2 DEF UsersInv
  <2>5. \A d \in Conns : pc'[d] \in NamedPCs => name'[d] \in Names
    BY <1>1 DEF UsersInv
  <2> QED
    BY <2>3, <2>4, <2>5 DEF UsersInv
<1>4. PoolInv'
  BY <1>1, RefFacts DEF PoolInv, Both
<1>5. SockInv'
  <2>1. \A d \in Conns : d # c => Live(Client(d))' = Live(Client(d))
                                  /\ Live(Server(d))' = Live(Server(d))
    BY RefFacts DEF Live, Destroyed, Both
  <2> QED
    BY <1>1, <2>1 DEF SockInv
<1> QED
  BY <1>3, <1>4, <1>5

\* What a step of one coroutine has to show about this coroutine alone.
Others(c) ==
  /\ \A d \in Conns \ {c} :
        /\ Client(d) \in connections' <=> Client(d) \in connections
        /\ Server(d) \in connections' <=> Server(d) \in connections
        /\ Live(Client(d)) => Live(Client(d))'
        /\ Live(Server(d)) => Live(Server(d))'
        /\ events'[d] = events[d]
  /\ UNCHANGED <<life, io>>

Own(c, to) ==
  /\ Client(c) \in connections' <=> to \in PooledPCs
  /\ Server(c) \in connections' <=> to \in SessionPCs
  /\ to \in FramePCs => Live(Client(c))'
  /\ to \in SessionPCs \cup {"register"} => Live(Server(c))'
  /\ events'[c] \in HistoryAt(to)

\* A step that leaves the other connections alone keeps the invariant when it
\* does right by its own.
LEMMA OwnStep ==
  ASSUME IInv, Running, NEW c \in Conns, NEW to \in PCs \ {"abandoned"},
         Goto(c, to), Others(c), Own(c, to)
  PROVE  PoolInv' /\ SockInv' /\ EventsInv' /\ LifeInv'
<1>1. pc' = [pc EXCEPT ![c] = to] /\ pc \in [Conns -> PCs]
  BY DEF Goto, IInv, TypeOK
<1>2. PoolInv'
  BY <1>1 DEF IInv, PoolInv, Others, Own
<1>3. SockInv'
  <2>1. \A d \in Conns \ {c} :
            /\ pc'[d] \in FramePCs => Live(Client(d))'
            /\ pc'[d] \in SessionPCs \cup {"register"} => Live(Server(d))'
    BY <1>1 DEF IInv, SockInv, Others
  <2>2. /\ pc'[c] \in FramePCs => Live(Client(c))'
        /\ pc'[c] \in SessionPCs \cup {"register"} => Live(Server(c))'
    BY <1>1 DEF Own
  <2> QED
    BY <2>1, <2>2 DEF SockInv
<1>4. EventsInv'
  <2>1. ASSUME NEW d \in Conns \ {c}
        PROVE  pc'[d] # "abandoned" /\ events'[d] \in HistoryAt(pc'[d])
    BY <1>1, RunningAlive DEF IInv, EventsInv, Others
  <2>2. pc'[c] # "abandoned" /\ events'[c] \in HistoryAt(pc'[c])
    BY <1>1 DEF Own
  <2> QED
    BY <2>1, <2>2 DEF EventsInv
<1>5. LifeInv'
  BY <1>1, RunningAlive DEF IInv, LifeInv, Others
<1> QED
  BY <1>2, <1>3, <1>4, <1>5

\* The sockets of the other coroutines live on.
LEMMA OtherSockets ==
  ASSUME NEW c \in Conns, NEW d \in Conns \ {c},
         \/ UNCHANGED sock
         \/ sock' = Destroyed({Server(c)}) \/ sock' = Destroyed(Both(c))
         \/ sock \in SockType /\ sock' = [sock EXCEPT ![Server(c)] = "open"]
  PROVE  /\ Live(Client(d)) => Live(Client(d))'
         /\ Live(Server(d)) => Live(Server(d))'
BY RefFacts DEF Live, Destroyed, Both, SockType

\* What is added to or taken from the set of connections for c leaves the
\* sockets of d where they were.
LEMMA OtherItems ==
  ASSUME NEW c \in Conns, NEW d \in Conns \ {c}, NEW S \in SUBSET Both(c),
         connections' \in {connections, connections \cup S, connections \ S}
  PROVE  /\ Client(d) \in connections' <=> Client(d) \in connections
         /\ Server(d) \in connections' <=> Server(d) \in connections
BY RefFacts DEF Both

\* A step of c on its own sockets, items and callbacks concerns no other.
LEMMA OthersStep ==
  ASSUME TypeOK, NEW c \in Conns,
         UNCHANGED <<life, io>>,
         \/ UNCHANGED sock
         \/ sock' = Destroyed({Server(c)}) \/ sock' = Destroyed(Both(c))
         \/ sock' = [sock EXCEPT ![Server(c)] = "open"],
         NEW S \in SUBSET Both(c),
         connections' \in {connections, connections \cup S, connections \ S},
         \/ UNCHANGED events
         \/ \E h : events' = [events EXCEPT ![c] = h]
  PROVE  Others(c)
<1>1. sock \in SockType /\ events \in [Conns -> Seq(Events)]
  BY DEF TypeOK, SockType, SockStates
<1>2. \A d \in Conns \ {c} : events'[d] = events[d]
  BY <1>1
<1> QED
  BY <1>1, <1>2, OtherSockets, OtherItems DEF Others

\* Where each point of HandleConnection lies.
LEMMA PointFacts ==
  /\ PooledPCs = FramePCs \ {"spawned"}
  /\ NamedPCs = SessionPCs \cup {"loginCall", "connecting", "register"}
  /\ SessionPCs = {"greeting", "starting", "forwarding", "closing"}
  /\ FramePCs = {"spawned", "handshake", "status", "query", "replying",
                 "gate", "loginStart", "loginCall", "connecting", "register",
                 "refusing", "leaving"} \cup SessionPCs
  /\ PCs = FramePCs \cup {"none", "done", "abandoned"}
BY DEF PooledPCs, NamedPCs, SessionPCs, FramePCs, PCs, WaitingPCs

\* A coroutine leaves without having been in the map.
LEMMA GoneStep ==
  ASSUME IInv, Running, NEW c \in Conns, Goto(c, "done"),
         pc[c] \in FramePCs \ SessionPCs,
         UNCHANGED <<life, io, users, name>>,
         sock' = Destroyed(Both(c)),
         \/ connections' = connections \ {Client(c)}
         \/ pc[c] = "spawned" /\ UNCHANGED connections,
         \/ UNCHANGED events
         \/ \E h : events' = [events EXCEPT ![c] = h],
         events'[c] \in Histories
  PROVE  UsersInv' /\ PoolInv' /\ SockInv' /\ EventsInv' /\ LifeInv'
<1>1. UsersInv'
  BY OutsideUsers, PointFacts
<1>2. Others(c)
  <2>1. {Client(c)} \in SUBSET Both(c)
    BY DEF Both
  <2> QED
    BY <2>1, OthersStep DEF IInv
<1>3. Own(c, "done")
  <2>1. Client(c) \notin connections' /\ Server(c) \notin connections'
    BY PointFacts, RefFacts DEF IInv, PoolInv
  <2> QED
    BY <2>1, PointFacts, HistoryFacts DEF Own
<1>4. "done" \in PCs \ {"abandoned"}
  BY PointFacts
<1> QED
  BY <1>1, <1>2, <1>3, <1>4, OwnStep

\* The sockets of a coroutine itself.
LEMMA OwnSockets ==
  ASSUME TypeOK, NEW c \in Conns
  PROVE  /\ UNCHANGED sock => /\ Live(Client(c))' = Live(Client(c))
                              /\ Live(Server(c))' = Live(Server(c))
         /\ sock' = Destroyed({Server(c)}) =>
               Live(Client(c))' = Live(Client(c))
         /\ sock' = [sock EXCEPT ![Server(c)] = "open"] =>
               Live(Client(c))' = Live(Client(c)) /\ Live(Server(c))'
BY RefFacts DEF TypeOK, Live, Destroyed

\* The callbacks a coroutine has seen, one more appended.
LEMMA OwnEvent ==
  ASSUME TypeOK, NEW c \in Conns, NEW e, Happens(c, e)
  PROVE  /\ events'[c] = Append(events[c], e)
         /\ \E h : events' = [events EXCEPT ![c] = h]
BY DEF TypeOK, Happens

\* While the proxy runs, a connection's history is one its label allows.
LEMMA OwnHistory ==
  ASSUME IInv, Running, NEW c \in Conns PROVE events[c] \in HistoryAt(pc[c])
BY RunningAlive DEF IInv, EventsInv

\* The steps before a connection has a name.
LEMMA EarlyStep ==
  ASSUME IInv, NEW c \in Conns,
         \/ EnterPool(c) \/ EnterPoolFails(c)
         \/ \E n \in Names, u \in UUIDs : LoginStart(c, n, u)
  PROVE  UsersInv' /\ PoolInv' /\ SockInv' /\ EventsInv' /\ LifeInv'
<1> USE DEF serverVars, loginVars
<1>0. TypeOK
  BY DEF IInv
<1>1. CASE EnterPool(c)
  <2>1. /\ Goto(c, "handshake") /\ pc[c] = "spawned" /\ Running
        /\ connections' = connections \cup {Client(c)}
        /\ UNCHANGED <<life, io, name, sock, users, events>>
    BY <1>1 DEF EnterPool
  <2>2. UsersInv'
    BY <2>1, OutsideUsers, PointFacts
  <2>3. Others(c)
    <3>1. {Client(c)} \in SUBSET Both(c)
      BY DEF Both
    <3> QED
      BY <1>0, <2>1, <3>1, OthersStep
  <2>4. Own(c, "handshake")
    <3>1. Client(c) \in connections' /\ Server(c) \notin connections'
      BY <2>1, PointFacts, RefFacts DEF IInv, PoolInv
    <3>2. Live(Client(c))'
      BY <1>0, <2>1, OwnSockets, PointFacts DEF IInv, SockInv
    <3>3. events'[c] \in HistoryAt("handshake")
      BY <2>1, OwnHistory, HistoryFacts
    <3> QED
      BY <3>1, <3>2, <3>3, PointFacts DEF Own
  <2> QED
    BY <2>1, <2>2, <2>3, <2>4, OwnStep, PointFacts
<1>2. CASE EnterPoolFails(c)
  <2>1. /\ Goto(c, "done") /\ pc[c] = "spawned" /\ Running
        /\ sock' = Destroyed(Both(c))
        /\ UNCHANGED <<life, io, name, users, connections, events>>
    BY <1>2 DEF EnterPoolFails
  <2>2. events'[c] \in Histories
    BY <2>1, OwnHistory, HistoryFacts DEF Histories
  <2> QED
    BY <2>1, <2>2, GoneStep, PointFacts
<1>3. ASSUME NEW n \in Names, NEW u \in UUIDs, LoginStart(c, n, u)
      PROVE  UsersInv' /\ PoolInv' /\ SockInv' /\ EventsInv' /\ LifeInv'
  <2>1. /\ Goto(c, "loginCall") /\ pc[c] = "loginStart" /\ Running
        /\ name' = [name EXCEPT ![c] = n]
        /\ UNCHANGED <<life, io, sock, users, connections, events>>
    BY <1>3 DEF LoginStart
  <2>2. UsersInv'
    BY <2>1, PointFacts DEF IInv, TypeOK, UsersInv, Goto
  <2>3. Others(c)
    BY <1>0, <2>1, OthersStep
  <2>4. Own(c, "loginCall")
    <3>1. Client(c) \in connections' /\ Server(c) \notin connections'
      BY <2>1, PointFacts DEF IInv, PoolInv
    <3>2. Live(Client(c))'
      BY <1>0, <2>1, OwnSockets, PointFacts DEF IInv, SockInv
    <3>3. events'[c] \in HistoryAt("loginCall")
      BY <2>1, OwnHistory, HistoryFacts
    <3> QED
      BY <3>1, <3>2, <3>3, PointFacts DEF Own
  <2> QED
    BY <2>1, <2>2, <2>3, <2>4, OwnStep, PointFacts
<1> QED
  BY <1>1, <1>2, <1>3

\* on_login: it accepts, denies or throws.
LEMMA LoginStep ==
  ASSUME IInv, NEW c \in Conns,
         LoginAccepted(c) \/ LoginDenied(c) \/ LoginThrows(c)
  PROVE  UsersInv' /\ PoolInv' /\ SockInv' /\ EventsInv' /\ LifeInv'
<1> USE DEF serverVars, loginVars
<1>0. TypeOK
  BY DEF IInv
<1>1. /\ pc[c] = "loginCall" /\ Running
      /\ UNCHANGED <<life, io, name, users>>
  BY DEF LoginAccepted, LoginDenied, LoginThrows
<1>2. events[c] = <<>>
  BY <1>1, OwnHistory, HistoryFacts
<1>3. ASSUME NEW to \in {"connecting", "refusing"}, NEW e, Happens(c, e),
             Goto(c, to), UNCHANGED <<sock, connections>>,
             <<e>> \in HistoryAt(to)
      PROVE  UsersInv' /\ PoolInv' /\ SockInv' /\ EventsInv' /\ LifeInv'
  <2>1. UsersInv'
    BY <1>1, <1>3, OutsideUsers, PointFacts
  <2>2. Others(c)
    BY <1>0, <1>1, <1>3, OwnEvent, OthersStep
  <2>3. Own(c, to)
    <3>1. Client(c) \in connections' /\ Server(c) \notin connections'
      BY <1>1, <1>3, PointFacts DEF IInv, PoolInv
    <3>2. Live(Client(c))'
      BY <1>0, <1>1, <1>3, OwnSockets, PointFacts DEF IInv, SockInv
    <3>3. events'[c] \in HistoryAt(to)
      BY <1>0, <1>2, <1>3, OwnEvent, Append0
    <3> QED
      BY <3>1, <3>2, <3>3, PointFacts DEF Own
  <2> QED
    BY <1>1, <1>3, <2>1, <2>2, <2>3, OwnStep, PointFacts
<1>4. CASE LoginAccepted(c)
  BY <1>3, <1>4, HistoryFacts DEF LoginAccepted
<1>5. CASE LoginDenied(c)
  BY <1>3, <1>5, HistoryFacts DEF LoginDenied
<1>6. CASE LoginThrows(c)
  <2>1. events'[c] = <<"on_login_throws">>
    BY <1>0, <1>2, <1>6, OwnEvent, Append0 DEF LoginThrows
  <2>2. events'[c] \in Histories
    BY <2>1 DEF Histories
  <2> QED
    BY <1>0, <1>1, <1>6, <2>2, GoneStep, OwnEvent, PointFacts DEF LoginThrows
<1> QED
  BY <1>4, <1>5, <1>6

\* The connect to the server and the entry into the map.
LEMMA RegisterStep ==
  ASSUME IInv, NEW c \in Conns, ConnectOk(c) \/ Register(c)
  PROVE  UsersInv' /\ PoolInv' /\ SockInv' /\ EventsInv' /\ LifeInv'
<1> USE DEF serverVars, loginVars
<1>0. TypeOK
  BY DEF IInv
<1>1. CASE ConnectOk(c)
  <2>1. /\ Goto(c, "register") /\ pc[c] = "connecting" /\ Running
        /\ sock' = [sock EXCEPT ![Server(c)] = "open"]
        /\ UNCHANGED <<life, io, name, users, connections, events>>
    BY <1>1 DEF ConnectOk
  <2>2. UsersInv'
    BY <2>1, OutsideUsers, PointFacts
  <2>3. Others(c)
    BY <1>0, <2>1, OthersStep
  <2>4. Own(c, "register")
    <3>1. Client(c) \in connections' /\ Server(c) \notin connections'
      BY <2>1, PointFacts DEF IInv, PoolInv
    <3>2. Live(Client(c))' /\ Live(Server(c))'
      BY <1>0, <2>1, OwnSockets, PointFacts DEF IInv, SockInv
    <3>3. events'[c] \in HistoryAt("register")
      BY <2>1, OwnHistory, HistoryFacts
    <3> QED
      BY <3>1, <3>2, <3>3, PointFacts DEF Own
  <2> QED
    BY <2>1, <2>2, <2>3, <2>4, OwnStep, PointFacts
<1>2. CASE Register(c)
  <2>1. /\ Goto(c, "greeting") /\ pc[c] = "register" /\ Running
        /\ users[name[c]] = None
        /\ users' = [users EXCEPT ![name[c]] = c]
        /\ connections' = connections \cup {Server(c)}
        /\ UNCHANGED <<life, io, name, sock, events>>
    BY <1>2 DEF Register
  <2>2. UsersInv'
    BY <2>1, InsideUsers, PointFacts
  <2>3. Others(c)
    <3>1. {Server(c)} \in SUBSET Both(c)
      BY DEF Both
    <3> QED
      BY <1>0, <2>1, <3>1, OthersStep
  <2>4. Own(c, "greeting")
    <3>1. Client(c) \in connections' /\ Server(c) \in connections'
      BY <2>1, PointFacts DEF IInv, PoolInv
    <3>2. Live(Client(c))' /\ Live(Server(c))'
      BY <1>0, <2>1, OwnSockets, PointFacts DEF IInv, SockInv
    <3>3. events'[c] \in HistoryAt("greeting")
      BY <2>1, OwnHistory, HistoryFacts
    <3> QED
      BY <3>1, <3>2, <3>3, PointFacts DEF Own
  <2> QED
    BY <2>1, <2>2, <2>3, <2>4, OwnStep, PointFacts
<1> QED
  BY <1>1, <1>2

\* A connection that gets no session: its packet, its error, its end.
LEMMA RefuseStep ==
  ASSUME IInv, NEW c \in Conns, Refuse(c) \/ IoThrows(c) \/ Leave(c)
  PROVE  UsersInv' /\ PoolInv' /\ SockInv' /\ EventsInv' /\ LifeInv'
<1> USE DEF serverVars, loginVars
<1>0. TypeOK
  BY DEF IInv
<1>1. ASSUME Goto(c, "leaving"), Running, pc[c] \in WaitingPCs,
             sock' = Destroyed({Server(c)}),
             UNCHANGED <<life, io, name, users, connections>>,
             UNCHANGED events \/ \E h : events' = [events EXCEPT ![c] = h],
             events'[c] \in HistoryAt("leaving")
      PROVE  UsersInv' /\ PoolInv' /\ SockInv' /\ EventsInv' /\ LifeInv'
  <2>0. pc[c] \in FramePCs \ SessionPCs /\ pc[c] # "spawned"
    BY <1>1, PointFacts DEF WaitingPCs
  <2>1. UsersInv'
    BY <1>1, <2>0, OutsideUsers, PointFacts
  <2>2. Others(c)
    BY <1>0, <1>1, OthersStep
  <2>3. Own(c, "leaving")
    <3>1. Client(c) \in connections' /\ Server(c) \notin connections'
      BY <1>1, <2>0, PointFacts DEF IInv, PoolInv
    <3>2. Live(Client(c))'
      BY <1>0, <1>1, <2>0, OwnSockets DEF IInv, SockInv
    <3> QED
      BY <1>1, <3>1, <3>2, PointFacts DEF Own
  <2> QED
    BY <1>1, <2>1, <2>2, <2>3, OwnStep, PointFacts
<1>2. CASE Refuse(c)
  <2>1. events[c] \in {<<>>, <<"on_login_denies">>, <<"on_login">>}
    BY <1>2, OwnHistory, HistoryFacts DEF Refuse
  <2>2. events'[c] = Append(events[c], "login_failure")
    BY <1>0, <1>2, OwnEvent DEF Refuse
  <2>3. /\ Append(<<>>, "login_failure") = <<"login_failure">>
        /\ Append(<<"on_login_denies">>, "login_failure")
             = <<"on_login_denies", "login_failure">>
        /\ Append(<<"on_login">>, "login_failure")
             = <<"on_login", "login_failure">>
    <3>1. /\ "login_failure" \in Events /\ "on_login_denies" \in Events
          /\ "on_login" \in Events
      BY DEF Events
    <3>2. Append(<<>>, "login_failure") = <<"login_failure">>
      BY Append0
    <3>3. \A a \in Events : Append(<<a>>, "login_failure")
                               = <<a, "login_failure">>
      BY <3>1, Append1
    <3> QED
      BY <3>1, <3>2, <3>3
  <2>4. events'[c] \in HistoryAt("leaving")
    BY <2>1, <2>2, <2>3, HistoryFacts
  <2> QED
    BY <1>0, <1>1, <1>2, <2>4, OwnEvent DEF Refuse, WaitingPCs
<1>3. CASE IoThrows(c)
  <2>1. events[c] \in HistoryAt("leaving")
    BY <1>3, OwnHistory, HistoryFacts DEF IoThrows, WaitingPCs
  <2> QED
    BY <1>1, <1>3, <2>1 DEF IoThrows
<1>4. CASE Leave(c)
  <2>1. events[c] \in Histories
    BY <1>4, OwnHistory, HistoryFacts DEF Leave, Histories
  <2> QED
    BY <1>4, <2>1, GoneStep, PointFacts DEF Leave
<1> QED
  BY <1>2, <1>3, <1>4

\* A session that moves on, with a callback or without.
LEMMA ForwardStep ==
  ASSUME IInv, NEW c \in Conns, ProxyStart(c) \/ ProxyEnd(c)
  PROVE  UsersInv' /\ PoolInv' /\ SockInv' /\ EventsInv' /\ LifeInv'
<1> USE DEF serverVars, loginVars
<1>0. TypeOK
  BY DEF IInv
<1>1. ASSUME NEW to \in SessionPCs, Goto(c, to), pc[c] \in SessionPCs, Running,
             connections' = connections \cup Both(c),
             UNCHANGED <<life, io, name, sock, users>>,
             \E h : events' = [events EXCEPT ![c] = h],
             events'[c] \in HistoryAt(to)
      PROVE  UsersInv' /\ PoolInv' /\ SockInv' /\ EventsInv' /\ LifeInv'
  <2>1. UsersInv'
    BY <1>1, InsideUsers
  <2>2. Others(c)
    BY <1>0, <1>1, OthersStep
  <2>3. Own(c, to)
    <3>1. Client(c) \in connections' /\ Server(c) \in connections'
      BY <1>1 DEF Both
    <3>2. Live(Client(c))' /\ Live(Server(c))'
      BY <1>0, <1>1, OwnSockets, PointFacts DEF IInv, SockInv
    <3> QED
      BY <1>1, <3>1, <3>2, PointFacts DEF Own
  <2> QED
    BY <1>1, <2>1, <2>2, <2>3, OwnStep, PointFacts
<1>2. /\ "on_login" \in Events /\ "on_proxy_start" \in Events
      /\ "on_proxy_end" \in Events
  BY DEF Events
<1>3. CASE ProxyStart(c)
  <2>1. events[c] = <<"on_login">>
    BY <1>3, OwnHistory, HistoryFacts DEF ProxyStart
  <2>2. events'[c] = <<"on_login", "on_proxy_start">>
    BY <1>0, <1>2, <1>3, <2>1, OwnEvent, Append1 DEF ProxyStart
  <2> QED
    BY <1>0, <1>1, <1>3, <2>2, OwnEvent, HistoryFacts, PointFacts
       DEF ProxyStart
<1>4. CASE ProxyEnd(c)
  <2>1. events[c] = <<"on_login", "on_proxy_start">>
    BY <1>4, OwnHistory, HistoryFacts DEF ProxyEnd
  <2>2. events'[c] = <<"on_login", "on_proxy_start", "on_proxy_end">>
    BY <1>0, <1>2, <1>4, <2>1, OwnEvent, Append2 DEF ProxyEnd
  <2>3. connections' = connections \cup Both(c)
    BY <1>4, PointFacts DEF ProxyEnd, IInv, PoolInv, Both
  <2> QED
    BY <1>0, <1>1, <1>4, <2>2, <2>3, OwnEvent, HistoryFacts, PointFacts
       DEF ProxyEnd
<1> QED
  BY <1>3, <1>4

\* The two ways into the clean-up.
LEMMA CloseStep ==
  ASSUME IInv, NEW c \in Conns, ProxyStartThrows(c) \/ CloseSession(c)
  PROVE  UsersInv' /\ PoolInv' /\ SockInv' /\ EventsInv' /\ LifeInv'
<1> USE DEF serverVars, loginVars
<1>0. TypeOK
  BY DEF IInv
<1>1. /\ CleanUp(c) /\ Running /\ pc[c] \in {"starting", "closing"}
      /\ UNCHANGED <<life, io, name>>
  BY DEF ProxyStartThrows, CloseSession
<1>2. UsersInv' /\ PoolInv' /\ SockInv'
  BY <1>1, CleanUpInv, PointFacts
<1>3. /\ "on_login" \in Events /\ "on_proxy_start" \in Events
      /\ "on_proxy_end" \in Events /\ "on_logout" \in Events
  BY DEF Events
<1>4. \E h : events' = [events EXCEPT ![c] = h]
  BY <1>0, OwnEvent DEF ProxyStartThrows, CloseSession
<1>5. events'[c] \in Histories
  <2>1. CASE ProxyStartThrows(c)
    <3>1. events[c] = <<"on_login">>
      BY <2>1, OwnHistory, HistoryFacts DEF ProxyStartThrows
    <3>2. events'[c] = <<"on_login">> \o <<"on_proxy_start", "on_logout">>
      BY <1>0, <2>1, <3>1 DEF ProxyStartThrows, TypeOK
    <3>3. events'[c] = <<"on_login", "on_proxy_start", "on_logout">>
      BY <1>3, <3>2, Concat12
    <3> QED
      BY <3>3 DEF Histories
  <2>2. CASE CloseSession(c)
    <3>1. events'[c] = Append(events[c], "on_logout")
      BY <1>0, <2>2, OwnEvent DEF CloseSession
    <3>2. events[c] \in HistoryAt("closing")
      BY <2>2, OwnHistory DEF CloseSession
    <3>3. CASE events[c] = <<"on_login">>
      <4>1. events'[c] = <<"on_login", "on_logout">>
        BY <1>3, <3>1, <3>3, Append1
      <4> QED
        BY <4>1 DEF Histories
    <3>4. CASE events[c] = <<"on_login", "on_proxy_start">>
      <4>1. events'[c] = <<"on_login", "on_proxy_start", "on_logout">>
        BY <1>3, <3>1, <3>4, Append2
      <4> QED
        BY <4>1 DEF Histories
    <3>5. CASE events[c] = <<"on_login", "on_proxy_start", "on_proxy_end">>
      <4>1. events'[c] = <<"on_login", "on_proxy_start", "on_proxy_end",
                           "on_logout">>
        BY <1>3, <3>1, <3>5, Append3
      <4> QED
        BY <4>1 DEF Histories
    <3> QED
      BY <3>2, <3>3, <3>4, <3>5, HistoryFacts
  <2> QED
    BY <2>1, <2>2
<1>6. Others(c)
  BY <1>0, <1>1, <1>4, OthersStep DEF CleanUp
<1>7. Own(c, "done")
  BY <1>1, <1>5, HistoryFacts, PointFacts, RefFacts DEF Own, CleanUp, Both
<1> QED
  BY <1>1, <1>2, <1>6, <1>7, OwnStep, PointFacts DEF CleanUp

\* A socket is accepted.
LEMMA AcceptStep ==
  ASSUME IInv, NEW c \in Conns, Accept(c)
  PROVE  UsersInv' /\ PoolInv' /\ SockInv' /\ EventsInv' /\ LifeInv'
<1> USE DEF serverVars, loginVars
<1>1. /\ Goto(c, "spawned") /\ pc[c] = "none" /\ Running
      /\ sock' = [sock EXCEPT ![Client(c)] = "open"]
      /\ UNCHANGED <<life, io, name, users, connections, events>>
  BY DEF Accept
<1>2. UsersInv'
  BY <1>1, OutsideUsers, PointFacts
<1>3. Live(Client(c))' /\ \A r \in Ref : Live(r) => Live(r)'
  BY <1>1, RefFacts DEF IInv, TypeOK, Live
<1>4. Others(c)
  BY <1>1, <1>3, RefFacts DEF Others
<1>5. Own(c, "spawned")
  <2>1. Client(c) \notin connections' /\ Server(c) \notin connections'
    BY <1>1, PointFacts DEF IInv, PoolInv
  <2>2. events'[c] \in HistoryAt("spawned")
    BY <1>1, OwnHistory, HistoryFacts
  <2> QED
    BY <1>3, <2>1, <2>2, PointFacts DEF Own
<1> QED
  BY <1>1, <1>2, <1>4, <1>5, OwnStep, PointFacts

\* Nobody whose coroutine is suspended has been logged out.
LEMMA NotYetLoggedOut ==
  ASSUME NEW l \in FramePCs, NEW h \in HistoryAt(l)
  PROVE  ~\E i \in DOMAIN h : h[i] = "on_logout"
<1>1. h \in {<<>>, <<"on_login">>, <<"on_login_denies">>, <<"login_failure">>,
             <<"on_login_denies", "login_failure">>,
             <<"on_login", "login_failure">>,
             <<"on_login", "on_proxy_start">>,
             <<"on_login", "on_proxy_start", "on_proxy_end">>}
  BY HistoryFacts, PointFacts
<1> QED
  BY <1>1

\* The members and the suspended frames are destroyed.
LEMMA DestroyStep ==
  ASSUME IInv, DtorDestroy
  PROVE  UsersInv' /\ PoolInv' /\ SockInv' /\ EventsInv' /\ LifeInv'
<1>1. \A c \in Conns : pc'[c] \in {"none", "done", "abandoned"}
  BY DEF DtorDestroy
<1>2. \A c \in Conns : /\ pc'[c] \notin FramePCs /\ pc'[c] \notin NamedPCs
                       /\ pc'[c] \notin PooledPCs /\ pc'[c] \notin SessionPCs
                       /\ pc'[c] \notin SessionPCs \cup {"register"}
  BY <1>1, PointFacts
<1>3. UsersInv' /\ PoolInv' /\ SockInv'
  BY <1>2 DEF DtorDestroy, UsersInv, PoolInv, SockInv
<1>4. EventsInv'
  <2>1. \A c \in Conns : pc[c] # "abandoned"
    BY DEF IInv, LifeInv, DtorDestroy
  <2>2. ASSUME NEW c \in Conns, pc[c] \in {"none", "done"}
        PROVE  pc'[c] # "abandoned" /\ events'[c] \in HistoryAt(pc'[c])
    BY <2>2 DEF DtorDestroy, IInv, EventsInv
  <2>3. ASSUME NEW c \in Conns, pc[c] \notin {"none", "done"}
        PROVE  pc'[c] = "abandoned" /\ ~LoggedOut(c)'
    <3>1. pc[c] \in FramePCs
      BY <2>1, <2>3, PointFacts DEF IInv, TypeOK
    <3>2. events[c] \in HistoryAt(pc[c])
      BY <2>1 DEF IInv, EventsInv
    <3>3. ~LoggedOut(c)
      BY <3>1, <3>2, NotYetLoggedOut DEF LoggedOut
    <3> QED
      BY <2>3, <3>3 DEF DtorDestroy, LoggedOut
  <2> QED
    BY <2>2, <2>3 DEF EventsInv
<1>5. LifeInv'
  BY <1>2 DEF DtorDestroy, IInv, LifeInv
<1> QED
  BY <1>3, <1>4, <1>5

\* Every step keeps the inductive invariant.
LEMMA InvStep == IInv /\ [Next]_vars => IInv'
<1> SUFFICES ASSUME IInv, [Next]_vars PROVE IInv'
  OBVIOUS
<1>1. TypeOK'
  BY TypeStep DEF IInv
<1>2. ASSUME NEW c \in Conns, Effect(c)
      PROVE  UsersInv' /\ PoolInv' /\ SockInv' /\ EventsInv' /\ LifeInv'
  BY <1>2, EarlyStep, LoginStep, RegisterStep, RefuseStep, ForwardStep,
     CloseStep DEF Effect
<1>3. UsersInv' /\ PoolInv' /\ SockInv' /\ EventsInv' /\ LifeInv'
  BY <1>2, NextCases, QuietInv, AcceptStep, PlainStep, DestroyStep
<1> QED
  BY <1>1, <1>3 DEF IInv

\* The inductive invariant holds at the start.
LEMMA InvInit == Init => IInv
<1> SUFFICES ASSUME Init PROVE IInv
  OBVIOUS
<1>1. TypeOK
  BY ProxyAssumption DEF Init, TypeOK, PCs, Ref, Side
<1>2. UsersInv /\ PoolInv /\ SockInv /\ LifeInv
  BY PointFacts DEF Init, UsersInv, PoolInv, SockInv, LifeInv
<1>3. EventsInv
  BY HistoryFacts DEF Init, EventsInv
<1> QED
  BY <1>1, <1>2, <1>3 DEF IInv

\* What each point of HandleConnection implies, at any time.
THEOREM Invariant == Spec => []IInv
BY InvInit, InvStep, PTL DEF Spec

-----------------------------------------------------------------------------
(* What the invariant implies.                                             *)

\* A User in the map belongs to a session whose two sockets exist.
THEOREM MapIsSafe == Spec => []NoDanglingUser
<1>1. IInv => NoDanglingUser
  <2> SUFFICES ASSUME IInv, NEW n \in Online
               PROVE  name[users[n]] = n /\ \A r \in Both(users[n]) : Live(r)
    BY DEF NoDanglingUser
  <2>1. /\ users[n] \in Conns /\ name[users[n]] = n
        /\ pc[users[n]] \in SessionPCs
    BY DEF IInv, TypeOK, UsersInv, Online
  <2> QED
    BY <2>1, PointFacts DEF IInv, SockInv, Both
<1> QED
  BY <1>1, Invariant, PTL

\* Every pointer in the pool points to a socket that exists.
THEOREM PoolIsSafe == Spec => []NoDanglingPointer
<1>1. IInv => NoDanglingPointer
  <2> SUFFICES ASSUME IInv, NEW r \in connections PROVE Live(r)
    BY DEF NoDanglingPointer
  <2>1. PICK c \in Conns : r = Client(c) \/ r = Server(c)
    BY RefFacts DEF IInv, TypeOK
  <2> QED
    BY <2>1, PointFacts DEF IInv, PoolInv, SockInv
<1> QED
  BY <1>1, Invariant, PTL

\* A session owns its name and is in the pool from its entry to its removal.
THEOREM SessionsAreRegistered == Spec => []SessionRegistered
<1>1. IInv => SessionRegistered
  BY PointFacts DEF IInv, UsersInv, PoolInv, SessionRegistered, Both
<1> QED
  BY <1>1, Invariant, PTL

\* The callbacks of every connection come in the documented order.
THEOREM CallbacksInOrder == Spec => []CallbackOrder
<1>1. IInv => CallbackOrder
  <2> SUFFICES ASSUME IInv, NEW c \in Conns
               PROVE  /\ pc[c] = "done" => events[c] \in Histories
                      /\ pc[c] \in SessionPCs =>
                           Append(events[c], "on_logout") \in Histories
    BY DEF CallbackOrder
  <2>1. pc[c] # "abandoned" => events[c] \in HistoryAt(pc[c])
    BY DEF IInv, EventsInv
  <2>2. pc[c] = "done" => events[c] \in Histories
    BY <2>1, HistoryFacts
  <2>3. ASSUME pc[c] \in SessionPCs
        PROVE  Append(events[c], "on_logout") \in Histories
    <3>1. /\ "on_login" \in Events /\ "on_proxy_start" \in Events
          /\ "on_proxy_end" \in Events /\ "on_logout" \in Events
      BY DEF Events
    <3>2. events[c] \in {<<"on_login">>, <<"on_login", "on_proxy_start">>,
                         <<"on_login", "on_proxy_start", "on_proxy_end">>}
      BY <2>1, <2>3, HistoryFacts, PointFacts
    <3>3. Append(<<"on_login">>, "on_logout") = <<"on_login", "on_logout">>
      BY <3>1, Append1
    <3>4. Append(<<"on_login", "on_proxy_start">>, "on_logout")
            = <<"on_login", "on_proxy_start", "on_logout">>
      BY <3>1, Append2
    <3>5. Append(<<"on_login", "on_proxy_start", "on_proxy_end">>,
                 "on_logout")
            = <<"on_login", "on_proxy_start", "on_proxy_end", "on_logout">>
      BY <3>1, Append3
    <3>6. /\ <<"on_login", "on_logout">> \in Histories
          /\ <<"on_login", "on_proxy_start", "on_logout">> \in Histories
          /\ <<"on_login", "on_proxy_start", "on_proxy_end", "on_logout">>
               \in Histories
      BY DEF Histories
    <3> QED
      BY <3>2, <3>3, <3>4, <3>5, <3>6
  <2> QED
    BY <2>2, <2>3
<1> QED
  BY <1>1, Invariant, PTL

-----------------------------------------------------------------------------
(* A Proxy implements the registry.                                        *)

Gone == {c \in Conns : LoggedOut(c)}

\* The variables of the registry, unchanged.
Stutter == Gone' = Gone /\ users' = users
           /\ (life = "destroyed")' = (life = "destroyed")

\* A step of c that appends no on_logout.
LEMMA SameGone ==
  ASSUME NEW c \in Conns, \A d \in Conns \ {c} : events'[d] = events[d],
         LoggedOut(c)' <=> LoggedOut(c)
  PROVE  Gone' = Gone
<1>1. \A d \in Conns : LoggedOut(d)' <=> LoggedOut(d)
  BY DEF LoggedOut
<1> QED
  BY <1>1 DEF Gone

\* A connection whose coroutine has a frame has had no
\* on_logout while the proxy runs.
LEMMA FrameNotGone ==
  ASSUME IInv, Running, NEW c \in Conns, pc[c] \in FramePCs
  PROVE  ~LoggedOut(c)
BY OwnHistory, NotYetLoggedOut DEF LoggedOut

\* A step that moves no coroutine and destroys no socket is a stutter of the
\* session registry.
LEMMA QuietStutter == ASSUME IInv, Quiet PROVE Stutter
<1>1. Gone' = Gone /\ users' = users
  BY QuietFacts DEF Gone, LoggedOut
<1>2. (life = "destroyed")' = (life = "destroyed")
  <2>1. CASE UNCHANGED life
    BY <2>1
  <2>2. CASE Start \/ StartFails
    BY <2>2 DEF Start, StartFails
  <2>3. CASE DtorBegin \/ DtorPost \/ DtorCloseAll \/ DtorStop
    BY <2>3 DEF DtorBegin, DtorPost, DtorCloseAll, DtorStop
  <2>4. Quiet => \/ UNCHANGED life
                 \/ Start \/ StartFails
                 \/ DtorBegin \/ DtorPost \/ DtorCloseAll \/ DtorStop
    BY Zenon DEF Quiet, AcceptLoopEnds, RunOutOfWork, ForwardData, Receive,
       Written, ForwardEnds, PeerCloses, Manage, Post, KickByUsername,
       KickByUUID, GetUsersInfo, Serves, SetMaxPlayer, serverVars, vars
  <2> QED
    BY <2>1, <2>2, <2>3, <2>4
<1> QED
  BY <1>1, <1>2 DEF Stutter

\* The steps that neither enter the map nor leave it.
LEMMA EffectStutter ==
  ASSUME IInv, IInv', NEW c \in Conns,
         Accept(c) \/ Plain(c) \/ Effect(c),
         ~Register(c), ~ProxyStartThrows(c), ~CloseSession(c)
  PROVE  Stutter
<1> USE DEF serverVars, loginVars
<1>1. /\ UNCHANGED <<users, life, io>> /\ Running
      /\ UNCHANGED events \/ \E e : Happens(c, e)
      /\ \/ UNCHANGED events
         \/ LoginThrows(c)
         \/ pc[c] \in FramePCs /\ pc'[c] \in FramePCs
  <2>1. CASE Accept(c) \/ Plain(c)
    BY <2>1, Zenon DEF Accept, Plain, Advance
  <2>2. CASE LoginThrows(c)
    BY <2>2 DEF LoginThrows
  <2>3. CASE EnterPool(c) \/ EnterPoolFails(c) \/ ConnectOk(c)
             \/ IoThrows(c) \/ Leave(c)
             \/ \E n \in Names, u \in UUIDs : LoginStart(c, n, u)
    BY <2>3, Zenon DEF EnterPool, EnterPoolFails, ConnectOk, IoThrows, Leave,
                       LoginStart
  <2>4. ASSUME NEW from \in FramePCs, NEW to \in FramePCs, NEW e,
               pc[c] = from, Goto(c, to), Happens(c, e)
        PROVE  pc[c] \in FramePCs /\ pc'[c] \in FramePCs
    BY <2>4 DEF IInv, TypeOK, Goto
  <2>5. CASE LoginAccepted(c)
    BY <2>4, <2>5, PointFacts DEF LoginAccepted
  <2>6. CASE LoginDenied(c)
    BY <2>4, <2>6, PointFacts DEF LoginDenied
  <2>7. CASE Refuse(c)
    BY <2>4, <2>7, PointFacts DEF Refuse
  <2>8. CASE ProxyStart(c)
    BY <2>4, <2>8, PointFacts DEF ProxyStart
  <2>9. CASE ProxyEnd(c)
    BY <2>4, <2>9, PointFacts DEF ProxyEnd
  <2> QED
    BY <2>1, <2>2, <2>3, <2>5, <2>6, <2>7, <2>8, <2>9 DEF Effect
<1>2. \A d \in Conns \ {c} : events'[d] = events[d]
  BY <1>1 DEF Happens, IInv, TypeOK
<1>3. LoggedOut(c)' <=> LoggedOut(c)
  <2>1. CASE UNCHANGED events
    BY <2>1 DEF LoggedOut
  <2>2. CASE LoginThrows(c)
    <3>1. events[c] = <<>>
      BY <2>2, OwnHistory, HistoryFacts DEF LoginThrows
    <3>2. events'[c] = <<"on_login_throws">>
      BY <2>2, <3>1, OwnEvent, Append0 DEF LoginThrows, IInv
    <3> QED
      BY <3>1, <3>2 DEF LoggedOut
  <2>3. CASE pc[c] \in FramePCs /\ pc'[c] \in FramePCs
    <3>1. ~LoggedOut(c)
      BY <1>1, <2>3, FrameNotGone
    <3>2. events'[c] \in HistoryAt(pc'[c])
      BY <2>3, PointFacts DEF IInv, EventsInv
    <3>3. ~LoggedOut(c)'
      BY <2>3, <3>2, NotYetLoggedOut DEF LoggedOut
    <3> QED
      BY <3>1, <3>3
  <2> QED
    BY <1>1, <2>1, <2>2, <2>3
<1> QED
  BY <1>1, <1>2, <1>3, SameGone DEF Stutter

\* Register joins under the name of the login packet.
LEMMA RegisterJoins ==
  ASSUME IInv, NEW c \in Conns, Register(c) PROVE Registry!Join(c, name[c])
<1>1. /\ Running /\ pc[c] = "register" /\ users[name[c]] = None
      /\ users' = [users EXCEPT ![name[c]] = c]
      /\ UNCHANGED <<life, events>>
  BY DEF Register, serverVars
<1>2. life # "destroyed"
  BY <1>1, RunningAlive
<1>3. c \notin Gone /\ Gone' = Gone
  BY <1>1, FrameNotGone, PointFacts DEF Gone, LoggedOut
<1>4. \A m \in Names : users[m] # c
  BY <1>1, ProxyAssumption, PointFacts
     DEF IInv, TypeOK, UsersInv, ProxyAssumption
<1> QED
  BY <1>1, <1>2, <1>3, <1>4 DEF Registry!Join, Gone

\* A sequence contains what was appended to it.
LEMMA AppendLast ==
  ASSUME NEW s \in Seq(Events), NEW e \in Events
  PROVE  \E i \in DOMAIN Append(s, e) : Append(s, e)[i] = e
<1>1. Len(s) + 1 \in DOMAIN Append(s, e) /\ Append(s, e)[Len(s) + 1] = e
  OBVIOUS
<1> QED
  BY <1>1

\* The clean-up leaves, with the callback in the same step.
LEMMA CleanUpLeaves ==
  ASSUME IInv, NEW c \in Conns, ProxyStartThrows(c) \/ CloseSession(c)
  PROVE  Registry!Leave(name[c])
<1> USE DEF serverVars, loginVars
<1>1. /\ Running /\ pc[c] \in SessionPCs
      /\ users' = [users EXCEPT ![name[c]] = None]
      /\ UNCHANGED life
  BY PointFacts DEF ProxyStartThrows, CloseSession, CleanUp
<1>2. life # "destroyed"
  BY <1>1, RunningAlive
<1>3. users[name[c]] = c /\ c # None
  BY <1>1, ProxyAssumption DEF IInv, UsersInv, ProxyAssumption
<1>4. LoggedOut(c)'
  <2>1. "on_logout" \in Events /\ "on_proxy_start" \in Events
    BY DEF Events
  <2>2. events[c] \in Seq(Events)
    BY DEF IInv, TypeOK
  <2>3. CASE CloseSession(c)
    <3>1. events'[c] = Append(events[c], "on_logout")
      BY <2>3, OwnEvent DEF CloseSession, IInv
    <3> QED
      BY <2>1, <2>2, <3>1, AppendLast DEF LoggedOut
  <2>4. CASE ProxyStartThrows(c)
    <3>1. events[c] = <<"on_login">>
      BY <2>4, OwnHistory, HistoryFacts DEF ProxyStartThrows
    <3>2. events'[c] = <<"on_login">> \o <<"on_proxy_start", "on_logout">>
      BY <2>4, <3>1 DEF ProxyStartThrows, IInv, TypeOK
    <3>3. "on_login" \in Events
      BY DEF Events
    <3>4. events'[c] = <<"on_login", "on_proxy_start", "on_logout">>
      BY <2>1, <3>2, <3>3, Concat12
    <3> QED
      BY <3>4 DEF LoggedOut
  <2> QED
    BY <2>3, <2>4
<1>5. \A d \in Conns \ {c} : LoggedOut(d)' <=> LoggedOut(d)
  BY DEF LoggedOut, ProxyStartThrows, CloseSession, Happens, IInv, TypeOK
<1>6. Gone' = Gone \cup {c}
  BY <1>4, <1>5 DEF Gone
<1> QED
  BY <1>1, <1>2, <1>3, <1>6 DEF Registry!Leave, Gone

\* Every step of a Proxy is a step of the registry or leaves it alone.
LEMMA RegistryStep ==
  IInv /\ IInv' /\ [Next]_vars => [Registry!Next]_(Registry!registryVars)
<1> SUFFICES ASSUME IInv, IInv', [Next]_vars
             PROVE  [Registry!Next]_(Registry!registryVars)
  OBVIOUS
<1>1. ASSUME Stutter PROVE UNCHANGED Registry!registryVars
  BY <1>1 DEF Stutter, Gone, Registry!registryVars
<1>2. ASSUME NEW c \in Conns, Register(c) PROVE Registry!Next
  <2>1. name[c] \in Names
    BY <1>2, PointFacts DEF Register, IInv, UsersInv
  <2> QED
    BY <1>2, <2>1, RegisterJoins DEF Registry!Next
<1>3. ASSUME NEW c \in Conns, ProxyStartThrows(c) \/ CloseSession(c)
      PROVE  Registry!Next
  <2>1. name[c] \in Names
    BY <1>3, PointFacts DEF ProxyStartThrows, CloseSession, IInv, UsersInv
  <2> QED
    BY <1>3, <2>1, CleanUpLeaves DEF Registry!Next
<1>4. CASE DtorDestroy
  <2>1. Registry!Close
    BY <1>4 DEF DtorDestroy, Registry!Close, LoggedOut
  <2> QED
    BY <2>1 DEF Registry!Next
<1>5. CASE Quiet
  BY <1>1, <1>5, QuietStutter
<1>6. ASSUME NEW c \in Conns, Accept(c) \/ Plain(c) \/ Effect(c)
      PROVE  [Registry!Next]_(Registry!registryVars)
  <2>1. CASE Register(c) \/ ProxyStartThrows(c) \/ CloseSession(c)
    BY <1>2, <1>3, <2>1
  <2>2. CASE ~Register(c) /\ ~ProxyStartThrows(c) /\ ~CloseSession(c)
    BY <1>1, <1>6, <2>2, EffectStutter
  <2> QED
    BY <2>1, <2>2
<1> QED
  BY <1>4, <1>5, <1>6, NextCases

\* A Proxy implements the registry: names are taken only when they are free,
\* kept until the session leaves, and given back together with on_logout.
THEOREM Refinement == Spec => RegistrySpec
<1>1. Init => Registry!Init
  BY DEF Init, Registry!Init, LoggedOut
<1> QED
  BY <1>1, Invariant, RegistryStep, PTL DEF Spec, RegistrySpec, Registry!Spec

=============================================================================
