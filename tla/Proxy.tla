------------------------------- MODULE Proxy -------------------------------
(***************************************************************************)
(* One Proxy object of src/proxy.cpp: the accept loop, the coroutine       *)
(* HandleConnection of every accepted socket, the two ForwardData          *)
(* coroutines of a session, the calls other threads make into the strand   *)
(* and the destructor.                                                     *)
(*                                                                         *)
(* An action is the code a coroutine runs from one suspension to the next. *)
(* `co_await asio::dispatch(strand)` suspends a coroutine that is outside  *)
(* the strand and continues at once when it is already inside, so a run of *)
(* statements that begins with a dispatch is atomic up to the next I/O.    *)
(* Several io threads may run the coroutines, as the five-argument         *)
(* constructor allows, so any two actions of two connections interleave.   *)
(***************************************************************************)
EXTENDS Integers, Sequences, FiniteSets

CONSTANTS
    Conns,        \* accepted sockets, one HandleConnection coroutine each
    Names,        \* player names a client may log in with
    UUIDs,        \* player UUIDs a client may log in with
    Callers,      \* threads that call the proxy (console, HTTP workers)
    Limits,       \* values a caller passes to SetMaxPlayer
    AcceptErrors, \* TRUE if async_accept may fail (out of descriptors)
    None          \* no connection, no name, no call

ASSUME ProxyAssumption ==
    /\ None \notin Conns \cup Names \cup UUIDs
    /\ Limits \subseteq Int
    /\ AcceptErrors \in BOOLEAN

VARIABLES
    life,        \* the object: construction, Start, steps of the destructor
    acceptor,    \* the listening socket
    acceptLoop,  \* the AcceptLoop coroutine
    io,          \* io_context.run() in the io threads
    maxPlayer,   \* max_player
    call,        \* the call each caller waits for with use_future.get()
    pc,          \* where each HandleConnection coroutine is suspended
    name,        \* user name of the login packet of each connection
    uuid,        \* UUID of the login packet of each connection
    sock,        \* the sockets in the frames of the coroutines
    users,       \* the map from user names to the session's connection
    connections, \* the list of raw socket pointers, as the set of its items
    fwd,         \* the ForwardData coroutine that reads from a socket
    events       \* callbacks and LoginFailure packets of each connection

vars == <<life, acceptor, acceptLoop, io, maxPlayer, call, pc, name, uuid,
          sock, users, connections, fwd, events>>

serverVars == <<life, acceptor, acceptLoop, io, maxPlayer, call>>
loginVars  == <<name, uuid>>

-----------------------------------------------------------------------------
(* Sockets.  A User and the list `connections` hold the addresses of two   *)
(* local variables of HandleConnection: its parameter `socket` (the        *)
(* client's) and `remote_server`.  list::remove deletes every equal item   *)
(* and the destructor's loop is idempotent, so the duplicates that lines   *)
(* 441 and 442 push make no difference to the set of items.                *)

Side == {"client", "server"}
Ref  == Conns \X Side

Client(c) == <<c, "client">>
Server(c) == <<c, "server">>
Peer(r)   == <<r[1], IF r[2] = "client" THEN "server" ELSE "client">>

Live(r) == sock[r] \in {"open", "shut"}

\* shutdown_both: a live socket delivers end-of-file from now on.
ShutDown(S) ==
    [r \in Ref |-> IF r \in S /\ sock[r] = "open" THEN "shut" ELSE sock[r]]

\* The end of the scope that declares the sockets.
Destroyed(S) == [r \in Ref |-> IF r \in S THEN "closed" ELSE sock[r]]

Both(c) == {Client(c), Server(c)}

\* The points of HandleConnection from which `users` and the pool name the
\* session: between lines 416 and 467.
SessionPCs == {"greeting", "starting", "forwarding", "closing"}

Online == {n \in Names : users[n] # None}

Running == io = "running"

Goto(c, label) == pc' = [pc EXCEPT ![c] = label]

Happens(c, e) == events' = [events EXCEPT ![c] = Append(@, e)]

-----------------------------------------------------------------------------
(* Start and the accept loop. *)

Init ==
    /\ life = "constructed" /\ acceptor = "none" /\ acceptLoop = "off"
    /\ io = "idle"
    /\ maxPlayer = -1
    /\ call = [k \in Callers |-> None]
    /\ pc = [c \in Conns |-> "none"]
    /\ name = [c \in Conns |-> None] /\ uuid = [c \in Conns |-> None]
    /\ sock = [r \in Ref |-> "none"]
    /\ users = [n \in Names |-> None]
    /\ connections = {}
    /\ fwd = [r \in Ref |-> "off"]
    /\ events = [c \in Conns |-> <<>>]

connVars == <<pc, loginVars, sock, users, connections, fwd, events>>

Start ==
    /\ life = "constructed"
    /\ life' = "running" /\ acceptor' = "listening"
    /\ acceptLoop' = "waiting" /\ io' = "running"
    /\ UNCHANGED <<maxPlayer, call, connVars>>

\* open, bind or listen throws: there is an acceptor and no io thread.
StartFails ==
    /\ life = "constructed"
    /\ life' = "failed" /\ acceptor' = "opened"
    /\ UNCHANGED <<acceptLoop, io, maxPlayer, call, connVars>>

\* A socket that was accepted before the acceptor closed is still served.
Accept(c) ==
    /\ Running /\ acceptLoop = "waiting" /\ pc[c] = "none"
    /\ Goto(c, "spawned")
    /\ sock' = [sock EXCEPT ![Client(c)] = "open"]
    /\ acceptLoop' = IF acceptor = "closed" THEN "ended" ELSE "waiting"
    /\ UNCHANGED <<life, acceptor, io, maxPlayer, call, loginVars, users,
                   connections, fwd, events>>

\* operation_aborted is caught; any other error is thrown into a detached
\* co_spawn, which drops it.  Either way the coroutine is over.
AcceptLoopEnds ==
    /\ Running /\ acceptLoop = "waiting"
    /\ acceptor = "closed" \/ AcceptErrors
    /\ acceptLoop' = "ended"
    /\ UNCHANGED <<life, acceptor, io, maxPlayer, call, connVars>>

\* run() returns in every io thread when nothing is left to wait for; a call
\* that is posted later is never executed.
RunOutOfWork ==
    /\ Running /\ acceptLoop = "ended" /\ life # "posted"
    /\ \A c \in Conns : pc[c] \in {"none", "done"}
    /\ \A k \in Callers : call[k] = None
    /\ io' = "drained"
    /\ UNCHANGED <<life, acceptor, acceptLoop, maxPlayer, call, connVars>>

-----------------------------------------------------------------------------
(* HandleConnection up to the entry into `users`. *)

\* Lines 266-267 and the coroutine's first read.
EnterPool(c) ==
    /\ Running /\ pc[c] = "spawned"
    /\ Goto(c, "handshake")
    /\ connections' = connections \cup {Client(c)}
    /\ UNCHANGED <<serverVars, loginVars, sock, users, fwd, events>>

\* remote_endpoint() of line 270 throws for a client that is gone already:
\* the push of line 267 is undone before the coroutine leaves the strand.
EnterPoolFails(c) ==
    /\ Running /\ pc[c] = "spawned" /\ sock[Client(c)] = "shut"
    /\ Goto(c, "done")
    /\ sock' = Destroyed(Both(c))
    /\ UNCHANGED <<serverVars, loginVars, users, connections, fwd, events>>

\* Steps outside the strand that only move the coroutine on.
Advance(c, from, to) ==
    /\ Running /\ pc[c] = from
    /\ Goto(c, to)
    /\ UNCHANGED <<serverVars, loginVars, sock, users, connections, fwd, events>>

Handshake(c) == \E next \in {"status", "gate"} : Advance(c, "handshake", next)

\* Case 1: id 0 goes through the strand, which copies the motd and the list
\* of users; id 1 is answered at once.
StatusRequest(c) == Advance(c, "status", "query")
PingRequest(c)   == Advance(c, "status", "replying")
StatusResponse(c) == Advance(c, "query", "replying")
ReplyWritten(c)  == Advance(c, "replying", "status")

\* Case 2, line 326.  A negative limit is stored as an unsigned number that
\* no map size reaches.
Full == maxPlayer >= 0 /\ Cardinality(Online) >= maxPlayer

LoginGate(c) == Advance(c, "gate", IF Full THEN "refusing" ELSE "loginStart")

LoginStart(c, n, u) ==
    /\ Running /\ pc[c] = "loginStart"
    /\ Goto(c, "loginCall")
    /\ name' = [name EXCEPT ![c] = n]
    /\ uuid' = [uuid EXCEPT ![c] = u]
    /\ UNCHANGED <<serverVars, sock, users, connections, fwd, events>>

\* The strand's segment of lines 348-388: on_login, then the lookup of the
\* target and the start of the resolver.
LoginAccepted(c) ==
    /\ Running /\ pc[c] = "loginCall"
    /\ Goto(c, "connecting")
    /\ Happens(c, "on_login")
    /\ UNCHANGED <<serverVars, loginVars, sock, users, connections, fwd>>

LoginDenied(c) ==
    /\ Running /\ pc[c] = "loginCall"
    /\ Goto(c, "refusing")
    /\ Happens(c, "on_login_denies")
    /\ UNCHANGED <<serverVars, loginVars, sock, users, connections, fwd>>

\* An exception of on_login reaches the outer catch inside the strand: no
\* packet is written and the coroutine runs to its end.
LoginThrows(c) ==
    /\ Running /\ pc[c] = "loginCall"
    /\ Goto(c, "done")
    /\ Happens(c, "on_login_throws")
    /\ connections' = connections \ {Client(c)}
    /\ sock' = Destroyed(Both(c))
    /\ UNCHANGED <<serverVars, loginVars, users, fwd>>

ConnectOk(c) ==
    /\ Running /\ pc[c] = "connecting"
    /\ Goto(c, "register")
    /\ sock' = [sock EXCEPT ![Server(c)] = "open"]
    /\ UNCHANGED <<serverVars, loginVars, users, connections, fwd, events>>

\* Mutant: the lookup is missing, a second login replaces the first.
Register_NoLookup(c) ==
    /\ Running /\ pc[c] = "register"
    /\ Goto(c, "greeting")
    /\ users' = [users EXCEPT ![name[c]] = c]
    /\ connections' = connections \cup {Server(c)}
    /\ UNCHANGED <<serverVars, loginVars, sock, fwd, events>>

\* Mutant: the map is keyed and filled with the name.
Register_StoresName(c) ==
    /\ Running /\ pc[c] = "register" /\ users[name[c]] = None
    /\ Goto(c, "greeting")
    /\ users' = [users EXCEPT ![name[c]] = name[c]]
    /\ connections' = connections \cup {Server(c)}
    /\ UNCHANGED <<serverVars, loginVars, sock, fwd, events>>

\* Lines 408-428: the name is looked up and entered in one segment.
Register(c) ==
    /\ Running /\ pc[c] = "register" /\ users[name[c]] = None
    /\ Goto(c, "greeting")
    /\ users' = [users EXCEPT ![name[c]] = c]
    /\ connections' = connections \cup {Server(c)}
    /\ UNCHANGED <<serverVars, loginVars, sock, fwd, events>>

RegisterTaken(c) ==
    /\ pc[c] = "register" /\ users[name[c]] # None
    /\ Advance(c, "register", "refusing")

\* The LoginFailure packet is written, then its throw leads out.
Refuse(c) ==
    /\ Running /\ pc[c] = "refusing"
    /\ Goto(c, "leaving")
    /\ Happens(c, "login_failure")
    /\ sock' = Destroyed({Server(c)})
    /\ UNCHANGED <<serverVars, loginVars, users, connections, fwd>>

\* A read, write, parse, resolve or connect throws outside the strand; the
\* scope of remote_server ends before the outer catch.
WaitingPCs == {"handshake", "status", "replying", "loginStart", "connecting",
               "refusing"}

IoThrows(c) ==
    /\ Running /\ pc[c] \in WaitingPCs
    /\ Goto(c, "leaving")
    /\ sock' = Destroyed({Server(c)})
    /\ UNCHANGED <<serverVars, loginVars, users, connections, fwd, events>>

\* Lines 483-484.
Leave(c) ==
    /\ Running /\ pc[c] = "leaving"
    /\ Goto(c, "done")
    /\ connections' = connections \ {Client(c)}
    /\ sock' = Destroyed(Both(c))
    /\ UNCHANGED <<serverVars, loginVars, users, fwd, events>>

-----------------------------------------------------------------------------
(* The session: lines 416-472. *)

\* Lines 421-435: the handshake and the login packet to the server; every
\* exception is caught and leads to the clean-up.
Greet(c)      == Advance(c, "greeting", "starting")
GreetFails(c) == Advance(c, "greeting", "closing")

\* Lines 440-450: both ForwardData coroutines start in this segment.
ProxyStart(c) ==
    /\ Running /\ pc[c] = "starting"
    /\ Goto(c, "forwarding")
    /\ Happens(c, "on_proxy_start")
    /\ connections' = connections \cup Both(c)
    /\ fwd' = [r \in Ref |-> IF r \in Both(c) THEN "receive" ELSE fwd[r]]
    /\ UNCHANGED <<serverVars, loginVars, sock, users>>

\* Mutants: users.erase, or one of the two removals, is missing.
CleanUp_KeepsUser(c) ==
    /\ Goto(c, "done")
    /\ connections' = connections \ Both(c)
    /\ sock' = Destroyed(Both(c))
    /\ UNCHANGED users

CleanUp_KeepsServer(c) ==
    /\ Goto(c, "done")
    /\ users' = [users EXCEPT ![name[c]] = None]
    /\ connections' = connections \ {Client(c)}
    /\ sock' = Destroyed(Both(c))

\* What lines 460-484 do in one segment, with on_logout inside it.
CleanUp(c) ==
    /\ Goto(c, "done")
    /\ users' = [users EXCEPT ![name[c]] = None]
    /\ connections' = connections \ Both(c)
    /\ sock' = Destroyed(Both(c))

\* Mutant: the exception passes the inner catch and reaches the outer one.
ProxyStartThrows_Outer(c) ==
    /\ Running /\ pc[c] = "starting"
    /\ Goto(c, "done")
    /\ Happens(c, "on_proxy_start")
    /\ connections' = connections \ {Client(c)}
    /\ sock' = Destroyed(Both(c))
    /\ UNCHANGED <<serverVars, loginVars, users, fwd>>

\* A std::exception of on_proxy_start, or of remote_endpoint() in line 448,
\* is caught inside the strand, so the clean-up follows at once.
ProxyStartThrows(c) ==
    /\ Running /\ pc[c] = "starting"
    /\ CleanUp(c)
    /\ events' = [events EXCEPT ![c] = @ \o <<"on_proxy_start", "on_logout">>]
    /\ UNCHANGED <<serverVars, loginVars, fwd>>

\* ForwardData of the socket r: receive from r, write to its peer.
Receive(r) ==
    /\ Running /\ fwd[r] = "receive"
    /\ fwd' = [fwd EXCEPT ![r] = "write"]
    /\ UNCHANGED <<serverVars, pc, loginVars, sock, users, connections, events>>

Written(r) ==
    /\ Running /\ fwd[r] = "write"
    /\ fwd' = [fwd EXCEPT ![r] = "receive"]
    /\ UNCHANGED <<serverVars, pc, loginVars, sock, users, connections, events>>

\* Mutant: only the socket that was read is shut down.
ForwardEnds_OneSocket(r) ==
    /\ Running
    /\ \/ fwd[r] = "receive" /\ sock[r] = "shut"
       \/ fwd[r] = "write" /\ sock[Peer(r)] = "shut"
    /\ fwd' = [fwd EXCEPT ![r] = "ended"]
    /\ sock' = ShutDown({r})
    /\ UNCHANGED <<serverVars, pc, loginVars, users, connections, events>>

\* End of file or an error: both sockets of the User are shut down.
ForwardEnds(r) ==
    /\ Running
    /\ \/ fwd[r] = "receive" /\ sock[r] = "shut"
       \/ fwd[r] = "write" /\ sock[Peer(r)] = "shut"
    /\ fwd' = [fwd EXCEPT ![r] = "ended"]
    /\ sock' = ShutDown({r, Peer(r)})
    /\ UNCHANGED <<serverVars, pc, loginVars, users, connections, events>>

Forwarded(c) == \A r \in Both(c) : fwd[r] = "ended"

\* Lines 451-452, outside the strand.  remote_endpoint() of a socket that was
\* shut down may throw, and then on_proxy_end is not called.
ProxyEnd(c) ==
    /\ Running /\ pc[c] = "forwarding" /\ Forwarded(c)
    /\ Goto(c, "closing")
    /\ Happens(c, "on_proxy_end")
    /\ UNCHANGED <<serverVars, loginVars, sock, users, connections, fwd>>

ProxyEndSkipped(c) ==
    /\ Forwarded(c)
    /\ Advance(c, "forwarding", "closing")

\* Mutant: the name is freed, the callback is forgotten.
CloseSession_Silent(c) ==
    /\ Running /\ pc[c] = "closing"
    /\ CleanUp(c)
    /\ UNCHANGED <<serverVars, loginVars, fwd, events>>

CloseSession(c) ==
    /\ Running /\ pc[c] = "closing"
    /\ CleanUp(c)
    /\ Happens(c, "on_logout")
    /\ UNCHANGED <<serverVars, loginVars, fwd>>

\* The other end of a socket closes or resets it.
PeerCloses(r) ==
    /\ sock[r] = "open"
    /\ sock' = ShutDown({r})
    /\ UNCHANGED <<serverVars, pc, loginVars, users, connections, fwd, events>>

-----------------------------------------------------------------------------
(* Calls of other threads: posted to the strand, awaited with get(). *)

Calls == ({"KickByUsername"} \X Names) \cup ({"KickByUUID"} \X UUIDs)
         \cup {<<"GetUsersInfo", None>>}

Post(k) ==
    /\ life = "running" /\ call[k] = None
    /\ \E op \in Calls : call' = [call EXCEPT ![k] = op]
    /\ UNCHANGED <<life, acceptor, acceptLoop, io, maxPlayer, connVars>>

\* Runs in the strand; get() returns, with a value or an exception.
Serves(k, op) ==
    /\ Running /\ call[k] # None /\ call[k][1] = op
    /\ call' = [call EXCEPT ![k] = None]
    /\ UNCHANGED <<life, acceptor, acceptLoop, io, maxPlayer, pc, loginVars,
                   users, connections, fwd, events>>

\* Mutant: a name that is not in the map is never answered.
KickByUsername_OnlineOnly(k) ==
    /\ Serves(k, "KickByUsername")
    /\ call[k][2] \in Online
    /\ sock' = ShutDown({Client(users[call[k][2]])})

\* A name that is not in the map makes the call throw and changes nothing.
KickByUsername(k) ==
    /\ Serves(k, "KickByUsername")
    /\ LET n == call[k][2] IN
       sock' = IF n \in Online THEN ShutDown({Client(users[n])}) ELSE sock

\* Only the first user with the UUID is shut down; the order of the names in
\* the map is left open.  No match is no error.
KickByUUID(k) ==
    /\ Serves(k, "KickByUUID")
    /\ LET found == {n \in Online : uuid[users[n]] = call[k][2]} IN
       IF found = {} THEN UNCHANGED sock
       ELSE \E n \in found : sock' = ShutDown({Client(users[n])})

GetUsersInfo(k) ==
    /\ Serves(k, "GetUsersInfo")
    /\ UNCHANGED sock

\* An atomic store, outside the strand.
SetMaxPlayer(m) ==
    /\ life = "running"
    /\ maxPlayer' = m
    /\ UNCHANGED <<life, acceptor, acceptLoop, io, call, connVars>>

-----------------------------------------------------------------------------
(* The destructor.  It is not called while a caller is inside the object. *)

\* Mutant: the task is posted although no thread can run it.
DtorBegin_NoCheck ==
    /\ life \in {"constructed", "failed", "running"}
    /\ \A k \in Callers : call[k] = None
    /\ life' = "checked"
    /\ UNCHANGED <<acceptor, acceptLoop, io, maxPlayer, call, connVars>>

\* Line 170: joinable threads and an io_context that has not stopped.
DtorBegin ==
    /\ life \in {"constructed", "failed", "running"}
    /\ \A k \in Callers : call[k] = None
    /\ IF Running
       THEN life' = "checked" /\ UNCHANGED acceptor
       ELSE /\ life' = "stopping"
            /\ acceptor' = IF acceptor = "none" THEN "none" ELSE "closed"
    /\ UNCHANGED <<acceptLoop, io, maxPlayer, call, connVars>>

DtorPost ==
    /\ life = "checked"
    /\ life' = "posted"
    /\ UNCHANGED <<acceptor, acceptLoop, io, maxPlayer, call, connVars>>

DtorCloseAll ==
    /\ Running /\ life = "posted"
    /\ life' = "stopping" /\ acceptor' = "closed"
    /\ sock' = ShutDown(connections)
    /\ UNCHANGED <<acceptLoop, io, maxPlayer, call, pc, loginVars, users,
                   connections, fwd, events>>

DtorStop ==
    /\ life = "stopping"
    /\ life' = "joining" /\ io' = "stopped"
    /\ UNCHANGED <<acceptor, acceptLoop, maxPlayer, call, connVars>>

\* After the joins the members are destroyed, and with the io_context the
\* frames of the coroutines that were still suspended in it.
DtorDestroy ==
    /\ life = "joining"
    /\ life' = "destroyed" /\ acceptLoop' = "ended"
    /\ pc' = [c \in Conns |->
                IF pc[c] \in {"none", "done"} THEN pc[c] ELSE "abandoned"]
    /\ users' = [n \in Names |-> None]
    /\ connections' = {}
    /\ sock' = Destroyed(Ref)
    /\ fwd' = [r \in Ref |-> "off"]
    /\ UNCHANGED <<acceptor, io, maxPlayer, call, loginVars, events>>

-----------------------------------------------------------------------------
HandleConnection(c) ==
    \/ EnterPool(c) \/ EnterPoolFails(c) \/ Handshake(c)
    \/ StatusRequest(c) \/ PingRequest(c) \/ StatusResponse(c)
    \/ ReplyWritten(c) \/ LoginGate(c)
    \/ \E n \in Names, u \in UUIDs : LoginStart(c, n, u)
    \/ LoginAccepted(c) \/ LoginDenied(c) \/ LoginThrows(c)
    \/ ConnectOk(c) \/ Register(c) \/ RegisterTaken(c) \/ Refuse(c)
    \/ IoThrows(c) \/ Leave(c)
    \/ Greet(c) \/ GreetFails(c) \/ ProxyStart(c) \/ ProxyStartThrows(c)
    \/ ProxyEnd(c) \/ ProxyEndSkipped(c) \/ CloseSession(c)

ForwardData(r) == Receive(r) \/ Written(r) \/ ForwardEnds(r)

Manage(k) == Post(k) \/ KickByUsername(k) \/ KickByUUID(k) \/ GetUsersInfo(k)

Destructor == DtorBegin \/ DtorPost \/ DtorCloseAll \/ DtorStop \/ DtorDestroy

Next ==
    \/ Start \/ StartFails \/ AcceptLoopEnds \/ RunOutOfWork
    \/ \E c \in Conns : Accept(c) \/ HandleConnection(c)
    \/ \E r \in Ref : ForwardData(r) \/ PeerCloses(r)
    \/ \E k \in Callers : Manage(k)
    \/ \E m \in Limits : SetMaxPlayer(m)
    \/ Destructor

Spec == Init /\ [][Next]_vars

-----------------------------------------------------------------------------
(* Fairness.  The io threads run every coroutine that can run, and a read  *)
(* or write of a socket that was shut down ends: what its buffers still    *)
(* hold is finite, hence strong fairness where a loop may use it up.  The  *)
(* resolver and connect have time limits in the operating system.  Nothing *)
(* makes a client or a server send, read or hang up.                       *)

StrandStep(c) ==
    \/ EnterPool(c) \/ EnterPoolFails(c) \/ StatusResponse(c) \/ LoginGate(c)
    \/ LoginAccepted(c) \/ LoginDenied(c) \/ LoginThrows(c)
    \/ Register(c) \/ RegisterTaken(c) \/ Leave(c)
    \/ ProxyStart(c) \/ ProxyStartThrows(c)
    \/ ProxyEnd(c) \/ ProxyEndSkipped(c) \/ CloseSession(c)

\* Short packets, which fit into the socket buffers, and the connect.
BoundedWait(c) ==
    \/ ConnectOk(c) \/ Refuse(c) \/ Greet(c) \/ GreetFails(c)
    \/ pc[c] \in {"connecting", "refusing"} /\ IoThrows(c)

\* HandleConnection waits for bytes from, or for room to, a dead client.
EndOfFile(c) ==
    /\ pc[c] \in {"handshake", "status", "replying", "loginStart"}
    /\ sock[Client(c)] = "shut"
    /\ IoThrows(c)

Served(k) == KickByUsername(k) \/ KickByUUID(k) \/ GetUsersInfo(k)

IoFairness ==
    /\ \A c \in Conns : /\ WF_vars(StrandStep(c))
                        /\ WF_vars(BoundedWait(c))
                        /\ SF_vars(EndOfFile(c))
    /\ \A r \in Ref : SF_vars(ForwardEnds(r))
    /\ \A k \in Callers : WF_vars(Served(k))
    /\ WF_vars(DtorPost) /\ WF_vars(DtorCloseAll)
    /\ WF_vars(DtorStop) /\ WF_vars(DtorDestroy)

\* The servers behind the proxy go on reading what is sent to them.
ServersDrain == \A c \in Conns : WF_vars(Written(Client(c)))

FairSpec == Spec /\ IoFairness /\ ServersDrain

-----------------------------------------------------------------------------
(* Type correctness. *)

Events == {"on_login", "on_login_denies", "on_login_throws", "login_failure",
           "on_proxy_start", "on_proxy_end", "on_logout"}

PCs == SessionPCs \cup WaitingPCs \cup
       {"none", "spawned", "query", "gate", "loginCall", "register",
        "leaving", "done", "abandoned"}

TypeOK ==
    /\ life \in {"constructed", "failed", "running", "checked", "posted",
                 "stopping", "joining", "destroyed"}
    /\ acceptor \in {"none", "opened", "listening", "closed"}
    /\ acceptLoop \in {"off", "waiting", "ended"}
    /\ io \in {"idle", "running", "drained", "stopped"}
    /\ maxPlayer \in Limits \cup {-1}
    /\ call \in [Callers -> Calls \cup {None}]
    /\ pc \in [Conns -> PCs]
    /\ name \in [Conns -> Names \cup {None}]
    /\ uuid \in [Conns -> UUIDs \cup {None}]
    /\ sock \in [Ref -> {"none", "open", "shut", "closed"}]
    /\ users \in [Names -> Conns \cup {None}]
    /\ connections \subseteq Ref
    /\ fwd \in [Ref -> {"off", "receive", "write", "ended"}]
    /\ events \in [Conns -> Seq(Events)]

-----------------------------------------------------------------------------
(* Safety. *)

\* A User in the map belongs to the connection that logged in under that
\* name, and its two raw pointers point to sockets that still exist: a kick
\* or a listing never touches the frame of a finished coroutine.
NoDanglingUser ==
    \A n \in Online : /\ name[users[n]] = n
                      /\ \A r \in Both(users[n]) : Live(r)

\* The pool holds no pointer to a destroyed socket, so the destructor's loop
\* over it is safe whenever it runs.
NoDanglingPointer == \A r \in connections : Live(r)

\* From its entry into the map to its removal a session owns its name, and
\* both of its sockets are in the pool: no other login replaces it, no other
\* session's clean-up erases it, and the destructor can reach it.
SessionRegistered ==
    \A c \in Conns : pc[c] \in SessionPCs =>
        users[name[c]] = c /\ Both(c) \subseteq connections

\* What a connection may see of the callbacks when it is over.
Histories ==
    {<<>>, <<"login_failure">>, <<"on_login_throws">>, <<"on_login_denies">>,
     <<"on_login_denies", "login_failure">>, <<"on_login">>,
     <<"on_login", "login_failure">>, <<"on_login", "on_logout">>,
     <<"on_login", "on_proxy_start", "on_logout">>,
     <<"on_login", "on_proxy_start", "on_proxy_end", "on_logout">>}

\* Callbacks come in the documented order, each at most once; a session that
\* was told to start is told to end by on_logout, and a client that was
\* refused never sees a session.
CallbackOrder ==
    \A c \in Conns : /\ pc[c] = "done" => events[c] \in Histories
                     /\ pc[c] \in SessionPCs =>
                          Append(events[c], "on_logout") \in Histories

LoggedOut(c) == \E i \in DOMAIN events[c] : events[c][i] = "on_logout"

\* The map, on_logout and the destructor implement the registry.
Registry == INSTANCE SessionRegistry WITH
    Sessions <- Conns, owner <- users,
    loggedOut <- {c \in Conns : LoggedOut(c)}, closed <- (life = "destroyed")

RegistrySpec == Registry!Spec

-----------------------------------------------------------------------------
(* The inductive invariant behind the safety properties: what each point   *)
(* of HandleConnection implies for the map, the pool, the sockets and the  *)
(* callbacks.                                                              *)

FramePCs  == PCs \ {"none", "done", "abandoned"}
PooledPCs == FramePCs \ {"spawned"}
NamedPCs  == SessionPCs \cup {"loginCall", "connecting", "register"}

UsersInv ==
    /\ \A n \in Names : users[n] # None =>
           name[users[n]] = n /\ pc[users[n]] \in SessionPCs
    /\ \A c \in Conns : pc[c] \in SessionPCs => users[name[c]] = c
    /\ \A c \in Conns : pc[c] \in NamedPCs => name[c] \in Names

PoolInv ==
    \A c \in Conns :
        /\ Client(c) \in connections <=> pc[c] \in PooledPCs
        /\ Server(c) \in connections <=> pc[c] \in SessionPCs

SockInv ==
    \A c \in Conns :
        /\ pc[c] \in FramePCs => Live(Client(c))
        /\ pc[c] \in SessionPCs \cup {"register"} => Live(Server(c))

\* The histories possible at each point.
HistoryAt(label) ==
    CASE label \in {"connecting", "register", "greeting", "starting"}
             -> {<<"on_login">>}
      [] label = "forwarding" -> {<<"on_login", "on_proxy_start">>}
      [] label = "closing"
             -> {<<"on_login">>, <<"on_login", "on_proxy_start">>,
                 <<"on_login", "on_proxy_start", "on_proxy_end">>}
      [] label = "refusing"
             -> {<<>>, <<"on_login_denies">>, <<"on_login">>}
      [] label = "leaving"
             -> {<<>>, <<"on_login_denies">>, <<"on_login">>,
                 <<"login_failure">>, <<"on_login_denies", "login_failure">>,
                 <<"on_login", "login_failure">>}
      [] label = "done" -> Histories
      [] OTHER -> {<<>>}

EventsInv ==
    \A c \in Conns : IF pc[c] = "abandoned" THEN ~LoggedOut(c)
                     ELSE events[c] \in HistoryAt(pc[c])

LifeInv ==
    /\ life \in {"joining", "destroyed"} => io = "stopped"
    /\ life = "destroyed" => \A c \in Conns : pc[c] \notin FramePCs
    /\ \A c \in Conns : pc[c] = "abandoned" => life = "destroyed"

IInv == TypeOK /\ UsersInv /\ PoolInv /\ SockInv /\ EventsInv /\ LifeInv

-----------------------------------------------------------------------------
(* Liveness. *)

\* Once the client's socket is shut down, by a kick, by the destructor or by
\* the client, its coroutine ends and nothing of it stays behind.
ShutConnectionEnds ==
    \A c \in Conns :
        sock[Client(c)] = "shut" ~> pc[c] \in {"done", "abandoned"}

\* A call into the strand returns to the thread that waits for it.
CallReturns == \A k \in Callers : call[k] # None ~> call[k] = None

\* The destructor returns once it has begun, whatever the sessions wait for.
DestructorEnds == life \in {"checked", "stopping"} ~> life = "destroyed"

=============================================================================
