# Minecraft-Speed-Proxy in TLA+

A verification development kept beside the C++ sources: TLA+ modules translated
from the code, TLC configurations that check them on small instances and TLAPS
proofs that hold for every size.  Paths are relative to the repository.

## 1. The system

A process runs one or more *proxies*.  A proxy listens on a port, reads the
Minecraft handshake and login of each client, connects to a server and copies
bytes in both directions until one side ends.  A console and an HTTP control
panel list and kick players, set limits and add or remove proxies.

| Part | State it keeps | Operations | Talks to |
|---|---|---|---|
| `Proxy` (`proxy.cpp`) | `users` (name -> session), `connections` (socket pointers), `max_player`, motd, route tables, io_context, acceptor | `Start`, `AcceptLoop`, `HandleConnection`, `ForwardData`, `Kick*`, `GetUsersInfo*`, `Set*`, destructor | callbacks of its owner; its callers wait with `use_future.get()` |
| `ProxyManager` | `records`, `order`, store file, log sink, one `shared_mutex` | `AddProxy`, `RemoveProxy`, `SetMaxPlayer`, `ReloadMotd`, load and save | creates and destroys `Proxy` objects, installs their callbacks |
| `WhiteBlackList` | two lists, a switch, a file, one mutex | add, remove, clear, query | asked by the login callback; changed by console and panel |
| `WebControl` | tokens, logs and user history per proxy | HTTP handlers, a timer thread | `ProxyManager`, `WhiteBlackList` |
| `main.cpp` | none | console commands (kick, ban, limits, exit), start-up | all of the above |
| `rbslib/TaskPool` | task queue, counters, worker threads | `Run`, worker loop, destructor | runs the HTTP handlers |
| `rbslib/Network` | the connections of the panel: a socket, a mutex and a counter shared by the copies of a `TCPConnection` | `LoopWait`, copy, move and destruction of handles | hands each connection to the `TaskPool` in a task |
| `datapackage`, `DataType` | none | VarInt, strings, packets | used by `HandleConnection` |
| `config` | the configuration object | load, upgrade, save | read by everything |
| rest of `rbslib`, `logger`, `helper` | files, sockets | wrappers of system calls | |
| `asio/`, `json/`, embedded assets | | third-party, generated | |

### What is hard

* A session is spread over three coroutines and two sockets that live in the
  frame of one of them, while `users` and `connections` hold raw pointers into
  that frame.  Every exit path has to remove all of them.
* The strand makes a run of statements atomic only up to the next suspension:
  what was checked before a read, a write or a connect may be stale after it.
* Callbacks, `remote_endpoint()` and every I/O may throw at each point.
* The bytes of a client come in any cut, with the login and what follows it in
  one segment; what was read too far would be lost to the copying.
* Access lists are asked by a login in three looks while console and panel
  change them; files are cut to nothing before they are written.
* A connection of the panel is copied, moved and dropped by two threads at once,
  and the last handle deletes the mutex that guards the count.
* Other threads block on the strand; the destructor posts to it and then stops
  the io_context under the coroutines.
* Nothing has a time-out, so whether something ends depends on the peers.

`PROJECT.json` lists the hazards line by line with the properties that cover
them.

### What makes each part correct

* **Proxy**: names are exclusive; no pointer outlives its socket; callbacks
  come in order and a logged-in session that started gets exactly one
  `on_logout`; the player limit holds; a shut connection ends; calls and the
  destructor return.
* **ProxyManager**: `order` lists the keys of `records` once each; ports are
  unique and each registered proxy listens; the file equals the memory when no
  operation is under way; nothing that was saved is lost by a crash or a load.
* **WhiteBlackList**: the file follows the lists; a player who was banned does
  not stay online.
* **TaskPool**: every task is run once; the counters that steer it are the
  numbers of its threads; the destructor returns and leaves no thread behind.
* **Panel connections**: the counter is the number of handles; nobody uses a
  mutex that was deleted or a socket that was closed; every socket is closed.
* **Codec and routing**: the server hears what the client means, byte for byte,
  however reads and writes cut it; a login goes where the tables say.
* **Configuration**: upgrades keep values.

## 2. Plan

| # | Module | Of | Status |
|---|---|---|---|
| 1 | `Proxy`, `SessionRegistry` (abstract), `MCProxy`, `ProxyProofs` | sessions | done |
| 2 | `TaskPool`, `TaskPoolProofs` | HTTP workers | done |
| 3 | `ProxyManager`, `MCProxyManager`, `ManagerProofs`: the table, its file, crashes and restarts | services | done |
| 4 | `AccessLists`, `MCAccessLists`, `AccessProofs`: lists, ban, login callback and kick together | players | done |
| 5 | `Packets`, `LoginPath`, `Clients`, `MCLoginPath`, `PacketsProofs`, `LoginPathProofs`, `ClientsProofs`: codec, status, routes and the copying, of one connection, and what its client means | bytes | done |
| 6 | `HttpServer`, `SharedSocket` (abstract), `HttpProofs`: the panel's connections | panel | done |
| 7 | Panel logs, history and tokens; upgrades of the configuration | panel, config | left out, see section 7 |

Abstract specifications: `SessionRegistry`, which `Proxy` implements, and
`SharedSocket`, which `HttpServer` implements.  How the modules divide the
code: `Proxy` has what sessions, callers and the destructor do to each other and
takes packets for their outcome; `LoginPath` has one session, byte by byte;
`AccessLists` joins the lists to as much of the default proxy as a ban meets;
`ProxyManager` takes a proxy for its address and port; `TaskPool` has the
threads and `HttpServer` what their tasks carry.

## 3. The modules

### `Proxy`

One proxy object.  An action is the code a coroutine runs between two
suspensions.  `co_await asio::dispatch(strand)` suspends outside the strand and
goes on at once inside it, so for instance lines 408-428 (look the name up,
enter it, add the server's socket to the pool, start the write) are one action,
`Register`.  Any two coroutines interleave, as with several io threads.

| Variable | Code |
|---|---|
| `life` | construction, `Start`, and the steps of `~Proxy` |
| `acceptor`, `acceptLoop` | the `unique_ptr` of the acceptor; the `AcceptLoop` coroutine |
| `io` | `io_context::run()` in the io threads: running, out of work, stopped |
| `maxPlayer` | `max_player` |
| `call` | what each other thread waits for in `use_future.get()` |
| `pc`, `name`, `uuid` | where each `HandleConnection` is suspended, its login packet |
| `sock` | `socket` and `remote_server`: none, open, shut (end-of-file pending), closed (destroyed) |
| `users` | `users`, from the name to the connection of the `User` |
| `connections` | `connections` as a set: `list::remove` deletes all equal items |
| `fwd` | each `ForwardData`, named by the socket it reads |
| `events` | history of the callbacks and LoginFailure packets of a connection |

The path of a connection: `Accept`, `EnterPool`, `Handshake`, then the status
loop (`StatusRequest`, `PingRequest`, ...) or `LoginGate`, `LoginStart`,
`LoginAccepted`, `ConnectOk`, `Register`, `Greet`, `ProxyStart`, forwarding,
`ProxyEnd`, `CloseSession`.  Beside each step stand its failures: `IoThrows`
for every read, write, resolve or connect, `Refuse` for the LoginFailure
packets, `LoginThrows`, `ProxyStartThrows` and `ProxyEndSkipped` for callbacks
and `remote_endpoint()`.  `CleanUp` is what lines 460-484 do in one segment.
Callers `Post` an operation, which runs in the strand (`KickByUsername`,
`KickByUUID`, `GetUsersInfo`); `SetMaxPlayer` is an atomic store.  `~Proxy` is
five steps, because the check of `stopped()`, the posted task, the stop and the
joins are separate moments for the other threads.

Abstractions: packets are their outcome (well-formed or not); addresses, texts,
motd and route tables are in `LoginPath`; a socket that was shut down by
us and one that was closed by its peer are one state.  `None` for a UUID never
occurs because line 405 always computes one.

### `SessionRegistry`

What the owner of a proxy can rely on: a free name is joined by a session that
has not been logged out; a leaving session frees its name and gets its
`on_logout` in the same step; only the destructor ends sessions without it.
`Proxy` implements it under `owner <- users`,
`loggedOut <- {c : on_logout is in events[c]}`, `closed <- life = "destroyed"`:
`Register` is Join, `CleanUp` is Leave, `DtorDestroy` is Close and all else
stutters.

### `MCProxy`

Symmetry, and the two statements of headers and documents about the sessions
that the code does not keep.

### `ProxyProofs`

The theorems of section 6.

### `TaskPool`, `TaskPoolProofs`

The pool of `rbslib/TaskPool.cpp` with the one thread that uses it: the accept
loop of `LoopWait` calls `Run` and, when it is told to stop, the destructor.

| Variable | Code |
|---|---|
| `owner` | where that thread is: outside, after the push of `Run`, about to start a thread, unwinding because none could be started, in the destructor |
| `task_list`, `is_cancel`, `running_task_num`, `watting_task_num` | the members of these names |
| `task_lock` | the worker that holds the mutex; `Run` and the destructor hold it within one action |
| `threads_handle` | the list of threads, as a set |
| `pc` | where each worker is in the lambda |
| `handled` | history: the tasks a worker has taken |

`Run` reads `watting_task_num` after it has let the mutex go, so the push
(`Run`) and the decision (`Notify`, `MustStart`) are separate, and what a worker
does under the mutex is split wherever it changes a counter: `Count` and `Break`
show the moment in which a worker that is about to leave counts as waiting.
`Wait` releases the mutex and blocks in one step, as a condition variable does;
`SpuriousWake` is allowed.  A task is only its return.  When a thread cannot be
started (`StartThrows`), the connection stays in the queue and the exception
leaves `Run` and `LoopWait` through the destructor, with the same promises; in
`HttpServer` that end of the loop is `AcceptFails`.

### `ProxyManager`, `MCProxyManager`

`ProxyManager.cpp`, the threads that call it and the file behind it.  A proxy
is here its address and port; what happens inside one is `Proxy`'s business.

| Variable | Code |
|---|---|
| `records`, `order` | the members of these names; a record is its config, the proxy in it is `EndpointOf` the config |
| `writer`, `readers` | the `shared_mutex`, while its holder does more than one step |
| `disk` | the file at `ProxyListPath`; a file cut off while it was written does not parse and counts as empty |
| `pc`, `req` | where each thread is, and the service it is adding |
| `held` | the proxies to which a thread holds a `shared_ptr` |
| `content` | the text that `SaveUnlocked` is writing |
| `todo` | the services of the file that `LoadFromDiskOrCreate` has still to add |
| `skipped`, `unsaved` | history: another process had a port; the last write failed |

`AddProxy` is three steps, because it lets the mutex go while it starts the
proxy and tests its server: `CheckAdd`, `Listen`, `Register`, each with the way
in which it throws.  `Bound` is what makes `bind` fail: every proxy that is in
the table *or held by some thread*, since a proxy listens until its last holder
lets it go.  `RemoveProxy` and `SetMaxPlayer` change the table under the lock
(`Unlock` ends the section), then save.  A save holds the mutex shared, cuts the
file to nothing and writes it (`SaveOpen`, `SaveWrite`); it may fail to open the
file or to write it, and several threads may save at once.  `Return` ends a
request: it destroys the proxies nobody else holds, and their threads may be
logging, which needs the mutex (`EmitLog`).  `Crash` is any end of the process;
`Load` and the steps after it are the next start.

`ManagerProofs` holds its theorems.

### `AccessLists`, `MCAccessLists`, `AccessProofs`

`WhiteBlackList.cpp` with everybody who uses it: the console's `ban`, `unban`,
`whitelist` and `kick`, the same requests of the panel, the login callback that
`AttachCallbacks` installs, and the kick.

| Variable | Code |
|---|---|
| `lists` | `white_list` and `black_list`: how often each name is in each |
| `on` | `WhiteListStatus` |
| `file` | the file of the lists: missing, cut to nothing, or lists |
| `lock` | the holder of the mutex, while it saves; other sections are one step |
| `pc`, `job` | where each thread is, and the command or request it deals with |
| `stage`, `who` | where each login of the default proxy is, and its name |
| `unsaved`, `seen`, `moves`, `swept`, `overtook` | history for the properties |

`ChangeList`, `SaveOpen`, `SaveWrite` are one section of the mutex, with the
ways in which each throws.  A panel request looks and changes in two sections
(`PanelCheck`, `ChangeList`).  A login takes the mutex three times (`LoginBlack`,
`LoginSwitch`, `LoginWhite`) while it is in the strand, which keeps a `Kick`
out; then it is let in (`Enter`) or not (`End`).  A `Kick` throws for a player who
is offline, and may for one whose socket is already gone (`Abandon`); a ban skips
it when there is no default proxy (`MaySkip`).  `Crash` is any end of the
process, `InitCreate` to `InitRead` the next start.

### `Packets`, `LoginPath`, `Clients`, `MCLoginPath` and their proofs

`Packets` is the codec as functions on sequences of bytes: what the loops of
`DataType.cpp` take, how their result is cut to its width, and what each
`ParseFromBuffer` and `ToBuffer` of `datapackage.cpp` makes of it, a missing id,
an empty packet and a length that lies included.  Its sizes are constants.  The
run has bytes of 2 bits and a flag (really 7), VarInts of at most 3 bytes (10),
numbers of 5 bits (64), an `int` of 4 (32) and a ping of 1 byte (8), so
that every branch, a sign bit and an overflow included, is within a few bytes.

`LoginPath` is `HandleConnection` and the two `ForwardData` of one connection,
with the calls that change the route tables and the motd.

| Variable | Code |
|---|---|
| `stream`, `read`, `mark` | what the client says, how much of it was read, and how much of that is dealt with |
| `pc` | where `HandleConnection` is suspended |
| `handshake_data_pack`, `login`, `user_name` | the locals (`login` is `login_start_row_packet`) |
| `route` | `remote_server_addr_real` and `_port_real` |
| `fwd`, `pending` | each `ForwardData`, and what is being written to each side |
| `served`, `toClient` | what each side has received |
| `spoke`, `heard` | how much the server has said, and how much of it was read |
| `peer`, `kicked`, `unheard` | who is still there; history |
| `dn_proxy_map`, `user_proxy_map`, `motd` | the members of these names |
| `lastCall`, `calls` | how the last call ended; a bound on their number |

A read asks for exactly what is missing, so nothing but `read` stands for what
has arrived.  Abstractions: an expression of `dnproxy enable` is a text with at
most one star, matched at both ends; the address has no half-closed state; a
short packet to the client goes out whole or not at all; the UUID is left out.

`Clients` has who the client is: somebody with a message (`Logins`, `Pings`,
`Others`), or with bytes that are none (`Junk`).  `Digits`, `Text`, `Opening` and
`Wire` say how the protocol spells a message.  They are an encoder of their own,
written as sums of digits and not as the loops of `Packets`, and with VarInts
longer than they need be.  `Delivered`, `Answered` and `RoutedByTables` compare
what the proxy does with what this reference makes of the client's message.
`RoutedByTables` speaks of the host a client dialled, without Forge's suffix: when
a login is let in, it goes to the player's own server (`OwnServer`), else to that
of the host (`HostServer`), else to the default, as the tables are at that moment.
A Forge client may also go to the default though his host has a server, which is
what the code does with him (section 5).
`ClientsAssumption` says what the messages are: lengths an `Integer` can hold, no
NUL in a host (nor in a key or pattern of the tables, which the console types),
and for each kind what makes it that kind.  `MCLoginPath` gives
TLC some of each: Forge suffixes, bytes that follow the login at once, padded
numbers, unknown states, packets that are no requests.

### `HttpServer`, `SharedSocket`, `HttpProofs`

`LoopWait` of `rbslib/Network.cpp`, the tasks in which connections go to the
workers, and the class `TCPConnection`.

| Variable | Code |
|---|---|
| `pc` | where each thread is: what it copies, moves or destroys next |
| `sock` | the descriptor of each connection: new, open, closed |
| `counter`, `mutex` | what the pointers `reference_counter` and `mutex` of its handles point to; a mutex is free, held or deleted |
| `handle` | the two pointers of each handle |
| `reg` | what a thread that holds a mutex has read in the counter |
| `task_list`, `task_lock`, `is_cancel` | of the pool |

A handle is named by the place it is in: LoopWait's `connection`, the lambda's
copy (`closure`), the parameter of `Run` (`func`), an element of the queue (named
by its connection), the function of a worker (named by the worker).  A
connection passes through `capture`, `move`, `push`, `take` and `run`, and each
place it leaves is destroyed (`dropFunc`, `dropConnection`, `pop`, `dropTask`,
`clear`).  Copy, move and destruction take the mutex (`Lock`), then change the
counter and the pointers and let it go (`Copy`, `Move`, `Drop`).  The handle that
counts down to zero closes the socket (`DropLast`) and deletes the mutex after it
has let it go (`DeleteMutex`), as `Close` does.  Which worker wakes and when one
is started is `TaskPool`; what a handler says to its client is left out
(`Return`).

`SharedSocket` is what copies of a connection promise together: the socket is
open as long as there is one, and the last takes it along.  `HttpServer`
implements it with `holders[c] <- the handles whose reference_counter is c`.

## 4. Runs

| Run | Instance | Shows |
|---|---|---|
| `proxy_safety` | 2 clients, 2 names, 1 caller, limit 1, failing accepts | type, the four safety properties, the refinement of `SessionRegistry` |
| `proxy_liveness` | 2 clients, 1 name, 1 caller, accept never fails | `ShutConnectionEnds`, `CallReturns`, `DestructorEnds` |
| `proxy_over_limit` | 2 clients, 2 names, limit set first | *violation*: more players than `MaxPlayer` |
| `proxy_destroyed_early` | 1 client | *violation*: the destructor does not wait for the sessions |
| `proxy_call_hangs` | 1 client, 1 caller, failing accepts | *violation*: a call waits forever after the io_context ran out of work |
| `login_path` | 19 clients, 2 motds, 3 calls, a peer may leave at any step | type, `Intact`, `LastWords`, `Delivered`, `Answered`, `RoutedByTables`, `FailedCallHarmless`, `AllDelivered` |
| `task_pool` | 3 connections, 3 threads, 1 to keep | type, `CountersAgree`, `HandledOnce`, `JoinsSafely`, `NoUseAfterDestroy`, `TaskIsTaken`, `PoolEnds` |
| `http_server` | 3 connections, 2 workers | `CountersExact`, `NoUseAfterClose`, `SocketCloses`, the refinement of `SharedSocket` |
| `manager_safety` | 2 workers, 3 services, 2 ids, 2 ports, 2 limits, write errors, crashes | type, `TableOK`, `FileMatches`, `LoadKeepsAll` |
| `manager_calls` | 2 workers, 2 services, no write errors, crashes | `RequestEnds`, `StrayStops` |
| `access_lists` | 1 name, 1 login, the console, 1 worker, write errors, crashes | type, `OneEntry`, `FileFollows`, `BanHolds`, `OneMoment`, `JobEnds` |
| `access_ban` | 2 names, 1 login, the console, a disk that works | *violation*: a ban stops at a player who is offline |

The four violations are what a header, a document or a help text says of the
program, and TLC shows the behaviour of the code that contradicts it (`findings`).

**Bounds.**  Two clients are enough for every pair of interleavings on one name
and on two; a third adds no new kind of interaction because a session meets
others only through `users`, `connections` and the limit, and the proofs cover
any number.  Two names with limit 1 make the limit bite.  `Calls` of one caller
are unbounded in number.  No counter needs a cap: `events` is bounded by the path of a connection.
Symmetry over connections and names is used for safety only.
`CHECK_DEADLOCK FALSE` everywhere: a destroyed proxy stops, and so may a
proxy whose io_context has run out of work.

For the pool, three connections make a thread leave (two are kept busy, one is
to be kept) while a third task is handed over to it.  A task starts at most one
thread, so three threads never run out.

For the manager, two workers make every race of two requests: two additions that
pass the first check together, a removal between a change and its save, two
savers.  The services are two on one port of different addresses, where `bind`
does not tell them apart and only the second check does, and one on the port of
the fallback, which is free once that is removed; one of them has no id, so
that an id is generated while another thread is about to use it.  The file is
whatever an earlier process left: crashes happen at every step, any number of times.
A process started by hand with an edited file is not considered.

For the lists, one name, one login and one worker beside the console hold every
pair of actors that meet over a name, and a line may repeat its name
(`<<n1, n1>>`); names do not interact otherwise, and the proofs cover any number
of each.  `moves` stops at 2, which its property reads as "twice or more".

For one connection, the 19 clients are logins with and without a mapped name or
domain, with a Forge suffix, with VarInts longer than they need be, status and
ping clients in and out of order, and four that break the protocol; the peer
sends at most a few bytes, the buffer holds 2, so that every cut is there.  At
most 3 calls (`MaxCalls`) are made while a login is between its gate and the
choice of its server, or a status client is connected: nobody looks at the
tables before or after.  The `VIEW` leaves the tables out once the route is
chosen, for the same reason.

For the panel's connections, with three of them and two workers a task still
waits in the list when the loop ends.

**Fairness.**  `IoFairness`: the io threads run what can run (weak fairness of
strand steps), the connect and the short packets end (the operating system
limits connects; the packets fit a socket buffer), and a read or write on a
socket that was shut down ends.  The last is strong fairness, because a status
client's loop or the rest of a buffer may come in between a finite number of
times.  Nothing makes a peer send, read or hang up: a silent client keeps its
connection, as in the code.  `ServersDrain` adds that servers go on reading:
without it a kicked session whose server does not read keeps its name.
`proxy_liveness` needs `AcceptErrors = FALSE`: with failing accepts `CallReturns`
and `DestructorEnds` are false, see `proxy_call_hangs` (and the same window
between lines 170 and 173 hangs the destructor).

In `LoginPath` the proxy goes on with what it can do without its client (weak
fairness of `Serve`: connecting, writing, reading a server); nothing makes the
client say or read anything.

In `TaskPool` every thread runs (strong fairness of a worker, because the mutex
may pass it over but not for ever) and every handler returns.  The last is what
clients do, not the code: a keep-alive client that stays holds its worker, and
with it a task that `Run` has counted on that worker for.  Both liveness
properties say what holds when they do hang up.

In `ProxyManager` every worker runs (strong fairness: the mutex and a request
whose next step is blocked for a while may not pass it over for ever), and a
server answers the ping test of `AddProxy` or refuses it, which the code, having
no time-out there, leaves to the server.

In `AccessLists` every thread and every login that is in `on_login` runs (strong
fairness, because the mutex and the strand may pass them over but not for ever).

In `HttpServer` every thread runs (strong fairness of `LoopStep` and of each
worker, because a mutex may pass it over).  As in `TaskPool` this includes that
handlers return, which is up to the clients; nothing makes a connection arrive
or `accept` fail.

## 5. Divergences found

With a run:

* `proxy.cpp:326` - the limit is checked long before the user is entered.
* `proxy.cpp:205` - the io_context is stopped without waiting for sessions.
* `proxy.cpp:659` - a call hangs once `io_context::run()` has returned.
* `main.cpp:351` - `KickByUsername` throws an exception that `ban` does not
  catch, so a ban of several players stops after one who is offline.

Also seen, without a run, most of them as an action of a model:

* Proxy.  `on_connected` and `on_disconnect` (`proxy.h:185`) are never called; a
  log line can throw and skip `on_proxy_end` (`proxy.cpp:451`, `ProxyEndSkipped`);
  an exception of `on_login` is not shown to the client (`:349`); a kick leaves
  the server's socket alone (`:653`); any error of `async_accept` but
  `operation_aborted` ends the accept loop of a running proxy (`:256`).
* Routes.  A Forge client's suffix is part of the address that `dnproxy` matches
  (`proxy.cpp:368`), so the server of his host is never found for him, though
  `README.md:9` lists Forge: he goes to his own server or to the default.
  `ForgeNotByHost` proves it, and without its last disjunct, which grants a Forge
  client this much, `RoutedByTables` is false.  A mapping
  that exists is kept, and the console logs "Added" (`main.cpp:478`); an
  expression that does not compile leaves an empty table (`proxy.cpp:129`);
  `GetID` reads bytes nobody wrote when a packet is empty (`datapackage.cpp:323`).
* Manager and lists.  A service whose port another process holds while the
  program starts is dropped from the file for good (`ProxyManager.cpp:564`,
  action `LoadThrows`); an end of the process between `ProxyManager.cpp:33` and
  `:34` leaves an empty file (`SaveOpen`, `Crash`); a ban through the panel kicks
  nobody (`WebControl.cpp:252`) and one through the console only from the default
  proxy (`main.cpp:345`), whose limit the console sets behind the manager's back
  (`main.cpp:250`).
* Panel.  `WebControlServer::Stop` does not wait for its threads
  (`WebControl.cpp:1214`); a failing `accept` ends the panel for good
  (`Network.cpp:177`, `AcceptFails`); removing a service erases its logs while the
  handler still holds the proxy, whose last lines make the entry again
  (`WebControl.cpp:748`, `:1004`).
* Pool.  Two connections that come before a waiting worker has run both count
  on it (`TaskPool.cpp:10`), and with `keep_task_num` 0 the last worker may leave
  a task that counts on it (`:47`): `TaskIsTaken` holds for handlers that return
  and at least one thread to keep.  A thread that cannot be started takes
  `LoopWait` down with it (`:27`, action `StartThrows`).
* History.  A login whose connect fails gets no `on_logout` (`proxy.cpp:397`), a
  request whose save throws is reported as failed but is in force
  (`ProxyManager.cpp:446`, `WhiteBlackList.cpp:101`), and nobody looks whether
  the file was written (`ProxyManager.cpp:34`): no text of the repository promises
  anything else, so no property does.  `CallbackOrder` allows the first;
  `FileMatches` and `FileFollows` except the others until the next save that works.

## 6. Proofs

`ProxyProofs` proves for every number of connections, names, UUIDs and callers,
from `ProxyAssumption` alone (`None` is none of them, limits are integers):

| Theorem | States |
|---|---|
| `TypeCorrect` | `Spec => []TypeOK` |
| `Invariant` | `Spec => []IInv` |
| `MapIsSafe`, `PoolIsSafe`, `SessionsAreRegistered`, `CallbacksInOrder` | the four safety properties |
| `Refinement` | `Spec => RegistrySpec` |

None of the safety properties is inductive.  `IInv` adds what each suspension
point implies: which points are in the map (`UsersInv`), in the pool
(`PoolInv`), have live sockets (`SockInv`), which callback histories are
possible there (`EventsInv`), and that frames are abandoned only by a finished
destructor (`LifeInv`).  `NoDanglingPointer`, for example, needs both that only
points inside the coroutine are pooled and that every such point keeps its
socket.  The step proof splits `Next` into steps that leave all of this alone
(`Quiet`), steps that only move a coroutine along an arc of `Arcs` (`Plain`),
the steps with effects, `Accept` and `DtorDestroy`.  For a step of one
coroutine, `OwnStep` reduces the invariant to facts about that coroutine.
The refinement uses the invariant on both sides of the step.

`TaskPoolProofs` proves, for any number of tasks, workers and threads to keep,
from `TaskPoolAssumption` (the threads are finitely many, `None` is none):
`PoolTypeCorrect`, `PoolCounts`, `PoolHandlesOnce`, `PoolJoinsSafely` and
`PoolOutlivesWorkers`, the five safety properties of the run, and
`PoolInvariant`.  The invariant adds that the mutex has a holder exactly while
some worker is in `Holding`, and that `is_cancel` tells where the destructor is:
it is set with the mutex free, when no worker can be about to remove its handle.
`PoolCounts` rests on `Moves`, which says how one step of a worker changes the
two cardinalities, and `PoolTypeCorrect` on `PoolCounts`: a counter is never
decremented below zero, where the `uint64_t` would wrap.

`ManagerProofs` proves, for any number of workers, ids, addresses, ports and
requests, from `ManagerAssumption`: `ManagerTypeCorrect`, `ManagerKeepsTable`,
`ManagerFileMatches` and `ManagerLoadKeepsAll`, the four safety properties of
`manager_safety`, and `ManagerInvariant`.  The invariant adds where each thread
can be and what it has there (`PlaceInv`), who holds the mutex (`MutexInv`),
that whoever writes the file writes the table as it is now (`TextInv`, because
nobody changes it while the mutex is shared), and that a file has each id and
port once (`FileInv`).  `ManagerKeepsTable` rests on lemmas about `RemoveAt` and
`Append`; `ManagerFileMatches` on `TextInv` and on the last saver being the one
that leaves the file; `ManagerLoadKeepsAll` on `NextFits`: the next service of
such a file collides with nothing that was loaded before it.

`AccessProofs` proves, for any number of names, logins, workers and command
lines, from `AccessAssumption`: `AccessTypeCorrect`, `AccessOneEntry`,
`AccessFileFollows`, `AccessBanHolds` and `AccessOneMoment`, and the invariant
they rest on.  It says who has the mutex and what the file is then (`LockInv`),
what each thread was told to do at each place (`JobInv`), which names a ban has
dealt with (`BanInv`), and what a login that is being checked has seen so far
(`CheckInv`).  `OneMoment` is the delicate one: with at most one change between
the three looks, the verdict they add up to is that of one of the two states.

`HttpProofs` proves, for any number of connections and workers, from
`HttpServerAssumption` (both are finite, the names of handles, threads and
`None` are apart): `HttpTypeCorrect`, `HttpCountersExact`, `HttpNoUseAfterClose`,
`HttpInvariant`, and `HttpSharesSockets`, the refinement of `SharedSocket`.  The
invariant says which handles exist at each place of a thread (`ConnectionInv`,
`ClosureInv`, `FuncInv`, `QueueInv`, `WorkerInv`), that a thread with a mutex
still sees the counter it read (`LockInv`), that the counter of a connection is
the number of its handles and its socket is open while there is one (`CountInv`,
`OpenInv`), and that a handle that gave up its counter is the only one with that
mutex (`LastInv`), which is why its thread may delete it.  No two threads are at
one handle (`Owned`, from `SourcesApart`), so a step of one leaves the others
theirs (`StepKeepsLocks`); the steps on handles are shown once each, for
whichever thread takes them, and each lemma gives the step of `SharedSocket` too.

`PacketsProofs` proves what the codec computes for every input and every size,
from `PacketsAssumption`: the sizes are positive, and as many bytes as the loops
of `ReadVarint` take have room for what `ToVarint` can write (in the code 7 times
10 bits for 63).  `VarintsReadBack`: a number an `Integer` can hold is read as
it was written, whatever follows it, and nothing behind it is touched.
`FramesReadBack` and `HandshakesReadBack` say the same of a packet or string
behind its length and of the five fields of a handshake.  `Short` is the set of
the numbers an `Integer` can hold.  The argument by induction is made of
statements about sets: `StrongInduction` and `Induction` follow from the
library's fact that `<` is well founded on the naturals; that the recursive
functions `ToVarint`, `Weight` and `Sums` exist at all, and so equal their
definitions (`VarintUnfolds`, `WeightIs`, `SumsAre`), from `RecursionExists`; and
that a power of two is a natural number twice the one before it from the
cardinality of a set of subsets (`PowerIsNat`, `PowerDoubles`).

`LoginPathProofs` proves, for any streams, tables, texts, buffer size and number
of calls, from `LoginPathAssumption` (all of these are bytes, ports are two
bytes, and `None` and `NoPattern` are none of the other values):

| Theorem | States |
|---|---|
| `TypeCorrect`, `StreamsIntact`, `LastWordsHeard` | the three invariants of `LoginPath` |
| `FailuresHarmless` | `FailedCallHarmless` |
| `ServedIsTranslated` | what a server has received is the beginning of `Translated(stream, route)`: the client's stream with another address and port in its first packet |
| `LoginsTranslated` | what `Translated` is, for a client that spells its packets as the proxy does |
| `ServersUnderstand` | a server that reads like the proxy gets the redirected handshake, the login of `user_name`, and all the client said since |
| `RoutedAsWanted` | a login goes where the tables of that moment want the host and player its own packets name |
| `RequestsAnswered` | a status client's packets are answered in the order of the stream, none twice, none passed over |

`Intact` is not inductive: it speaks of what has arrived, and forgets what is
being written.  `Inv` adds what is known of the client at each place (`Known`:
the handshake was well-formed, who is online has a route), that a `ForwardData`
has bytes to write only while it writes (`Copying`), that what was read is what
arrived and what is pending, unless there is nobody left to write it
(`Forwarded`, `Returned`), and, for `LastWords`, that without a disturbance the
copying to the client is the first to end, having written all (`Ordered`).  For
the theorems about meaning, `Parsed` ties the locals to the stream: whatever the
cuts, the handshake and the login are those of its first two packets, `First(stream)`
and `First(Behind(stream))`, and `mark` is behind them.  It rests on
`NextPacket`: a packet that is whole in what was read is the one the stream
begins with.  What `First` and `Behind` make of the proxy's own output is a
matter of `FramesReadBack` (`TwoFrames`), so `ServersUnderstand` follows without
an encoder of the specification's own.

`ClientsProofs` proves, for any messages and other bytes that `ClientsAssumption`
allows, whatever zeros their VarInts have:

| Theorem | States |
|---|---|
| `MeaningDelivered` | `Delivered`: the server hears what the client means, and of a client that is not to be let through nothing |
| `AskersAnswered` | `Answered`: requests are answered in turn, each ping with its own payload |
| `TablesFollowed` | `RoutedByTables`: a login goes where the tables want its player and the host its client dialled; a Forge client perhaps to the default |
| `ForgeNotByHost` | a Forge client goes to the server of his own or to the default, never to that of his host |

The two encoders are brought together first.  `DigitsSpell`: the digits of a
number add up to it, `QuotientsAre` being the induction; `SpelledReadsBack` of
`PacketsProofs` then says that it is read, needless zeros and all, and
`NegativeIs` that a negative number is one below zero again (so `DigitsReadBack`);
`DigitsOfVarint`: without zeros they are what `ToVarint` writes.  From this comes
what the proxy reads of a message (`OpeningIs`, `LoginStartIs`, `WireIs`,
`LeftHeads`), that it lets in nothing of junk or of another packet (`JunkIs`,
`NoLoginIs`), and that a request has one answer whatever bytes `GetID` reads
behind it (`AnswerOf`).  A suffix begins with a NUL and no key or pattern has one,
so an address with a suffix is an instance of none (`UnmarkedJoin`,
`ForgeUnmapped`), and what the tables then give is what `LookedUp` says.
`Parsed` takes these to the state: `LetIn` and `PlayIs`
give the message of whoever is past the handshake or the login.  Two invariants
were missing.  `Stated`: nobody who has asked for the status is let on to the
login.  `Asking`, for `Answered`, which forgets how far the client is: with n
packets taken the stream goes on with the others, and the client has got the
answers of the first n (`InTurn`), or has left, or n is beyond the first packet
that is no request; each of these leads to `Outcome`, which is `Answered` at the
end.  TLC found both to hold on the run's instance before they were proved.

Liveness (`ShutConnectionEnds`, `CallReturns`, `DestructorEnds`, `TaskIsTaken`,
`PoolEnds`, `RequestEnds`, `StrayStops`, `JobEnds`, `AllDelivered`,
`SocketCloses`) is only model-checked: it rests on fairness, which is outside the
prover's reach.

## 7. Not modelled

`asio/`, `json/` and the embedded pages (third-party or generated; of the
185,000 lines of the tree about 178,000, so that no map of this project can
cover a large share of it); the logger, file, stream, buffer and command-line
wrappers (I/O and containers); `example.cpp` (an earlier interface).

Of first-party parts: of `ProxyManager`, `ReloadMotd`, the log sink and what a
view shows; of the panel, its logs and history (bounded lists under one mutex
each), its tokens and the parsing of HTTP; `config.cpp`, which is sequential and
replaces keys one by one; of the console, options, wording and the exit; the
copy assignments of `TCPConnection`, which nothing calls; the UUID of a login.
A client without an answer or a time-out (`proxy.cpp:278`) is in the models as a
peer nothing is assumed of; no property says that such a session ends, because
it need not.  `AccessLists` has one default proxy: a ban that overtakes the end
of the sessions of a default proxy just removed is not in it, and `BanHolds` says
nothing of another proxy's players.
