---------------------------- MODULE ProxyManager ----------------------------
(***************************************************************************)
(* src/ProxyManager.cpp: the table of proxy services, the file it is       *)
(* stored in, and the threads that change both: the workers of the HTTP    *)
(* server, and the main thread while it loads the file at start-up.        *)
(*                                                                         *)
(* The proxies are what Proxy.tla models; here one is its address and port *)
(* and whether anybody still holds a shared_ptr to it.  It listens until   *)
(* the last holder lets it go.                                             *)
(*                                                                         *)
(* A section under the mutex is one action, except where the thread does   *)
(* something else while it holds the lock.                                 *)
(***************************************************************************)
EXTENDS Integers, SequencesExt

CONSTANTS
    Callers,    \* workers of the HTTP server; the console and the timer of the
                \* panel do what a worker does that only looks: Handle, ListViews
    Main,       \* the main thread while it starts the program
    Ids, Addrs, Ports, Limits,
    AnyAddr,    \* 0.0.0.0
    Requests,   \* the services that callers ask AddProxy for
    Fallback,   \* the service of config.json
    DiskErrors, \* whether writing the file may fail
    None

Endpoint == [addr : Addrs, port : Ports]
Service  == [id : Ids, addr : Addrs, port : Ports, max : Limits]

\* An id that is empty, or is after NormalizeId, is None.
Request == [id : Ids \cup {None}, addr : Addrs, port : Ports, max : Limits]

ASSUME ManagerAssumption ==
    /\ Main \notin Callers /\ None \notin Ids \cup Callers \cup {Main}
    /\ None \notin Service
    /\ Requests \subseteq Request /\ Fallback \in Service
    /\ DiskErrors \in BOOLEAN

Threads == Callers \cup {Main}

VARIABLES
    disk,     \* the services in the file; <<>> if it is missing, empty or cut off
    records,  \* the table, None where there is no record
    order,
    writer,   \* the holder of the mutex, when it does more than one action
    readers,  \* those who hold it shared, likewise
    pc,
    req,      \* the service that a thread is adding
    held,     \* the proxies each thread holds a shared_ptr to
    content,  \* what a thread is about to write
    todo,     \* what the main thread has still to load
    skipped,  \* history: a service was left out because of another process
    unsaved   \* history: the last attempt to write the file failed

memory  == <<records, order>>
mutex   == <<writer, readers>>
loading == <<todo, skipped>>
vars    == <<disk, memory, mutex, pc, req, held, content, loading, unsaved>>

Registered == {i \in Ids : records[i] # None}
EndpointOf(s) == [addr |-> s.addr, port |-> s.port]

\* The proxies that listen.
Listed == {EndpointOf(records[i]) : i \in Registered}
Bound  == Listed \cup UNION {held[t] : t \in Threads}

\* bind fails for the second of two such proxies.
Collide(e, f) ==
    e.port = f.port /\ (e.addr = f.addr \/ AnyAddr \in {e.addr, f.addr})

Unlocked == writer = None /\ readers = {}
Shared   == writer = None

Goto(t, from, to) == pc[t] = from /\ pc' = [pc EXCEPT ![t] = to]

\* What the file would hold now.
Snapshot == [k \in DOMAIN order |-> records[order[k]]]

\* A process that has not started.
NoRecords == [i \in Ids |-> None]
Stopped   == [t \in Threads |-> IF t = Main THEN "down" ELSE "idle"]
Nothing   == [t \in Threads |-> None]
NoProxies == [t \in Threads |-> {}]
NoText    == [t \in Threads |-> <<>>]

Init ==
    /\ disk = <<>>
    /\ records = NoRecords /\ order = <<>>
    /\ writer = None /\ readers = {}
    /\ pc = Stopped /\ req = Nothing /\ held = NoProxies /\ content = NoText
    /\ todo = <<>> /\ skipped = FALSE /\ unsaved = FALSE

Up == pc[Main] = "up"

-----------------------------------------------------------------------------
(* The steps of AddProxy, for a caller and for the main thread. *)

\* GenerateId: an empty id is replaced by one that is not in use.
Named(r) ==
    {[r EXCEPT !.id = i] :
        i \in IF r.id = None THEN Ids \ Registered ELSE {r.id}}

\* Both checks under the mutex: the id and the port are free.
Fits(s) == /\ s.id \notin Registered
           /\ \A i \in Registered : records[i].port # s.port

Insert(s) == /\ records' = [records EXCEPT ![s.id] = s]
             /\ order' = Append(order, s.id)

-----------------------------------------------------------------------------
(* A request of the HTTP server. *)

\* Before it looks at the request, the handler gets the proxy it names.
Handle(c) ==
    /\ Up /\ Shared
    /\ Goto(c, "idle", "handling")
    /\ held' \in {[held EXCEPT ![c] = {}]}
              \cup {[held EXCEPT ![c] = {e}] : e \in Listed}
    /\ UNCHANGED <<disk, memory, mutex, req, content, loading, unsaved>>

\* Lines 382-404.  A request that does not fit throws: Return.
CheckAdd(c) ==
    \E r \in Requests : \E s \in Named(r) :
        /\ Unlocked /\ Fits(s)
        /\ Goto(c, "handling", "starting")
        /\ req' = [req EXCEPT ![c] = s]
        /\ UNCHANGED <<disk, memory, mutex, held, content, loading, unsaved>>

\* The proxy is made and listens, with no lock.
Listen(c) ==
    /\ Goto(c, "starting", "testing")
    /\ \A e \in Bound : ~Collide(e, EndpointOf(req[c]))
    /\ held' = [held EXCEPT ![c] = @ \cup {EndpointOf(req[c])}]
    /\ UNCHANGED <<disk, memory, mutex, req, content, loading, unsaved>>

\* bind fails here, or because of another process.
StartThrows(c) ==
    /\ Goto(c, "starting", "returning")
    /\ req' = [req EXCEPT ![c] = None]
    /\ UNCHANGED <<disk, memory, mutex, held, content, loading, unsaved>>

\* Mutant: the second check is left out.
Register_NoCheck(c) ==
    /\ Goto(c, "testing", "saving")
    /\ Unlocked
    /\ Insert(req[c])
    /\ req' = [req EXCEPT ![c] = None]
    /\ UNCHANGED <<disk, mutex, held, content, loading, unsaved>>

\* The motd, the limit and the ping test, then lines 427-443.
Register(c) ==
    /\ Goto(c, "testing", "saving")
    /\ Unlocked /\ Fits(req[c])
    /\ Insert(req[c])
    /\ req' = [req EXCEPT ![c] = None]
    /\ UNCHANGED <<disk, mutex, held, content, loading, unsaved>>

RegisterThrows(c) ==
    /\ Goto(c, "testing", "returning")
    /\ Unlocked /\ ~Fits(req[c])
    /\ req' = [req EXCEPT ![c] = None]
    /\ UNCHANGED <<disk, memory, mutex, held, content, loading, unsaved>>

\* Mutant: order keeps the id.
RemoveProxy_KeepsOrder(c) ==
    \E k \in DOMAIN order :
        /\ Unlocked
        /\ Goto(c, "handling", "changed")
        /\ records' = [records EXCEPT ![order[k]] = None]
        /\ held' = [held EXCEPT ![c] = @ \cup {EndpointOf(records[order[k]])}]
        /\ writer' = c
        /\ UNCHANGED <<disk, order, readers, req, content, loading, unsaved>>

\* RemoveProxy, up to the end of the section.  The record moves to a local
\* variable, so the proxy lives until the caller returns.
RemoveProxy(c) ==
    \E k \in DOMAIN order :
        /\ Unlocked
        /\ Goto(c, "handling", "changed")
        /\ records' = [records EXCEPT ![order[k]] = None]
        /\ order' = RemoveAt(order, k)
        /\ held' = [held EXCEPT ![c] = @ \cup {EndpointOf(records[order[k]])}]
        /\ writer' = c
        /\ UNCHANGED <<disk, readers, req, content, loading, unsaved>>

SetMaxPlayer(c) ==
    \E i \in Registered, m \in Limits :
        /\ Unlocked
        /\ Goto(c, "handling", "changed")
        /\ records' = [records EXCEPT ![i].max = m]
        /\ writer' = c
        /\ UNCHANGED <<disk, order, readers, req, held, content, loading,
                       unsaved>>

\* Mutant: the lock is not released before SaveToDisk takes it shared.
Unlock_Keeps(c) ==
    /\ writer = c
    /\ Goto(c, "changed", "saving")
    /\ UNCHANGED <<disk, memory, mutex, req, held, content, loading, unsaved>>

Unlock(c) ==
    /\ writer = c /\ writer' = None
    /\ Goto(c, "changed", "saving")
    /\ UNCHANGED <<disk, memory, readers, req, held, content, loading,
                   unsaved>>

\* ListViews copies the records under the lock and asks the proxies without.
ListViews(c) ==
    /\ Shared
    /\ Goto(c, "handling", "returning")
    /\ held' = [held EXCEPT ![c] = @ \cup Listed]
    /\ UNCHANGED <<disk, memory, mutex, req, content, loading, unsaved>>

\* Mutant: a shared_ptr is kept.
Return_Keeps(c) ==
    /\ pc[c] \in {"handling", "returning"} /\ Shared
    /\ pc' = [pc EXCEPT ![c] = "idle"]
    /\ UNCHANGED <<disk, memory, mutex, req, held, content, loading, unsaved>>

\* The end of a request, in success or not.  The destructor of a proxy joins
\* threads that may be logging, which takes the mutex shared (EmitLog).
Return(c) ==
    /\ pc[c] \in {"handling", "returning"} /\ Shared
    /\ pc' = [pc EXCEPT ![c] = "idle"]
    /\ held' = [held EXCEPT ![c] = {}]
    /\ UNCHANGED <<disk, memory, mutex, req, content, loading, unsaved>>

-----------------------------------------------------------------------------
(* SaveToDisk. *)

\* Mutant: the mutex is not held while the file is written.
SaveOpen_NoLock(t) ==
    /\ Shared
    /\ Goto(t, "saving", "writing")
    /\ content' = [content EXCEPT ![t] = Snapshot]
    /\ disk' = <<>>
    /\ UNCHANGED <<memory, mutex, req, held, loading, unsaved>>

\* The file is cut to nothing first.
SaveOpen(t) ==
    /\ Shared
    /\ Goto(t, "saving", "writing")
    /\ readers' = readers \cup {t}
    /\ content' = [content EXCEPT ![t] = Snapshot]
    /\ disk' = <<>>
    /\ UNCHANGED <<memory, writer, req, held, loading, unsaved>>

After(t) == IF t = Main THEN "up" ELSE "returning"

SaveEnds(t) ==
    /\ Goto(t, "writing", After(t))
    /\ readers' = readers \ {t}
    /\ content' = [content EXCEPT ![t] = <<>>]
    /\ UNCHANGED <<memory, writer, req, held, loading>>

SaveWrite(t) == SaveEnds(t) /\ disk' = content[t] /\ unsaved' = FALSE

\* Nobody looks at the state of the stream.
SaveFails(t) == DiskErrors /\ SaveEnds(t) /\ unsaved' = TRUE /\ UNCHANGED disk

\* The file cannot be opened, which goes unnoticed, or create_directories
\* throws: AddProxy, too, throws then, after it has registered the service.
\* An exception of the main thread ends the process: Crash.
SaveNotOpened(t) ==
    /\ DiskErrors /\ Shared
    /\ Goto(t, "saving", After(t))
    /\ unsaved' = TRUE
    /\ UNCHANGED <<disk, memory, mutex, req, held, content, loading>>

-----------------------------------------------------------------------------
(* The main thread: LoadFromDiskOrCreate. *)

Load ==
    /\ Goto(Main, "down", "loading")
    /\ todo' = IF disk = <<>> THEN <<Fallback>> ELSE disk
    /\ UNCHANGED <<disk, memory, mutex, req, held, content, skipped, unsaved>>

\* AddProxy of the next service.  Nobody else is there yet.
Fitting(s) == Fits(s) /\ \A e \in Bound : ~Collide(e, EndpointOf(s))

LoadNext ==
    /\ pc[Main] = "loading" /\ todo # <<>> /\ Fitting(Head(todo))
    /\ Insert(Head(todo))
    /\ todo' = Tail(todo)
    /\ UNCHANGED <<disk, mutex, pc, req, held, content, skipped, unsaved>>

\* It throws: the service does not fit, or another process has the port.
LoadThrows ==
    /\ pc[Main] = "loading" /\ todo # <<>>
    /\ todo' = Tail(todo)
    /\ skipped' = (skipped \/ Fitting(Head(todo)))
    /\ UNCHANGED <<disk, memory, mutex, pc, req, held, content, unsaved>>

\* The last resort; if it throws the process ends: Crash.
LoadFallback ==
    /\ pc[Main] = "loading" /\ todo = <<>> /\ order = <<>>
    /\ Insert(Fallback)
    /\ UNCHANGED <<disk, mutex, pc, req, held, content, loading, unsaved>>

\* The services that were skipped are not in the file from now on.
LoadDone ==
    /\ todo = <<>> /\ order # <<>>
    /\ Goto(Main, "loading", "saving")
    /\ UNCHANGED <<disk, memory, mutex, req, held, content, loading, unsaved>>

\* The process ends, by exit or by accident.  Only the file is left.
Crash ==
    /\ pc[Main] # "down"
    /\ records' = NoRecords /\ order' = <<>>
    /\ writer' = None /\ readers' = {}
    /\ pc' = Stopped /\ req' = Nothing
    /\ held' = NoProxies /\ content' = NoText
    /\ todo' = <<>> /\ skipped' = FALSE /\ unsaved' = FALSE
    /\ UNCHANGED disk

-----------------------------------------------------------------------------
Save(t) ==
    SaveOpen(t) \/ SaveWrite(t) \/ SaveFails(t) \/ SaveNotOpened(t)

\* What a worker does once it has a request.
Serve(c) ==
    \/ CheckAdd(c) \/ Listen(c) \/ StartThrows(c) \/ Register(c)
    \/ RegisterThrows(c) \/ RemoveProxy(c) \/ SetMaxPlayer(c) \/ Unlock(c)
    \/ ListViews(c) \/ Return(c) \/ Save(c)

LoadFromDiskOrCreate ==
    Load \/ LoadNext \/ LoadThrows \/ LoadFallback \/ LoadDone

Next ==
    \/ \E c \in Callers : Handle(c) \/ Serve(c)
    \/ Save(Main) \/ LoadFromDiskOrCreate \/ Crash

Spec == Init /\ [][Next]_vars

\* Every thread runs, servers answer the ping test or refuse it, and the mutex
\* passes no thread over for ever.
FairSpec == Spec /\ \A c \in Callers : SF_vars(Serve(c))

-----------------------------------------------------------------------------
PCs == {"idle", "handling", "starting", "testing", "changed", "saving",
        "writing", "returning", "down", "loading", "up"}

TypeOK ==
    /\ disk \in Seq(Service) /\ todo \in Seq(Service)
    /\ records \in [Ids -> Service \cup {None}] /\ order \in Seq(Ids)
    /\ writer \in Callers \cup {None} /\ readers \subseteq Threads
    /\ pc \in [Threads -> PCs]
    /\ req \in [Threads -> Service \cup {None}]
    /\ held \in [Threads -> SUBSET Endpoint]
    /\ content \in [Threads -> Seq(Service)]
    /\ skipped \in BOOLEAN /\ unsaved \in BOOLEAN

\* order lists the keys of records, each once, and no two services have one
\* port, although each was checked before it was started without the lock.
TableOK ==
    /\ ToSet(order) = Registered
    /\ \A k, l \in DOMAIN order : k # l => order[k] # order[l]
    /\ \A i \in Registered : records[i].id = i
    /\ \A i, j \in Registered : i # j => records[i].port # records[j].port

\* When no request is between its change and the end of its save, the file
\* holds the table, whatever the order in which the savers came.
FileMatches ==
    /\ Up /\ ~unsaved
    /\ \A c \in Callers : pc[c] \notin {"changed", "saving", "writing"}
    => disk = Snapshot

\* A restart brings back every service of the file, in its order, unless
\* another process has taken a port.
LoadKeepsAll ==
    pc[Main] = "loading" /\ ~skipped /\ disk # <<>> => Snapshot \o todo = disk

\* Every request comes to an end: no thread waits for a lock it holds.
RequestEnds == \A c \in Callers : pc[c] # "idle" ~> pc[c] = "idle"

\* A proxy that was removed, or was never registered, stops listening.
Stray == Bound \ Listed
StrayStops ==
    \A e \in {EndpointOf(r) : r \in Requests \cup {Fallback}} :
        e \in Stray ~> e \notin Stray

=============================================================================
