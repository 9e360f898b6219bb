----------------------------- MODULE HttpProofs -----------------------------
(***************************************************************************)
(* Proofs about HttpServer, for any number of connections and workers.     *)
(***************************************************************************)
EXTENDS HttpServer, FiniteSetTheorems, TLAPS

(***************************************************************************)
(* The inductive invariant: CountersExact and NoUseAfterClose need what    *)
(* each place of a thread says of the handles.                             *)
(***************************************************************************)

LoopPlaces   == {"accept", "capture", "move", "enqueue", "push", "dropFunc",
                 "dropConnection", "cancel", "join", "clear", "done"}
WorkerPlaces == {"wait", "take", "pop", "run", "return", "dropTask", "gone"}

Last(c) == [mutex |-> c, reference_counter |-> None]

IsTo(h)   == \E c \in Connections : handle[h] = To(c)
IsLast(h) == \E c \in Connections : handle[h] = Last(c)

Elements(s) == {s[i] : i \in 1 .. Len(s)}
Distinct(s) == \A i, j \in 1 .. Len(s) : s[i] = s[j] => i = j
Queued == Elements(task_list)

\* A thread that is at one of its handles.
InUse(t) == pc[t] \in Using /\ (pc[t] = "clear" => task_list # <<>>)

\* Where threads are, who has the lock of the pool, and what is in the list.
PlaceInv ==
    /\ pc[Loop] \in LoopPlaces /\ \A w \in Workers : pc[w] \in WorkerPlaces
    /\ \A t \in Threads :
          task_lock = t <=> pc[t] \in {"push", "take", "pop", "dropTask"}
    /\ pc[Loop] \in {"clear", "done"} => \A w \in Workers : pc[w] = "gone"
    /\ \A w \in Workers : pc[w] \in {"take", "pop"} => task_list # <<>>
    /\ Distinct(task_list)

\* Which handles there are; one that is being closed may be the last.
ConnectionInv ==
    IF pc[Loop] \in {"capture", "move", "enqueue", "push", "dropFunc"}
    THEN IsTo("connection")
    ELSE IF pc[Loop] = "dropConnection" THEN IsTo("connection") \/ IsLast("connection")
    ELSE handle["connection"] = Null

ClosureInv ==
    IF pc[Loop] = "move" THEN handle["closure"] = handle["connection"]
    ELSE handle["closure"] = Null

FuncInv ==
    IF pc[Loop] \in {"enqueue", "push"} THEN handle["func"] = handle["connection"]
    ELSE IF pc[Loop] = "dropFunc" THEN IsTo("func") \/ IsLast("func")
    ELSE handle["func"] = Null

FreshInv ==
    pc[Loop] \in {"capture", "move", "enqueue", "push"} =>
        handle["connection"].mutex \notin Queued

QueueInv ==
    \A c \in Connections :
        IF c \in Queued THEN handle[c] = To(c) \/ handle[c] = Last(c)
        ELSE handle[c] = Null

WorkerInv ==
    \A w \in Workers :
        IF pc[w] \in {"pop", "run", "return"} THEN IsTo(w)
        ELSE IF pc[w] = "dropTask" THEN IsTo(w) \/ IsLast(w)
        ELSE handle[w] = Null

HandleInv ==
    ConnectionInv /\ ClosureInv /\ FuncInv /\ FreshInv /\ QueueInv /\ WorkerInv

\* Who has a mutex, and what it read.
LockInv ==
    /\ \A t \in Threads : reg[t] # None =>
          /\ InUse(t)
          /\ \E c \in Connections :
                handle[Source(t)] = To(c) /\ mutex[c] = t /\ reg[t] = counter[c]
    /\ \A c \in Connections, t \in Threads : mutex[c] = t =>
          reg[t] # None /\ handle[Source(t)] = To(c)

\* What the handles of a connection have in common.
CountInv == \A c \in Connections : counter[c] = Cardinality(Holders(c))
OpenInv  == \A c \in Connections : sock[c] = "open" <=> Holders(c) # {}
MutexInv ==
    \A c \in Connections :
        /\ mutex[c] = "deleted" \/ sock[c] = "new" =>
              \A h \in Handles : handle[h].mutex # c
        /\ sock[c] = "new" => mutex[c] = None
LastInv ==
    \A g, h \in Handles, c \in Connections :
        handle[g] = Last(c) /\ handle[h].mutex = c => g = h

IInv == /\ TypeOK /\ PlaceInv /\ HandleInv /\ LockInv
        /\ CountInv /\ OpenInv /\ MutexInv /\ LastInv

-----------------------------------------------------------------------------
(* The list, as a set. *)

\* A connection that is appended is in the list, once.
LEMMA ElementsAppend ==
    ASSUME NEW S, NEW s \in Seq(S), NEW x \in S, x \notin Elements(s), Distinct(s)
    PROVE  /\ Append(s, x) \in Seq(S) /\ Append(s, x) # <<>>
           /\ Elements(Append(s, x)) = Elements(s) \cup {x}
           /\ Distinct(Append(s, x))
<1>1. /\ Append(s, x) \in Seq(S) /\ Len(s) \in Nat /\ Len(Append(s, x)) = Len(s) + 1
      /\ \A i \in 1 .. Len(s) : Append(s, x)[i] = s[i]
      /\ Append(s, x)[Len(s) + 1] = x
  OBVIOUS
<1>2. Elements(Append(s, x)) = Elements(s) \cup {x}
  BY <1>1 DEF Elements
<1>3. Distinct(Append(s, x))
  BY <1>1 DEF Elements, Distinct
<1> QED
  BY <1>1, <1>2, <1>3

\* The first that is taken off is in the list no more.
LEMMA ElementsTail ==
    ASSUME NEW S, NEW s \in Seq(S), s # <<>>, Distinct(s)
    PROVE  /\ Tail(s) \in Seq(S) /\ Head(s) \in S /\ Head(s) \in Elements(s)
           /\ Elements(Tail(s)) = Elements(s) \ {Head(s)}
           /\ Distinct(Tail(s))
<1>1. /\ Tail(s) \in Seq(S) /\ Len(s) \in Nat \ {0} /\ Len(Tail(s)) = Len(s) - 1
      /\ \A i \in 1 .. Len(s) - 1 : Tail(s)[i] = s[i + 1]
      /\ Head(s) = s[1] /\ Head(s) \in S
  OBVIOUS
<1>2. Head(s) \in Elements(s)
  BY <1>1 DEF Elements
<1>3. Distinct(Tail(s))
  BY <1>1 DEF Distinct
<1>4. ASSUME NEW y \in Elements(Tail(s)) PROVE y \in Elements(s) \ {Head(s)}
  <2>1. PICK i \in 1 .. Len(Tail(s)) : y = Tail(s)[i]
    BY DEF Elements
  <2>2. y = s[i + 1] /\ i + 1 \in 1 .. Len(s) /\ 1 \in 1 .. Len(s) /\ i + 1 # 1
    BY <1>1, <2>1
  <2> QED
    BY <1>1, <2>2 DEF Elements, Distinct
<1>5. ASSUME NEW y \in Elements(s) \ {Head(s)} PROVE y \in Elements(Tail(s))
  <2>1. PICK i \in 1 .. Len(s) : y = s[i]
    BY DEF Elements
  <2>2. i - 1 \in 1 .. Len(Tail(s)) /\ Tail(s)[i - 1] = y
    BY <1>1, <2>1
  <2> QED
    BY <2>2 DEF Elements
<1> QED
  BY <1>1, <1>2, <1>3, <1>4, <1>5

-----------------------------------------------------------------------------
(* Which handle a thread is at. *)

\* Where a thread goes from a handle.
LEMMA AfterIs ==
    /\ After["capture"] = "move" /\ After["move"] = "enqueue"
    /\ After["push"] = "dropFunc" /\ After["dropFunc"] = "dropConnection"
    /\ After["dropConnection"] = "accept" /\ After["take"] = "pop"
    /\ After["pop"] = "run" /\ After["dropTask"] = "wait"
    /\ After["clear"] = "clear"
  BY DEF After

\* The pointers of the three kinds of handles are apart.
LEMMA Kinds ==
    ASSUME NEW c \in Connections, NEW d \in Connections
    PROVE  /\ To(c) # Null /\ Last(c) # Null /\ To(c) # Last(d)
           /\ To(c) = To(d) => c = d
           /\ Last(c) = Last(d) => c = d
           /\ To(c).mutex = c /\ To(c).reference_counter = c
           /\ Last(c).mutex = c /\ Last(c).reference_counter = None
           /\ Null.mutex = None /\ Null.reference_counter = None
           /\ c # None
  BY HttpServerAssumption DEF To, Last, Null

\* The places of the loop and of the workers that are at a handle.
LEMMA SourceAt ==
    ASSUME TypeOK, PlaceInv, NEW t \in Threads, InUse(t)
    PROVE  /\ Source(t) \in Handles
           /\ t = Loop =>
                \/ pc[t] \in {"capture", "dropConnection"} /\ Source(t) = "connection"
                \/ pc[t] = "move" /\ Source(t) = "closure"
                \/ pc[t] \in {"push", "dropFunc"} /\ Source(t) = "func"
                \/ /\ pc[t] = "clear" /\ task_list # <<>>
                   /\ Source(t) = Head(task_list) /\ Source(t) \in Connections
           /\ t # Loop =>
                \/ /\ pc[t] \in {"take", "pop"} /\ task_list # <<>>
                   /\ Source(t) = Head(task_list) /\ Source(t) \in Connections
                \/ pc[t] = "dropTask" /\ Source(t) = t
<1>1. task_list # <<>> => Head(task_list) \in Connections
  BY DEF TypeOK
<1>2. CASE t = Loop
  <2>1. pc[t] \in {"capture", "move", "push", "dropFunc", "dropConnection", "clear"}
    BY <1>2 DEF InUse, Using, Copying, Closing, PlaceInv, LoopPlaces
  <2> QED
    BY <1>1, <1>2, <2>1 DEF Source, Handles, Locals, InUse
<1>3. CASE t # Loop
  <2>1. t \in Workers /\ pc[t] \in {"take", "pop", "dropTask"}
    BY <1>3 DEF InUse, Using, Copying, Closing, PlaceInv, WorkerPlaces, Threads
  <2>2. pc[t] \in {"take", "pop"} => task_list # <<>>
    BY <2>1 DEF PlaceInv
  <2> QED
    BY <1>1, <1>3, <2>1, <2>2 DEF Source, Handles
<1> QED
  BY <1>2, <1>3

\* No two threads are at one handle.
LEMMA SourcesApart ==
    ASSUME TypeOK, PlaceInv, NEW t \in Threads, NEW u \in Threads, t # u,
           InUse(t), InUse(u)
    PROVE  Source(t) # Source(u)
<1>1. ~(pc[t] \in {"take", "pop"} /\ pc[u] \in {"take", "pop"})
  BY DEF PlaceInv
<1>2. /\ pc[t] = "clear" => t = Loop /\ pc[u] = "gone"
      /\ pc[u] = "clear" => u = Loop /\ pc[t] = "gone"
  BY DEF PlaceInv, Threads, WorkerPlaces
<1>3. pc[t] # "gone" /\ pc[u] # "gone"
  BY DEF InUse, Using, Copying, Closing
<1>4. t = Loop \/ t \in Workers
  BY DEF Threads
<1>5. u = Loop \/ u \in Workers
  BY DEF Threads
<1>6. {"connection", "closure", "func"} \cap (Connections \cup Workers) = {}
      /\ Connections \cap Workers = {}
  BY HttpServerAssumption DEF Locals
<1> QED
  BY <1>1, <1>2, <1>3, <1>4, <1>5, <1>6, SourceAt

\* A thread that is at a handle is not moved off it by the others.
LEMMA SourceStays ==
    ASSUME TypeOK, PlaceInv, NEW t \in Threads, NEW u \in Threads, t # u,
           InUse(u), pc'[u] = pc[u],
           \/ UNCHANGED task_list
           \/ pc[t] \in {"push", "pop", "clear"}
    PROVE  InUse(u)' /\ Source(u)' = Source(u)
<1>1. CASE UNCHANGED task_list
  BY <1>1 DEF InUse, Source
<1>2. CASE pc[t] \in {"push", "pop", "clear"}
  <2>1. pc[u] \notin {"take", "pop", "clear"}
    BY <1>2 DEF PlaceInv, Threads, WorkerPlaces, LoopPlaces, InUse, Using, Copying, Closing
  <2> QED
    BY <2>1 DEF InUse, Source
<1> QED
  BY <1>1, <1>2

\* A task that is pushed or taken out: what becomes of the list.
LEMMA ListAfter ==
    ASSUME TypeOK, PlaceInv, NEW t \in Threads, NEW c \in Connections,
           InUse(t), Passed(t, c), pc[t] = "push" => c \notin Queued
    PROVE  /\ pc[t] = "push" =>
                /\ task_list' \in Seq(Connections) /\ task_list' # <<>>
                /\ Queued' = Queued \cup {c} /\ Distinct(task_list)'
           /\ pc[t] \in {"pop", "clear"} =>
                /\ task_list' \in Seq(Connections)
                /\ Queued' = Queued \ {Head(task_list)} /\ Distinct(task_list)'
           /\ pc[t] \notin {"push", "pop", "clear"} =>
                task_list' = task_list /\ Queued' = Queued /\ Distinct(task_list)'
<1>1. task_list \in Seq(Connections) /\ Distinct(task_list)
  BY DEF TypeOK, PlaceInv
<1>2. CASE pc[t] = "push"
  <2>1. task_list' = Append(task_list, c)
    BY <1>2 DEF Passed
  <2> QED
    BY <1>1, <1>2, <2>1, ElementsAppend DEF Queued
<1>3. CASE pc[t] \in {"pop", "clear"}
  <2>1. task_list' = Tail(task_list) /\ task_list # <<>>
    BY <1>3, SourceAt, Zenon DEF Passed
  <2> QED
    BY <1>1, <1>3, <2>1, ElementsTail DEF Queued
<1>4. CASE pc[t] \notin {"push", "pop", "clear"}
  BY <1>1, <1>4 DEF Passed, Queued, Elements, Distinct
<1> QED
  BY <1>2, <1>3, <1>4

\* A thread that is done with a handle goes on where it should.
LEMMA PlacePassed ==
    ASSUME TypeOK, PlaceInv, NEW t \in Threads, NEW c \in Connections,
           InUse(t), Passed(t, c), pc[t] = "push" => c \notin Queued
    PROVE  PlaceInv'
<1>0. DOMAIN pc = Threads
  BY DEF TypeOK
<1>1. /\ pc'[t] = After[pc[t]]
      /\ \A u \in Threads : u # t => pc'[u] = pc[u]
  BY <1>0 DEF Passed
<1>2. Loop \in Threads /\ Workers \subseteq Threads /\ Loop \notin Workers
  BY HttpServerAssumption DEF Threads
<1>3. pc'[Loop] \in LoopPlaces /\ \A w \in Workers : pc'[w] \in WorkerPlaces
  <2>1. CASE t = Loop
    BY <1>1, <1>2, <2>1, SourceAt, AfterIs DEF PlaceInv, LoopPlaces
  <2>2. CASE t # Loop
    BY <1>1, <1>2, <2>2, SourceAt, AfterIs DEF PlaceInv, WorkerPlaces
  <2> QED
    BY <2>1, <2>2
<1>4. ASSUME NEW u \in Threads
      PROVE  task_lock' = u <=> pc'[u] \in {"push", "take", "pop", "dropTask"}
  <2>0. None \notin Threads
    BY HttpServerAssumption DEF Threads
  <2>1. CASE u = t
    BY <1>1, <2>0, <2>1, SourceAt, AfterIs DEF PlaceInv, Passed
  <2>2. CASE u # t
    BY <1>1, <2>0, <2>2 DEF PlaceInv, Passed
  <2> QED
    BY <2>1, <2>2
<1>5. pc'[Loop] \in {"clear", "done"} => \A w \in Workers : pc'[w] = "gone"
  <2>1. CASE t = Loop
    BY <1>1, <1>2, <2>1, SourceAt, AfterIs DEF PlaceInv
  <2>2. CASE t # Loop
    BY <1>1, <1>2, <2>2, SourceAt DEF PlaceInv, Threads
  <2> QED
    BY <2>1, <2>2
<1>6. ASSUME NEW w \in Workers, pc'[w] \in {"take", "pop"} PROVE task_list' # <<>>
  <2>1. CASE w = t
    <3>1. pc[t] = "take"
      BY <1>1, <1>2, <1>6, <2>1, SourceAt, AfterIs
    <3> QED
      BY <1>2, <2>1, <3>1, ListAfter DEF PlaceInv
  <2>2. CASE w # t
    <3>1. pc[w] \in {"take", "pop"} /\ task_list # <<>>
      BY <1>1, <1>2, <1>6, <2>2 DEF PlaceInv
    <3>2. pc[t] \notin {"pop", "clear"}
      BY <1>2, <2>2, <3>1 DEF PlaceInv, Threads, WorkerPlaces
    <3> QED
      BY <3>1, <3>2, ListAfter DEF Passed
  <2> QED
    BY <2>1, <2>2
<1>7. Distinct(task_list)'
  BY ListAfter
<1> QED
  BY <1>3, <1>4, <1>5, <1>6, <1>7 DEF PlaceInv

-----------------------------------------------------------------------------
(* How many handles a connection has. *)

\* There are finitely many handles.
LEMMA HoldersFinite ==
    ASSUME NEW c \in Connections
    PROVE  Holders(c) \subseteq Handles /\ IsFiniteSet(Holders(c))
<1>1. IsFiniteSet(Locals)
  <2>1. Locals = (({} \cup {"connection"}) \cup {"closure"}) \cup {"func"}
    BY DEF Locals
  <2> QED
    BY <2>1, FS_EmptySet, FS_AddElement
<1>2. IsFiniteSet(Handles)
  BY <1>1, HttpServerAssumption, FS_Union DEF Handles
<1> QED
  BY <1>2, FS_Subset DEF Holders

\* What a thread that has a mutex knows.
LEMMA Owned ==
    ASSUME TypeOK, PlaceInv, LockInv, CountInv, NEW t \in Threads, reg[t] # None
    PROVE  LET c == handle[Source(t)].reference_counter
           IN  /\ c \in Connections /\ handle[Source(t)] = To(c)
               /\ mutex[c] = t /\ reg[t] = counter[c]
               /\ InUse(t) /\ Source(t) \in Handles /\ Source(t) \in Holders(c)
               /\ counter[c] \in Nat /\ counter[c] = Cardinality(Holders(c))
<1>1. InUse(t)
  BY DEF LockInv
<1>2. Source(t) \in Handles
  BY <1>1, SourceAt
<1>3. PICK c \in Connections :
        handle[Source(t)] = To(c) /\ mutex[c] = t /\ reg[t] = counter[c]
  BY DEF LockInv
<1>4. c = handle[Source(t)].reference_counter
  BY <1>3, Kinds
<1>5. Source(t) \in Holders(c)
  BY <1>2, <1>4 DEF Holders
<1> QED
  BY <1>1, <1>2, <1>3, <1>4, <1>5 DEF TypeOK, CountInv

\* Where a handle is copied or moved to there is none.
LEMMA DestinationIsFree ==
    ASSUME TypeOK, PlaceInv, HandleInv, NEW t \in Threads, NEW c \in Connections,
           InUse(t), pc[t] \in Copying \cup {"move"}, handle[Source(t)] = To(c)
    PROVE  /\ Destination(t, c) \in Handles /\ handle[Destination(t, c)] = Null
           /\ Destination(t, c) # Source(t)
           /\ pc[t] = "push" => c \notin Queued
           /\ t = Loop =>
                \/ pc[t] = "capture" /\ Destination(t, c) = "closure"
                \/ pc[t] = "move" /\ Destination(t, c) = "func"
                \/ pc[t] = "push" /\ Destination(t, c) = c
           /\ t # Loop => pc[t] = "take" /\ Destination(t, c) = t /\ t \in Workers
<1>1. CASE t = Loop
  <2>1. pc[t] \in {"capture", "move", "push"}
    BY <1>1, SourceAt DEF Copying
  <2>2. CASE pc[t] = "capture"
    BY <1>1, <2>2, Kinds DEF HandleInv, ClosureInv, Destination, Handles, Locals
  <2>3. CASE pc[t] = "move"
    BY <1>1, <2>3, Kinds DEF HandleInv, FuncInv, Destination, Handles, Locals
  <2>4. CASE pc[t] = "push"
    <3>1. Source(t) = "func"
      BY <2>4 DEF Source
    <3>2. c \notin Queued
      BY <1>1, <2>4, <3>1, Kinds DEF HandleInv, FuncInv, FreshInv
    <3>3. handle[c] = Null
      BY <3>2 DEF HandleInv, QueueInv
    <3> QED
      BY <1>1, <2>4, <3>2, <3>3, Kinds DEF Destination, Handles
  <2> QED
    BY <2>1, <2>2, <2>3, <2>4
<1>2. CASE t # Loop
  <2>1. t \in Workers /\ pc[t] = "take"
    BY <1>2, SourceAt DEF Threads, Copying
  <2>2. handle[t] = Null /\ Destination(t, c) = t
    BY <2>1 DEF HandleInv, WorkerInv, Destination
  <2> QED
    BY <1>2, <2>1, <2>2, Kinds DEF Handles
<1> QED
  BY <1>1, <1>2

-----------------------------------------------------------------------------
(* Which handles there are, after a step at one of them. *)

\* The names of handles are apart.
LEMMA NamesApart ==
    /\ "connection" \in Handles /\ "closure" \in Handles /\ "func" \in Handles
    /\ Connections \subseteq Handles /\ Workers \subseteq Handles
    /\ Connections \cap Workers = {} /\ Loop \notin Workers
    /\ \A n \in {"connection", "closure", "func"} : n \notin Connections \cup Workers
    /\ Loop \in Threads /\ Workers \subseteq Threads
    /\ \A t \in Threads : t # Loop => t \in Workers
  BY HttpServerAssumption DEF Handles, Locals, Threads

\* Where a thread is after a step at a handle, and what is in the list.
LEMMA PassedOn ==
    ASSUME TypeOK, PlaceInv, NEW t \in Threads, NEW c \in Connections,
           InUse(t), Passed(t, c), pc[t] = "push" => c \notin Queued
    PROVE  /\ pc'[t] = After[pc[t]]
           /\ \A u \in Threads : u # t => pc'[u] = pc[u]
           /\ Queued' = IF pc[t] = "push" THEN Queued \cup {c}
                        ELSE IF pc[t] \in {"pop", "clear"}
                        THEN Queued \ {Head(task_list)} ELSE Queued
<1>1. DOMAIN pc = Threads
  BY DEF TypeOK
<1> QED
  BY <1>1, ListAfter DEF Passed

\* After a copy every place has the handle it should have.
LEMMA CopyKeepsHandles ==
    ASSUME TypeOK, PlaceInv, HandleInv, NEW t \in Threads, NEW c \in Connections,
           InUse(t), pc[t] \in Copying, handle[Source(t)] = To(c), Passed(t, c),
           handle' = [handle EXCEPT ![Destination(t, c)] = To(c)]
    PROVE  HandleInv'
<1>0. DOMAIN handle = Handles
  BY DEF TypeOK
<1>1. /\ handle'[Destination(t, c)] = To(c)
      /\ \A h \in Handles : h # Destination(t, c) => handle'[h] = handle[h]
  BY <1>0, DestinationIsFree
<1>2. CASE pc[t] = "capture"
  <2>1. t = Loop /\ Destination(t, c) = "closure" /\ Source(t) = "connection"
    BY <1>2, NamesApart, SourceAt, DestinationIsFree
  <2>2. /\ pc'[Loop] = "move" /\ Queued' = Queued
        /\ \A w \in Workers : pc'[w] = pc[w]
    BY <1>2, <2>1, PassedOn, AfterIs, NamesApart
  <2>3. (ConnectionInv /\ ClosureInv /\ FuncInv /\ FreshInv)'
    BY <1>1, <1>2, <2>1, <2>2, NamesApart
    DEF HandleInv, ConnectionInv, ClosureInv, FuncInv, FreshInv, IsTo
  <2>4. QueueInv'
    BY <1>1, <2>1, <2>2, NamesApart DEF HandleInv, QueueInv
  <2>5. WorkerInv'
    BY <1>1, <2>1, <2>2, NamesApart DEF HandleInv, WorkerInv, IsTo, IsLast
  <2> QED
    BY <2>3, <2>4, <2>5 DEF HandleInv
<1>3. CASE pc[t] = "push"
  <2>1. t = Loop /\ Destination(t, c) = c /\ Source(t) = "func" /\ c \notin Queued
    BY <1>3, NamesApart, SourceAt, DestinationIsFree
  <2>2. /\ pc'[Loop] = "dropFunc" /\ Queued' = Queued \cup {c}
        /\ \A w \in Workers : pc'[w] = pc[w]
    BY <1>3, <2>1, PassedOn, AfterIs, NamesApart
  <2>3. (ConnectionInv /\ ClosureInv /\ FuncInv /\ FreshInv)'
    BY <1>1, <1>3, <2>1, <2>2, NamesApart
    DEF HandleInv, ConnectionInv, ClosureInv, FuncInv, FreshInv, IsTo
  <2>4. QueueInv'
    BY <1>1, <2>1, <2>2, NamesApart DEF HandleInv, QueueInv
  <2>5. WorkerInv'
    BY <1>1, <2>1, <2>2, NamesApart DEF HandleInv, WorkerInv, IsTo, IsLast
  <2> QED
    BY <2>3, <2>4, <2>5 DEF HandleInv
<1>4. CASE pc[t] = "take"
  <2>1. t \in Workers /\ t # Loop /\ Destination(t, c) = t
    <3>1. t # Loop
      BY <1>4 DEF PlaceInv, LoopPlaces
    <3> QED
      BY <1>4, <3>1, DestinationIsFree
  <2>2. /\ pc'[t] = "pop" /\ Queued' = Queued
        /\ \A w \in Threads : w # t => pc'[w] = pc[w]
    BY <1>4, <2>1, PassedOn, AfterIs, NamesApart
  <2>3. (ConnectionInv /\ ClosureInv /\ FuncInv /\ FreshInv)'
    BY <1>1, <2>1, <2>2, NamesApart
    DEF HandleInv, ConnectionInv, ClosureInv, FuncInv, FreshInv, IsTo, IsLast
  <2>4. QueueInv'
    BY <1>1, <2>1, <2>2, NamesApart DEF HandleInv, QueueInv
  <2>5. WorkerInv'
    BY <1>1, <2>1, <2>2, NamesApart DEF HandleInv, WorkerInv, IsTo, IsLast
  <2> QED
    BY <2>3, <2>4, <2>5 DEF HandleInv
<1> QED
  BY <1>2, <1>3, <1>4 DEF Copying

\* And after a move.
LEMMA MoveKeepsHandles ==
    ASSUME TypeOK, PlaceInv, HandleInv, NEW t \in Threads, NEW c \in Connections,
           InUse(t), pc[t] = "move", handle[Source(t)] = To(c), Passed(t, c),
           handle' = [handle EXCEPT ![Source(t)] = Null, ![Destination(t, c)] = To(c)]
    PROVE  HandleInv'
<1>0. DOMAIN handle = Handles
  BY DEF TypeOK
<1>1. t = Loop /\ Source(t) = "closure" /\ Destination(t, c) = "func"
  <2>1. t = Loop
    BY SourceAt
  <2> QED
    BY <2>1, SourceAt, DestinationIsFree
<1>2. /\ handle'["closure"] = Null /\ handle'["func"] = To(c)
      /\ \A h \in Handles : h # "closure" /\ h # "func" => handle'[h] = handle[h]
  BY <1>0, <1>1, NamesApart
<1>3. /\ pc'[Loop] = "enqueue" /\ Queued' = Queued
      /\ \A w \in Workers : pc'[w] = pc[w]
  BY <1>1, PassedOn, AfterIs, NamesApart
<1>4. (ConnectionInv /\ ClosureInv /\ FuncInv /\ FreshInv)'
  <2>1. handle["connection"] = To(c) /\ handle'["connection"] = To(c)
    BY <1>1, <1>2, NamesApart DEF HandleInv, ClosureInv
  <2> QED
    BY <1>1, <1>2, <1>3, <2>1, NamesApart
    DEF HandleInv, ConnectionInv, ClosureInv, FuncInv, FreshInv, IsTo
<1>5. QueueInv'
  BY <1>2, <1>3, NamesApart DEF HandleInv, QueueInv
<1>6. WorkerInv'
  <2>1. \A w \in Workers : pc'[w] = pc[w] /\ handle'[w] = handle[w]
    BY <1>2, <1>3, NamesApart
  <2>2. WorkerInv
    BY DEF HandleInv
  <2>3. \A w \in Workers : (IsTo(w) => IsTo(w)') /\ (IsLast(w) => IsLast(w)')
    BY <2>1 DEF IsTo, IsLast
  <2> QED
    BY <2>1, <2>2, <2>3 DEF WorkerInv
<1> QED
  BY <1>4, <1>5, <1>6 DEF HandleInv

\* And after one was destroyed.
LEMMA DropKeepsHandles ==
    ASSUME TypeOK, PlaceInv, HandleInv, NEW t \in Threads, NEW c \in Connections,
           InUse(t), pc[t] \in Closing, Passed(t, c),
           handle' = [handle EXCEPT ![Source(t)] = Null]
    PROVE  HandleInv'
<1>0. DOMAIN handle = Handles
  BY DEF TypeOK
<1>1. /\ handle'[Source(t)] = Null /\ Source(t) \in Handles
      /\ \A h \in Handles : h # Source(t) => handle'[h] = handle[h]
  BY <1>0, SourceAt
<1>2. pc[t] # "push"
  BY DEF Closing
<1>3. CASE pc[t] \in {"dropFunc", "dropConnection"}
  <2>1. /\ t = Loop
        /\ \/ pc[t] = "dropFunc" /\ Source(t) = "func"
           \/ pc[t] = "dropConnection" /\ Source(t) = "connection"
    BY <1>3, SourceAt
  <2>2. /\ pc[Loop] = "dropFunc" => pc'[Loop] = "dropConnection"
        /\ pc[Loop] = "dropConnection" => pc'[Loop] = "accept"
        /\ Queued' = Queued /\ \A w \in Workers : pc'[w] = pc[w]
    BY <1>3, <2>1, PassedOn, AfterIs, NamesApart
  <2>3. (ConnectionInv /\ ClosureInv /\ FuncInv /\ FreshInv)'
    BY <1>1, <2>1, <2>2, NamesApart
    DEF HandleInv, ConnectionInv, ClosureInv, FuncInv, FreshInv, IsTo, IsLast
  <2>4. QueueInv'
    BY <1>1, <2>1, <2>2, NamesApart DEF HandleInv, QueueInv
  <2>5. WorkerInv'
    BY <1>1, <2>1, <2>2, NamesApart DEF HandleInv, WorkerInv, IsTo, IsLast
  <2> QED
    BY <2>3, <2>4, <2>5 DEF HandleInv
<1>4. CASE pc[t] \in {"pop", "clear"}
  <2>1. /\ Source(t) = Head(task_list) /\ Source(t) \in Connections
        /\ pc[t] = "pop" <=> t # Loop
    BY <1>4, SourceAt
  <2>2. /\ pc[t] = "pop" => pc'[t] = "run"
        /\ pc[t] = "clear" => pc'[t] = "clear"
        /\ Queued' = Queued \ {Source(t)}
        /\ \A u \in Threads : u # t => pc'[u] = pc[u]
    BY <1>2, <1>4, <2>1, PassedOn, AfterIs
  <2>3. pc'[Loop] = pc[Loop]
    BY <1>4, <2>1, <2>2, NamesApart
  <2>4. (ConnectionInv /\ ClosureInv /\ FuncInv /\ FreshInv)'
    BY <1>1, <2>1, <2>2, <2>3, NamesApart
    DEF HandleInv, ConnectionInv, ClosureInv, FuncInv, FreshInv, IsTo, IsLast
  <2>5. QueueInv'
    BY <1>1, <2>1, <2>2, NamesApart DEF HandleInv, QueueInv
  <2>6. WorkerInv'
    BY <1>1, <1>4, <2>1, <2>2, NamesApart DEF HandleInv, WorkerInv, IsTo, IsLast
  <2> QED
    BY <2>4, <2>5, <2>6 DEF HandleInv
<1>5. CASE pc[t] = "dropTask"
  <2>1. t \in Workers /\ t # Loop /\ Source(t) = t
    BY <1>5, SourceAt, NamesApart
  <2>2. /\ pc'[t] = "wait" /\ Queued' = Queued
        /\ \A u \in Threads : u # t => pc'[u] = pc[u]
    BY <1>5, <2>1, PassedOn, AfterIs
  <2>3. (ConnectionInv /\ ClosureInv /\ FuncInv /\ FreshInv)'
    BY <1>1, <2>1, <2>2, NamesApart
    DEF HandleInv, ConnectionInv, ClosureInv, FuncInv, FreshInv, IsTo, IsLast
  <2>4. QueueInv'
    BY <1>1, <2>1, <2>2, NamesApart DEF HandleInv, QueueInv
  <2>5. WorkerInv'
    BY <1>1, <2>1, <2>2, NamesApart DEF HandleInv, WorkerInv, IsTo, IsLast
  <2> QED
    BY <2>3, <2>4, <2>5 DEF HandleInv
<1> QED
  BY <1>3, <1>4, <1>5 DEF Closing

\* And after the last was, but for its mutex.
LEMMA LastKeepsHandles ==
    ASSUME TypeOK, PlaceInv, HandleInv, NEW t \in Threads, NEW c \in Connections,
           InUse(t), pc[t] \in Closing, handle[Source(t)] = To(c),
           UNCHANGED <<pc, task_list>>,
           handle' = [handle EXCEPT ![Source(t)].reference_counter = None]
    PROVE  HandleInv' /\ handle' = [handle EXCEPT ![Source(t)] = Last(c)]
<1>0. DOMAIN handle = Handles /\ Source(t) \in Handles
  BY SourceAt DEF TypeOK
<1>1. [To(c) EXCEPT !.reference_counter = None] = Last(c)
  BY DEF To, Last
<1>2. handle' = [handle EXCEPT ![Source(t)] = Last(c)]
  BY <1>0, <1>1
<1>3. /\ handle'[Source(t)] = Last(c)
      /\ \A h \in Handles : h # Source(t) => handle'[h] = handle[h]
  BY <1>0, <1>2
<1>4. Queued' = Queued
  BY DEF Queued, Elements
<1>5. CASE Source(t) \in Connections
  <2>1. Source(t) = Head(task_list) /\ pc[t] \in {"pop", "clear"}
    BY <1>5, SourceAt, NamesApart DEF Closing
  <2>2. Source(t) \in Queued
    <3>1. task_list # <<>>
      BY <2>1, SourceAt
    <3> QED
      BY <2>1, <3>1, ElementsTail DEF TypeOK, PlaceInv, Queued
  <2>3. c = Source(t)
    BY <1>5, <2>2, Kinds DEF HandleInv, QueueInv
  <2>4. QueueInv'
    BY <1>3, <1>4, <1>5, <2>2, <2>3, NamesApart DEF HandleInv, QueueInv
  <2>5. (ConnectionInv /\ ClosureInv /\ FuncInv /\ FreshInv)'
    BY <1>3, <1>4, <1>5, NamesApart
    DEF HandleInv, ConnectionInv, ClosureInv, FuncInv, FreshInv, IsTo, IsLast
  <2>6. WorkerInv'
    BY <1>3, <1>5, NamesApart DEF HandleInv, WorkerInv, IsTo, IsLast
  <2> QED
    BY <1>2, <2>4, <2>5, <2>6 DEF HandleInv
<1>6. CASE Source(t) \notin Connections
  <2>1. \/ t = Loop /\ pc[t] = "dropFunc" /\ Source(t) = "func"
        \/ t = Loop /\ pc[t] = "dropConnection" /\ Source(t) = "connection"
        \/ t \in Workers /\ pc[t] = "dropTask" /\ Source(t) = t
    BY <1>6, SourceAt, NamesApart DEF Closing
  <2>2. QueueInv'
    BY <1>3, <1>4, <1>6, NamesApart DEF HandleInv, QueueInv
  <2>3. (ConnectionInv /\ ClosureInv /\ FuncInv /\ FreshInv)'
    BY <1>3, <1>4, <2>1, NamesApart
    DEF HandleInv, ConnectionInv, ClosureInv, FuncInv, FreshInv, IsTo, IsLast
  <2>4. WorkerInv'
    BY <1>3, <2>1, NamesApart DEF HandleInv, WorkerInv, IsTo, IsLast
  <2> QED
    BY <1>2, <2>2, <2>3, <2>4 DEF HandleInv
<1> QED
  BY <1>5, <1>6

-----------------------------------------------------------------------------
(* Who has a mutex. *)

\* A thread that lets its mutex go leaves those that have another one alone.
LEMMA UnlockKeepsLocks ==
    ASSUME TypeOK, PlaceInv, LockInv, CountInv,
           NEW t \in Threads, reg[t] # None,
           NEW c \in Connections, handle[Source(t)] = To(c), Unlock(t, c),
           \A u \in Threads : u # t => pc'[u] = pc[u],
           UNCHANGED task_list \/ pc[t] \in {"push", "pop", "clear"},
           \A d \in Connections : d # c => counter'[d] = counter[d],
           \A h \in Handles, d \in Connections :
               d # c /\ handle[h] = To(d) => handle'[h] = handle[h]
    PROVE  LockInv'
<1>0. DOMAIN reg = Threads /\ DOMAIN mutex = Connections
  BY DEF TypeOK
<1>1. /\ reg'[t] = None /\ mutex'[c] = None
      /\ \A u \in Threads : u # t => reg'[u] = reg[u]
      /\ \A d \in Connections : d # c => mutex'[d] = mutex[d]
  BY <1>0 DEF Unlock
<1>2. mutex[c] = t
  BY Owned, Kinds
<1>3. ASSUME NEW u \in Threads, reg'[u] # None
      PROVE  /\ InUse(u)'
             /\ \E d \in Connections :
                    /\ handle'[Source(u)'] = To(d) /\ mutex'[d] = u
                    /\ reg'[u] = counter'[d]
  <2>1. u # t /\ reg[u] # None /\ reg'[u] = reg[u]
    BY <1>1, <1>3
  <2>2. InUse(u)
    BY <2>1 DEF LockInv
  <2>3. PICK d \in Connections :
          handle[Source(u)] = To(d) /\ mutex[d] = u /\ reg[u] = counter[d]
    BY <2>1 DEF LockInv
  <2>4. d # c
    BY <1>2, <2>1, <2>3
  <2>5. InUse(u)' /\ Source(u)' = Source(u) /\ Source(u) \in Handles
    BY <2>1, <2>2, SourceStays, SourceAt
  <2> QED
    BY <1>1, <2>1, <2>3, <2>4, <2>5
<1>4. ASSUME NEW d \in Connections, NEW u \in Threads, mutex'[d] = u
      PROVE  reg'[u] # None /\ handle'[Source(u)'] = To(d)
  <2>1. d # c /\ mutex[d] = u
    BY <1>1, <1>4, HttpServerAssumption DEF Threads
  <2>2. u # t
    BY <2>1, Kinds DEF LockInv
  <2>3. reg[u] # None /\ handle[Source(u)] = To(d) /\ InUse(u)
    BY <2>1 DEF LockInv
  <2>4. Source(u)' = Source(u) /\ Source(u) \in Handles
    BY <2>2, <2>3, SourceStays, SourceAt
  <2> QED
    BY <1>1, <2>1, <2>2, <2>3, <2>4
<1> QED
  BY <1>3, <1>4 DEF LockInv

\* A thread that has none and takes none changes nothing.
LEMMA StepKeepsLocks ==
    ASSUME TypeOK, PlaceInv, LockInv, NEW t \in Threads, reg[t] = None,
           \A u \in Threads : u # t => pc'[u] = pc[u],
           UNCHANGED task_list \/ pc[t] \in {"push", "pop", "clear"},
           UNCHANGED reg,
           \A c \in Connections : mutex'[c] \in Threads \/ mutex[c] \in Threads =>
               mutex'[c] = mutex[c] /\ counter'[c] = counter[c],
           \A u \in Threads : u # t /\ InUse(u) =>
               handle'[Source(u)] = handle[Source(u)]
    PROVE  LockInv'
<1>1. ASSUME NEW u \in Threads, reg'[u] # None
      PROVE  /\ InUse(u)'
             /\ \E d \in Connections :
                    /\ handle'[Source(u)'] = To(d) /\ mutex'[d] = u
                    /\ reg'[u] = counter'[d]
  <2>1. u # t /\ reg[u] # None /\ reg'[u] = reg[u]
    BY <1>1
  <2>2. InUse(u)
    BY <2>1 DEF LockInv
  <2>3. PICK d \in Connections :
          handle[Source(u)] = To(d) /\ mutex[d] = u /\ reg[u] = counter[d]
    BY <2>1 DEF LockInv
  <2>4. InUse(u)' /\ Source(u)' = Source(u)
    BY <2>1, <2>2, SourceStays
  <2> QED
    BY <2>1, <2>2, <2>3, <2>4
<1>2. ASSUME NEW d \in Connections, NEW u \in Threads, mutex'[d] = u
      PROVE  reg'[u] # None /\ handle'[Source(u)'] = To(d)
  <2>1. mutex[d] = u
    BY <1>2
  <2>2. reg[u] # None /\ handle[Source(u)] = To(d) /\ u # t /\ InUse(u)
    BY <2>1 DEF LockInv
  <2>3. Source(u)' = Source(u)
    BY <2>2, SourceStays
  <2> QED
    BY <2>1, <2>2, <2>3
<1> QED
  BY <1>1, <1>2 DEF LockInv

-----------------------------------------------------------------------------
(* The handles of each connection, after a step at one of them. *)

\* One more.
LEMMA HoldersCopied ==
    ASSUME TypeOK, NEW c \in Connections, NEW h \in Handles, handle[h] = Null,
           handle' = [handle EXCEPT ![h] = To(c)]
    PROVE  /\ Holders(c)' = Holders(c) \cup {h} /\ h \notin Holders(c)
           /\ Cardinality(Holders(c)') = Cardinality(Holders(c)) + 1
           /\ \A d \in Connections : d # c => Holders(d)' = Holders(d)
<1>1. /\ handle'[h] = To(c) /\ \A g \in Handles : g # h => handle'[g] = handle[g]
      /\ DOMAIN handle = Handles
  BY DEF TypeOK
<1>2. Holders(c)' = Holders(c) \cup {h} /\ h \notin Holders(c)
  BY <1>1, Kinds DEF Holders
<1>3. \A d \in Connections : d # c => Holders(d)' = Holders(d)
  BY <1>1, Kinds DEF Holders
<1> QED
  BY <1>2, <1>3, HoldersFinite, FS_AddElement

\* Another one.
LEMMA HoldersMoved ==
    ASSUME TypeOK, NEW c \in Connections, NEW g \in Handles, NEW h \in Handles,
           g # h, handle[g] = To(c), handle[h] = Null,
           handle' = [handle EXCEPT ![g] = Null, ![h] = To(c)]
    PROVE  /\ Holders(c)' = (Holders(c) \ {g}) \cup {h}
           /\ g \in Holders(c) /\ h \notin Holders(c)
           /\ Cardinality(Holders(c)') = Cardinality(Holders(c))
           /\ \A d \in Connections : d # c => Holders(d)' = Holders(d)
<1>1. /\ handle'[g] = Null /\ handle'[h] = To(c)
      /\ \A f \in Handles : f # g /\ f # h => handle'[f] = handle[f]
  BY DEF TypeOK
<1>0. /\ handle[g].reference_counter = c /\ handle[h].reference_counter = None
      /\ handle'[g].reference_counter = None /\ handle'[h].reference_counter = c
      /\ \A d \in Connections : d # None
  BY <1>1, Kinds
<1>2. /\ Holders(c)' = (Holders(c) \ {g}) \cup {h}
      /\ g \in Holders(c) /\ h \notin Holders(c)
  BY <1>0, <1>1, Zenon DEF Holders
<1>3. ASSUME NEW d \in Connections, d # c PROVE Holders(d)' = Holders(d)
  BY <1>0, <1>1, <1>3, Zenon DEF Holders
<1>4. /\ IsFiniteSet(Holders(c) \ {g})
      /\ Cardinality(Holders(c) \ {g}) = Cardinality(Holders(c)) - 1
  BY <1>2, HoldersFinite, FS_RemoveElement
<1>5. h \notin Holders(c) \ {g} /\ Cardinality(Holders(c)) \in Nat
  BY <1>2, HoldersFinite, FS_CardinalityType
<1>6. Cardinality((Holders(c) \ {g}) \cup {h}) = Cardinality(Holders(c) \ {g}) + 1
  BY <1>4, <1>5, FS_AddElement
<1> QED
  BY <1>2, <1>3, <1>4, <1>5, <1>6

\* One less.
LEMMA HoldersDropped ==
    ASSUME TypeOK, NEW c \in Connections, NEW h \in Handles, handle[h] = To(c),
           NEW r, r.reference_counter = None, handle' = [handle EXCEPT ![h] = r]
    PROVE  /\ Holders(c)' = Holders(c) \ {h} /\ h \in Holders(c)
           /\ Cardinality(Holders(c)') = Cardinality(Holders(c)) - 1
           /\ Cardinality(Holders(c)) \in Nat
           /\ \A d \in Connections : d # c => Holders(d)' = Holders(d)
<1>1. /\ handle'[h] = r /\ \A g \in Handles : g # h => handle'[g] = handle[g]
  BY DEF TypeOK
<1>2. Holders(c)' = Holders(c) \ {h} /\ h \in Holders(c)
  BY <1>1, Kinds DEF Holders
<1>3. \A d \in Connections : d # c => Holders(d)' = Holders(d)
  BY <1>1, Kinds DEF Holders
<1> QED
  BY <1>2, <1>3, HoldersFinite, FS_RemoveElement, FS_CardinalityType

\* As many, when a handle that counts no more loses its mutex.
LEMMA HoldersUnchanged ==
    ASSUME TypeOK, NEW h \in Handles, handle[h].reference_counter = None,
           handle' = [handle EXCEPT ![h] = Null]
    PROVE  \A d \in Connections : Holders(d)' = Holders(d)
<1>1. handle'[h] = Null /\ \A g \in Handles : g # h => handle'[g] = handle[g]
  BY DEF TypeOK
<1> QED
  BY <1>1, Kinds DEF Holders

\* A counter of at most one is that of the last handle.
LEMMA OnlyHolder ==
    ASSUME NEW c \in Connections, NEW h \in Holders(c), Cardinality(Holders(c)) <= 1
    PROVE  Holders(c) = {h} /\ Cardinality({}) = 0
<1>1. IsFiniteSet(Holders(c) \ {h}) /\ Cardinality(Holders(c) \ {h}) \in Nat
  BY HoldersFinite, FS_RemoveElement, FS_CardinalityType
<1>2. Cardinality(Holders(c) \ {h}) = Cardinality(Holders(c)) - 1
      /\ Cardinality(Holders(c)) \in Nat
  BY HoldersFinite, FS_RemoveElement, FS_CardinalityType
<1>3. Cardinality(Holders(c) \ {h}) = 0
  BY <1>1, <1>2
<1>4. Holders(c) \ {h} = {}
  BY <1>1, <1>3, FS_EmptySet
<1> QED
  BY <1>4, FS_EmptySet

\* A handle that is there is of one of the two kinds.
LEMMA HandleKinds ==
    ASSUME TypeOK, PlaceInv, HandleInv, NEW h \in Handles
    PROVE  handle[h] = Null \/ \E c \in Connections : handle[h] \in {To(c), Last(c)}
<1>1. CASE h \in Connections
  BY <1>1 DEF HandleInv, QueueInv
<1>2. CASE h \in Workers
  BY <1>2 DEF HandleInv, WorkerInv, IsTo, IsLast
<1>3. CASE h \in Locals
  <2>1. handle["connection"] = Null \/ IsTo("connection") \/ IsLast("connection")
    BY DEF HandleInv, ConnectionInv
  <2> QED
    BY <1>3, <2>1
    DEF HandleInv, ClosureInv, FuncInv, Locals, IsTo, IsLast, ConnectionInv
<1> QED
  BY <1>1, <1>2, <1>3 DEF Handles

-----------------------------------------------------------------------------
(* Every step keeps the invariant: the steps at a handle. *)

\* The program counters and the list keep their types.
LEMMA PassedType ==
    ASSUME TypeOK, PlaceInv, NEW t \in Threads, NEW c \in Connections,
           InUse(t), Passed(t, c), pc[t] = "push" => c \notin Queued
    PROVE  /\ pc' \in [Threads -> Using \cup {"accept", "enqueue", "cancel", "join",
                                      "done", "wait", "run", "return", "gone"}]
           /\ task_list' \in Seq(Connections)
           /\ task_lock' \in Threads \cup {None} /\ is_cancel' \in BOOLEAN
<1>1. pc[t] \in Using
  BY DEF InUse
<1>2. After[pc[t]] \in Using \cup {"accept", "enqueue", "wait", "run"}
  BY <1>1, AfterIs DEF Using, Copying, Closing
<1>3. pc' \in [Threads -> Using \cup {"accept", "enqueue", "cancel", "join",
                                      "done", "wait", "run", "return", "gone"}]
  BY <1>2 DEF TypeOK, Passed
<1>4. task_list' \in Seq(Connections)
  BY ListAfter DEF TypeOK
<1> QED
  BY <1>3, <1>4 DEF TypeOK, Passed

\* The handles of each connection, as the abstract specification has them.
HoldersOf == [d \in Connections |-> Holders(d)]

\* What one step does to them.
LEMMA HoldersOfAfter ==
    ASSUME NEW c \in Connections, NEW H, Holders(c)' = H,
           \A d \in Connections : d # c => Holders(d)' = Holders(d)
    PROVE  HoldersOf' = [HoldersOf EXCEPT ![c] = H] /\ HoldersOf[c] = Holders(c)
  BY DEF HoldersOf

\* A mutex that was let go is not a deleted one, and the others stay.
LEMMA MutexKept ==
    ASSUME MutexInv, NEW c \in Connections,
           mutex'[c] = None, sock'[c] # "new",
           \A d \in Connections : d # c => mutex'[d] = mutex[d] /\ sock'[d] = sock[d],
           \A h \in Handles : \/ handle'[h] = handle[h]
                              \/ handle'[h] \in {To(c), Last(c), Null}
    PROVE  MutexInv'
<1>1. \A h \in Handles : \/ handle'[h] = handle[h]
                         \/ handle'[h].mutex = c \/ handle'[h].mutex = None
  BY Kinds
<1>2. None # "deleted" /\ \A d \in Connections : d # None
  BY HttpServerAssumption
<1>3. ASSUME NEW d \in Connections
      PROVE  /\ mutex'[d] = "deleted" \/ sock'[d] = "new" =>
                    \A h \in Handles : handle'[h].mutex # d
             /\ sock'[d] = "new" => mutex'[d] = None
  <2>1. CASE d = c
    BY <1>2, <2>1
  <2>2. CASE d # c
    BY <1>1, <1>2, <2>2 DEF MutexInv
  <2> QED
    BY <2>1, <2>2
<1> QED
  BY <1>3 DEF MutexInv

\* Copy.
LEMMA CopyStep ==
    ASSUME IInv, NEW t \in Threads, Copy(t)
    PROVE  IInv' /\ \E c \in Connections, h \in Handles : SharedSockets!Share(c, h)
<1>b. PICK c \in Connections : c = handle[Source(t)].reference_counter
  BY Owned DEF Copy, IInv
<1>1. /\ c \in Connections /\ handle[Source(t)] = To(c) /\ InUse(t)
      /\ mutex[c] = t /\ reg[t] = counter[c] /\ counter[c] \in Nat
      /\ Source(t) \in Handles /\ Source(t) \in Holders(c)
      /\ pc[t] \in Copying /\ reg[t] # None
  BY <1>b, Owned DEF Copy, IInv
<1>2. PICK D \in Handles : /\ D = Destination(t, c) /\ handle[D] = Null
                           /\ pc[t] = "push" => c \notin Queued
  BY <1>1, DestinationIsFree DEF IInv
<1>3. /\ counter' = [counter EXCEPT ![c] = counter[c] + 1]
      /\ handle' = [handle EXCEPT ![D] = To(c)]
      /\ Unlock(t, c) /\ Passed(t, c) /\ UNCHANGED sock
  BY <1>b, <1>1, <1>2 DEF Copy
<1>4. TypeOK'
  <2>1. To(c) \in [mutex : Connections \cup {None},
                   reference_counter : Connections \cup {None}]
    BY <1>1 DEF To
  <2> QED
    BY <1>1, <1>2, <1>3, <2>1, PassedType DEF IInv, TypeOK, Unlock
<1>5. PlaceInv'
  BY <1>1, <1>2, <1>3, PlacePassed DEF IInv
<1>6. HandleInv'
  BY <1>1, <1>2, <1>3, CopyKeepsHandles DEF IInv
<1>7. /\ handle'[D] = To(c)
      /\ \A h \in Handles : h # D => handle'[h] = handle[h]
      /\ counter'[c] = counter[c] + 1
      /\ \A d \in Connections : d # c => counter'[d] = counter[d] /\ mutex'[d] = mutex[d]
      /\ mutex'[c] = None
  BY <1>1, <1>2, <1>3 DEF IInv, TypeOK, Unlock
<1>8. LockInv'
  <2>1. UNCHANGED task_list \/ pc[t] \in {"push", "pop", "clear"}
    BY <1>3 DEF Passed
  <2>2. \A u \in Threads : u # t => pc'[u] = pc[u]
    BY <1>1, <1>2, <1>3, PassedOn DEF IInv
  <2>3. \A h \in Handles, d \in Connections :
            d # c /\ handle[h] = To(d) => handle'[h] = handle[h]
    BY <1>2, <1>7, Kinds
  <2> QED
    BY <1>1, <1>3, <1>7, <2>1, <2>2, <2>3, UnlockKeepsLocks DEF IInv
<1>9. /\ Holders(c)' = Holders(c) \cup {D}
      /\ Cardinality(Holders(c)') = Cardinality(Holders(c)) + 1
      /\ \A d \in Connections : d # c => Holders(d)' = Holders(d)
  BY <1>1, <1>2, <1>3, HoldersCopied DEF IInv
<1>10. CountInv'
  BY <1>1, <1>7, <1>9 DEF IInv, CountInv
<1>11. OpenInv'
  BY <1>1, <1>3, <1>9 DEF IInv, OpenInv
<1>12. MutexInv'
  <2>1. sock[c] = "open"
    BY <1>1 DEF IInv, OpenInv
  <2> QED
    BY <1>1, <1>3, <1>7, <2>1, MutexKept DEF IInv
<1>13. LastInv'
  BY <1>1, <1>2, <1>7, Kinds DEF IInv, LastInv
<1>14. SharedSockets!Share(c, D)
  <2>1. /\ HoldersOf' = [HoldersOf EXCEPT ![c] = (Holders(c) \ {}) \cup {D}]
        /\ HoldersOf[c] = Holders(c)
    BY <1>9, HoldersOfAfter
  <2>2. D \notin Holders(c) /\ Holders(c) # {}
    BY <1>1, <1>2, Kinds DEF Holders
  <2> QED
    BY <1>3, <2>1, <2>2 DEF SharedSockets!Share, HoldersOf
<1> QED
  BY <1>4, <1>5, <1>6, <1>8, <1>10, <1>11, <1>12, <1>13, <1>14 DEF IInv

\* Move.
LEMMA MoveStep ==
    ASSUME IInv, NEW t \in Threads, Move(t)
    PROVE  IInv' /\ \E c \in Connections, h \in Handles : SharedSockets!Share(c, h)
<1>b. PICK c \in Connections, S \in Handles :
        c = handle[Source(t)].reference_counter /\ S = Source(t)
  BY Owned DEF Move, IInv
<1>1. /\ c \in Connections /\ handle[S] = To(c) /\ InUse(t)
      /\ mutex[c] = t /\ reg[t] = counter[c] /\ counter[c] \in Nat
      /\ S \in Handles /\ S \in Holders(c) /\ pc[t] = "move" /\ reg[t] # None
  BY <1>b, Owned DEF Move, IInv
<1>2. PICK D \in Handles : D = Destination(t, c) /\ handle[D] = Null /\ D # S
  <2>1. handle[Source(t)] = To(c) /\ pc[t] \in Copying \cup {"move"}
    BY <1>b, <1>1
  <2>2. /\ Destination(t, c) \in Handles /\ handle[Destination(t, c)] = Null
        /\ Destination(t, c) # Source(t)
    BY <1>1, <2>1, DestinationIsFree DEF IInv
  <2> QED
    BY <1>b, <2>2
<1>3. /\ handle' = [handle EXCEPT ![S] = Null, ![D] = To(c)]
      /\ Unlock(t, c) /\ Passed(t, c) /\ UNCHANGED <<sock, counter>>
  BY <1>b, <1>1, <1>2 DEF Move
<1>0. handle[Source(t)] = To(c) /\ reg[t] # None
      /\ handle' = [handle EXCEPT ![Source(t)] = Null, ![Destination(t, c)] = To(c)]
  BY <1>b, <1>1, <1>2, <1>3
<1>a. pc[t] # "push" /\ \A u \in Threads : u # t => pc'[u] = pc[u]
  BY <1>1, <1>3, PassedOn DEF IInv
<1>4. TypeOK'
  <2>1. {To(c), Null} \subseteq [mutex : Connections \cup {None},
                                 reference_counter : Connections \cup {None}]
    BY <1>1 DEF To, Null
  <2> QED
    BY <1>1, <1>2, <1>3, <2>1, PassedType DEF IInv, TypeOK, Unlock
<1>5. PlaceInv'
  BY <1>1, <1>3, PlacePassed DEF IInv
<1>6. HandleInv'
  BY <1>0, <1>1, <1>3, MoveKeepsHandles DEF IInv
<1>7. /\ handle'[D] = To(c) /\ handle'[S] = Null
      /\ \A h \in Handles : h # D /\ h # S => handle'[h] = handle[h]
      /\ \A d \in Connections : d # c => mutex'[d] = mutex[d]
      /\ mutex'[c] = None
  BY <1>1, <1>2, <1>3 DEF IInv, TypeOK, Unlock
<1>8. LockInv'
  <2>1. UNCHANGED task_list \/ pc[t] \in {"push", "pop", "clear"}
    BY <1>3 DEF Passed
  <2>2. \A h \in Handles, d \in Connections :
            d # c /\ handle[h] = To(d) => handle'[h] = handle[h]
    BY <1>1, <1>2, <1>7, Kinds
  <2>3. /\ TypeOK /\ PlaceInv /\ LockInv /\ CountInv
        /\ \A d \in Connections : d # c => counter'[d] = counter[d]
    BY <1>3 DEF IInv
  <2>4. Unlock(t, c) /\ reg[t] # None /\ handle[Source(t)] = To(c)
    BY <1>0, <1>3
  <2> QED
    BY <1>1, <1>a, <2>1, <2>2, <2>3, <2>4, UnlockKeepsLocks
<1>9. /\ Holders(c)' = (Holders(c) \ {S}) \cup {D}
      /\ Cardinality(Holders(c)') = Cardinality(Holders(c))
      /\ \A d \in Connections : d # c => Holders(d)' = Holders(d)
  BY <1>1, <1>2, <1>3, HoldersMoved DEF IInv
<1>10. CountInv'
  BY <1>1, <1>3, <1>9 DEF IInv, CountInv
<1>11. OpenInv'
  BY <1>1, <1>3, <1>9 DEF IInv, OpenInv
<1>12. MutexInv'
  <2>1. sock[c] = "open"
    BY <1>1 DEF IInv, OpenInv
  <2> QED
    BY <1>1, <1>3, <1>7, <2>1, MutexKept DEF IInv
<1>13. LastInv'
  BY <1>1, <1>2, <1>7, Kinds DEF IInv, LastInv
<1>14. SharedSockets!Share(c, D)
  <2>1. /\ HoldersOf' = [HoldersOf EXCEPT ![c] = (Holders(c) \ {S}) \cup {D}]
        /\ HoldersOf[c] = Holders(c)
    BY <1>9, HoldersOfAfter
  <2>2. D \notin Holders(c) /\ Holders(c) # {} /\ {S} \in SUBSET Holders(c)
    BY <1>1, <1>2, Kinds DEF Holders
  <2> QED
    BY <1>3, <2>1, <2>2 DEF SharedSockets!Share, HoldersOf
<1> QED
  BY <1>4, <1>5, <1>6, <1>8, <1>10, <1>11, <1>12, <1>13, <1>14 DEF IInv

\* Drop.
LEMMA DropStep ==
    ASSUME IInv, NEW t \in Threads, Drop(t)
    PROVE  IInv' /\ \E c \in Connections, h \in Handles : SharedSockets!Release(c, h)
<1>b. PICK c \in Connections, S \in Handles :
        c = handle[Source(t)].reference_counter /\ S = Source(t)
  BY Owned DEF Drop, IInv
<1>1. /\ c \in Connections /\ handle[S] = To(c) /\ InUse(t)
      /\ mutex[c] = t /\ reg[t] = counter[c] /\ counter[c] \in Nat
      /\ counter[c] = Cardinality(Holders(c)) /\ counter[c] > 1
      /\ S \in Handles /\ S \in Holders(c) /\ pc[t] \in Closing /\ reg[t] # None
  BY <1>b, Owned DEF Drop, IInv
<1>2. pc[t] # "push"
  BY <1>1 DEF Closing
<1>3. /\ counter' = [counter EXCEPT ![c] = counter[c] - 1]
      /\ handle' = [handle EXCEPT ![S] = Null]
      /\ Unlock(t, c) /\ Passed(t, c) /\ UNCHANGED sock
  BY <1>b, <1>1 DEF Drop
<1>0. handle[Source(t)] = To(c) /\ handle' = [handle EXCEPT ![Source(t)] = Null]
  BY <1>b, <1>1, <1>3
<1>4. TypeOK'
  <2>1. Null \in [mutex : Connections \cup {None},
                  reference_counter : Connections \cup {None}]
    BY DEF Null
  <2> QED
    BY <1>1, <1>2, <1>3, <2>1, PassedType DEF IInv, TypeOK, Unlock
<1>5. PlaceInv'
  BY <1>1, <1>2, <1>3, PlacePassed DEF IInv
<1>6. HandleInv'
  BY <1>0, <1>1, <1>3, DropKeepsHandles DEF IInv
<1>7. /\ handle'[S] = Null
      /\ \A h \in Handles : h # S => handle'[h] = handle[h]
      /\ counter'[c] = counter[c] - 1
      /\ \A d \in Connections : d # c => counter'[d] = counter[d] /\ mutex'[d] = mutex[d]
      /\ mutex'[c] = None
  BY <1>1, <1>3 DEF IInv, TypeOK, Unlock
<1>8. LockInv'
  <2>1. UNCHANGED task_list \/ pc[t] \in {"push", "pop", "clear"}
    BY <1>3 DEF Passed
  <2>2. \A u \in Threads : u # t => pc'[u] = pc[u]
    BY <1>1, <1>2, <1>3, PassedOn DEF IInv
  <2>3. \A h \in Handles, d \in Connections :
            d # c /\ handle[h] = To(d) => handle'[h] = handle[h]
    BY <1>1, <1>7, Kinds
  <2> QED
    BY <1>0, <1>1, <1>3, <1>7, <2>1, <2>2, <2>3, UnlockKeepsLocks DEF IInv
<1>9. /\ Holders(c)' = Holders(c) \ {S}
      /\ Cardinality(Holders(c)') = Cardinality(Holders(c)) - 1
      /\ \A d \in Connections : d # c => Holders(d)' = Holders(d)
  BY <1>1, <1>3, Kinds, HoldersDropped DEF IInv
<1>10. CountInv'
  BY <1>1, <1>7, <1>9 DEF IInv, CountInv
<1>11. OpenInv'
  <2>1. Holders(c)' # {}
    <3>1. SUFFICES ASSUME Holders(c)' = {} PROVE FALSE
      OBVIOUS
    <3>2. Cardinality({}) = Cardinality(Holders(c)) - 1
      BY <1>9, <3>1
    <3> QED
      BY <1>1, <3>2, FS_EmptySet
  <2> QED
    BY <1>1, <1>3, <1>9, <2>1 DEF IInv, OpenInv
<1>12. MutexInv'
  <2>1. sock[c] = "open"
    BY <1>1 DEF IInv, OpenInv
  <2> QED
    BY <1>1, <1>3, <1>7, <2>1, MutexKept DEF IInv
<1>13. LastInv'
  BY <1>1, <1>7, Kinds DEF IInv, LastInv
<1>14. SharedSockets!Release(c, S)
  <2>1. /\ HoldersOf' = [HoldersOf EXCEPT ![c] = Holders(c) \ {S}]
        /\ HoldersOf[c] = Holders(c)
    BY <1>9, HoldersOfAfter
  <2>2. Holders(c) # {S}
    <3>1. Cardinality({S}) = 1
      BY FS_Singleton
    <3>2. SUFFICES ASSUME Holders(c) = {S} PROVE FALSE
      OBVIOUS
    <3>3. Cardinality(Holders(c)) = 1
      BY <3>1, <3>2
    <3> QED
      BY <1>1, <3>3
  <2> QED
    BY <1>1, <1>3, <2>1, <2>2 DEF SharedSockets!Release, HoldersOf
<1> QED
  BY <1>4, <1>5, <1>6, <1>8, <1>10, <1>11, <1>12, <1>13, <1>14 DEF IInv

\* DropLast.
LEMMA DropLastStep ==
    ASSUME IInv, NEW t \in Threads, DropLast(t)
    PROVE  IInv' /\ \E c \in Connections, h \in Handles : SharedSockets!Release(c, h)
<1>b. PICK c \in Connections, S \in Handles :
        c = handle[Source(t)].reference_counter /\ S = Source(t)
  BY Owned DEF DropLast, IInv
<1>1. /\ c \in Connections /\ handle[S] = To(c) /\ InUse(t)
      /\ mutex[c] = t /\ reg[t] = counter[c] /\ counter[c] \in Nat
      /\ counter[c] = Cardinality(Holders(c)) /\ counter[c] <= 1
      /\ S \in Handles /\ S \in Holders(c) /\ pc[t] \in Closing /\ reg[t] # None
  BY <1>b, Owned DEF DropLast, IInv
<1>2. /\ sock' = [sock EXCEPT ![c] = "closed"]
      /\ counter' = [counter EXCEPT ![c] = 0]
      /\ handle' = [handle EXCEPT ![Source(t)].reference_counter = None]
      /\ Unlock(t, c) /\ UNCHANGED <<pc, task_list, task_lock, is_cancel>>
  BY <1>b, <1>1 DEF DropLast, pool
<1>3. HandleInv' /\ handle' = [handle EXCEPT ![S] = Last(c)]
  BY <1>b, <1>1, <1>2, LastKeepsHandles DEF IInv
<1>0. handle[Source(t)] = To(c)
  BY <1>b, <1>1
<1>4. TypeOK'
  <2>1. Last(c) \in [mutex : Connections \cup {None},
                     reference_counter : Connections \cup {None}]
    BY <1>1 DEF Last
  <2>2. /\ sock' \in [Connections -> {"new", "open", "closed"}]
        /\ counter' \in [Connections -> Nat]
    BY <1>1, <1>2 DEF IInv, TypeOK
  <2>3. handle' \in [Handles -> [mutex : Connections \cup {None},
                                 reference_counter : Connections \cup {None}]]
    BY <1>1, <1>3, <2>1 DEF IInv, TypeOK
  <2>4. /\ mutex' \in [Connections -> Threads \cup {None, "deleted"}]
        /\ reg' \in [Threads -> Nat \cup {None}]
    BY <1>1, <1>2 DEF IInv, TypeOK, Unlock
  <2> QED
    BY <1>2, <2>2, <2>3, <2>4 DEF IInv, TypeOK
<1>5. PlaceInv'
  BY <1>2 DEF IInv, PlaceInv, Distinct
<1>7. /\ handle'[S] = Last(c)
      /\ \A h \in Handles : h # S => handle'[h] = handle[h]
      /\ counter'[c] = 0
      /\ \A d \in Connections : d # c => /\ counter'[d] = counter[d]
                                         /\ mutex'[d] = mutex[d] /\ sock'[d] = sock[d]
      /\ mutex'[c] = None /\ sock'[c] = "closed"
  BY <1>1, <1>2, <1>3 DEF IInv, TypeOK, Unlock
<1>8. LockInv'
  <2>1. \A h \in Handles, d \in Connections :
            d # c /\ handle[h] = To(d) => handle'[h] = handle[h]
    BY <1>1, <1>7, Kinds
  <2> QED
    BY <1>0, <1>1, <1>2, <1>7, <2>1, UnlockKeepsLocks DEF IInv
<1>9. /\ Holders(c)' = {} /\ Holders(c) = {S} /\ Cardinality({}) = 0
      /\ \A d \in Connections : d # c => Holders(d)' = Holders(d)
  <2>1. Last(c).reference_counter = None
    BY <1>1, Kinds
  <2>2. /\ Holders(c)' = Holders(c) \ {S} /\ S \in Holders(c)
        /\ \A d \in Connections : d # c => Holders(d)' = Holders(d)
    BY <1>1, <1>3, <2>1, HoldersDropped DEF IInv
  <2>3. Cardinality(Holders(c)) <= 1
    BY <1>1, <1>3 DEF IInv, CountInv
  <2>4. Holders(c) = {S} /\ Cardinality({}) = 0
    BY <1>1, <2>2, <2>3, OnlyHolder
  <2> QED
    BY <2>2, <2>4
<1>10. CountInv'
  BY <1>1, <1>7, <1>9 DEF IInv, CountInv
<1>11. OpenInv'
  BY <1>1, <1>7, <1>9 DEF IInv, OpenInv
<1>12. MutexInv'
  BY <1>1, <1>7, MutexKept DEF IInv
<1>13. LastInv'
  <2>1. ASSUME NEW h \in Handles, handle[h].mutex = c PROVE h = S
    <3>1. handle[h] \in {To(c), Last(c)}
      BY <1>1, <2>1, HandleKinds, Kinds DEF IInv
    <3>2. handle[h] = To(c) => h \in Holders(c)
      BY <1>1, Kinds DEF Holders
    <3>3. handle[h] = Last(c) => h = S
      BY <1>1, Kinds DEF IInv, LastInv
    <3> QED
      BY <1>9, <3>1, <3>2, <3>3
  <2> QED
    BY <1>1, <1>7, <2>1, Kinds DEF IInv, LastInv
<1>14. SharedSockets!Release(c, S)
  <2>1. /\ HoldersOf' = [HoldersOf EXCEPT ![c] = Holders(c) \ {S}]
        /\ HoldersOf[c] = Holders(c)
    BY <1>9, HoldersOfAfter
  <2> QED
    BY <1>1, <1>2, <1>9, <2>1 DEF SharedSockets!Release, HoldersOf
<1> QED
  BY <1>3, <1>4, <1>5, <1>8, <1>10, <1>11, <1>12, <1>13, <1>14 DEF IInv

\* DeleteMutex.
LEMMA DeleteMutexStep ==
    ASSUME IInv, NEW t \in Threads, DeleteMutex(t)
    PROVE  /\ IInv'
           /\ \A d \in Connections : Holders(d)' = Holders(d)
<1>1. InUse(t) /\ reg[t] = None /\ pc[t] \in Closing
  BY DEF DeleteMutex, Wants, InUse
<1>b. PICK S \in Handles : S = Source(t)
  BY <1>1, SourceAt DEF IInv
<1>2. PICK c \in Connections : c = handle[S].mutex /\ handle[S] = Last(c)
  <2>1. handle[S].reference_counter = None /\ handle[S].mutex # None
    BY <1>b DEF DeleteMutex
  <2>2. handle[S] # Null /\ \A c \in Connections : handle[S] # To(c)
    BY <2>1, Kinds, HttpServerAssumption DEF Null, To
  <2>3. PICK c \in Connections : handle[S] = Last(c)
    BY <2>2, HandleKinds DEF IInv
  <2> QED
    BY <2>3, Kinds
<1>3. /\ mutex' = [mutex EXCEPT ![c] = "deleted"]
      /\ handle' = [handle EXCEPT ![S] = Null]
      /\ Passed(t, c) /\ UNCHANGED <<sock, counter, reg>>
  BY <1>b, <1>2 DEF DeleteMutex
<1>0. pc[t] # "push" /\ handle' = [handle EXCEPT ![Source(t)] = Null]
  BY <1>b, <1>1, <1>3 DEF Closing
<1>4. TypeOK'
  <2>1. Null \in [mutex : Connections \cup {None},
                  reference_counter : Connections \cup {None}]
    BY DEF Null
  <2>2. handle' \in [Handles -> [mutex : Connections \cup {None},
                                 reference_counter : Connections \cup {None}]]
    BY <1>3, <2>1 DEF IInv, TypeOK
  <2>3. mutex' \in [Connections -> Threads \cup {None, "deleted"}]
    BY <1>3 DEF IInv, TypeOK
  <2>4. pc[t] = "push" => c \notin Queued
    BY <1>0
  <2> QED
    BY <1>1, <1>2, <1>3, <2>2, <2>3, <2>4, PassedType DEF IInv, TypeOK
<1>5. PlaceInv'
  BY <1>0, <1>1, <1>2, <1>3, PlacePassed DEF IInv
<1>6. HandleInv'
  BY <1>0, <1>1, <1>2, <1>3, DropKeepsHandles DEF IInv
<1>7. /\ handle'[S] = Null
      /\ \A h \in Handles : h # S => handle'[h] = handle[h]
      /\ \A d \in Connections : d # c => mutex'[d] = mutex[d]
      /\ mutex'[c] = "deleted"
  BY <1>1, <1>2, <1>3 DEF IInv, TypeOK
<1>8. LockInv'
  <2>1. UNCHANGED task_list \/ pc[t] \in {"push", "pop", "clear"}
    BY <1>3 DEF Passed
  <2>2. \A u \in Threads : u # t => pc'[u] = pc[u]
    BY <1>0, <1>1, <1>2, <1>3, PassedOn DEF IInv
  <2>3. ASSUME NEW u \in Threads, mutex[c] = u PROVE FALSE
    <3>1. handle[Source(u)] = To(c) /\ InUse(u)
      BY <2>3 DEF IInv, LockInv
    <3>2. Source(u) \in Handles
      BY <3>1, SourceAt DEF IInv
    <3>3. Source(u) = S
      <4>1. handle[Source(u)].mutex = c
        BY <3>1, Kinds
      <4> QED
        BY <1>2, <3>2, <4>1 DEF IInv, LastInv
    <3>4. To(c) # Last(c) /\ handle[S] = To(c)
      BY <1>1, <3>1, <3>3, Kinds
    <3> QED
      BY <1>2, <3>4
  <2>4. \A d \in Connections : mutex'[d] \in Threads \/ mutex[d] \in Threads =>
            mutex'[d] = mutex[d] /\ counter'[d] = counter[d]
    BY <1>3, <1>7, <2>3, HttpServerAssumption
  <2>5. \A u \in Threads : u # t /\ InUse(u) => handle'[Source(u)] = handle[Source(u)]
    BY <1>b, <1>1, <1>7, SourcesApart, SourceAt DEF IInv
  <2> QED
    BY <1>1, <1>3, <2>1, <2>2, <2>4, <2>5, StepKeepsLocks DEF IInv
<1>9. \A d \in Connections : Holders(d)' = Holders(d)
  BY <1>1, <1>2, <1>3, Kinds, HoldersUnchanged DEF IInv
<1>10. CountInv' /\ OpenInv'
  BY <1>3, <1>9 DEF IInv, CountInv, OpenInv
<1>11. MutexInv'
  <2>1. sock[c] # "new"
    BY <1>2, Kinds DEF IInv, MutexInv
  <2>2. ASSUME NEW h \in Handles PROVE handle'[h].mutex # c
    <3>1. CASE h = S
      BY <1>2, <1>7, <3>1, Kinds
    <3>2. CASE h # S
      <4>1. handle'[h] = handle[h]
        BY <1>7, <3>2
      <4>2. handle[h].mutex = c => S = h
        BY <1>2 DEF IInv, LastInv
      <4> QED
        BY <3>2, <4>1, <4>2
    <3> QED
      BY <3>1, <3>2
  <2> QED
    <3>1. \A h \in Handles : handle'[h] = handle[h] \/ handle'[h].mutex = None
      BY <1>2, <1>7, Kinds
    <3>2. \A d \in Connections : d # None
      BY HttpServerAssumption
    <3>3. \A d \in Connections : mutex'[d] # mutex[d] => d = c
      BY <1>7
    <3> QED
      BY <1>3, <2>1, <2>2, <3>1, <3>2, <3>3 DEF IInv, MutexInv
<1>12. LastInv'
  BY <1>1, <1>2, <1>7, Kinds DEF IInv, LastInv
<1> QED
  BY <1>4, <1>5, <1>6, <1>8, <1>9, <1>10, <1>11, <1>12 DEF IInv

\* Lock.
LEMMA LockStep ==
    ASSUME IInv, NEW t \in Threads, Lock(t)
    PROVE  IInv'
<1>1. InUse(t) /\ reg[t] = None
  BY DEF Lock, Wants, InUse
<1>a. Source(t) \in Handles
  BY <1>1, SourceAt DEF IInv
<1>2. PICK c \in Connections : /\ c = handle[Source(t)].reference_counter
                               /\ handle[Source(t)] = To(c) /\ mutex[c] = None
  <2>1. /\ handle[Source(t)].reference_counter # None
        /\ mutex[handle[Source(t)].reference_counter] = None
    BY DEF Lock
  <2>2. handle[Source(t)] # Null /\ \A c \in Connections : handle[Source(t)] # Last(c)
    BY <2>1 DEF Null, Last
  <2>3. PICK c \in Connections : handle[Source(t)] = To(c)
    BY <1>a, <2>2, HandleKinds DEF IInv
  <2> QED
    BY <2>1, <2>3, Kinds
<1>3. /\ mutex' = [mutex EXCEPT ![c] = t] /\ reg' = [reg EXCEPT ![t] = counter[c]]
      /\ UNCHANGED <<pc, sock, counter, handle, task_list, task_lock, is_cancel>>
  BY <1>2 DEF Lock, pool
<1>4. TypeOK'
  BY <1>2, <1>3 DEF IInv, TypeOK
<1>5. PlaceInv'
  BY <1>3 DEF IInv, PlaceInv, Distinct
<1>6. HandleInv'
  BY <1>3
  DEF IInv, HandleInv, ConnectionInv, ClosureInv, FuncInv, FreshInv, QueueInv,
      WorkerInv, IsTo, IsLast, Queued, Elements
<1>7. /\ mutex'[c] = t /\ reg'[t] = counter[c] /\ counter[c] # None
      /\ \A d \in Connections : d # c => mutex'[d] = mutex[d]
      /\ \A u \in Threads : u # t => reg'[u] = reg[u]
  BY <1>2, <1>3, HttpServerAssumption DEF IInv, TypeOK
<1>8. \A u \in Threads : Source(u)' = Source(u) /\ (InUse(u)' <=> InUse(u))
  BY <1>3 DEF Source, InUse
<1>9. LockInv'
  <2>1. ASSUME NEW u \in Threads, reg'[u] # None
        PROVE  /\ InUse(u)'
               /\ \E d \in Connections :
                      /\ handle'[Source(u)'] = To(d) /\ mutex'[d] = u
                      /\ reg'[u] = counter'[d]
    <3>1. CASE u = t
      BY <1>1, <1>2, <1>3, <1>7, <1>8, <3>1
    <3>2. CASE u # t
      <4>1. PICK d \in Connections :
              handle[Source(u)] = To(d) /\ mutex[d] = u /\ reg[u] = counter[d]
        BY <1>7, <2>1, <3>2 DEF IInv, LockInv
      <4>2. d # c
        BY <1>2, <4>1, HttpServerAssumption
      <4>3. InUse(u)
        BY <1>7, <2>1, <3>2 DEF IInv, LockInv
      <4> QED
        BY <1>3, <1>7, <1>8, <3>2, <4>1, <4>2, <4>3
    <3> QED
      BY <3>1, <3>2
  <2>2. ASSUME NEW d \in Connections, NEW u \in Threads, mutex'[d] = u
        PROVE  reg'[u] # None /\ handle'[Source(u)'] = To(d)
    <3>1. CASE d = c
      <4>1. u = t
        BY <1>7, <2>2, <3>1
      <4> QED
        BY <1>2, <1>3, <1>7, <1>8, <3>1, <4>1
    <3>2. CASE d # c
      <4>1. mutex[d] = u
        BY <1>7, <2>2, <3>2
      <4>2. reg[u] # None /\ handle[Source(u)] = To(d)
        BY <4>1 DEF IInv, LockInv
      <4> QED
        BY <1>1, <1>3, <1>7, <1>8, <4>2
    <3> QED
      BY <3>1, <3>2
  <2> QED
    BY <2>1, <2>2 DEF LockInv
<1>10. \A d \in Connections : Holders(d)' = Holders(d)
  BY <1>3 DEF Holders
<1>11. CountInv' /\ OpenInv'
  BY <1>3, <1>10 DEF IInv, CountInv, OpenInv
<1>12. MutexInv' /\ LastInv'
  <2>1. sock[c] # "new"
    <3>1. handle[Source(t)].mutex = c
      BY <1>2, Kinds
    <3> QED
      BY <1>a, <3>1 DEF IInv, MutexInv
  <2>2. mutex'[c] # "deleted"
    BY <1>7, HttpServerAssumption
  <2>3. MutexInv'
    BY <1>3, <1>7, <2>1, <2>2 DEF IInv, MutexInv
  <2> QED
    BY <1>3, <2>3 DEF IInv, LastInv
<1> QED
  BY <1>4, <1>5, <1>6, <1>9, <1>11, <1>12 DEF IInv

-----------------------------------------------------------------------------
(* Every step keeps the invariant: the other steps of the loop and of the    *)
(* workers, which leave handles alone.                                       *)

\* A thread that goes from one place to another, at no handle of its own.
LEMMA GotoStep ==
    ASSUME IInv, NEW t \in Threads, ~InUse(t), NEW place, Goto(t, place),
           UNCHANGED <<sock, counter, mutex, handle, reg, task_list>>
    PROVE  /\ LockInv' /\ CountInv' /\ OpenInv' /\ MutexInv' /\ LastInv'
           /\ QueueInv' /\ FreshInv' = (pc'[Loop] \in {"capture", "move", "enqueue", "push"}
                  => handle["connection"].mutex \notin Queued)
           /\ pc'[t] = place /\ \A u \in Threads : u # t => pc'[u] = pc[u]
<1>1. DOMAIN pc = Threads
  BY DEF IInv, TypeOK
<1>2. pc'[t] = place /\ \A u \in Threads : u # t => pc'[u] = pc[u]
  BY <1>1 DEF Goto
<1>3. reg[t] = None
  BY DEF IInv, LockInv
<1>4. LockInv'
  BY <1>2, <1>3, StepKeepsLocks DEF IInv
<1>5. \A d \in Connections : Holders(d)' = Holders(d)
  BY DEF Holders
<1>6. CountInv' /\ OpenInv' /\ MutexInv' /\ LastInv'
  BY <1>5 DEF IInv, CountInv, OpenInv, MutexInv, LastInv
<1>7. Queued' = Queued
  BY DEF Queued, Elements
<1>8. QueueInv'
  BY <1>7 DEF IInv, HandleInv, QueueInv
<1> QED
  BY <1>2, <1>4, <1>6, <1>7, <1>8 DEF FreshInv

\* The loop: AcceptFails, Enqueue, Cancel, Join and Cleared.
LEMMA LoopSteps ==
    ASSUME IInv, AcceptFails \/ Enqueue \/ Cancel \/ Join \/ Cleared
    PROVE  IInv'
<1>1. Loop \in Threads /\ ~InUse(Loop)
  BY DEF AcceptFails, Enqueue, Cancel, Join, Cleared, InUse, Using, Copying, Closing, Threads
<1>2. PICK place \in {"cancel", "push", "join", "clear", "done"} :
        /\ Goto(Loop, place)
        /\ UNCHANGED <<sock, counter, mutex, handle, reg, task_list>>
        /\ \/ pc[Loop] = "accept" /\ place = "cancel" /\ UNCHANGED <<task_lock, is_cancel>>
           \/ /\ pc[Loop] = "enqueue" /\ place = "push"
              /\ task_lock = None /\ task_lock' = Loop /\ UNCHANGED is_cancel
           \/ /\ pc[Loop] = "cancel" /\ place = "join"
              /\ is_cancel' = TRUE /\ UNCHANGED task_lock
           \/ /\ pc[Loop] = "join" /\ place = "clear" /\ UNCHANGED <<task_lock, is_cancel>>
              /\ \A w \in Workers : pc[w] = "gone"
           \/ pc[Loop] = "clear" /\ place = "done" /\ UNCHANGED <<task_lock, is_cancel>>
  BY DEF AcceptFails, Enqueue, Cancel, Join, Cleared, pool
<1>3. /\ LockInv' /\ CountInv' /\ OpenInv' /\ MutexInv' /\ LastInv' /\ QueueInv'
      /\ pc'[Loop] = place /\ \A u \in Threads : u # Loop => pc'[u] = pc[u]
      /\ FreshInv' = (pc'[Loop] \in {"capture", "move", "enqueue", "push"}
                          => handle["connection"].mutex \notin Queued)
  BY <1>1, <1>2, GotoStep
<1>4. TypeOK'
  <2>1. pc' \in [Threads -> Using \cup {"accept", "enqueue", "cancel", "join",
                                      "done", "wait", "run", "return", "gone"}]
    BY <1>2 DEF IInv, TypeOK, Goto, Using, Copying, Closing
  <2> QED
    BY <1>1, <1>2, <2>1 DEF IInv, TypeOK
<1>5. \A w \in Workers : pc'[w] = pc[w]
  BY <1>3, NamesApart
<1>6. PlaceInv'
  <2>1. pc'[Loop] \in LoopPlaces /\ \A w \in Workers : pc'[w] \in WorkerPlaces
    BY <1>3, <1>5 DEF IInv, PlaceInv, LoopPlaces
  <2>2. \A u \in Threads :
            task_lock' = u <=> pc'[u] \in {"push", "take", "pop", "dropTask"}
    BY <1>2, <1>3, HttpServerAssumption DEF IInv, PlaceInv, Threads
  <2>3. pc'[Loop] \in {"clear", "done"} => \A w \in Workers : pc'[w] = "gone"
    BY <1>2, <1>3, <1>5 DEF IInv, PlaceInv
  <2>4. Distinct(task_list)' /\ \A w \in Workers : pc'[w] \in {"take", "pop"} => task_list' # <<>>
    BY <1>2, <1>5 DEF IInv, PlaceInv, Distinct
  <2> QED
    BY <2>1, <2>2, <2>3, <2>4 DEF PlaceInv
<1>7. HandleInv'
  <2>1. WorkerInv'
    BY <1>2, <1>5 DEF IInv, HandleInv, WorkerInv, IsTo, IsLast
  <2>2. FreshInv'
    BY <1>2, <1>3 DEF IInv, HandleInv, FreshInv
  <2>3. ConnectionInv' /\ ClosureInv' /\ FuncInv'
    BY <1>2, <1>3
    DEF IInv, HandleInv, ConnectionInv, ClosureInv, FuncInv, IsTo, IsLast
  <2> QED
    BY <1>3, <2>1, <2>2, <2>3 DEF HandleInv
<1> QED
  BY <1>3, <1>4, <1>6, <1>7 DEF IInv

\* A worker: Wake, Leave, Return and Relock.
LEMMA WorkerSteps ==
    ASSUME IInv, NEW w \in Workers, Wake(w) \/ Leave(w) \/ Return(w) \/ Relock(w)
    PROVE  IInv'
<1>1. w \in Threads /\ w # Loop /\ ~InUse(w)
  BY NamesApart DEF Wake, Leave, Return, Relock, InUse, Using, Copying, Closing
<1>2. PICK place \in {"take", "gone", "return", "dropTask"} :
        /\ Goto(w, place)
        /\ UNCHANGED <<sock, counter, mutex, handle, reg, task_list, is_cancel>>
        /\ \/ /\ pc[w] = "wait" /\ place = "take" /\ task_list # <<>>
              /\ task_lock = None /\ task_lock' = w
           \/ pc[w] = "wait" /\ place = "gone" /\ UNCHANGED task_lock
           \/ pc[w] = "run" /\ place = "return" /\ UNCHANGED task_lock
           \/ /\ pc[w] = "return" /\ place = "dropTask"
              /\ task_lock = None /\ task_lock' = w
  BY DEF Wake, Leave, Return, Relock, pool
<1>3. /\ LockInv' /\ CountInv' /\ OpenInv' /\ MutexInv' /\ LastInv' /\ QueueInv'
      /\ pc'[w] = place /\ \A u \in Threads : u # w => pc'[u] = pc[u]
      /\ FreshInv' = (pc'[Loop] \in {"capture", "move", "enqueue", "push"}
                          => handle["connection"].mutex \notin Queued)
  BY <1>1, <1>2, GotoStep
<1>4. TypeOK'
  <2>1. pc' \in [Threads -> Using \cup {"accept", "enqueue", "cancel", "join",
                                      "done", "wait", "run", "return", "gone"}]
    BY <1>2 DEF IInv, TypeOK, Goto, Using, Copying, Closing
  <2> QED
    BY <1>1, <1>2, <2>1 DEF IInv, TypeOK
<1>5. pc'[Loop] = pc[Loop]
  BY <1>1, <1>3, NamesApart
<1>6. PlaceInv'
  <2>1. pc'[Loop] \in LoopPlaces /\ \A v \in Workers : pc'[v] \in WorkerPlaces
    BY <1>3, <1>5, NamesApart DEF IInv, PlaceInv, WorkerPlaces
  <2>2. \A u \in Threads :
            task_lock' = u <=> pc'[u] \in {"push", "take", "pop", "dropTask"}
    BY <1>1, <1>2, <1>3, HttpServerAssumption DEF IInv, PlaceInv, Threads
  <2>3. pc'[Loop] \in {"clear", "done"} => \A v \in Workers : pc'[v] = "gone"
    BY <1>2, <1>5 DEF IInv, PlaceInv
  <2>4. Distinct(task_list)' /\ \A v \in Workers : pc'[v] \in {"take", "pop"} => task_list' # <<>>
    BY <1>2, <1>3, NamesApart DEF IInv, PlaceInv, Distinct
  <2> QED
    BY <2>1, <2>2, <2>3, <2>4 DEF PlaceInv
<1>7. HandleInv'
  <2>1. WorkerInv'
    BY <1>2, <1>3, NamesApart DEF IInv, HandleInv, WorkerInv, IsTo, IsLast
  <2>2. FreshInv'
    BY <1>3, <1>5 DEF IInv, HandleInv, FreshInv
  <2>3. ConnectionInv' /\ ClosureInv' /\ FuncInv'
    BY <1>2, <1>5
    DEF IInv, HandleInv, ConnectionInv, ClosureInv, FuncInv, IsTo, IsLast
  <2> QED
    BY <1>3, <2>1, <2>2, <2>3 DEF HandleInv
<1> QED
  BY <1>3, <1>4, <1>6, <1>7 DEF IInv

\* Accept.
LEMMA AcceptStep ==
    ASSUME IInv, NEW c \in Connections, Accept(c)
    PROVE  IInv' /\ SharedSockets!Open(c, "connection")
<1>1. /\ Loop \in Threads /\ ~InUse(Loop) /\ pc[Loop] = "accept"
      /\ sock[c] = "new" /\ mutex[c] = None
      /\ handle["connection"] = Null /\ "connection" \in Handles
      /\ \A h \in Handles : handle[h].mutex # c
  BY NamesApart
  DEF Accept, InUse, Using, Copying, Closing, IInv, MutexInv, HandleInv, ConnectionInv
<1>2. /\ sock' = [sock EXCEPT ![c] = "open"] /\ counter' = [counter EXCEPT ![c] = 1]
      /\ handle' = [handle EXCEPT !["connection"] = To(c)]
      /\ Goto(Loop, "capture")
      /\ UNCHANGED <<mutex, reg, task_list, task_lock, is_cancel>>
  BY DEF Accept, pool
<1>3. /\ pc'[Loop] = "capture" /\ \A u \in Threads : u # Loop => pc'[u] = pc[u]
      /\ \A w \in Workers : pc'[w] = pc[w]
  BY <1>1, <1>2, NamesApart DEF IInv, TypeOK, Goto
<1>4. /\ handle'["connection"] = To(c)
      /\ \A h \in Handles : h # "connection" => handle'[h] = handle[h]
      /\ counter'[c] = 1 /\ sock'[c] = "open"
      /\ \A d \in Connections : d # c => counter'[d] = counter[d] /\ sock'[d] = sock[d]
  BY <1>1, <1>2 DEF IInv, TypeOK
<1>5. TypeOK'
  <2>1. pc' \in [Threads -> Using \cup {"accept", "enqueue", "cancel", "join",
                                      "done", "wait", "run", "return", "gone"}]
    BY <1>2 DEF IInv, TypeOK, Goto, Using, Copying
  <2>2. To(c) \in [mutex : Connections \cup {None},
                   reference_counter : Connections \cup {None}]
    BY DEF To
  <2>3. handle' \in [Handles -> [mutex : Connections \cup {None},
                                 reference_counter : Connections \cup {None}]]
    BY <1>2, <2>2 DEF IInv, TypeOK
  <2> QED
    BY <1>2, <2>1, <2>3 DEF IInv, TypeOK
<1>6. PlaceInv'
  <2>1. \A u \in Threads :
            task_lock' = u <=> pc'[u] \in {"push", "take", "pop", "dropTask"}
    BY <1>1, <1>2, <1>3 DEF IInv, PlaceInv
  <2> QED
    BY <1>2, <1>3, <2>1 DEF IInv, PlaceInv, LoopPlaces, Distinct
<1>7. Queued' = Queued /\ c \notin Queued
  <2>1. c \notin Queued
    BY <1>1, NamesApart, Kinds DEF IInv, HandleInv, QueueInv
  <2> QED
    BY <1>2, <2>1 DEF Queued, Elements
<1>8. HandleInv'
  <2>1. QueueInv'
    BY <1>4, <1>7, NamesApart DEF IInv, HandleInv, QueueInv
  <2>2. WorkerInv'
    BY <1>3, <1>4, NamesApart DEF IInv, HandleInv, WorkerInv, IsTo, IsLast
  <2>3. ConnectionInv' /\ FreshInv'
    BY <1>3, <1>4, <1>7, Kinds DEF ConnectionInv, FreshInv, IsTo
  <2>4. ClosureInv' /\ FuncInv'
    BY <1>1, <1>3, <1>4, NamesApart DEF IInv, HandleInv, ClosureInv, FuncInv
  <2> QED
    BY <2>1, <2>2, <2>3, <2>4 DEF HandleInv
<1>9. LockInv'
  <2>1. reg[Loop] = None
    BY <1>1 DEF IInv, LockInv
  <2>2. \A d \in Connections : mutex'[d] \in Threads \/ mutex[d] \in Threads =>
            mutex'[d] = mutex[d] /\ counter'[d] = counter[d]
    BY <1>1, <1>2, <1>4, HttpServerAssumption
  <2>3. \A u \in Threads : u # Loop /\ InUse(u) => handle'[Source(u)] = handle[Source(u)]
    BY <1>4, SourceAt, NamesApart DEF IInv
  <2> QED
    BY <1>1, <1>2, <1>3, <2>1, <2>2, <2>3, StepKeepsLocks DEF IInv
<1>10. /\ Holders(c)' = {"connection"} /\ Cardinality({"connection"}) = 1
       /\ \A d \in Connections : d # c => Holders(d)' = Holders(d)
  <2>1. /\ Holders(c)' = Holders(c) \cup {"connection"}
        /\ \A d \in Connections : d # c => Holders(d)' = Holders(d)
    BY <1>1, <1>2, HoldersCopied DEF IInv
  <2>2. Holders(c) = {}
    <3>1. ASSUME NEW h \in Handles PROVE handle[h].reference_counter # c
      BY <1>1, HandleKinds, Kinds DEF IInv
    <3> QED
      BY <3>1 DEF Holders
  <2> QED
    BY <2>1, <2>2, FS_Singleton
<1>11. CountInv' /\ OpenInv'
  BY <1>4, <1>10 DEF IInv, CountInv, OpenInv
<1>12. MutexInv'
  BY <1>1, <1>2, <1>4, MutexKept DEF IInv
<1>13. LastInv'
  BY <1>1, <1>4, Kinds DEF IInv, LastInv
<1>14. SharedSockets!Open(c, "connection")
  <2>1. HoldersOf' = [HoldersOf EXCEPT ![c] = {"connection"}]
    BY <1>10, HoldersOfAfter
  <2> QED
    BY <1>1, <1>2, <2>1 DEF SharedSockets!Open, HoldersOf
<1> QED
  BY <1>5, <1>6, <1>8, <1>9, <1>11, <1>12, <1>13, <1>14 DEF IInv

\* Init, and every step.
LEMMA InitHolds == Init => IInv
<1> SUFFICES ASSUME Init PROVE IInv
  OBVIOUS
<1>1. TypeOK
  <2>1. Null \in [mutex : Connections \cup {None},
                  reference_counter : Connections \cup {None}]
    BY DEF Null
  <2>2. handle \in [Handles -> [mutex : Connections \cup {None},
                                reference_counter : Connections \cup {None}]]
    BY <2>1 DEF Init
  <2>3. /\ task_list \in Seq(Connections)
        /\ task_lock \in Threads \cup {None} /\ is_cancel \in BOOLEAN
    <3>1. task_list = <<>> /\ task_lock = None /\ is_cancel = FALSE
      BY DEF Init
    <3>2. <<>> \in Seq(Connections)
      OBVIOUS
    <3> QED
      BY <3>1, <3>2
  <2>4. pc \in [Threads -> Using \cup {"accept", "enqueue", "cancel", "join", "done",
                                      "wait", "run", "return", "gone"}]
    BY DEF Init
  <2> QED
    BY <2>2, <2>3, <2>4 DEF Init, TypeOK
<1>2. Queued = {} /\ Distinct(task_list)
  BY DEF Init, Queued, Elements, Distinct
<1>3. PlaceInv
  BY <1>2, HttpServerAssumption DEF Init, PlaceInv, LoopPlaces, WorkerPlaces, Threads
<1>4. HandleInv
  BY <1>2, NamesApart
  DEF Init, HandleInv, ConnectionInv, ClosureInv, FuncInv, FreshInv, QueueInv, WorkerInv
<1>5. LockInv
  BY HttpServerAssumption DEF Init, LockInv, Threads
<1>6. \A c \in Connections : Holders(c) = {} /\ counter[c] = 0
  BY HttpServerAssumption DEF Init, Holders, Null
<1>7. CountInv /\ OpenInv
  BY <1>6, FS_EmptySet DEF Init, CountInv, OpenInv
<1>8. MutexInv /\ LastInv
  BY HttpServerAssumption DEF Init, MutexInv, LastInv, Null, Last
<1> QED
  BY <1>1, <1>3, <1>4, <1>5, <1>7, <1>8 DEF IInv

\* Every step, and every step that changes nothing, keeps it.
LEMMA StepHolds == IInv /\ [Next]_vars => IInv'
<1> SUFFICES ASSUME IInv, [Next]_vars PROVE IInv'
  OBVIOUS
<1>1. ASSUME NEW t \in Threads, HandleStep(t) PROVE IInv'
  BY <1>1, LockStep, CopyStep, MoveStep, DropStep, DropLastStep, DeleteMutexStep
  DEF HandleStep
<1>2. CASE LoopStep
  BY <1>1, <1>2, LoopSteps, NamesApart DEF LoopStep
<1>3. CASE AcceptFails
  BY <1>3, LoopSteps
<1>4. ASSUME NEW c \in Connections, Accept(c) PROVE IInv'
  BY <1>4, AcceptStep
<1>5. ASSUME NEW w \in Workers, WorkerStep(w) PROVE IInv'
  BY <1>1, <1>5, WorkerSteps, NamesApart DEF WorkerStep
<1>6. CASE UNCHANGED vars
  BY <1>6
  DEF vars, pool, IInv, TypeOK, PlaceInv, HandleInv, ConnectionInv, ClosureInv, FuncInv,
      FreshInv, QueueInv, WorkerInv, LockInv, CountInv, OpenInv, MutexInv, LastInv,
      IsTo, IsLast, InUse, Source, Holders, Queued, Elements, Distinct
<1> QED
  BY <1>2, <1>3, <1>4, <1>5, <1>6 DEF Next

\* The first of the list is in it.
LEMMA HeadIsQueued ==
    ASSUME TypeOK, PlaceInv, task_list # <<>>
    PROVE  Head(task_list) \in Connections /\ Head(task_list) \in Queued
<1>1. task_list \in Seq(Connections) /\ Distinct(task_list)
  BY DEF TypeOK, PlaceInv
<1> QED
  BY <1>1, ElementsTail DEF Queued

-----------------------------------------------------------------------------
(* The theorems. *)

\* The inductive invariant holds in every state.
THEOREM HttpInvariant == Spec => []IInv
<1>1. IInv /\ [Next]_vars => IInv'
  BY StepHolds
<1> QED
  BY InitHolds, <1>1, PTL DEF Spec

\* Every variable keeps its type.
THEOREM HttpTypeCorrect == Spec => []TypeOK
<1>1. IInv => TypeOK
  BY DEF IInv
<1> QED
  BY HttpInvariant, <1>1, PTL

\* Close decides by a counter that is the number of handles.
THEOREM HttpCountersExact == Spec => []CountersExact
<1>1. IInv => CountersExact
  BY DEF IInv, CountInv, CountersExact
<1> QED
  BY HttpInvariant, <1>1, PTL

\* Nobody locks a mutex that was deleted, or serves through a closed socket.
THEOREM HttpNoUseAfterClose == Spec => []NoUseAfterClose
<1>1. IInv => NoUseAfterClose
  <2> SUFFICES ASSUME IInv PROVE NoUseAfterClose
    OBVIOUS
  <2>1. ASSUME NEW t \in Threads, Wants(t)
        PROVE  /\ handle[Source(t)].mutex # None
               /\ mutex[handle[Source(t)].mutex] # "deleted"
    <3>1. InUse(t)
      BY <2>1 DEF Wants, InUse
    <3>2. Source(t) \in Handles /\ handle[Source(t)] # Null
      <4>1. CASE t = Loop
        <5>1. CASE pc[t] = "clear"
          <6>1. Source(t) \in Connections /\ Source(t) \in Queued /\ Source(t) \in Handles
            BY <3>1, <4>1, <5>1, SourceAt, HeadIsQueued, NamesApart DEF IInv
          <6> QED
            BY <6>1, Kinds DEF IInv, HandleInv, QueueInv
        <5>2. CASE pc[t] # "clear"
          <6>1. IsTo("connection") => handle["connection"] # Null
            BY Kinds DEF IsTo
          <6> QED
            BY <3>1, <4>1, <5>2, <6>1, SourceAt, Kinds
            DEF IInv, HandleInv, ConnectionInv, ClosureInv, FuncInv, IsTo, IsLast
        <5> QED
          BY <5>1, <5>2
      <4>2. CASE t # Loop
        <5>1. CASE pc[t] \in {"take", "pop"}
          <6>1. Source(t) \in Connections /\ Source(t) \in Queued /\ Source(t) \in Handles
            BY <3>1, <4>2, <5>1, SourceAt, HeadIsQueued, NamesApart DEF IInv
          <6> QED
            BY <6>1, Kinds DEF IInv, HandleInv, QueueInv
        <5>2. CASE pc[t] \notin {"take", "pop"}
          BY <3>1, <4>2, <5>2, SourceAt, NamesApart, Kinds
          DEF IInv, HandleInv, WorkerInv, IsTo, IsLast
        <5> QED
          BY <5>1, <5>2
      <4> QED
        BY <4>1, <4>2
    <3>3. PICK c \in Connections : handle[Source(t)].mutex = c
      BY <3>2, HandleKinds, Kinds DEF IInv
    <3>4. mutex[c] # "deleted"
      BY <3>2, <3>3 DEF IInv, MutexInv
    <3> QED
      BY <3>3, <3>4, Kinds
  <2>2. ASSUME NEW w \in Workers, pc[w] = "run"
        PROVE  \E c \in Connections : handle[w] = To(c) /\ sock[c] = "open"
    <3>1. PICK c \in Connections : handle[w] = To(c)
      BY <2>2 DEF IInv, HandleInv, WorkerInv, IsTo
    <3>2. w \in Holders(c)
      BY <3>1, Kinds, NamesApart DEF Holders
    <3> QED
      BY <3>1, <3>2 DEF IInv, OpenInv
  <2> QED
    BY <2>1, <2>2 DEF NoUseAfterClose
<1> QED
  BY HttpInvariant, <1>1, PTL

\* Copies of a connection share its socket as SharedSocket says: it is open as
\* long as there is one, and the last that goes closes it, once.
THEOREM HttpSharesSockets == Spec => SocketsShared
<1>1. Init => SharedSockets!Init
  <2> SUFFICES ASSUME Init PROVE SharedSockets!Init
    OBVIOUS
  <2>1. \A c \in Connections : Holders(c) = {}
    BY HttpServerAssumption DEF Init, Holders, Null
  <2> QED
    BY <2>1 DEF Init, SharedSockets!Init
<1>2. IInv /\ [Next]_vars => [SharedSockets!Next]_SharedSockets!socketVars
  <2> SUFFICES ASSUME IInv, [Next]_vars
               PROVE  SharedSockets!Next \/ UNCHANGED SharedSockets!socketVars
    OBVIOUS
  <2>1. ASSUME UNCHANGED sock, \A d \in Connections : Holders(d)' = Holders(d)
        PROVE  UNCHANGED SharedSockets!socketVars
    BY <2>1 DEF SharedSockets!socketVars
  <2>2. ASSUME UNCHANGED <<sock, handle>>
        PROVE  UNCHANGED SharedSockets!socketVars
    BY <2>1, <2>2 DEF Holders
  <2>3. ASSUME NEW t \in Threads, HandleStep(t)
        PROVE  SharedSockets!Next \/ UNCHANGED SharedSockets!socketVars
    <3>1. CASE Lock(t)
      BY <2>2, <3>1 DEF Lock
    <3>2. CASE Copy(t) \/ Move(t)
      BY <3>2, CopyStep, MoveStep DEF SharedSockets!Next
    <3>3. CASE Drop(t) \/ DropLast(t)
      BY <3>3, DropStep, DropLastStep DEF SharedSockets!Next
    <3>4. CASE DeleteMutex(t)
      <4>1. UNCHANGED sock
        BY <3>4 DEF DeleteMutex
      <4> QED
        BY <2>1, <3>4, <4>1, DeleteMutexStep
    <3> QED
      BY <2>3, <3>1, <3>2, <3>3, <3>4 DEF HandleStep
  <2>4. CASE LoopStep
    BY <2>2, <2>3, <2>4, NamesApart DEF LoopStep, Enqueue, Cancel, Join, Cleared
  <2>5. CASE AcceptFails
    BY <2>2, <2>5 DEF AcceptFails
  <2>6. ASSUME NEW c \in Connections, Accept(c) PROVE SharedSockets!Next
    BY <2>6, AcceptStep, NamesApart DEF SharedSockets!Next
  <2>7. ASSUME NEW w \in Workers, WorkerStep(w)
        PROVE  SharedSockets!Next \/ UNCHANGED SharedSockets!socketVars
    BY <2>2, <2>3, <2>7, NamesApart DEF WorkerStep, Wake, Leave, Return, Relock
  <2>8. CASE UNCHANGED vars
    BY <2>2, <2>8 DEF vars
  <2> QED
    BY <2>4, <2>5, <2>6, <2>7, <2>8 DEF Next
<1> QED
  BY HttpInvariant, <1>1, <1>2, PTL DEF Spec, SharedSockets!Spec, SocketsShared
=============================================================================
