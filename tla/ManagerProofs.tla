---------------------------- MODULE ManagerProofs ----------------------------
(***************************************************************************)
(* Proofs about ProxyManager, for any number of callers, ids, addresses    *)
(* and ports.                                                              *)
(***************************************************************************)
EXTENDS ProxyManager, SequenceTheorems, TLAPS

\* Where the main thread and the workers can be, and what they have there.
PlaceInv ==
    /\ pc[Main] \in {"down", "loading", "saving", "writing", "up"}
    /\ \A c \in Callers :
        /\ pc[c] \in PCs \ {"down", "loading", "up"}
        /\ pc[c] # "idle" => Up
        /\ pc[c] = "idle" => held[c] = {}
        /\ pc[c] \in {"starting", "testing"} => req[c] \in Service
    /\ held[Main] = {}
    /\ pc[Main] = "down" => order = <<>>

\* Who holds the mutex, and that nobody shares it with the writer.
MutexInv ==
    /\ \A c \in Callers : writer = c <=> pc[c] = "changed"
    /\ \A t \in Threads : t \in readers <=> pc[t] = "writing"
    /\ writer = None \/ readers = {}

\* Whoever writes the file writes the table as it is now.
TextInv == \A t \in Threads : pc[t] = "writing" => content[t] = Snapshot

\* A file holds what was a table: ids and ports are each there once.
Apart(s) == \A k, l \in DOMAIN s :
                k # l => s[k].id # s[l].id /\ s[k].port # s[l].port
FileInv == Apart(disk)

IInv == TypeOK /\ TableOK /\ PlaceInv /\ MutexInv /\ TextInv /\ FileInv
        /\ FileMatches /\ LoadKeepsAll

-----------------------------------------------------------------------------
(* Sequences. *)

\* Each element is there once.
Distinct(s) == \A i, j \in DOMAIN s : i # j => s[i] # s[j]

\* RemoveAt moves what comes after the place one place down.
LEMMA Removed ==
    ASSUME NEW S, NEW s \in Seq(S), NEW k \in DOMAIN s
    PROVE  /\ RemoveAt(s, k) \in Seq(S)
           /\ Len(RemoveAt(s, k)) = Len(s) - 1
           /\ \A j \in 1..(Len(s) - 1) :
                RemoveAt(s, k)[j] = IF j < k THEN s[j] ELSE s[j + 1]
  <1>. DEFINE a == SubSeq(s, 1, k - 1)
              b == SubSeq(s, k + 1, Len(s))
  <1>1. k \in 1..Len(s) /\ Len(s) \in Nat
    BY LenProperties
  <1>2. /\ a \in Seq(S) /\ b \in Seq(S)
        /\ Len(a) = k - 1 /\ Len(b) = Len(s) - k
        /\ \A j \in 1..(k - 1) : a[j] = s[j]
        /\ \A j \in 1..(Len(s) - k) : b[j] = s[k + j]
    BY <1>1
  <1>3. RemoveAt(s, k) = a \o b
    BY DEF RemoveAt
  <1>. HIDE DEF a, b
  <1>4. /\ a \o b \in Seq(S) /\ Len(a \o b) = Len(s) - 1
        /\ \A j \in 1..(Len(s) - 1) :
              (a \o b)[j] = IF j <= k - 1 THEN a[j] ELSE b[j - (k - 1)]
    <2>1. /\ a \o b \in Seq(S)
          /\ Len(a \o b) = Len(a) + Len(b)
          /\ \A j \in 1..(Len(a) + Len(b)) :
                (a \o b)[j] = IF j <= Len(a) THEN a[j] ELSE b[j - Len(a)]
      BY <1>2, ConcatProperties, Zenon
    <2>2. Len(a) + Len(b) = Len(s) - 1
      BY <1>1, <1>2
    <2>. QED  BY <1>2, <2>1, <2>2
  <1>5. ASSUME NEW j \in 1..(Len(s) - 1)
        PROVE  (a \o b)[j] = IF j < k THEN s[j] ELSE s[j + 1]
    <2>1. CASE j < k
      BY <1>1, <1>2, <1>4, <1>5, <2>1
    <2>2. CASE ~(j < k)
      <3>1. b[j - (k - 1)] = s[k + (j - (k - 1))]
        BY <1>1, <1>2, <1>5, <2>2
      <3>2. k + (j - (k - 1)) = j + 1
        BY <1>1, <1>5
      <3>. QED  BY <1>1, <1>4, <1>5, <2>2, <3>1, <3>2
    <2>. QED  BY <2>1, <2>2
  <1>. QED  BY <1>3, <1>4, <1>5

\* The elements that are left when each was there once.
LEMMA LeftAfter ==
    ASSUME NEW S, NEW s \in Seq(S), NEW k \in DOMAIN s,
           Distinct(s),
           NEW t, t = RemoveAt(s, k)
    PROVE  /\ t \in Seq(S)
           /\ ToSet(t) = ToSet(s) \ {s[k]}
           /\ Distinct(t)
  <1>1. /\ t \in Seq(S) /\ Len(t) = Len(s) - 1 /\ Len(s) \in Nat
        /\ DOMAIN s = 1..Len(s) /\ DOMAIN t = 1..(Len(s) - 1)
        /\ \A j \in DOMAIN t : t[j] = IF j < k THEN s[j] ELSE s[j + 1]
    <2>1. /\ t \in Seq(S) /\ Len(t) = Len(s) - 1
          /\ \A j \in 1..(Len(s) - 1) :
                t[j] = IF j < k THEN s[j] ELSE s[j + 1]
      BY Removed, Zenon
    <2>. QED  BY <2>1
  <1>2. Distinct(t)
    BY <1>1 DEF Distinct
  <1>3. ASSUME NEW j \in DOMAIN t PROVE t[j] \in ToSet(s) \ {s[k]}
    BY <1>1, <1>3 DEF ToSet, Distinct
  <1>4. ASSUME NEW i \in DOMAIN s, i # k PROVE s[i] \in ToSet(t)
    <2>1. CASE i < k
      BY <1>1, <1>4, <2>1 DEF ToSet
    <2>2. CASE i > k
      <3>1. i - 1 \in DOMAIN t /\ t[i - 1] = s[i]
        BY <1>1, <2>2
      <3>. QED  BY <3>1 DEF ToSet
    <2>. QED  BY <1>1, <1>4, <2>1, <2>2
  <1>5. ToSet(t) = ToSet(s) \ {s[k]}
    BY <1>3, <1>4 DEF ToSet
  <1>. QED  BY <1>1, <1>2, <1>5

\* The elements when one has been appended.
LEMMA MoreAfter ==
    ASSUME NEW S, NEW s \in Seq(S), Distinct(s), NEW e \in S, e \notin ToSet(s)
    PROVE  /\ Append(s, e) \in Seq(S)
           /\ ToSet(Append(s, e)) = ToSet(s) \cup {e}
           /\ Distinct(Append(s, e))
  <1>. DEFINE t == Append(s, e)
  <1>1. /\ t \in Seq(S) /\ Len(t) = Len(s) + 1 /\ Len(s) \in Nat
        /\ DOMAIN s = 1..Len(s) /\ DOMAIN t = 1..(Len(s) + 1)
        /\ \A j \in DOMAIN s : t[j] = s[j]
        /\ t[Len(s) + 1] = e
    BY AppendProperties
  <1>. HIDE DEF t
  <1>2. \A j \in DOMAIN s : s[j] # e
    BY DEF ToSet
  <1>3. Distinct(t)
    BY <1>1, <1>2 DEF Distinct
  <1>4. ToSet(t) \subseteq ToSet(s) \cup {e}
    BY <1>1 DEF ToSet
  <1>5. ToSet(s) \subseteq ToSet(t) /\ e \in ToSet(t)
    BY <1>1 DEF ToSet
  <1>. QED  BY <1>1, <1>3, <1>4, <1>5 DEF t

-----------------------------------------------------------------------------
(* The table. *)

\* A service that fits may be put into the table.
LEMMA Inserted ==
    ASSUME TypeOK, TableOK, NEW s \in Service, Fits(s), Insert(s)
    PROVE  /\ records' \in [Ids -> Service \cup {None}] /\ order' \in Seq(Ids)
           /\ TableOK'
           /\ Snapshot' = Append(Snapshot, s)
  <1>1. /\ s.id \in Ids /\ s # None /\ order \in Seq(Ids)
        /\ records \in [Ids -> Service \cup {None}]
    BY ManagerAssumption DEF TypeOK, Service
  <1>2. /\ records' = [records EXCEPT ![s.id] = s]
        /\ order' = Append(order, s.id)
        /\ s.id \notin ToSet(order)
    BY DEF Insert, Fits, TableOK
  <1>3. /\ order' \in Seq(Ids)
        /\ ToSet(order') = ToSet(order) \cup {s.id}
        /\ Distinct(order')
    <2>1. Distinct(order)
      BY DEF TableOK, Distinct
    <2>2. /\ order \in Seq(Ids) /\ s.id \in Ids /\ s.id \notin ToSet(order)
          /\ order' = Append(order, s.id)
      BY <1>1, <1>2
    <2>3. /\ Append(order, s.id) \in Seq(Ids)
          /\ ToSet(Append(order, s.id)) = ToSet(order) \cup {s.id}
          /\ Distinct(Append(order, s.id))
      BY <2>1, <2>2, MoreAfter, Zenon
    <2>. QED  BY <2>2, <2>3, Zenon
  <1>4. records' \in [Ids -> Service \cup {None}]
    BY <1>1, <1>2
  <1>5. Registered' = Registered \cup {s.id}
    BY <1>1, <1>2 DEF Registered
  <1>6. TableOK'
    <2>1. ToSet(order)' = Registered'
      BY <1>3, <1>5 DEF TableOK, ToSet
    <2>2. \A i \in Registered' : records'[i].id = i
      BY <1>1, <1>2, <1>5 DEF TableOK, Registered
    <2>3. \A i, j \in Registered' :
            i # j => records'[i].port # records'[j].port
      BY <1>1, <1>2, <1>5 DEF TableOK, Fits, Registered
    <2>. QED  BY <1>3, <2>1, <2>2, <2>3 DEF TableOK, Distinct
  <1>7. Snapshot' = Append(Snapshot, s)
    <2>1. \A k \in DOMAIN order : order[k] \in Registered /\ order[k] # s.id
      BY <1>2 DEF TableOK, ToSet
    <2>2. \A k \in DOMAIN order :
            order[k] \in Ids /\ records[order[k]] \in Service
      BY <1>1, <2>1 DEF Registered
    <2>3. Snapshot \in Seq(Service) /\ Len(Snapshot) = Len(order)
          /\ Len(order) \in Nat /\ DOMAIN order = 1..Len(order)
      BY <1>1, <2>2 DEF Snapshot
    <2>. QED  BY <1>1, <1>2, <1>4, <2>1, <2>2, <2>3 DEF Snapshot
  <1>. QED  BY <1>3, <1>4, <1>6, <1>7

\* What is written is a sequence of services, each id and port once.
LEMMA SnapshotIsFile ==
    ASSUME TypeOK, TableOK
    PROVE  Snapshot \in Seq(Service) /\ Apart(Snapshot)
           /\ Len(Snapshot) = Len(order)
  <1>1. order \in Seq(Ids) /\ records \in [Ids -> Service \cup {None}]
        /\ Len(order) \in Nat /\ DOMAIN order = 1..Len(order)
    BY DEF TypeOK
  <1>2. \A k \in DOMAIN order : order[k] \in Registered
    BY DEF TableOK, ToSet
  <1>3. \A k \in DOMAIN order : records[order[k]] \in Service
                                /\ records[order[k]].id = order[k]
    BY <1>1, <1>2 DEF TableOK, Registered
  <1>4. Snapshot \in Seq(Service) /\ Len(Snapshot) = Len(order)
    BY <1>1, <1>3 DEF Snapshot
  <1>5. DOMAIN Snapshot = DOMAIN order
        /\ \A k \in DOMAIN order : Snapshot[k] = records[order[k]]
    BY DEF Snapshot
  <1>6. ASSUME NEW k \in DOMAIN order, NEW l \in DOMAIN order, k # l
        PROVE  /\ records[order[k]].id # records[order[l]].id
               /\ records[order[k]].port # records[order[l]].port
    BY <1>2, <1>3, <1>6 DEF TableOK
  <1>. QED  BY <1>4, <1>5, <1>6 DEF Apart

\* A service leaves the table.
LEMMA RemovedFromTable ==
    ASSUME TypeOK, TableOK, NEW c \in Callers, RemoveProxy(c)
    PROVE  /\ records' \in [Ids -> Service \cup {None}] /\ order' \in Seq(Ids)
           /\ TableOK'
  <1>1. PICK k \in DOMAIN order :
            /\ records' = [records EXCEPT ![order[k]] = None]
            /\ order' = RemoveAt(order, k)
    BY DEF RemoveProxy
  <1>2. order \in Seq(Ids) /\ records \in [Ids -> Service \cup {None}]
    BY DEF TypeOK
  <1>3. /\ order' \in Seq(Ids)
        /\ ToSet(order') = ToSet(order) \ {order[k]}
        /\ Distinct(order')
    <2>1. Distinct(order)
      BY DEF TableOK, Distinct
    <2>. QED  BY <1>1, <1>2, <2>1, LeftAfter
  <1>4. order[k] \in Ids
    BY <1>2
  <1>5. Registered' = Registered \ {order[k]}
    BY <1>1, <1>2, <1>4 DEF Registered
  <1>6. ToSet(order)' = Registered'
    BY <1>3, <1>5 DEF TableOK, ToSet
  <1>7. \A i \in Registered' : i \in Registered /\ records'[i] = records[i]
    BY <1>1, <1>2, <1>5 DEF Registered
  <1>8. /\ \A i \in Registered' : records'[i].id = i
        /\ \A i, j \in Registered' :
             i # j => records'[i].port # records'[j].port
    BY <1>7 DEF TableOK
  <1>9. records' \in [Ids -> Service \cup {None}]
    BY <1>1, <1>2
  <1>. QED  BY <1>3, <1>6, <1>8, <1>9 DEF TableOK, Distinct

\* A limit is no part of what the table promises.
LEMMA Limited ==
    ASSUME TypeOK, TableOK, NEW c \in Callers, SetMaxPlayer(c)
    PROVE  /\ records' \in [Ids -> Service \cup {None}] /\ order' \in Seq(Ids)
           /\ TableOK'
  <1>1. PICK i \in Registered, m \in Limits :
            records' = [records EXCEPT ![i].max = m] /\ order' = order
    BY DEF SetMaxPlayer
  <1>2. order \in Seq(Ids) /\ records \in [Ids -> Service \cup {None}]
    BY DEF TypeOK
  <1>3. i \in Ids /\ records[i] \in Service
    BY <1>2 DEF Registered
  <1>. DEFINE r == [records[i] EXCEPT !.max = m]
  <1>4. r \in Service /\ r.id = records[i].id /\ r.port = records[i].port
    BY <1>3 DEF Service
  <1>5. records' = [records EXCEPT ![i] = r]
    BY <1>1
  <1>. HIDE DEF r
  <1>6. r # None
    BY <1>4, ManagerAssumption
  <1>7. Registered' = Registered
    BY <1>2, <1>3, <1>5, <1>6 DEF Registered
  <1>8. \A j \in Registered : /\ records'[j].id = records[j].id
                              /\ records'[j].port = records[j].port
    BY <1>2, <1>3, <1>4, <1>5 DEF Registered
  <1>9. ToSet(order)' = ToSet(order)
    BY <1>1 DEF ToSet
  <1>10. records' \in [Ids -> Service \cup {None}]
    BY <1>2, <1>3, <1>4, <1>5
  <1>. QED  BY <1>1, <1>2, <1>7, <1>8, <1>9, <1>10 DEF TableOK

-----------------------------------------------------------------------------
(* The steps. *)

\* The steps that change the table.
LEMMA TableChanges ==
    ASSUME [Next]_vars
    PROVE  \/ UNCHANGED memory
           \/ \E c \in Callers :
                Register(c) \/ RemoveProxy(c) \/ SetMaxPlayer(c)
           \/ LoadNext \/ LoadFallback \/ Crash
  BY DEF Next, vars, memory, Serve, Save, LoadFromDiskOrCreate, SaveEnds,
      Handle, CheckAdd, Listen, StartThrows, RegisterThrows, Unlock,
      ListViews, Return, SaveOpen, SaveWrite, SaveFails, SaveNotOpened, Load,
      LoadThrows, LoadDone

\* The table stays what it promises.
LEMMA TableStep ==
    ASSUME IInv, [Next]_vars
    PROVE  /\ records' \in [Ids -> Service \cup {None}] /\ order' \in Seq(Ids)
           /\ TableOK'
  <1>. DEFINE Goal == /\ records' \in [Ids -> Service \cup {None}]
                      /\ order' \in Seq(Ids)
                      /\ TableOK'
  <1>1. TypeOK /\ TableOK /\ PlaceInv
    BY DEF IInv
  <1>2. CASE UNCHANGED memory
    BY <1>1, <1>2 DEF memory, TypeOK, TableOK, Registered
  <1>3. ASSUME NEW c \in Callers, Register(c) PROVE Goal
    <2>1. req[c] \in Service /\ Fits(req[c]) /\ Insert(req[c])
      BY <1>1, <1>3 DEF Register, PlaceInv, Goto
    <2>. QED  BY <1>1, <2>1, Inserted
  <1>4. ASSUME NEW c \in Callers, RemoveProxy(c) PROVE Goal
    BY <1>1, <1>4, RemovedFromTable
  <1>5. ASSUME NEW c \in Callers, SetMaxPlayer(c) PROVE Goal
    BY <1>1, <1>5, Limited
  <1>6. CASE LoadNext
    <2>1. Head(todo) \in Service /\ Fits(Head(todo)) /\ Insert(Head(todo))
      BY <1>1, <1>6 DEF LoadNext, TypeOK, Fitting
    <2>. QED  BY <1>1, <2>1, Inserted
  <1>7. CASE LoadFallback
    <2>1. Registered = {}
      BY <1>1, <1>7 DEF LoadFallback, TableOK, ToSet
    <2>2. Fallback \in Service /\ Fits(Fallback) /\ Insert(Fallback)
      BY <1>7, <2>1, ManagerAssumption DEF LoadFallback, Fits
    <2>. QED  BY <1>1, <2>2, Inserted
  <1>8. CASE Crash
    <2>1. records' = [i \in Ids |-> None] /\ order' = <<>>
      BY <1>8 DEF Crash, NoRecords
    <2>2. Registered' = {} /\ ToSet(order)' = {}
      BY <2>1 DEF Registered, ToSet
    <2>. QED  BY <2>1, <2>2 DEF TableOK
  <1>. QED  BY <1>2, <1>3, <1>4, <1>5, <1>6, <1>7, <1>8, TableChanges

\* The service that a request asks for, with the id it is given.
LEMMA NamedFits ==
    ASSUME NEW r \in Requests, NEW s \in Named(r), s.id \notin Registered
    PROVE  s \in Service
  <1>1. r \in Request
    BY ManagerAssumption
  <1>2. PICK i \in IF r.id = None THEN Ids \ Registered ELSE {r.id} :
            s = [r EXCEPT !.id = i]
    BY DEF Named
  <1>. QED  BY <1>1, <1>2 DEF Request, Service

\* Everybody is where the code lets him be, with what he has there.
LEMMA PlaceStep ==
    ASSUME IInv, [Next]_vars
    PROVE  PlaceInv'
  <1>1. ASSUME NEW c \in Callers, Handle(c) PROVE PlaceInv'
    BY <1>1, ManagerAssumption
    DEF Handle, IInv, PlaceInv, Up, Goto, PCs, Threads, TypeOK, memory, mutex,
        loading
  <1>2. ASSUME NEW c \in Callers, CheckAdd(c) PROVE PlaceInv'
    <2>1. PICK r \in Requests : \E s \in Named(r) :
            /\ Fits(s) /\ Goto(c, "handling", "starting")
            /\ req' = [req EXCEPT ![c] = s] /\ held' = held /\ order' = order
      BY <1>2 DEF CheckAdd, memory
    <2>2. PICK s \in Named(r) :
            /\ Fits(s) /\ Goto(c, "handling", "starting")
            /\ req' = [req EXCEPT ![c] = s] /\ held' = held /\ order' = order
      BY <2>1
    <2>3. s \in Service
      BY <2>2, NamedFits DEF Fits
    <2>. QED
      BY <2>2, <2>3, ManagerAssumption
      DEF IInv, PlaceInv, Up, Goto, PCs, Threads, TypeOK
  <1>3. ASSUME NEW c \in Callers, Listen(c) PROVE PlaceInv'
    BY <1>3, ManagerAssumption
    DEF Listen, IInv, PlaceInv, Up, Goto, PCs, Threads, TypeOK, memory, mutex,
        loading
  <1>4. ASSUME NEW c \in Callers, StartThrows(c) PROVE PlaceInv'
    BY <1>4, ManagerAssumption
    DEF StartThrows, IInv, PlaceInv, Up, Goto, PCs, Threads, TypeOK, memory,
        mutex, loading
  <1>5. ASSUME NEW c \in Callers, Register(c) PROVE PlaceInv'
    BY <1>5, ManagerAssumption
    DEF Register, IInv, PlaceInv, Up, Goto, PCs, Threads, TypeOK, memory,
        mutex, loading
  <1>6. ASSUME NEW c \in Callers, RegisterThrows(c) PROVE PlaceInv'
    BY <1>6, ManagerAssumption
    DEF RegisterThrows, IInv, PlaceInv, Up, Goto, PCs, Threads, TypeOK,
        memory, mutex, loading
  <1>7. ASSUME NEW c \in Callers, RemoveProxy(c) PROVE PlaceInv'
    BY <1>7, ManagerAssumption
    DEF RemoveProxy, IInv, PlaceInv, Up, Goto, PCs, Threads, TypeOK, memory,
        mutex, loading
  <1>8. ASSUME NEW c \in Callers, SetMaxPlayer(c) PROVE PlaceInv'
    BY <1>8, ManagerAssumption
    DEF SetMaxPlayer, IInv, PlaceInv, Up, Goto, PCs, Threads, TypeOK, memory,
        mutex, loading
  <1>9. ASSUME NEW c \in Callers, Unlock(c) PROVE PlaceInv'
    BY <1>9, ManagerAssumption
    DEF Unlock, IInv, PlaceInv, Up, Goto, PCs, Threads, TypeOK, memory, mutex,
        loading
  <1>10. ASSUME NEW c \in Callers, ListViews(c) PROVE PlaceInv'
    BY <1>10, ManagerAssumption
    DEF ListViews, IInv, PlaceInv, Up, Goto, PCs, Threads, TypeOK, memory,
        mutex, loading
  <1>11. ASSUME NEW c \in Callers, Return(c) PROVE PlaceInv'
    BY <1>11, ManagerAssumption
    DEF Return, IInv, PlaceInv, Up, Goto, PCs, Threads, TypeOK, memory, mutex,
        loading
  <1>12. ASSUME NEW t \in Threads, SaveOpen(t) PROVE PlaceInv'
    BY <1>12, ManagerAssumption
    DEF SaveOpen, IInv, PlaceInv, Up, Goto, PCs, Threads, TypeOK, memory,
        mutex, loading
  <1>13. ASSUME NEW t \in Threads, SaveWrite(t) PROVE PlaceInv'
    BY <1>13, ManagerAssumption
    DEF SaveWrite, SaveEnds, IInv, PlaceInv, Up, Goto, PCs, Threads, TypeOK,
        memory, mutex, loading, After
  <1>14. ASSUME NEW t \in Threads, SaveFails(t) PROVE PlaceInv'
    BY <1>14, ManagerAssumption
    DEF SaveFails, SaveEnds, IInv, PlaceInv, Up, Goto, PCs, Threads, TypeOK,
        memory, mutex, loading, After
  <1>15. ASSUME NEW t \in Threads, SaveNotOpened(t) PROVE PlaceInv'
    BY <1>15, ManagerAssumption
    DEF SaveNotOpened, IInv, PlaceInv, Up, Goto, PCs, Threads, TypeOK, memory,
        mutex, loading, After
  <1>16. CASE Load
    BY <1>16, ManagerAssumption
    DEF Load, IInv, PlaceInv, Up, Goto, PCs, Threads, TypeOK, memory, mutex,
        loading
  <1>17. CASE LoadNext
    BY <1>17, ManagerAssumption
    DEF LoadNext, IInv, PlaceInv, Up, Goto, PCs, Threads, TypeOK, memory,
        mutex, loading
  <1>18. CASE LoadThrows
    BY <1>18, ManagerAssumption
    DEF LoadThrows, IInv, PlaceInv, Up, Goto, PCs, Threads, TypeOK, memory,
        mutex, loading
  <1>19. CASE LoadFallback
    BY <1>19, ManagerAssumption
    DEF LoadFallback, IInv, PlaceInv, Up, Goto, PCs, Threads, TypeOK, memory,
        mutex, loading
  <1>20. CASE LoadDone
    BY <1>20, ManagerAssumption
    DEF LoadDone, IInv, PlaceInv, Up, Goto, PCs, Threads, TypeOK, memory,
        mutex, loading
  <1>21. CASE Crash
    BY <1>21, ManagerAssumption
    DEF Crash, IInv, PlaceInv, Up, Goto, PCs, Threads, TypeOK, memory, mutex,
        loading, Stopped, NoProxies
  <1>22. CASE UNCHANGED vars
    BY <1>22, ManagerAssumption
    DEF vars, IInv, PlaceInv, Up, Goto, PCs, Threads, TypeOK, memory, mutex,
        loading
  <1>. QED
    BY <1>1, <1>2, <1>3, <1>4, <1>5, <1>6, <1>7, <1>8, <1>9, <1>10,
      <1>11, <1>12, <1>13, <1>14, <1>15, <1>16, <1>17, <1>18, <1>19, <1>20,
      <1>21, <1>22
    DEF Next, Serve, Save, LoadFromDiskOrCreate, Threads

\* A proxy that listens has an address and a port.
LEMMA ListedEndpoints ==
    ASSUME TypeOK
    PROVE  /\ Listed \subseteq Endpoint
           /\ \A s \in Service : EndpointOf(s) \in Endpoint
  BY DEF TypeOK, Listed, Registered, EndpointOf, Endpoint, Service

\* Every variable keeps its type.
LEMMA TypeStep ==
    ASSUME IInv, [Next]_vars
    PROVE  TypeOK'
  <1>1. ASSUME NEW c \in Callers, Handle(c) PROVE TypeOK'
    <2>1. \/ held' = [held EXCEPT ![c] = {}]
          \/ \E e \in Listed : held' = [held EXCEPT ![c] = {e}]
      BY <1>1 DEF Handle
    <2>2. Listed \subseteq Endpoint /\ held \in [Threads -> SUBSET Endpoint]
      BY ListedEndpoints DEF IInv, TypeOK
    <2>3. held' \in [Threads -> SUBSET Endpoint]
      BY <1>1, <2>1, <2>2 DEF Threads
    <2>. QED
      BY <1>1, <2>3 DEF Handle, IInv, TypeOK, Goto, PCs, Threads, memory, mutex,
        loading
  <1>2. ASSUME NEW c \in Callers, CheckAdd(c) PROVE TypeOK'
    <2>1. PICK r \in Requests : \E s \in Named(r) :
            /\ Fits(s) /\ req' = [req EXCEPT ![c] = s]
      BY <1>2 DEF CheckAdd
    <2>2. PICK s \in Named(r) : Fits(s) /\ req' = [req EXCEPT ![c] = s]
      BY <2>1
    <2>3. s \in Service
      BY <2>2, NamedFits DEF Fits
    <2>. QED
      BY <1>2, <2>2, <2>3, TableStep
      DEF CheckAdd, IInv, TypeOK, Goto, PCs, Threads, memory, mutex, loading
  <1>3. ASSUME NEW c \in Callers, Listen(c) PROVE TypeOK'
    BY <1>3, TableStep, ManagerAssumption, ListedEndpoints
    DEF Listen, IInv, TypeOK, Goto, PCs, Threads, memory, mutex, loading,
        PlaceInv
  <1>4. ASSUME NEW c \in Callers, StartThrows(c) PROVE TypeOK'
    BY <1>4, TableStep, ManagerAssumption
    DEF StartThrows, IInv, TypeOK, Goto, PCs, Threads, memory, mutex, loading
  <1>5. ASSUME NEW c \in Callers, Register(c) PROVE TypeOK'
    BY <1>5, TableStep, ManagerAssumption
    DEF Register, IInv, TypeOK, Goto, PCs, Threads, memory, mutex, loading
  <1>6. ASSUME NEW c \in Callers, RegisterThrows(c) PROVE TypeOK'
    BY <1>6, TableStep, ManagerAssumption
    DEF RegisterThrows, IInv, TypeOK, Goto, PCs, Threads, memory, mutex,
        loading
  <1>7. ASSUME NEW c \in Callers, RemoveProxy(c) PROVE TypeOK'
    <2>1. PICK k \in DOMAIN order :
            held' = [held EXCEPT ![c] = @ \cup {EndpointOf(records[order[k]])}]
      BY <1>7 DEF RemoveProxy
    <2>2. order[k] \in Registered
      BY DEF IInv, TableOK, ToSet
    <2>3. EndpointOf(records[order[k]]) \in Endpoint
      BY <2>2, ListedEndpoints DEF IInv, TypeOK, Registered
    <2>4. held' \in [Threads -> SUBSET Endpoint]
      BY <2>1, <2>3 DEF IInv, TypeOK, Threads
    <2>. QED
      BY <1>7, <2>4, TableStep
      DEF RemoveProxy, IInv, TypeOK, Goto, PCs, Threads, loading
  <1>8. ASSUME NEW c \in Callers, SetMaxPlayer(c) PROVE TypeOK'
    BY <1>8, TableStep, ManagerAssumption
    DEF SetMaxPlayer, IInv, TypeOK, Goto, PCs, Threads, memory, mutex, loading
  <1>9. ASSUME NEW c \in Callers, Unlock(c) PROVE TypeOK'
    BY <1>9, TableStep, ManagerAssumption
    DEF Unlock, IInv, TypeOK, Goto, PCs, Threads, memory, mutex, loading
  <1>10. ASSUME NEW c \in Callers, ListViews(c) PROVE TypeOK'
    BY <1>10, TableStep, ManagerAssumption, ListedEndpoints
    DEF ListViews, IInv, TypeOK, Goto, PCs, Threads, memory, mutex, loading
  <1>11. ASSUME NEW c \in Callers, Return(c) PROVE TypeOK'
    BY <1>11, TableStep, ManagerAssumption
    DEF Return, IInv, TypeOK, Goto, PCs, Threads, memory, mutex, loading
  <1>12. ASSUME NEW t \in Threads, SaveOpen(t) PROVE TypeOK'
    BY <1>12, TableStep, ManagerAssumption, SnapshotIsFile
    DEF SaveOpen, IInv, TypeOK, Goto, PCs, Threads, memory, mutex, loading
  <1>13. ASSUME NEW t \in Threads, SaveWrite(t) PROVE TypeOK'
    <2>1. disk' \in Seq(Service) /\ content' \in [Threads -> Seq(Service)]
      BY <1>13 DEF SaveWrite, SaveEnds, IInv, TypeOK
    <2>. QED
      BY <1>13, <2>1
      DEF SaveWrite, SaveEnds, After, IInv, TypeOK, Goto, PCs, Threads,
        memory, loading
  <1>14. ASSUME NEW t \in Threads, SaveFails(t) PROVE TypeOK'
    BY <1>14, TableStep, ManagerAssumption
    DEF SaveFails, SaveEnds, IInv, TypeOK, Goto, PCs, Threads, memory, mutex,
        loading, After
  <1>15. ASSUME NEW t \in Threads, SaveNotOpened(t) PROVE TypeOK'
    BY <1>15, TableStep, ManagerAssumption
    DEF SaveNotOpened, IInv, TypeOK, Goto, PCs, Threads, memory, mutex,
        loading, After
  <1>16. CASE Load
    BY <1>16, TableStep, ManagerAssumption
    DEF Load, IInv, TypeOK, Goto, PCs, Threads, memory, mutex, loading
  <1>17. CASE LoadNext
    BY <1>17, TableStep, ManagerAssumption
    DEF LoadNext, IInv, TypeOK, Goto, PCs, Threads, memory, mutex, loading
  <1>18. CASE LoadThrows
    BY <1>18, TableStep, ManagerAssumption
    DEF LoadThrows, IInv, TypeOK, Goto, PCs, Threads, memory, mutex, loading
  <1>19. CASE LoadFallback
    BY <1>19, TableStep, ManagerAssumption
    DEF LoadFallback, IInv, TypeOK, Goto, PCs, Threads, memory, mutex, loading
  <1>20. CASE LoadDone
    BY <1>20, TableStep, ManagerAssumption
    DEF LoadDone, IInv, TypeOK, Goto, PCs, Threads, memory, mutex, loading
  <1>21. CASE Crash
    <2>1. content' \in [Threads -> Seq(Service)] /\ todo' \in Seq(Service)
      BY <1>21 DEF Crash, NoText
    <2>2. /\ pc' \in [Threads -> PCs]
          /\ req' \in [Threads -> Service \cup {None}]
          /\ held' \in [Threads -> SUBSET Endpoint]
      BY <1>21 DEF Crash, Stopped, Nothing, NoProxies, PCs
    <2>3. /\ writer' = None /\ readers' = {} /\ disk' = disk
          /\ skipped' = FALSE /\ unsaved' = FALSE
      BY <1>21 DEF Crash
    <2>. QED  BY <2>1, <2>2, <2>3, TableStep DEF IInv, TypeOK
  <1>22. CASE UNCHANGED vars
    BY <1>22, TableStep, ManagerAssumption
    DEF vars, IInv, TypeOK, Goto, PCs, Threads, memory, mutex, loading
  <1>. QED
    BY <1>1, <1>2, <1>3, <1>4, <1>5, <1>6, <1>7, <1>8, <1>9, <1>10,
      <1>11, <1>12, <1>13, <1>14, <1>15, <1>16, <1>17, <1>18, <1>19, <1>20,
      <1>21, <1>22
    DEF Next, Serve, Save, LoadFromDiskOrCreate, Threads

\* The holders of the mutex are where the program says.
LEMMA MutexStep ==
    ASSUME IInv, [Next]_vars
    PROVE  MutexInv'
  <1>1. ASSUME NEW c \in Callers, Handle(c) PROVE MutexInv'
    BY <1>1, ManagerAssumption
    DEF Handle, IInv, MutexInv, PlaceInv, Up, Goto, PCs, Threads, TypeOK,
        Unlocked, Shared, memory, mutex, loading
  <1>2. ASSUME NEW c \in Callers, CheckAdd(c) PROVE MutexInv'
    BY <1>2, ManagerAssumption
    DEF CheckAdd, IInv, MutexInv, PlaceInv, Up, Goto, PCs, Threads, TypeOK,
        Unlocked, Shared, memory, mutex, loading
  <1>3. ASSUME NEW c \in Callers, Listen(c) PROVE MutexInv'
    BY <1>3, ManagerAssumption
    DEF Listen, IInv, MutexInv, PlaceInv, Up, Goto, PCs, Threads, TypeOK,
        Unlocked, Shared, memory, mutex, loading
  <1>4. ASSUME NEW c \in Callers, StartThrows(c) PROVE MutexInv'
    BY <1>4, ManagerAssumption
    DEF StartThrows, IInv, MutexInv, PlaceInv, Up, Goto, PCs, Threads, TypeOK,
        Unlocked, Shared, memory, mutex, loading
  <1>5. ASSUME NEW c \in Callers, Register(c) PROVE MutexInv'
    BY <1>5, ManagerAssumption
    DEF Register, IInv, MutexInv, PlaceInv, Up, Goto, PCs, Threads, TypeOK,
        Unlocked, Shared, memory, mutex, loading
  <1>6. ASSUME NEW c \in Callers, RegisterThrows(c) PROVE MutexInv'
    BY <1>6, ManagerAssumption
    DEF RegisterThrows, IInv, MutexInv, PlaceInv, Up, Goto, PCs, Threads,
        TypeOK, Unlocked, Shared, memory, mutex, loading
  <1>7. ASSUME NEW c \in Callers, RemoveProxy(c) PROVE MutexInv'
    BY <1>7, ManagerAssumption
    DEF RemoveProxy, IInv, MutexInv, PlaceInv, Up, Goto, PCs, Threads, TypeOK,
        Unlocked, Shared, memory, mutex, loading
  <1>8. ASSUME NEW c \in Callers, SetMaxPlayer(c) PROVE MutexInv'
    BY <1>8, ManagerAssumption
    DEF SetMaxPlayer, IInv, MutexInv, PlaceInv, Up, Goto, PCs, Threads,
        TypeOK, Unlocked, Shared, memory, mutex, loading
  <1>9. ASSUME NEW c \in Callers, Unlock(c) PROVE MutexInv'
    BY <1>9, ManagerAssumption
    DEF Unlock, IInv, MutexInv, PlaceInv, Up, Goto, PCs, Threads, TypeOK,
        Unlocked, Shared, memory, mutex, loading
  <1>10. ASSUME NEW c \in Callers, ListViews(c) PROVE MutexInv'
    BY <1>10, ManagerAssumption
    DEF ListViews, IInv, MutexInv, PlaceInv, Up, Goto, PCs, Threads, TypeOK,
        Unlocked, Shared, memory, mutex, loading
  <1>11. ASSUME NEW c \in Callers, Return(c) PROVE MutexInv'
    BY <1>11, ManagerAssumption
    DEF Return, IInv, MutexInv, PlaceInv, Up, Goto, PCs, Threads, TypeOK,
        Unlocked, Shared, memory, mutex, loading
  <1>12. ASSUME NEW t \in Threads, SaveOpen(t) PROVE MutexInv'
    BY <1>12, ManagerAssumption
    DEF SaveOpen, IInv, MutexInv, PlaceInv, Up, Goto, PCs, Threads, TypeOK,
        Unlocked, Shared, memory, mutex, loading
  <1>13. ASSUME NEW t \in Threads, SaveWrite(t) PROVE MutexInv'
    BY <1>13, ManagerAssumption
    DEF SaveWrite, SaveEnds, IInv, MutexInv, PlaceInv, Up, Goto, PCs, Threads,
        TypeOK, Unlocked, Shared, memory, mutex, loading, After
  <1>14. ASSUME NEW t \in Threads, SaveFails(t) PROVE MutexInv'
    BY <1>14, ManagerAssumption
    DEF SaveFails, SaveEnds, IInv, MutexInv, PlaceInv, Up, Goto, PCs, Threads,
        TypeOK, Unlocked, Shared, memory, mutex, loading, After
  <1>15. ASSUME NEW t \in Threads, SaveNotOpened(t) PROVE MutexInv'
    BY <1>15, ManagerAssumption
    DEF SaveNotOpened, IInv, MutexInv, PlaceInv, Up, Goto, PCs, Threads,
        TypeOK, Unlocked, Shared, memory, mutex, loading, After
  <1>16. CASE Load
    BY <1>16, ManagerAssumption
    DEF Load, IInv, MutexInv, PlaceInv, Up, Goto, PCs, Threads, TypeOK,
        Unlocked, Shared, memory, mutex, loading
  <1>17. CASE LoadNext
    BY <1>17, ManagerAssumption
    DEF LoadNext, IInv, MutexInv, PlaceInv, Up, Goto, PCs, Threads, TypeOK,
        Unlocked, Shared, memory, mutex, loading
  <1>18. CASE LoadThrows
    BY <1>18, ManagerAssumption
    DEF LoadThrows, IInv, MutexInv, PlaceInv, Up, Goto, PCs, Threads, TypeOK,
        Unlocked, Shared, memory, mutex, loading
  <1>19. CASE LoadFallback
    BY <1>19, ManagerAssumption
    DEF LoadFallback, IInv, MutexInv, PlaceInv, Up, Goto, PCs, Threads,
        TypeOK, Unlocked, Shared, memory, mutex, loading
  <1>20. CASE LoadDone
    BY <1>20, ManagerAssumption
    DEF LoadDone, IInv, MutexInv, PlaceInv, Up, Goto, PCs, Threads, TypeOK,
        Unlocked, Shared, memory, mutex, loading
  <1>21. CASE Crash
    BY <1>21, ManagerAssumption
    DEF Crash, IInv, MutexInv, PlaceInv, Up, Goto, PCs, Threads, TypeOK,
        Unlocked, Shared, memory, mutex, loading, Stopped
  <1>22. CASE UNCHANGED vars
    BY <1>22, ManagerAssumption
    DEF vars, IInv, MutexInv, PlaceInv, Up, Goto, PCs, Threads, TypeOK,
        Unlocked, Shared, memory, mutex, loading
  <1>. QED
    BY <1>1, <1>2, <1>3, <1>4, <1>5, <1>6, <1>7, <1>8, <1>9, <1>10,
      <1>11, <1>12, <1>13, <1>14, <1>15, <1>16, <1>17, <1>18, <1>19, <1>20,
      <1>21, <1>22
    DEF Next, Serve, Save, LoadFromDiskOrCreate, Threads

\* Nobody changes the table while somebody writes it.
LEMMA TextStep ==
    ASSUME IInv, [Next]_vars
    PROVE  TextInv'
  <1>1. ASSUME NEW c \in Callers, Handle(c) PROVE TextInv'
    BY <1>1, ManagerAssumption
    DEF Handle, IInv, TextInv, MutexInv, PlaceInv, Up, Goto, Threads, TypeOK,
        Unlocked, Shared, Snapshot, memory, mutex, loading
  <1>2. ASSUME NEW c \in Callers, CheckAdd(c) PROVE TextInv'
    BY <1>2, ManagerAssumption
    DEF CheckAdd, IInv, TextInv, MutexInv, PlaceInv, Up, Goto, Threads,
        TypeOK, Unlocked, Shared, Snapshot, memory, mutex, loading
  <1>3. ASSUME NEW c \in Callers, Listen(c) PROVE TextInv'
    BY <1>3, ManagerAssumption
    DEF Listen, IInv, TextInv, MutexInv, PlaceInv, Up, Goto, Threads, TypeOK,
        Unlocked, Shared, Snapshot, memory, mutex, loading
  <1>4. ASSUME NEW c \in Callers, StartThrows(c) PROVE TextInv'
    BY <1>4, ManagerAssumption
    DEF StartThrows, IInv, TextInv, MutexInv, PlaceInv, Up, Goto, Threads,
        TypeOK, Unlocked, Shared, Snapshot, memory, mutex, loading
  <1>5. ASSUME NEW c \in Callers, Register(c) PROVE TextInv'
    BY <1>5, ManagerAssumption
    DEF Register, IInv, TextInv, MutexInv, PlaceInv, Up, Goto, Threads,
        TypeOK, Unlocked, Shared, Snapshot, memory, mutex, loading
  <1>6. ASSUME NEW c \in Callers, RegisterThrows(c) PROVE TextInv'
    BY <1>6, ManagerAssumption
    DEF RegisterThrows, IInv, TextInv, MutexInv, PlaceInv, Up, Goto, Threads,
        TypeOK, Unlocked, Shared, Snapshot, memory, mutex, loading
  <1>7. ASSUME NEW c \in Callers, RemoveProxy(c) PROVE TextInv'
    BY <1>7, ManagerAssumption
    DEF RemoveProxy, IInv, TextInv, MutexInv, PlaceInv, Up, Goto, Threads,
        TypeOK, Unlocked, Shared, Snapshot, memory, mutex, loading
  <1>8. ASSUME NEW c \in Callers, SetMaxPlayer(c) PROVE TextInv'
    BY <1>8, ManagerAssumption
    DEF SetMaxPlayer, IInv, TextInv, MutexInv, PlaceInv, Up, Goto, Threads,
        TypeOK, Unlocked, Shared, Snapshot, memory, mutex, loading
  <1>9. ASSUME NEW c \in Callers, Unlock(c) PROVE TextInv'
    BY <1>9, ManagerAssumption
    DEF Unlock, IInv, TextInv, MutexInv, PlaceInv, Up, Goto, Threads, TypeOK,
        Unlocked, Shared, Snapshot, memory, mutex, loading
  <1>10. ASSUME NEW c \in Callers, ListViews(c) PROVE TextInv'
    BY <1>10, ManagerAssumption
    DEF ListViews, IInv, TextInv, MutexInv, PlaceInv, Up, Goto, Threads,
        TypeOK, Unlocked, Shared, Snapshot, memory, mutex, loading
  <1>11. ASSUME NEW c \in Callers, Return(c) PROVE TextInv'
    BY <1>11, ManagerAssumption
    DEF Return, IInv, TextInv, MutexInv, PlaceInv, Up, Goto, Threads, TypeOK,
        Unlocked, Shared, Snapshot, memory, mutex, loading
  <1>12. ASSUME NEW t \in Threads, SaveOpen(t) PROVE TextInv'
    BY <1>12, ManagerAssumption
    DEF SaveOpen, IInv, TextInv, MutexInv, PlaceInv, Up, Goto, Threads,
        TypeOK, Unlocked, Shared, Snapshot, memory, mutex, loading
  <1>13. ASSUME NEW t \in Threads, SaveWrite(t) PROVE TextInv'
    BY <1>13, ManagerAssumption
    DEF SaveWrite, SaveEnds, IInv, TextInv, MutexInv, PlaceInv, Up, Goto,
        Threads, TypeOK, Unlocked, Shared, Snapshot, memory, mutex, loading,
        After
  <1>14. ASSUME NEW t \in Threads, SaveFails(t) PROVE TextInv'
    BY <1>14, ManagerAssumption
    DEF SaveFails, SaveEnds, IInv, TextInv, MutexInv, PlaceInv, Up, Goto,
        Threads, TypeOK, Unlocked, Shared, Snapshot, memory, mutex, loading,
        After
  <1>15. ASSUME NEW t \in Threads, SaveNotOpened(t) PROVE TextInv'
    BY <1>15, ManagerAssumption
    DEF SaveNotOpened, IInv, TextInv, MutexInv, PlaceInv, Up, Goto, Threads,
        TypeOK, Unlocked, Shared, Snapshot, memory, mutex, loading, After
  <1>16. CASE Load
    BY <1>16, ManagerAssumption
    DEF Load, IInv, TextInv, MutexInv, PlaceInv, Up, Goto, Threads, TypeOK,
        Unlocked, Shared, Snapshot, memory, mutex, loading
  <1>17. CASE LoadNext
    BY <1>17, ManagerAssumption
    DEF LoadNext, IInv, TextInv, MutexInv, PlaceInv, Up, Goto, Threads,
        TypeOK, Unlocked, Shared, Snapshot, memory, mutex, loading
  <1>18. CASE LoadThrows
    BY <1>18, ManagerAssumption
    DEF LoadThrows, IInv, TextInv, MutexInv, PlaceInv, Up, Goto, Threads,
        TypeOK, Unlocked, Shared, Snapshot, memory, mutex, loading
  <1>19. CASE LoadFallback
    BY <1>19, ManagerAssumption
    DEF LoadFallback, IInv, TextInv, MutexInv, PlaceInv, Up, Goto, Threads,
        TypeOK, Unlocked, Shared, Snapshot, memory, mutex, loading
  <1>20. CASE LoadDone
    BY <1>20, ManagerAssumption
    DEF LoadDone, IInv, TextInv, MutexInv, PlaceInv, Up, Goto, Threads,
        TypeOK, Unlocked, Shared, Snapshot, memory, mutex, loading
  <1>21. CASE Crash
    BY <1>21, ManagerAssumption
    DEF Crash, IInv, TextInv, MutexInv, PlaceInv, Up, Goto, Threads, TypeOK,
        Unlocked, Shared, Snapshot, memory, mutex, loading, Stopped
  <1>22. CASE UNCHANGED vars
    BY <1>22, ManagerAssumption
    DEF vars, IInv, TextInv, MutexInv, PlaceInv, Up, Goto, Threads, TypeOK,
        Unlocked, Shared, Snapshot, memory, mutex, loading
  <1>. QED
    BY <1>1, <1>2, <1>3, <1>4, <1>5, <1>6, <1>7, <1>8, <1>9, <1>10,
      <1>11, <1>12, <1>13, <1>14, <1>15, <1>16, <1>17, <1>18, <1>19, <1>20,
      <1>21, <1>22
    DEF Next, Serve, Save, LoadFromDiskOrCreate, Threads

\* What the table says is the same while the table is.
LEMMA SameSnapshot == ASSUME UNCHANGED memory PROVE Snapshot' = Snapshot
  BY DEF memory, Snapshot

\* The steps that change the file.
LEMMA FileChanges ==
    ASSUME [Next]_vars
    PROVE  \/ disk' = disk
           \/ \E t \in Threads : SaveOpen(t) \/ SaveWrite(t)
  BY DEF Next, vars, memory, mutex, loading, Serve, Save,
      LoadFromDiskOrCreate, SaveEnds, Threads, Handle, CheckAdd, Listen,
      StartThrows, Register, RegisterThrows, RemoveProxy, SetMaxPlayer,
      Unlock, ListViews, Return, SaveFails, SaveNotOpened, Load, LoadNext,
      LoadThrows, LoadFallback, LoadDone, Crash

\* A file is empty or was the table.
LEMMA FileStep ==
    ASSUME IInv, [Next]_vars
    PROVE  FileInv'
  <1>1. CASE disk' = disk
    BY <1>1 DEF IInv, FileInv, Apart
  <1>2. ASSUME NEW t \in Threads, SaveOpen(t) PROVE FileInv'
    BY <1>2 DEF SaveOpen, FileInv, Apart
  <1>3. ASSUME NEW t \in Threads, SaveWrite(t) PROVE FileInv'
    <2>1. disk' = Snapshot
      BY <1>3 DEF SaveWrite, SaveEnds, Goto, IInv, TextInv
    <2>. QED  BY <2>1, SnapshotIsFile DEF IInv, FileInv, Apart
  <1>. QED  BY <1>1, <1>2, <1>3, FileChanges

\* The last to end a save leaves the table in the file.
LEMMA MatchStep ==
    ASSUME IInv, [Next]_vars
    PROVE  FileMatches'
  <1>1. ASSUME NEW c \in Callers, Handle(c) PROVE FileMatches'
    BY <1>1, ManagerAssumption, SameSnapshot
    DEF Handle, IInv, FileMatches, PlaceInv, Up, Goto, Threads, TypeOK,
        memory, mutex, loading
  <1>2. ASSUME NEW c \in Callers, CheckAdd(c) PROVE FileMatches'
    BY <1>2, ManagerAssumption, SameSnapshot
    DEF CheckAdd, IInv, FileMatches, PlaceInv, Up, Goto, Threads, TypeOK,
        memory, mutex, loading
  <1>3. ASSUME NEW c \in Callers, Listen(c) PROVE FileMatches'
    BY <1>3, ManagerAssumption, SameSnapshot
    DEF Listen, IInv, FileMatches, PlaceInv, Up, Goto, Threads, TypeOK,
        memory, mutex, loading
  <1>4. ASSUME NEW c \in Callers, StartThrows(c) PROVE FileMatches'
    BY <1>4, ManagerAssumption, SameSnapshot
    DEF StartThrows, IInv, FileMatches, PlaceInv, Up, Goto, Threads, TypeOK,
        memory, mutex, loading
  <1>5. ASSUME NEW c \in Callers, Register(c) PROVE FileMatches'
    BY <1>5, ManagerAssumption, SameSnapshot
    DEF Register, IInv, FileMatches, PlaceInv, Up, Goto, Threads, TypeOK,
        memory, mutex, loading
  <1>6. ASSUME NEW c \in Callers, RegisterThrows(c) PROVE FileMatches'
    BY <1>6, ManagerAssumption, SameSnapshot
    DEF RegisterThrows, IInv, FileMatches, PlaceInv, Up, Goto, Threads,
        TypeOK, memory, mutex, loading
  <1>7. ASSUME NEW c \in Callers, RemoveProxy(c) PROVE FileMatches'
    BY <1>7, ManagerAssumption, SameSnapshot
    DEF RemoveProxy, IInv, FileMatches, PlaceInv, Up, Goto, Threads, TypeOK,
        memory, mutex, loading
  <1>8. ASSUME NEW c \in Callers, SetMaxPlayer(c) PROVE FileMatches'
    BY <1>8, ManagerAssumption, SameSnapshot
    DEF SetMaxPlayer, IInv, FileMatches, PlaceInv, Up, Goto, Threads, TypeOK,
        memory, mutex, loading
  <1>9. ASSUME NEW c \in Callers, Unlock(c) PROVE FileMatches'
    BY <1>9, ManagerAssumption, SameSnapshot
    DEF Unlock, IInv, FileMatches, PlaceInv, Up, Goto, Threads, TypeOK,
        memory, mutex, loading
  <1>10. ASSUME NEW c \in Callers, ListViews(c) PROVE FileMatches'
    BY <1>10, ManagerAssumption, SameSnapshot
    DEF ListViews, IInv, FileMatches, PlaceInv, Up, Goto, Threads, TypeOK,
        memory, mutex, loading
  <1>11. ASSUME NEW c \in Callers, Return(c) PROVE FileMatches'
    BY <1>11, ManagerAssumption, SameSnapshot
    DEF Return, IInv, FileMatches, PlaceInv, Up, Goto, Threads, TypeOK,
        memory, mutex, loading
  <1>12. ASSUME NEW t \in Threads, SaveOpen(t) PROVE FileMatches'
    BY <1>12, ManagerAssumption, SameSnapshot
    DEF SaveOpen, IInv, FileMatches, PlaceInv, Up, Goto, Threads, TypeOK,
        memory, mutex, loading
  <1>13. ASSUME NEW t \in Threads, SaveWrite(t) PROVE FileMatches'
    BY <1>13, ManagerAssumption, SameSnapshot
    DEF SaveWrite, SaveEnds, IInv, FileMatches, PlaceInv, Up, Goto, Threads,
        TypeOK, memory, mutex, loading, After, TextInv
  <1>14. ASSUME NEW t \in Threads, SaveFails(t) PROVE FileMatches'
    BY <1>14, ManagerAssumption, SameSnapshot
    DEF SaveFails, SaveEnds, IInv, FileMatches, PlaceInv, Up, Goto, Threads,
        TypeOK, memory, mutex, loading, After
  <1>15. ASSUME NEW t \in Threads, SaveNotOpened(t) PROVE FileMatches'
    BY <1>15, ManagerAssumption, SameSnapshot
    DEF SaveNotOpened, IInv, FileMatches, PlaceInv, Up, Goto, Threads, TypeOK,
        memory, mutex, loading, After
  <1>16. CASE Load
    BY <1>16, ManagerAssumption, SameSnapshot
    DEF Load, IInv, FileMatches, PlaceInv, Up, Goto, Threads, TypeOK, memory,
        mutex, loading
  <1>17. CASE LoadNext
    BY <1>17, ManagerAssumption, SameSnapshot
    DEF LoadNext, IInv, FileMatches, PlaceInv, Up, Goto, Threads, TypeOK,
        memory, mutex, loading
  <1>18. CASE LoadThrows
    BY <1>18, ManagerAssumption, SameSnapshot
    DEF LoadThrows, IInv, FileMatches, PlaceInv, Up, Goto, Threads, TypeOK,
        memory, mutex, loading
  <1>19. CASE LoadFallback
    BY <1>19, ManagerAssumption, SameSnapshot
    DEF LoadFallback, IInv, FileMatches, PlaceInv, Up, Goto, Threads, TypeOK,
        memory, mutex, loading
  <1>20. CASE LoadDone
    BY <1>20, ManagerAssumption, SameSnapshot
    DEF LoadDone, IInv, FileMatches, PlaceInv, Up, Goto, Threads, TypeOK,
        memory, mutex, loading
  <1>21. CASE Crash
    BY <1>21, ManagerAssumption, SameSnapshot
    DEF Crash, IInv, FileMatches, PlaceInv, Up, Goto, Threads, TypeOK, memory,
        mutex, loading, Stopped
  <1>22. CASE UNCHANGED vars
    BY <1>22, ManagerAssumption, SameSnapshot
    DEF vars, IInv, FileMatches, PlaceInv, Up, Goto, Threads, TypeOK, memory,
        mutex, loading
  <1>. QED
    BY <1>1, <1>2, <1>3, <1>4, <1>5, <1>6, <1>7, <1>8, <1>9, <1>10,
      <1>11, <1>12, <1>13, <1>14, <1>15, <1>16, <1>17, <1>18, <1>19, <1>20,
      <1>21, <1>22
    DEF Next, Serve, Save, LoadFromDiskOrCreate, Threads

\* To move the head of one sequence to the end of another before it keeps both
\* together as they were.
LEMMA MovesOver ==
    ASSUME NEW S, NEW s \in Seq(S), NEW t \in Seq(S), t # <<>>
    PROVE  Append(s, Head(t)) \o Tail(t) = s \o t
  <1>. DEFINE a == Append(s, Head(t))
              b == Tail(t)
  <1>1. /\ a \in Seq(S) /\ Len(a) = Len(s) + 1 /\ Len(s) \in Nat
        /\ \A j \in 1..Len(s) : a[j] = s[j]
        /\ a[Len(s) + 1] = t[1]
    OBVIOUS
  <1>2. /\ b \in Seq(S) /\ Len(b) = Len(t) - 1 /\ Len(t) \in Nat \ {0}
        /\ \A j \in 1..(Len(t) - 1) : b[j] = t[j + 1]
    OBVIOUS
  <1>. HIDE DEF a, b
  <1>3. /\ a \o b \in Seq(S) /\ Len(a \o b) = Len(a) + Len(b)
        /\ \A i \in 1..(Len(a) + Len(b)) :
             (a \o b)[i] = IF i <= Len(a) THEN a[i] ELSE b[i - Len(a)]
    BY <1>1, <1>2, ConcatProperties, Zenon
  <1>4. /\ s \o t \in Seq(S) /\ Len(s \o t) = Len(s) + Len(t)
        /\ \A i \in 1..(Len(s) + Len(t)) :
             (s \o t)[i] = IF i <= Len(s) THEN s[i] ELSE t[i - Len(s)]
    BY ConcatProperties, Zenon
  <1>. DEFINE n == Len(s) + Len(t)
  <1>5. Len(a) + Len(b) = n /\ n \in Nat
    BY <1>1, <1>2
  <1>6. ASSUME NEW i \in 1..n PROVE (a \o b)[i] = (s \o t)[i]
    <2>1. CASE i <= Len(s)
      BY <1>1, <1>2, <1>3, <1>4, <1>6, <2>1
    <2>2. CASE i = Len(s) + 1
      <3>1. (a \o b)[i] = a[i]
        BY <1>1, <1>3, <1>5, <1>6, <2>2
      <3>2. (s \o t)[i] = t[i - Len(s)] /\ i - Len(s) = 1
        BY <1>1, <1>2, <1>4, <1>6, <2>2
      <3>. QED  BY <1>1, <2>2, <3>1, <3>2
    <2>3. CASE i > Len(s) + 1
      <3>1. (a \o b)[i] = b[i - Len(a)] /\ i - Len(a) \in 1..(Len(t) - 1)
        BY <1>1, <1>2, <1>3, <1>5, <1>6, <2>3
      <3>2. (s \o t)[i] = t[i - Len(s)]
        BY <1>1, <1>2, <1>4, <1>6, <2>3
      <3>3. (i - Len(a)) + 1 = i - Len(s)
        BY <1>1, <1>6
      <3>. QED  BY <1>2, <3>1, <3>2, <3>3
    <2>4. i <= Len(s) \/ i = Len(s) + 1 \/ i > Len(s) + 1
      BY <1>1, <1>6
    <2>. QED  BY <2>1, <2>2, <2>3, <2>4, Zenon
  <1>7. a \o b = s \o t
    <2>1. Len(a \o b) = n /\ Len(s \o t) = n
      BY <1>3, <1>4, <1>5
    <2>. QED  BY <1>3, <1>4, <1>6, <2>1, SeqEqual
  <1>. QED  BY <1>7 DEF a, b

\* While the process that made the file is all that had its ports, the next
\* service of the file can be added.
LEMMA NextFits ==
    ASSUME IInv, pc[Main] = "loading", todo # <<>>, Snapshot \o todo = disk
    PROVE  Fitting(Head(todo))
  <1>. DEFINE h == Head(todo)
              n == Len(Snapshot)
  <1>1. /\ Snapshot \in Seq(Service) /\ todo \in Seq(Service)
        /\ n = Len(order) /\ n \in Nat /\ Len(todo) \in Nat \ {0}
    BY SnapshotIsFile DEF IInv, TypeOK
  <1>2. /\ Len(disk) = n + Len(todo)
        /\ \A i \in 1..(n + Len(todo)) :
             disk[i] = IF i <= n THEN Snapshot[i] ELSE todo[i - n]
    BY <1>1, ConcatProperties, Zenon
  <1>3. /\ n + 1 \in DOMAIN disk /\ disk[n + 1] = h
        /\ \A k \in 1..n : k \in DOMAIN disk /\ disk[k] = Snapshot[k]
    <2>1. DOMAIN disk = 1..(n + Len(todo))
      BY <1>2 DEF IInv, TypeOK
    <2>2. todo[(n + 1) - n] = h
      BY <1>1
    <2>3. disk[n + 1] = todo[(n + 1) - n]
      BY <1>1, <1>2
    <2>. QED  BY <1>1, <1>2, <2>1, <2>2, <2>3
  <1>4. \A k \in 1..n : Snapshot[k].id # h.id /\ Snapshot[k].port # h.port
    BY <1>1, <1>3 DEF IInv, FileInv, Apart
  <1>5. ASSUME NEW i \in Registered
        PROVE  i # h.id /\ records[i].port # h.port
    <2>1. PICK k \in DOMAIN order : order[k] = i
      BY <1>5 DEF IInv, TableOK, ToSet
    <2>2. k \in 1..n /\ Snapshot[k] = records[i]
      BY <1>1, <2>1 DEF IInv, TypeOK, Snapshot
    <2>3. records[i].id = i
      BY <1>5 DEF IInv, TableOK
    <2>. QED  BY <1>4, <2>2, <2>3
  <1>6. Fits(h)
    BY <1>5 DEF Fits
  <1>7. \A t \in Threads : held[t] = {}
    BY DEF IInv, PlaceInv, Threads, Up
  <1>8. \A e \in Bound : e.port # h.port
    BY <1>5, <1>7 DEF Bound, Listed, EndpointOf
  <1>9. \A e \in Bound : ~Collide(e, EndpointOf(h))
    BY <1>8 DEF Collide, EndpointOf
  <1>. QED  BY <1>6, <1>9 DEF Fitting

\* What is loaded and what is to be loaded make up the file.
LEMMA LoadStep ==
    ASSUME IInv, [Next]_vars
    PROVE  LoadKeepsAll'
  <1>1. ASSUME NEW c \in Callers, Handle(c) PROVE LoadKeepsAll'
    BY <1>1, ManagerAssumption, SameSnapshot
    DEF Handle, IInv, LoadKeepsAll, PlaceInv, Up, Goto, Threads, TypeOK,
        memory, mutex, loading
  <1>2. ASSUME NEW c \in Callers, CheckAdd(c) PROVE LoadKeepsAll'
    BY <1>2, ManagerAssumption, SameSnapshot
    DEF CheckAdd, IInv, LoadKeepsAll, PlaceInv, Up, Goto, Threads, TypeOK,
        memory, mutex, loading
  <1>3. ASSUME NEW c \in Callers, Listen(c) PROVE LoadKeepsAll'
    BY <1>3, ManagerAssumption, SameSnapshot
    DEF Listen, IInv, LoadKeepsAll, PlaceInv, Up, Goto, Threads, TypeOK,
        memory, mutex, loading
  <1>4. ASSUME NEW c \in Callers, StartThrows(c) PROVE LoadKeepsAll'
    BY <1>4, ManagerAssumption, SameSnapshot
    DEF StartThrows, IInv, LoadKeepsAll, PlaceInv, Up, Goto, Threads, TypeOK,
        memory, mutex, loading
  <1>5. ASSUME NEW c \in Callers, Register(c) PROVE LoadKeepsAll'
    BY <1>5, ManagerAssumption, SameSnapshot
    DEF Register, IInv, LoadKeepsAll, PlaceInv, Up, Goto, Threads, TypeOK,
        memory, mutex, loading
  <1>6. ASSUME NEW c \in Callers, RegisterThrows(c) PROVE LoadKeepsAll'
    BY <1>6, ManagerAssumption, SameSnapshot
    DEF RegisterThrows, IInv, LoadKeepsAll, PlaceInv, Up, Goto, Threads,
        TypeOK, memory, mutex, loading
  <1>7. ASSUME NEW c \in Callers, RemoveProxy(c) PROVE LoadKeepsAll'
    BY <1>7, ManagerAssumption, SameSnapshot
    DEF RemoveProxy, IInv, LoadKeepsAll, PlaceInv, Up, Goto, Threads, TypeOK,
        memory, mutex, loading
  <1>8. ASSUME NEW c \in Callers, SetMaxPlayer(c) PROVE LoadKeepsAll'
    BY <1>8, ManagerAssumption, SameSnapshot
    DEF SetMaxPlayer, IInv, LoadKeepsAll, PlaceInv, Up, Goto, Threads, TypeOK,
        memory, mutex, loading
  <1>9. ASSUME NEW c \in Callers, Unlock(c) PROVE LoadKeepsAll'
    BY <1>9, ManagerAssumption, SameSnapshot
    DEF Unlock, IInv, LoadKeepsAll, PlaceInv, Up, Goto, Threads, TypeOK,
        memory, mutex, loading
  <1>10. ASSUME NEW c \in Callers, ListViews(c) PROVE LoadKeepsAll'
    BY <1>10, ManagerAssumption, SameSnapshot
    DEF ListViews, IInv, LoadKeepsAll, PlaceInv, Up, Goto, Threads, TypeOK,
        memory, mutex, loading
  <1>11. ASSUME NEW c \in Callers, Return(c) PROVE LoadKeepsAll'
    BY <1>11, ManagerAssumption, SameSnapshot
    DEF Return, IInv, LoadKeepsAll, PlaceInv, Up, Goto, Threads, TypeOK,
        memory, mutex, loading
  <1>12. ASSUME NEW t \in Threads, SaveOpen(t) PROVE LoadKeepsAll'
    BY <1>12, ManagerAssumption, SameSnapshot
    DEF SaveOpen, IInv, LoadKeepsAll, PlaceInv, Up, Goto, Threads, TypeOK,
        memory, mutex, loading
  <1>13. ASSUME NEW t \in Threads, SaveWrite(t) PROVE LoadKeepsAll'
    BY <1>13, ManagerAssumption, SameSnapshot
    DEF SaveWrite, SaveEnds, IInv, LoadKeepsAll, PlaceInv, Up, Goto, Threads,
        TypeOK, memory, mutex, loading, After
  <1>14. ASSUME NEW t \in Threads, SaveFails(t) PROVE LoadKeepsAll'
    BY <1>14, ManagerAssumption, SameSnapshot
    DEF SaveFails, SaveEnds, IInv, LoadKeepsAll, PlaceInv, Up, Goto, Threads,
        TypeOK, memory, mutex, loading, After
  <1>15. ASSUME NEW t \in Threads, SaveNotOpened(t) PROVE LoadKeepsAll'
    BY <1>15, ManagerAssumption, SameSnapshot
    DEF SaveNotOpened, IInv, LoadKeepsAll, PlaceInv, Up, Goto, Threads,
        TypeOK, memory, mutex, loading, After
  <1>16. CASE Load
    <2>1. order = <<>> /\ Snapshot' = Snapshot
      BY <1>16, SameSnapshot DEF Load, Goto, IInv, PlaceInv
    <2>2. Snapshot \in Seq(Service) /\ Len(Snapshot) = 0
      BY <2>1, SnapshotIsFile DEF IInv
    <2>3. Snapshot = <<>>
      BY <2>2, EmptySeq
    <2>4. disk \in Seq(Service) /\ disk' = disk
          /\ (disk # <<>> => todo' = disk)
      BY <1>16 DEF Load, IInv, TypeOK
    <2>5. <<>> \o disk = disk
      BY <2>4, ConcatEmptySeq
    <2>. QED  BY <2>1, <2>3, <2>4, <2>5 DEF LoadKeepsAll
  <1>17. CASE LoadNext
    <2>. DEFINE h == Head(todo)
    <2>1. h \in Service /\ todo \in Seq(Service) /\ todo # <<>>
      BY <1>17 DEF LoadNext, IInv, TypeOK
    <2>2. Snapshot' = Append(Snapshot, h)
      BY <1>17, <2>1, Inserted DEF LoadNext, Fitting, IInv
    <2>3. Snapshot' \o todo' = Snapshot \o todo
      BY <1>17, <2>1, <2>2, MovesOver, SnapshotIsFile DEF LoadNext, IInv
    <2>4. pc' = pc /\ skipped' = skipped /\ disk' = disk
      BY <1>17 DEF LoadNext
    <2>. QED  BY <2>3, <2>4 DEF IInv, LoadKeepsAll
  <1>18. CASE LoadThrows
    <2>1. SUFFICES ASSUME skipped' = FALSE, disk # <<>> PROVE FALSE
      BY <1>18 DEF LoadThrows, LoadKeepsAll
    <2>2. ~skipped /\ ~Fitting(Head(todo))
      BY <1>18, <2>1 DEF LoadThrows
    <2>3. Snapshot \o todo = disk /\ todo # <<>>
      BY <1>18, <2>1, <2>2 DEF LoadThrows, IInv, LoadKeepsAll
    <2>. QED  BY <1>18, <2>2, <2>3, NextFits DEF LoadThrows
  <1>19. CASE LoadFallback
    <2>1. Snapshot \in Seq(Service) /\ Len(Snapshot) = 0
      BY <1>19, SnapshotIsFile DEF LoadFallback, IInv
    <2>2. Snapshot = <<>> /\ todo = <<>>
      BY <1>19, <2>1, EmptySeq DEF LoadFallback
    <2>3. Snapshot \o todo = <<>>
      BY <2>2, ConcatEmptySeq
    <2>4. pc' = pc /\ skipped' = skipped /\ disk' = disk
      BY <1>19 DEF LoadFallback, loading
    <2>. QED  BY <1>19, <2>3, <2>4 DEF LoadFallback, IInv, LoadKeepsAll
  <1>20. CASE LoadDone
    BY <1>20, ManagerAssumption, SameSnapshot
    DEF LoadDone, IInv, LoadKeepsAll, PlaceInv, Up, Goto, Threads, TypeOK,
        memory, mutex, loading
  <1>21. CASE Crash
    BY <1>21, ManagerAssumption, SameSnapshot
    DEF Crash, IInv, LoadKeepsAll, PlaceInv, Up, Goto, Threads, TypeOK,
        memory, mutex, loading, Stopped
  <1>22. CASE UNCHANGED vars
    BY <1>22, ManagerAssumption, SameSnapshot
    DEF vars, IInv, LoadKeepsAll, PlaceInv, Up, Goto, Threads, TypeOK, memory,
        mutex, loading
  <1>. QED
    BY <1>1, <1>2, <1>3, <1>4, <1>5, <1>6, <1>7, <1>8, <1>9, <1>10,
      <1>11, <1>12, <1>13, <1>14, <1>15, <1>16, <1>17, <1>18, <1>19, <1>20,
      <1>21, <1>22
    DEF Next, Serve, Save, LoadFromDiskOrCreate, Threads

\* The process starts with nothing.
LEMMA InitInv == Init => IInv
  <1>. SUFFICES ASSUME Init PROVE IInv
    OBVIOUS
  <1>1. Registered = {} /\ ToSet(order) = {}
    BY DEF Init, NoRecords, Registered, ToSet
  <1>2. TypeOK
    <2>1. /\ disk \in Seq(Service) /\ todo \in Seq(Service)
          /\ order \in Seq(Ids)
          /\ content \in [Threads -> Seq(Service)]
      BY DEF Init, NoText
    <2>2. /\ records \in [Ids -> Service \cup {None}]
          /\ pc \in [Threads -> PCs] /\ req \in [Threads -> Service \cup {None}]
          /\ held \in [Threads -> SUBSET Endpoint]
      BY DEF Init, NoRecords, Stopped, Nothing, NoProxies, PCs
    <2>3. /\ writer = None /\ readers = {}
          /\ skipped = FALSE /\ unsaved = FALSE
      BY DEF Init
    <2>. QED  BY <2>1, <2>2, <2>3 DEF TypeOK
  <1>3. TableOK
    BY <1>1 DEF Init, TableOK
  <1>4. PlaceInv /\ MutexInv /\ TextInv /\ FileMatches /\ LoadKeepsAll
    BY ManagerAssumption
    DEF Init, Stopped, NoProxies, PlaceInv, MutexInv, TextInv, FileMatches,
        LoadKeepsAll, Threads, PCs, Up
  <1>5. FileInv
    BY DEF Init, FileInv, Apart
  <1>. QED  BY <1>2, <1>3, <1>4, <1>5 DEF IInv

-----------------------------------------------------------------------------
(* The theorems. *)

\* The table, the file, the mutex and the places of the threads agree, for
\* every number of workers and services and with a crash at any step.
THEOREM ManagerInvariant == Spec => []IInv
  <1>1. IInv /\ [Next]_vars => IInv'
    <2>. SUFFICES ASSUME IInv, [Next]_vars PROVE IInv'
      OBVIOUS
    <2>. QED
      BY TypeStep, TableStep, PlaceStep, MutexStep, TextStep, FileStep,
        MatchStep, LoadStep, Zenon DEF IInv
  <1>. QED  BY <1>1, InitInv, PTL DEF Spec

\* Every variable keeps its type: nothing but whole services is ever written
\* to the file or loaded from it.
THEOREM ManagerTypeCorrect == Spec => []TypeOK
  <1>1. IInv => TypeOK
    BY DEF IInv
  <1>. QED  BY <1>1, ManagerInvariant, PTL

\* order lists the keys of records, each once, and no two services have one
\* port, although AddProxy lets the mutex go between its checks.
THEOREM ManagerKeepsTable == Spec => []TableOK
  <1>1. IInv => TableOK
    BY DEF IInv
  <1>. QED  BY <1>1, ManagerInvariant, PTL

\* The file holds the table whenever no save is due, in whatever order
\* changes and saves came.
THEOREM ManagerFileMatches == Spec => []FileMatches
  <1>1. IInv => FileMatches
    BY DEF IInv
  <1>. QED  BY <1>1, ManagerInvariant, PTL

\* A start brings back every service of the file in its order, unless another
\* process has a port.
THEOREM ManagerLoadKeepsAll == Spec => []LoadKeepsAll
  <1>1. IInv => LoadKeepsAll
    BY DEF IInv
  <1>. QED  BY <1>1, ManagerInvariant, PTL

==============================================================================
