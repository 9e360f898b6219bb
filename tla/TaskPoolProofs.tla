--------------------------- MODULE TaskPoolProofs ---------------------------
(***************************************************************************)
(* Proofs about TaskPool, for any number of connections and threads and    *)
(* any number of threads to keep.                                          *)
(***************************************************************************)
EXTENDS TaskPool, TLAPS, FiniteSetTheorems

\* The mutex has a holder exactly while a worker is between its lock and its
\* unlock.
LockInv == \A w \in Workers : pc[w] \in Holding <=> task_lock = w

\* is_cancel is set by the destructor, which Run never follows.
OwnerInv ==
    /\ is_cancel <=> owner \in {"cancelled", "joining", "destroyed"}
    /\ owner = "destroyed" => threads_handle = {}

IInv == TypeOK /\ LockInv /\ OwnerInv /\ JoinsSafely /\ HandledOnce
        /\ CountersAgree

-----------------------------------------------------------------------------


\* A worker that joins a set of workers adds one to its size.
LEMMA Joins ==
    ASSUME NEW S, IsFiniteSet(S), NEW w, w \notin S
    PROVE  Cardinality(S \cup {w}) = Cardinality(S) + 1
  BY FS_AddElement

\* A worker that leaves a set of workers takes one from its size.
LEMMA Leaves ==
    ASSUME NEW S, IsFiniteSet(S), NEW w \in S
    PROVE  /\ Cardinality(S \ {w}) = Cardinality(S) - 1
           /\ Cardinality(S) >= 1
  <1>1. Cardinality(S \ {w}) = Cardinality(S) - 1
    BY FS_RemoveElement
  <1>2. Cardinality(S) \in Nat /\ Cardinality(S \ {w}) \in Nat
    BY FS_RemoveElement, FS_CardinalityType
  <1>. QED  BY <1>1, <1>2

\* The workers that are counted are finitely many.
LEMMA CountedFinite ==
    /\ IsFiniteSet(IdleWorkers) /\ Cardinality(IdleWorkers) \in Nat
    /\ IsFiniteSet(BusyWorkers) /\ Cardinality(BusyWorkers) \in Nat
  <1>1. IdleWorkers \subseteq Workers /\ BusyWorkers \subseteq Workers
    BY DEF IdleWorkers, BusyWorkers
  <1>. QED  BY <1>1, TaskPoolAssumption, FS_Subset, FS_CardinalityType

\* The size of a set of workers after w has been put in or taken out.
LEMMA SizeAfter ==
    ASSUME NEW S, IsFiniteSet(S), NEW w, NEW T
    PROVE  /\ T = S \cup {w} => Cardinality(T) =
                Cardinality(S) + 1 - (IF w \in S THEN 1 ELSE 0)
           /\ T = S \ {w} => Cardinality(T) =
                Cardinality(S) - (IF w \in S THEN 1 ELSE 0)
<1>1. Cardinality(S) \in Nat
  BY FS_CardinalityType
<1>2. CASE w \in S
  <2>1. S \cup {w} = S
    BY <1>2
  <2>2. Cardinality(S \ {w}) = Cardinality(S) - 1
    BY <1>2, Leaves
  <2> QED
    BY <1>1, <1>2, <2>1, <2>2
<1>3. CASE w \notin S
  <2>1. S \ {w} = S
    BY <1>3
  <2>2. Cardinality(S \cup {w}) = Cardinality(S) + 1
    BY <1>3, Joins
  <2>3. /\ T = S \cup {w} => Cardinality(T) = Cardinality(S) + 1
        /\ T = S \ {w} => Cardinality(T) = Cardinality(S)
    BY <2>1, <2>2, Zenon
  <2> QED
    BY <1>1, <1>3, <2>3
<1> QED
  BY <1>2, <1>3

\* A worker that goes from one place to another changes the two counts by what
\* the places say.
LEMMA Moves ==
    ASSUME TypeOK, NEW w \in Workers, NEW from, NEW to \in PCs,
           Step(w, from, to)
    PROVE  /\ Cardinality(IdleWorkers)' =
                Cardinality(IdleWorkers)
                + (IF to \in Idle THEN 1 ELSE 0)
                - (IF from \in Idle THEN 1 ELSE 0)
           /\ Cardinality(BusyWorkers)' =
                Cardinality(BusyWorkers)
                + (IF to \in Busy THEN 1 ELSE 0)
                - (IF from \in Busy THEN 1 ELSE 0)
<1>1. /\ to \in Idle => IdleWorkers' = IdleWorkers \cup {w}
      /\ to \notin Idle => IdleWorkers' = IdleWorkers \ {w}
      /\ to \in Busy => BusyWorkers' = BusyWorkers \cup {w}
      /\ to \notin Busy => BusyWorkers' = BusyWorkers \ {w}
      /\ w \in IdleWorkers <=> from \in Idle
      /\ w \in BusyWorkers <=> from \in Busy
  BY DEF Step, TypeOK, IdleWorkers, BusyWorkers
<1>2. /\ to \in Idle => Cardinality(IdleWorkers') =
           Cardinality(IdleWorkers) + 1 - (IF w \in IdleWorkers THEN 1 ELSE 0)
      /\ to \notin Idle => Cardinality(IdleWorkers') =
           Cardinality(IdleWorkers) - (IF w \in IdleWorkers THEN 1 ELSE 0)
  BY <1>1, CountedFinite, SizeAfter, Zenon
<1>3. /\ to \in Busy => Cardinality(BusyWorkers') =
           Cardinality(BusyWorkers) + 1 - (IF w \in BusyWorkers THEN 1 ELSE 0)
      /\ to \notin Busy => Cardinality(BusyWorkers') =
           Cardinality(BusyWorkers) - (IF w \in BusyWorkers THEN 1 ELSE 0)
  BY <1>1, CountedFinite, SizeAfter, Zenon
<1> QED
  BY <1>1, <1>2, <1>3, CountedFinite

\* A worker that is idle or busy is counted.
LEMMA Counted ==
    ASSUME TypeOK, CountersAgree, NEW w \in Workers
    PROVE  /\ pc[w] \in Idle => watting_task_num >= 1
           /\ pc[w] \in Busy => running_task_num >= 1
<1>1. pc[w] \in Idle => w \in IdleWorkers
  BY DEF IdleWorkers
<1>2. pc[w] \in Busy => w \in BusyWorkers
  BY DEF BusyWorkers
<1>3. /\ w \in IdleWorkers => Cardinality(IdleWorkers) >= 1
      /\ w \in BusyWorkers => Cardinality(BusyWorkers) >= 1
  BY CountedFinite, Leaves, Zenon
<1> QED
  BY <1>1, <1>2, <1>3, CountedFinite DEF CountersAgree, TypeOK

-----------------------------------------------------------------------------
(* The invariant, conjunct by conjunct. *)

\* Who holds the mutex is where the program counters say.
LEMMA LockStep == TypeOK /\ LockInv /\ [Next]_vars => LockInv'
<1> SUFFICES ASSUME TypeOK /\ LockInv, [Next]_vars PROVE LockInv'
  OBVIOUS
<1>1. ASSUME NEW t \in Tasks, Run(t) PROVE LockInv'
  BY <1>1 DEF Run, LockInv
<1>2. CASE Notify
  BY <1>2, TaskPoolAssumption DEF Notify, LockInv, TypeOK, Holding
<1>3. CASE MustStart
  BY <1>3 DEF MustStart, LockInv
<1>4. ASSUME NEW w \in Workers, StartWorker(w) PROVE LockInv'
  BY <1>4, TaskPoolAssumption
  DEF StartWorker, Step, Free, LockInv, TypeOK, Holding
<1>5. ASSUME NEW w \in Workers, Enter(w) PROVE LockInv'
  BY <1>5, TaskPoolAssumption
  DEF Enter, Step, AfterLoop, Free, LockInv, TypeOK, Holding
<1>6. ASSUME NEW w \in Workers, Wait(w) PROVE LockInv'
  BY <1>6, TaskPoolAssumption DEF Wait, Step, LockInv, TypeOK, Holding
<1>7. ASSUME NEW w \in Workers, Reacquire(w) PROVE LockInv'
  BY <1>7, TaskPoolAssumption
  DEF Reacquire, Step, Free, LockInv, TypeOK, Holding
<1>8. ASSUME NEW w \in Workers, SpuriousWake(w) PROVE LockInv'
  BY <1>8, TaskPoolAssumption DEF SpuriousWake, Step, LockInv, TypeOK, Holding
<1>9. ASSUME NEW w \in Workers, Cancelled(w) PROVE LockInv'
  BY <1>9, TaskPoolAssumption DEF Cancelled, Step, LockInv, TypeOK, Holding
<1>10. ASSUME NEW w \in Workers, Take(w) PROVE LockInv'
  BY <1>10, TaskPoolAssumption DEF Take, Step, LockInv, TypeOK, Holding
<1>11. ASSUME NEW w \in Workers, Return(w) PROVE LockInv'
  BY <1>11, TaskPoolAssumption DEF Return, Step, LockInv, TypeOK, Holding
<1>12. ASSUME NEW w \in Workers, Count(w) PROVE LockInv'
  BY <1>12, TaskPoolAssumption DEF Count, Step, Free, LockInv, TypeOK, Holding
<1>13. ASSUME NEW w \in Workers, Stay(w) PROVE LockInv'
  BY <1>13, TaskPoolAssumption
  DEF Stay, Step, AfterLoop, LockInv, TypeOK, Holding
<1>14. ASSUME NEW w \in Workers, Break(w) PROVE LockInv'
  BY <1>14, TaskPoolAssumption DEF Break, Step, LockInv, TypeOK, Holding
<1>15. ASSUME NEW w \in Workers, End(w) PROVE LockInv'
  BY <1>15, TaskPoolAssumption DEF End, Step, LockInv, TypeOK, Holding
<1>16. ASSUME NEW w \in Workers, Remove(w) PROVE LockInv'
  BY <1>16, TaskPoolAssumption DEF Remove, Step, LockInv, TypeOK, Holding
<1>17. CASE Cancel
  BY <1>17 DEF Cancel, LockInv
<1>18. CASE NotifyAll
  BY <1>18, TaskPoolAssumption DEF NotifyAll, LockInv, TypeOK, Holding
<1>19. ASSUME NEW w \in Workers, Join(w) PROVE LockInv'
  BY <1>19 DEF Join, LockInv
<1>20. CASE Destroy
  BY <1>20 DEF Destroy, LockInv
<1>21. CASE UNCHANGED vars
  BY <1>21 DEF vars, LockInv
<1>22. CASE StartThrows
  BY <1>22 DEF StartThrows, LockInv
<1> QED
  BY <1>1, <1>2, <1>3, <1>4, <1>5, <1>6, <1>7, <1>8, <1>9, <1>10, <1>11, <1>12,
     <1>13, <1>14, <1>15, <1>16, <1>17, <1>18, <1>19, <1>20, <1>21, <1>22
  DEF Next, Submitter, Destructor, Worker

\* The owner's place in the program and is_cancel agree.
LEMMA OwnerStep == TypeOK /\ OwnerInv /\ [Next]_vars => OwnerInv'
<1> SUFFICES ASSUME TypeOK /\ OwnerInv, [Next]_vars PROVE OwnerInv'
  OBVIOUS
<1>1. ASSUME NEW t \in Tasks, Run(t) PROVE OwnerInv'
  BY <1>1 DEF Run, OwnerInv
<1>2. CASE Notify
  BY <1>2 DEF Notify, OwnerInv
<1>3. CASE MustStart
  BY <1>3 DEF MustStart, OwnerInv
<1>4. ASSUME NEW w \in Workers, StartWorker(w) PROVE OwnerInv'
  BY <1>4 DEF StartWorker, OwnerInv
<1>5. ASSUME NEW w \in Workers, Enter(w) PROVE OwnerInv'
  BY <1>5 DEF Enter, OwnerInv
<1>6. ASSUME NEW w \in Workers, Wait(w) PROVE OwnerInv'
  BY <1>6 DEF Wait, OwnerInv
<1>7. ASSUME NEW w \in Workers, Reacquire(w) PROVE OwnerInv'
  BY <1>7 DEF Reacquire, OwnerInv
<1>8. ASSUME NEW w \in Workers, SpuriousWake(w) PROVE OwnerInv'
  BY <1>8 DEF SpuriousWake, OwnerInv
<1>9. ASSUME NEW w \in Workers, Cancelled(w) PROVE OwnerInv'
  BY <1>9 DEF Cancelled, OwnerInv
<1>10. ASSUME NEW w \in Workers, Take(w) PROVE OwnerInv'
  BY <1>10 DEF Take, OwnerInv
<1>11. ASSUME NEW w \in Workers, Return(w) PROVE OwnerInv'
  BY <1>11 DEF Return, OwnerInv
<1>12. ASSUME NEW w \in Workers, Count(w) PROVE OwnerInv'
  BY <1>12 DEF Count, OwnerInv
<1>13. ASSUME NEW w \in Workers, Stay(w) PROVE OwnerInv'
  BY <1>13 DEF Stay, OwnerInv
<1>14. ASSUME NEW w \in Workers, Break(w) PROVE OwnerInv'
  BY <1>14 DEF Break, OwnerInv
<1>15. ASSUME NEW w \in Workers, End(w) PROVE OwnerInv'
  BY <1>15 DEF End, OwnerInv
<1>16. ASSUME NEW w \in Workers, Remove(w) PROVE OwnerInv'
  BY <1>16 DEF Remove, OwnerInv
<1>17. CASE Cancel
  BY <1>17 DEF Cancel, OwnerInv
<1>18. CASE NotifyAll
  BY <1>18 DEF NotifyAll, OwnerInv
<1>19. ASSUME NEW w \in Workers, Join(w) PROVE OwnerInv'
  BY <1>19 DEF Join, OwnerInv
<1>20. CASE Destroy
  BY <1>20 DEF Destroy, OwnerInv
<1>21. CASE UNCHANGED vars
  BY <1>21 DEF vars, OwnerInv
<1>22. CASE StartThrows
  BY <1>22 DEF StartThrows, OwnerInv
<1> QED
  BY <1>1, <1>2, <1>3, <1>4, <1>5, <1>6, <1>7, <1>8, <1>9, <1>10, <1>11, <1>12,
     <1>13, <1>14, <1>15, <1>16, <1>17, <1>18, <1>19, <1>20, <1>21, <1>22
  DEF Next, Submitter, Destructor, Worker

\* is_cancel is set under the mutex, so no worker is about to remove its
\* handle, and none starts to.
LEMMA JoinsStep ==
  TypeOK /\ LockInv /\ OwnerInv /\ JoinsSafely /\ [Next]_vars
  => JoinsSafely'
<1> SUFFICES ASSUME TypeOK /\ LockInv /\ OwnerInv /\ JoinsSafely,
                    [Next]_vars
             PROVE  JoinsSafely'
  OBVIOUS
<1>1. ASSUME NEW t \in Tasks, Run(t) PROVE JoinsSafely'
  BY <1>1 DEF Run, JoinsSafely
<1>2. CASE Notify
  BY <1>2 DEF Notify, JoinsSafely, TypeOK
<1>3. CASE MustStart
  BY <1>3 DEF MustStart, JoinsSafely
<1>4. ASSUME NEW w \in Workers, StartWorker(w) PROVE JoinsSafely'
  BY <1>4 DEF StartWorker, Step, JoinsSafely
<1>5. ASSUME NEW w \in Workers, Enter(w) PROVE JoinsSafely'
  BY <1>5, TaskPoolAssumption
  DEF Enter, Step, AfterLoop, Free, JoinsSafely, TypeOK, Holding
<1>6. ASSUME NEW w \in Workers, Wait(w) PROVE JoinsSafely'
  BY <1>6 DEF Wait, Step, JoinsSafely
<1>7. ASSUME NEW w \in Workers, Reacquire(w) PROVE JoinsSafely'
  BY <1>7 DEF Reacquire, Step, JoinsSafely
<1>8. ASSUME NEW w \in Workers, SpuriousWake(w) PROVE JoinsSafely'
  BY <1>8 DEF SpuriousWake, Step, JoinsSafely
<1>9. ASSUME NEW w \in Workers, Cancelled(w) PROVE JoinsSafely'
  BY <1>9 DEF Cancelled, Step, JoinsSafely
<1>10. ASSUME NEW w \in Workers, Take(w) PROVE JoinsSafely'
  BY <1>10 DEF Take, Step, JoinsSafely
<1>11. ASSUME NEW w \in Workers, Return(w) PROVE JoinsSafely'
  BY <1>11 DEF Return, Step, JoinsSafely
<1>12. ASSUME NEW w \in Workers, Count(w) PROVE JoinsSafely'
  BY <1>12 DEF Count, Step, JoinsSafely
<1>13. ASSUME NEW w \in Workers, Stay(w) PROVE JoinsSafely'
  BY <1>13, TaskPoolAssumption
  DEF Stay, Step, AfterLoop, JoinsSafely, TypeOK, Holding
<1>14. ASSUME NEW w \in Workers, Break(w) PROVE JoinsSafely'
  BY <1>14 DEF Break, Step, JoinsSafely
<1>15. ASSUME NEW w \in Workers, End(w) PROVE JoinsSafely'
  BY <1>15 DEF End, Step, JoinsSafely, TypeOK
<1>16. ASSUME NEW w \in Workers, Remove(w) PROVE JoinsSafely'
  BY <1>16 DEF Remove, Step, JoinsSafely, TypeOK
<1>17. CASE Cancel
  BY <1>17, TaskPoolAssumption
  DEF Cancel, Free, JoinsSafely, LockInv, OwnerInv, TypeOK, Holding, counters
<1>18. CASE NotifyAll
  BY <1>18 DEF NotifyAll, JoinsSafely
<1>19. ASSUME NEW w \in Workers, Join(w) PROVE JoinsSafely'
  BY <1>19 DEF Join, JoinsSafely
<1>20. CASE Destroy
  BY <1>20 DEF Destroy, JoinsSafely
<1>21. CASE UNCHANGED vars
  BY <1>21 DEF vars, JoinsSafely
<1>22. CASE StartThrows
  BY <1>22 DEF StartThrows, JoinsSafely
<1> QED
  BY <1>1, <1>2, <1>3, <1>4, <1>5, <1>6, <1>7, <1>8, <1>9, <1>10, <1>11, <1>12,
     <1>13, <1>14, <1>15, <1>16, <1>17, <1>18, <1>19, <1>20, <1>21, <1>22
  DEF Next, Submitter, Destructor, Worker

\* The queue and the connections already taken stay apart.
LEMMA HandledStep == TypeOK /\ HandledOnce /\ [Next]_vars => HandledOnce'
<1> SUFFICES ASSUME TypeOK /\ HandledOnce, [Next]_vars PROVE HandledOnce'
  OBVIOUS
<1>1. ASSUME NEW t \in Tasks, Run(t) PROVE HandledOnce'
  <2>1. task_list' = Append(task_list, t) /\ handled' = handled
    BY <1>1 DEF Run
  <2>2. t \notin handled /\ \A i \in DOMAIN task_list : task_list[i] # t
    BY <1>1 DEF Run, Queued
  <2>3. /\ DOMAIN task_list' = DOMAIN task_list \cup {Len(task_list) + 1}
        /\ task_list'[Len(task_list) + 1] = t
        /\ \A i \in DOMAIN task_list : task_list'[i] = task_list[i]
    BY <2>1 DEF TypeOK
  <2> QED
    BY <2>1, <2>2, <2>3 DEF HandledOnce
<1>2. CASE Notify
  BY <1>2 DEF Notify, HandledOnce
<1>3. CASE MustStart
  BY <1>3 DEF MustStart, HandledOnce
<1>4. ASSUME NEW w \in Workers, StartWorker(w) PROVE HandledOnce'
  BY <1>4 DEF StartWorker, HandledOnce
<1>5. ASSUME NEW w \in Workers, Enter(w) PROVE HandledOnce'
  BY <1>5 DEF Enter, HandledOnce
<1>6. ASSUME NEW w \in Workers, Wait(w) PROVE HandledOnce'
  BY <1>6 DEF Wait, HandledOnce
<1>7. ASSUME NEW w \in Workers, Reacquire(w) PROVE HandledOnce'
  BY <1>7 DEF Reacquire, HandledOnce
<1>8. ASSUME NEW w \in Workers, SpuriousWake(w) PROVE HandledOnce'
  BY <1>8 DEF SpuriousWake, HandledOnce
<1>9. ASSUME NEW w \in Workers, Cancelled(w) PROVE HandledOnce'
  BY <1>9 DEF Cancelled, HandledOnce
<1>10. ASSUME NEW w \in Workers, Take(w) PROVE HandledOnce'
  <2>1. /\ task_list # <<>> /\ task_list' = Tail(task_list)
        /\ handled' = handled \cup {task_list[1]}
    BY <1>10 DEF Take
  <2>2. /\ DOMAIN task_list' = 1..(Len(task_list) - 1)
        /\ \A i \in DOMAIN task_list' : task_list'[i] = task_list[i + 1]
        /\ DOMAIN task_list = 1..Len(task_list)
        /\ Len(task_list) \in Nat /\ Len(task_list) >= 1
    BY <2>1 DEF TypeOK
  <2>3. \A i \in DOMAIN task_list' :
          i + 1 \in DOMAIN task_list /\ i + 1 # 1 /\ 1 \in DOMAIN task_list
    BY <2>2
  <2>4. \A i, j \in DOMAIN task_list' : i # j => i + 1 # j + 1
    BY <2>2
  <2> QED
    BY <2>1, <2>2, <2>3, <2>4 DEF HandledOnce
<1>11. ASSUME NEW w \in Workers, Return(w) PROVE HandledOnce'
  BY <1>11 DEF Return, HandledOnce
<1>12. ASSUME NEW w \in Workers, Count(w) PROVE HandledOnce'
  BY <1>12 DEF Count, HandledOnce
<1>13. ASSUME NEW w \in Workers, Stay(w) PROVE HandledOnce'
  BY <1>13 DEF Stay, HandledOnce
<1>14. ASSUME NEW w \in Workers, Break(w) PROVE HandledOnce'
  BY <1>14 DEF Break, HandledOnce
<1>15. ASSUME NEW w \in Workers, End(w) PROVE HandledOnce'
  BY <1>15 DEF End, HandledOnce
<1>16. ASSUME NEW w \in Workers, Remove(w) PROVE HandledOnce'
  BY <1>16 DEF Remove, HandledOnce
<1>17. CASE Cancel
  BY <1>17 DEF Cancel, HandledOnce
<1>18. CASE NotifyAll
  BY <1>18 DEF NotifyAll, HandledOnce
<1>19. ASSUME NEW w \in Workers, Join(w) PROVE HandledOnce'
  BY <1>19 DEF Join, HandledOnce
<1>20. CASE Destroy
  BY <1>20 DEF Destroy, HandledOnce
<1>21. CASE UNCHANGED vars
  BY <1>21 DEF vars, HandledOnce
<1>22. CASE StartThrows
  BY <1>22 DEF StartThrows, HandledOnce
<1> QED
  BY <1>1, <1>2, <1>3, <1>4, <1>5, <1>6, <1>7, <1>8, <1>9, <1>10, <1>11, <1>12,
     <1>13, <1>14, <1>15, <1>16, <1>17, <1>18, <1>19, <1>20, <1>21, <1>22
  DEF Next, Submitter, Destructor, Worker

\* The counters follow the workers.
LEMMA CountersStep == TypeOK /\ CountersAgree /\ [Next]_vars => CountersAgree'
<1> SUFFICES ASSUME TypeOK /\ CountersAgree, [Next]_vars PROVE CountersAgree'
  OBVIOUS
<1>1. ASSUME NEW t \in Tasks, Run(t) PROVE CountersAgree'
  <2>1. IdleWorkers' = IdleWorkers /\ BusyWorkers' = BusyWorkers
    BY <1>1 DEF Run, IdleWorkers, BusyWorkers, Idle, Busy, TypeOK
  <2> QED
    BY <1>1, <2>1, CountedFinite DEF Run, CountersAgree, TypeOK, counters
<1>2. CASE Notify
  <2>1. IdleWorkers' = IdleWorkers /\ BusyWorkers' = BusyWorkers
    BY <1>2 DEF Notify, IdleWorkers, BusyWorkers, Idle, Busy, TypeOK
  <2> QED
    BY <1>2, <2>1, CountedFinite DEF Notify, CountersAgree, TypeOK, counters
<1>3. CASE MustStart
  <2>1. IdleWorkers' = IdleWorkers /\ BusyWorkers' = BusyWorkers
    BY <1>3 DEF MustStart, IdleWorkers, BusyWorkers, Idle, Busy, TypeOK
  <2> QED
    BY <1>3, <2>1, CountedFinite DEF MustStart, CountersAgree, TypeOK, counters
<1>4. ASSUME NEW w \in Workers, StartWorker(w) PROVE CountersAgree'
  <2>1. Step(w, "none", "started") /\ "started" \in PCs
    BY <1>4 DEF StartWorker, PCs, Holding, Idle, Busy
  <2> QED
    BY <1>4, <2>1, Moves, CountedFinite
    DEF StartWorker, CountersAgree, TypeOK, Idle, Busy, counters
<1>5. ASSUME NEW w \in Workers, Enter(w) PROVE CountersAgree'
  <2>1. Step(w, "started", AfterLoop) /\ AfterLoop \in PCs
    BY <1>5 DEF Enter, PCs, Holding, Idle, Busy, AfterLoop
  <2> QED
    BY <1>5, <2>1, Moves, CountedFinite
    DEF Enter, CountersAgree, TypeOK, Idle, Busy, counters, AfterLoop
<1>6. ASSUME NEW w \in Workers, Wait(w) PROVE CountersAgree'
  <2>1. Step(w, "checking", "waiting") /\ "waiting" \in PCs
    BY <1>6 DEF Wait, PCs, Holding, Idle, Busy
  <2> QED
    BY <1>6, <2>1, Moves, CountedFinite
    DEF Wait, CountersAgree, TypeOK, Idle, Busy, counters
<1>7. ASSUME NEW w \in Workers, Reacquire(w) PROVE CountersAgree'
  <2>1. Step(w, "woken", "checking") /\ "checking" \in PCs
    BY <1>7 DEF Reacquire, PCs, Holding, Idle, Busy
  <2> QED
    BY <1>7, <2>1, Moves, CountedFinite
    DEF Reacquire, CountersAgree, TypeOK, Idle, Busy, counters
<1>8. ASSUME NEW w \in Workers, SpuriousWake(w) PROVE CountersAgree'
  <2>1. Step(w, "waiting", "woken") /\ "woken" \in PCs
    BY <1>8 DEF SpuriousWake, PCs, Holding, Idle, Busy
  <2> QED
    BY <1>8, <2>1, Moves, CountedFinite
    DEF SpuriousWake, CountersAgree, TypeOK, Idle, Busy, counters
<1>9. ASSUME NEW w \in Workers, Cancelled(w) PROVE CountersAgree'
  <2>1. Step(w, "checking", "ending") /\ "ending" \in PCs
    BY <1>9 DEF Cancelled, PCs, Holding, Idle, Busy
  <2> QED
    BY <1>9, <2>1, Moves, CountedFinite
    DEF Cancelled, CountersAgree, TypeOK, Idle, Busy, counters
<1>10. ASSUME NEW w \in Workers, Take(w) PROVE CountersAgree'
  <2>1. Step(w, "checking", "running") /\ "running" \in PCs
    BY <1>10 DEF Take, PCs, Holding, Idle, Busy
  <2>2. /\ Cardinality(IdleWorkers)' = Cardinality(IdleWorkers) - 1
        /\ Cardinality(BusyWorkers)' = Cardinality(BusyWorkers) + 1
    BY <2>1, Moves, CountedFinite DEF Idle, Busy
  <2>3. /\ watting_task_num' = watting_task_num - 1
        /\ running_task_num' = running_task_num + 1
        /\ is_cancel' = is_cancel
    BY <1>10 DEF Take
  <2> QED
    BY <2>2, <2>3, CountedFinite DEF CountersAgree, TypeOK
<1>11. ASSUME NEW w \in Workers, Return(w) PROVE CountersAgree'
  <2>1. Step(w, "running", "returned") /\ "returned" \in PCs
    BY <1>11 DEF Return, PCs, Holding, Idle, Busy
  <2> QED
    BY <1>11, <2>1, Moves, CountedFinite
    DEF Return, CountersAgree, TypeOK, Idle, Busy, counters
<1>12. ASSUME NEW w \in Workers, Count(w) PROVE CountersAgree'
  <2>1. Step(w, "returned", "counting") /\ "counting" \in PCs
    BY <1>12 DEF Count, PCs, Holding, Idle, Busy
  <2> QED
    BY <1>12, <2>1, Moves, CountedFinite
    DEF Count, CountersAgree, TypeOK, Idle, Busy, counters
<1>13. ASSUME NEW w \in Workers, Stay(w) PROVE CountersAgree'
  <2>1. Step(w, "counting", AfterLoop) /\ AfterLoop \in PCs
    BY <1>13 DEF Stay, PCs, Holding, Idle, Busy, AfterLoop
  <2> QED
    BY <1>13, <2>1, Moves, CountedFinite
    DEF Stay, CountersAgree, TypeOK, Idle, Busy, counters, AfterLoop
<1>14. ASSUME NEW w \in Workers, Break(w) PROVE CountersAgree'
  <2>1. Step(w, "counting", "ending") /\ "ending" \in PCs
    BY <1>14 DEF Break, PCs, Holding, Idle, Busy
  <2> QED
    BY <1>14, <2>1, Moves, CountedFinite
    DEF Break, CountersAgree, TypeOK, Idle, Busy, counters
<1>15. ASSUME NEW w \in Workers, End(w) PROVE CountersAgree'
  <2>1. PICK to \in {"ended", "removing"} : Step(w, "ending", to)
    BY <1>15 DEF End
  <2>2. to \in PCs
    BY DEF PCs, Holding
  <2> QED
    BY <1>15, <2>1, <2>2, Moves, CountedFinite
    DEF End, CountersAgree, TypeOK, Idle, Busy, counters
<1>16. ASSUME NEW w \in Workers, Remove(w) PROVE CountersAgree'
  <2>1. Step(w, "removing", "detached") /\ "detached" \in PCs
    BY <1>16 DEF Remove, PCs, Holding, Idle, Busy
  <2> QED
    BY <1>16, <2>1, Moves, CountedFinite
    DEF Remove, CountersAgree, TypeOK, Idle, Busy, counters
<1>17. CASE Cancel
  <2>1. IdleWorkers' = IdleWorkers /\ BusyWorkers' = BusyWorkers
    BY <1>17 DEF Cancel, IdleWorkers, BusyWorkers, Idle, Busy, TypeOK
  <2> QED
    BY <1>17, <2>1, CountedFinite DEF Cancel, CountersAgree, TypeOK, counters
<1>18. CASE NotifyAll
  <2>1. IdleWorkers' = IdleWorkers /\ BusyWorkers' = BusyWorkers
    BY <1>18 DEF NotifyAll, IdleWorkers, BusyWorkers, Idle, Busy, TypeOK
  <2> QED
    BY <1>18, <2>1, CountedFinite
    DEF NotifyAll, CountersAgree, TypeOK, counters
<1>19. ASSUME NEW w \in Workers, Join(w) PROVE CountersAgree'
  <2>1. IdleWorkers' = IdleWorkers /\ BusyWorkers' = BusyWorkers
    BY <1>19 DEF Join, IdleWorkers, BusyWorkers, Idle, Busy, TypeOK
  <2> QED
    BY <1>19, <2>1, CountedFinite DEF Join, CountersAgree, TypeOK, counters
<1>20. CASE Destroy
  <2>1. IdleWorkers' = IdleWorkers /\ BusyWorkers' = BusyWorkers
    BY <1>20 DEF Destroy, IdleWorkers, BusyWorkers, Idle, Busy, TypeOK
  <2> QED
    BY <1>20, <2>1, CountedFinite DEF Destroy, CountersAgree, TypeOK, counters
<1>21. CASE UNCHANGED vars
  BY <1>21 DEF vars, CountersAgree, IdleWorkers, BusyWorkers, counters
<1>22. CASE StartThrows
  <2>1. IdleWorkers' = IdleWorkers /\ BusyWorkers' = BusyWorkers
    BY <1>22 DEF StartThrows, IdleWorkers, BusyWorkers, Idle, Busy, TypeOK
  <2> QED
    BY <1>22, <2>1, CountedFinite DEF StartThrows, CountersAgree, TypeOK, counters
<1> QED
  BY <1>1, <1>2, <1>3, <1>4, <1>5, <1>6, <1>7, <1>8, <1>9, <1>10, <1>11, <1>12,
     <1>13, <1>14, <1>15, <1>16, <1>17, <1>18, <1>19, <1>20, <1>21, <1>22
  DEF Next, Submitter, Destructor, Worker

\* Type correctness; a counter is decremented by a worker that it counts.
LEMMA TypeStep == TypeOK /\ CountersAgree /\ [Next]_vars => TypeOK'
<1> SUFFICES ASSUME TypeOK /\ CountersAgree, [Next]_vars PROVE TypeOK'
  OBVIOUS
<1>1. ASSUME NEW t \in Tasks, Run(t) PROVE TypeOK'
  BY <1>1 DEF Run, TypeOK, Owners, counters
<1>2. CASE Notify
  <2>1. pc' \in [Workers -> PCs]
    BY <1>2 DEF Notify, TypeOK, PCs, Holding, Idle, Busy
  <2> QED
    BY <1>2, <2>1 DEF Notify, TypeOK, Owners, counters
<1>3. CASE MustStart
  BY <1>3 DEF MustStart, TypeOK, Owners, counters
<1>4. ASSUME NEW w \in Workers, StartWorker(w) PROVE TypeOK'
  <2>1. pc' \in [Workers -> PCs]
    BY <1>4 DEF StartWorker, Step, TypeOK, PCs, Holding, Idle, Busy
  <2> QED
    BY <1>4, <2>1 DEF StartWorker, TypeOK, Owners, counters
<1>5. ASSUME NEW w \in Workers, Enter(w) PROVE TypeOK'
  <2>1. pc' \in [Workers -> PCs]
    BY <1>5 DEF Enter, Step, TypeOK, PCs, Holding, Idle, Busy, AfterLoop
  <2> QED
    BY <1>5, <2>1 DEF Enter, TypeOK, Owners, counters
<1>6. ASSUME NEW w \in Workers, Wait(w) PROVE TypeOK'
  <2>1. pc' \in [Workers -> PCs]
    BY <1>6 DEF Wait, Step, TypeOK, PCs, Holding, Idle, Busy
  <2> QED
    BY <1>6, <2>1 DEF Wait, TypeOK, Owners, counters
<1>7. ASSUME NEW w \in Workers, Reacquire(w) PROVE TypeOK'
  <2>1. pc' \in [Workers -> PCs]
    BY <1>7 DEF Reacquire, Step, TypeOK, PCs, Holding, Idle, Busy
  <2> QED
    BY <1>7, <2>1 DEF Reacquire, TypeOK, Owners, counters
<1>8. ASSUME NEW w \in Workers, SpuriousWake(w) PROVE TypeOK'
  <2>1. pc' \in [Workers -> PCs]
    BY <1>8 DEF SpuriousWake, Step, TypeOK, PCs, Holding, Idle, Busy
  <2> QED
    BY <1>8, <2>1 DEF SpuriousWake, TypeOK, Owners, counters
<1>9. ASSUME NEW w \in Workers, Cancelled(w) PROVE TypeOK'
  <2>1. pc' \in [Workers -> PCs]
    BY <1>9 DEF Cancelled, Step, TypeOK, PCs, Holding, Idle, Busy
  <2>2. running_task_num' \in Nat /\ watting_task_num' \in Nat
    BY <1>9, Counted DEF Cancelled, Step, TypeOK, Idle, Busy, counters
  <2> QED
    BY <1>9, <2>1, <2>2 DEF Cancelled, TypeOK
<1>10. ASSUME NEW w \in Workers, Take(w) PROVE TypeOK'
  <2>1. pc' \in [Workers -> PCs]
    BY <1>10 DEF Take, Step, TypeOK, PCs, Holding, Idle, Busy
  <2>2. running_task_num' \in Nat /\ watting_task_num' \in Nat
    BY <1>10, Counted DEF Take, Step, TypeOK, Idle, Busy, counters
  <2>3. Tail(task_list) \in Seq(Tasks) /\ Head(task_list) \in Tasks
    BY <1>10 DEF Take, TypeOK
  <2> QED
    BY <1>10, <2>1, <2>2, <2>3 DEF Take, TypeOK
<1>11. ASSUME NEW w \in Workers, Return(w) PROVE TypeOK'
  <2>1. pc' \in [Workers -> PCs]
    BY <1>11 DEF Return, Step, TypeOK, PCs, Holding, Idle, Busy
  <2> QED
    BY <1>11, <2>1 DEF Return, TypeOK, Owners, counters
<1>12. ASSUME NEW w \in Workers, Count(w) PROVE TypeOK'
  <2>1. pc' \in [Workers -> PCs]
    BY <1>12 DEF Count, Step, TypeOK, PCs, Holding, Idle, Busy
  <2>2. running_task_num' \in Nat /\ watting_task_num' \in Nat
    BY <1>12, Counted DEF Count, Step, TypeOK, Idle, Busy, counters
  <2> QED
    BY <1>12, <2>1, <2>2 DEF Count, TypeOK
<1>13. ASSUME NEW w \in Workers, Stay(w) PROVE TypeOK'
  <2>1. pc' \in [Workers -> PCs]
    BY <1>13 DEF Stay, Step, TypeOK, PCs, Holding, Idle, Busy, AfterLoop
  <2> QED
    BY <1>13, <2>1 DEF Stay, TypeOK, Owners, counters
<1>14. ASSUME NEW w \in Workers, Break(w) PROVE TypeOK'
  <2>1. pc' \in [Workers -> PCs]
    BY <1>14 DEF Break, Step, TypeOK, PCs, Holding, Idle, Busy
  <2>2. running_task_num' \in Nat /\ watting_task_num' \in Nat
    BY <1>14, Counted DEF Break, Step, TypeOK, Idle, Busy, counters
  <2> QED
    BY <1>14, <2>1, <2>2 DEF Break, TypeOK
<1>15. ASSUME NEW w \in Workers, End(w) PROVE TypeOK'
  <2>1. pc' \in [Workers -> PCs]
    BY <1>15 DEF End, Step, TypeOK, PCs, Holding, Idle, Busy
  <2> QED
    BY <1>15, <2>1 DEF End, TypeOK, Owners, counters
<1>16. ASSUME NEW w \in Workers, Remove(w) PROVE TypeOK'
  <2>1. pc' \in [Workers -> PCs]
    BY <1>16 DEF Remove, Step, TypeOK, PCs, Holding, Idle, Busy
  <2> QED
    BY <1>16, <2>1 DEF Remove, TypeOK, Owners, counters
<1>17. CASE Cancel
  BY <1>17 DEF Cancel, TypeOK, Owners, counters
<1>18. CASE NotifyAll
  <2>1. pc' \in [Workers -> PCs]
    BY <1>18 DEF NotifyAll, TypeOK, PCs, Holding, Idle, Busy
  <2> QED
    BY <1>18, <2>1 DEF NotifyAll, TypeOK, Owners, counters
<1>19. ASSUME NEW w \in Workers, Join(w) PROVE TypeOK'
  BY <1>19 DEF Join, TypeOK, Owners, counters
<1>20. CASE Destroy
  BY <1>20 DEF Destroy, TypeOK, Owners, counters
<1>21. CASE UNCHANGED vars
  BY <1>21 DEF vars, TypeOK
<1>22. CASE StartThrows
  BY <1>22 DEF StartThrows, TypeOK, Owners, counters
<1> QED
  BY <1>1, <1>2, <1>3, <1>4, <1>5, <1>6, <1>7, <1>8, <1>9, <1>10, <1>11, <1>12,
     <1>13, <1>14, <1>15, <1>16, <1>17, <1>18, <1>19, <1>20, <1>21, <1>22
  DEF Next, Submitter, Destructor, Worker

-----------------------------------------------------------------------------
(* The theorems. *)

\* The inductive invariant holds at the start.
LEMMA InitIInv == Init => IInv
<1> SUFFICES ASSUME Init PROVE IInv
  OBVIOUS
<1>1. TypeOK
  <2>1. task_list \in Seq(Tasks)
    BY DEF Init
  <2> QED
    BY <2>1 DEF Init, TypeOK, Owners, PCs
<1>2. LockInv /\ OwnerInv /\ JoinsSafely /\ HandledOnce
  BY TaskPoolAssumption
  DEF Init, LockInv, OwnerInv, JoinsSafely, HandledOnce, Holding
<1>3. IdleWorkers = {} /\ BusyWorkers = {}
  BY DEF Init, IdleWorkers, BusyWorkers, Idle, Busy
<1>4. CountersAgree
  BY <1>3, FS_EmptySet DEF Init, CountersAgree
<1> QED
  BY <1>1, <1>2, <1>4 DEF IInv

\* Every step keeps the inductive invariant.
LEMMA NextIInv == IInv /\ [Next]_vars => IInv'
BY LockStep, OwnerStep, JoinsStep, HandledStep, CountersStep, TypeStep
DEF IInv

\* Every reachable state satisfies the inductive invariant.
THEOREM PoolInvariant == Spec => []IInv
BY InitIInv, NextIInv, PTL DEF Spec

\* Type correctness: above all, no counter of the pool drops below zero, where
\* an atomic_uint64_t would wrap around.
THEOREM PoolTypeCorrect == Spec => []TypeOK
<1>1. IInv => TypeOK
  BY DEF IInv
<1> QED
  BY <1>1, PoolInvariant, PTL

\* The counters that Run reads without the mutex are the numbers of workers.
THEOREM PoolCounts == Spec => []CountersAgree
<1>1. IInv => CountersAgree
  BY DEF IInv
<1> QED
  BY <1>1, PoolInvariant, PTL

\* Every connection is handled at most once.
THEOREM PoolHandlesOnce == Spec => []HandledOnce
<1>1. IInv => HandledOnce
  BY DEF IInv
<1> QED
  BY <1>1, PoolInvariant, PTL

\* The destructor reads the list of threads without the mutex; no worker
\* changes it meanwhile, and a worker that leaves finds its own handle.
THEOREM PoolJoinsSafely == Spec => []JoinsSafely
<1>1. IInv => JoinsSafely
  BY DEF IInv
<1> QED
  BY <1>1, PoolInvariant, PTL

\* No thread uses the pool after its destructor has returned.
THEOREM PoolOutlivesWorkers == Spec => []NoUseAfterDestroy
<1>1. IInv => NoUseAfterDestroy
  BY DEF IInv, OwnerInv, JoinsSafely, NoUseAfterDestroy
<1> QED
  BY <1>1, PoolInvariant, PTL

=============================================================================
