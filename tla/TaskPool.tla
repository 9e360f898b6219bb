------------------------------ MODULE TaskPool ------------------------------
(***************************************************************************)
(* src/rbslib/TaskPool.cpp: the thread pool of the HTTP server.  One       *)
(* thread, the accept loop of LoopWait, calls Run for each connection and  *)
(* destroys the pool; every worker runs the lambda of Run.                 *)
(*                                                                         *)
(* The counters are atomic and Run reads watting_task_num without the      *)
(* lock, so the steps a worker takes while it holds the lock are separate  *)
(* actions.  Every test of is_cancel but the destructor's is made with the *)
(* lock held, which is_cancel is set under.                                *)
(***************************************************************************)
EXTENDS Integers, Sequences, FiniteSets

CONSTANTS
    Tasks,    \* connections handed to Run, once each
    Workers,  \* threads that Run may create
    Keep,     \* keep_task_num
    None      \* no thread

ASSUME TaskPoolAssumption ==
    Keep \in Nat /\ None \notin Workers /\ IsFiniteSet(Workers)

VARIABLES
    owner,          \* LoopWait: outside the pool, in Run, unwinding after an
                    \* exception, in the destructor
    task_list,      \* the queue
    task_lock,      \* the holder of the mutex
    running_task_num, watting_task_num,
    threads_handle, \* the threads that are neither joined nor detached
    is_cancel,
    pc,             \* where each worker is
    handled         \* the connections that a worker has taken from the queue

vars == <<owner, task_list, task_lock, running_task_num, watting_task_num,
          threads_handle, is_cancel, pc, handled>>

counters == <<running_task_num, watting_task_num>>

Queued == {task_list[i] : i \in DOMAIN task_list}

Free == task_lock = None

Step(w, from, to) == pc[w] = from /\ pc' = [pc EXCEPT ![w] = to]

Init ==
    /\ owner = "outside" /\ task_list = <<>> /\ task_lock = None
    /\ running_task_num = 0 /\ watting_task_num = 0
    /\ threads_handle = {} /\ is_cancel = FALSE
    /\ pc = [w \in Workers |-> "none"]
    /\ handled = {}

-----------------------------------------------------------------------------
(* Run: push under the lock, then wake a worker or start one.  The thread  *)
(* that was started cannot pass the lock before it is in threads_handle.   *)

Run(t) ==
    /\ owner = "outside" /\ Free /\ t \notin Queued \cup handled
    /\ task_list' = Append(task_list, t)
    /\ owner' = "pushed"
    /\ UNCHANGED <<task_lock, counters, threads_handle, is_cancel, pc,
                   handled>>

\* notify_one: a waiting worker, if there is one, is woken.
Notify ==
    /\ owner = "pushed" /\ watting_task_num > 0
    /\ owner' = "outside"
    /\ LET waiting == {w \in Workers : pc[w] = "waiting"} IN
       IF waiting = {} THEN UNCHANGED pc
       ELSE \E w \in waiting : pc' = [pc EXCEPT ![w] = "woken"]
    /\ UNCHANGED <<task_list, task_lock, counters, threads_handle, is_cancel,
                   handled>>

\* Run reads the counter before it takes the lock again.
MustStart ==
    /\ owner = "pushed" /\ watting_task_num = 0
    /\ owner' = "starting"
    /\ UNCHANGED <<task_list, task_lock, counters, threads_handle, is_cancel,
                   pc, handled>>

StartWorker(w) ==
    /\ owner = "starting" /\ Free
    /\ Step(w, "none", "started")
    /\ threads_handle' = threads_handle \cup {w}
    /\ owner' = "outside"
    /\ UNCHANGED <<task_list, task_lock, counters, is_cancel, handled>>

\* The constructor of std::thread throws, for want of threads: the lock goes, the
\* connection stays in the queue, and LoopWait is left through ~TaskPool.
StartThrows ==
    /\ owner = "starting" /\ Free
    /\ owner' = "unwinding"
    /\ UNCHANGED <<task_list, task_lock, counters, threads_handle, is_cancel,
                   pc, handled>>

-----------------------------------------------------------------------------
(* The worker. *)

\* Line 30, read with the lock held: is_cancel is set under the lock.
AfterLoop == IF is_cancel THEN "ending" ELSE "checking"

\* Mutant: the new thread does not count itself.
Enter_NotCounted(w) ==
    /\ Free /\ Step(w, "started", AfterLoop)
    /\ task_lock' = w
    /\ UNCHANGED <<owner, task_list, counters, threads_handle, is_cancel,
                   handled>>

\* Lines 28-29: the new thread takes the lock and counts itself.
Enter(w) ==
    /\ Free /\ Step(w, "started", AfterLoop)
    /\ task_lock' = w
    /\ watting_task_num' = watting_task_num + 1
    /\ UNCHANGED <<owner, task_list, running_task_num, threads_handle,
                   is_cancel, handled>>

\* Mutant: wait without a predicate.
Wait_NoPredicate(w) ==
    /\ Step(w, "checking", "waiting")
    /\ task_lock' = None
    /\ UNCHANGED <<owner, task_list, counters, threads_handle, is_cancel,
                   handled>>

\* The predicate of wait is false: the worker blocks and lets the lock go.
Wait(w) ==
    /\ task_list = <<>> /\ ~is_cancel
    /\ Step(w, "checking", "waiting")
    /\ task_lock' = None
    /\ UNCHANGED <<owner, task_list, counters, threads_handle, is_cancel,
                   handled>>

\* A woken worker takes the lock again before it looks at the predicate.
Reacquire(w) ==
    /\ Free /\ Step(w, "woken", "checking")
    /\ task_lock' = w
    /\ UNCHANGED <<owner, task_list, counters, threads_handle, is_cancel,
                   handled>>

\* Condition variables may wake without a notification.
SpuriousWake(w) ==
    /\ Step(w, "waiting", "woken")
    /\ UNCHANGED <<owner, task_list, task_lock, counters, threads_handle,
                   is_cancel, handled>>

\* Lines 33-37.
Cancelled(w) ==
    /\ is_cancel
    /\ Step(w, "checking", "ending")
    /\ watting_task_num' = watting_task_num - 1
    /\ UNCHANGED <<owner, task_list, task_lock, running_task_num,
                   threads_handle, is_cancel, handled>>

\* Mutant: the task stays in the queue.
Take_NoPop(w) ==
    /\ task_list # <<>> /\ ~is_cancel
    /\ Step(w, "checking", "running")
    /\ handled' = handled \cup {Head(task_list)}
    /\ watting_task_num' = watting_task_num - 1
    /\ running_task_num' = running_task_num + 1
    /\ task_lock' = None
    /\ UNCHANGED <<owner, task_list, threads_handle, is_cancel>>

\* Lines 38-42.
Take(w) ==
    /\ task_list # <<>> /\ ~is_cancel
    /\ Step(w, "checking", "running")
    /\ handled' = handled \cup {Head(task_list)}
    /\ task_list' = Tail(task_list)
    /\ watting_task_num' = watting_task_num - 1
    /\ running_task_num' = running_task_num + 1
    /\ task_lock' = None
    /\ UNCHANGED <<owner, threads_handle, is_cancel>>

\* func() returns.
Return(w) ==
    /\ Step(w, "running", "returned")
    /\ UNCHANGED <<owner, task_list, task_lock, counters, threads_handle,
                   is_cancel, handled>>

\* Lines 44-46; line 47 comes with the lock still held.
Count(w) ==
    /\ Free /\ Step(w, "returned", "counting")
    /\ task_lock' = w
    /\ running_task_num' = running_task_num - 1
    /\ watting_task_num' = watting_task_num + 1
    /\ UNCHANGED <<owner, task_list, threads_handle, is_cancel, handled>>

TooMany == running_task_num + watting_task_num > Keep

Stay(w) ==
    /\ ~TooMany
    /\ Step(w, "counting", AfterLoop)
    /\ UNCHANGED <<owner, task_list, task_lock, counters, threads_handle,
                   is_cancel, handled>>

\* Mutant: the worker that leaves still counts as waiting.
Break_StillCounted(w) ==
    /\ TooMany
    /\ Step(w, "counting", "ending")
    /\ UNCHANGED <<owner, task_list, task_lock, counters, threads_handle,
                   is_cancel, handled>>

Break(w) ==
    /\ TooMany
    /\ Step(w, "counting", "ending")
    /\ watting_task_num' = watting_task_num - 1
    /\ UNCHANGED <<owner, task_list, task_lock, running_task_num,
                   threads_handle, is_cancel, handled>>

\* Line 53, and line 67 where the lambda returns: a cancelled worker is left
\* to the destructor, any other removes its own handle.
End(w) ==
    /\ IF is_cancel
       THEN Step(w, "ending", "ended") /\ task_lock' = None
       ELSE Step(w, "ending", "removing") /\ UNCHANGED task_lock
    /\ UNCHANGED <<owner, task_list, counters, threads_handle, is_cancel,
                   handled>>

\* Lines 55-65: detach, remove, delete.
Remove(w) ==
    /\ Step(w, "removing", "detached")
    /\ threads_handle' = threads_handle \ {w}
    /\ task_lock' = None
    /\ UNCHANGED <<owner, task_list, counters, is_cancel, handled>>

-----------------------------------------------------------------------------
(* The destructor, in the thread that calls Run. *)

\* Mutant: is_cancel is set without the lock.
Cancel_NoLock ==
    /\ owner \in {"outside", "unwinding"}
    /\ owner' = "cancelled" /\ is_cancel' = TRUE
    /\ UNCHANGED <<task_list, task_lock, counters, threads_handle, pc,
                   handled>>

Cancel ==
    /\ owner \in {"outside", "unwinding"} /\ Free
    /\ owner' = "cancelled" /\ is_cancel' = TRUE
    /\ UNCHANGED <<task_list, task_lock, counters, threads_handle, pc,
                   handled>>

\* Mutant: only one worker is told.
NotifyAll_One ==
    /\ owner = "cancelled"
    /\ owner' = "joining"
    /\ LET waiting == {w \in Workers : pc[w] = "waiting"} IN
       IF waiting = {} THEN UNCHANGED pc
       ELSE \E w \in waiting : pc' = [pc EXCEPT ![w] = "woken"]
    /\ UNCHANGED <<task_list, task_lock, counters, threads_handle, is_cancel,
                   handled>>

NotifyAll ==
    /\ owner = "cancelled"
    /\ owner' = "joining"
    /\ pc' = [w \in Workers |-> IF pc[w] = "waiting" THEN "woken" ELSE pc[w]]
    /\ UNCHANGED <<task_list, task_lock, counters, threads_handle, is_cancel,
                   handled>>

\* Lines 80-87 join and delete thread after thread, without the lock; the
\* members are destroyed after the last one.
Join(w) ==
    /\ owner = "joining" /\ w \in threads_handle /\ pc[w] = "ended"
    /\ threads_handle' = threads_handle \ {w}
    /\ UNCHANGED <<owner, task_list, task_lock, counters, is_cancel, pc,
                   handled>>

\* Mutant: the threads are not joined.
Destroy_NoJoin ==
    /\ owner = "joining"
    /\ owner' = "destroyed"
    /\ UNCHANGED <<task_list, task_lock, counters, threads_handle, is_cancel,
                   pc, handled>>

Destroy ==
    /\ owner = "joining" /\ threads_handle = {}
    /\ owner' = "destroyed"
    /\ UNCHANGED <<task_list, task_lock, counters, threads_handle, is_cancel,
                   pc, handled>>

-----------------------------------------------------------------------------
Worker(w) ==
    \/ Enter(w) \/ Wait(w) \/ Reacquire(w) \/ Cancelled(w) \/ Take(w)
    \/ Count(w) \/ Stay(w) \/ Break(w) \/ End(w) \/ Remove(w)

Submitter ==
    \/ Notify \/ MustStart \/ StartThrows
    \/ owner = "unwinding" /\ Cancel
    \/ \E w \in Workers : StartWorker(w)

Destructor == NotifyAll \/ Destroy \/ \E w \in Workers : Join(w)

Next ==
    \/ \E t \in Tasks : Run(t)
    \/ Submitter \/ Cancel \/ Destructor
    \/ \E w \in Workers : Worker(w) \/ SpuriousWake(w) \/ Return(w)

Spec == Init /\ [][Next]_vars

\* The scheduler runs every thread.  A mutex may pass a thread over while
\* others take it, but not for ever: strong fairness, which is more than weak
\* fairness only where a thread needs the lock.
ThreadFairness ==
    /\ SF_vars(Submitter) /\ WF_vars(Destructor)
    /\ \A w \in Workers : SF_vars(Worker(w))

\* Every handler comes back: its client sends its request and hangs up.
HandlersReturn == \A w \in Workers : WF_vars(Return(w))

FairSpec == Spec /\ ThreadFairness /\ HandlersReturn

-----------------------------------------------------------------------------
Owners  == {"outside", "pushed", "starting", "unwinding", "cancelled",
            "joining", "destroyed"}
Holding == {"checking", "counting", "ending", "removing"}
Idle    == {"checking", "waiting", "woken", "counting"}
Busy    == {"running", "returned"}
PCs     == Holding \cup Idle \cup Busy
           \cup {"none", "started", "ended", "detached"}

TypeOK ==
    /\ owner \in Owners
    /\ task_list \in Seq(Tasks)
    /\ task_lock \in Workers \cup {None}
    /\ running_task_num \in Nat /\ watting_task_num \in Nat
    /\ threads_handle \subseteq Workers
    /\ is_cancel \in BOOLEAN
    /\ pc \in [Workers -> PCs]
    /\ handled \subseteq Tasks

IdleWorkers == {w \in Workers : pc[w] \in Idle}
BusyWorkers == {w \in Workers : pc[w] \in Busy}

\* The counters that Run and the workers decide by are the numbers of threads
\* they stand for.  Only a thread that starts after is_cancel stays counted.
CountersAgree ==
    /\ running_task_num = Cardinality(BusyWorkers)
    /\ watting_task_num >= Cardinality(IdleWorkers)
    /\ ~is_cancel => watting_task_num = Cardinality(IdleWorkers)

\* No connection is handled twice: none is queued twice, and none that a
\* worker has taken is still, or again, in the queue.
HandledOnce ==
    /\ \A i, j \in DOMAIN task_list : i # j => task_list[i] # task_list[j]
    /\ \A i \in DOMAIN task_list : task_list[i] \notin handled

\* The destructor goes through threads_handle without the lock: nobody
\* removes a handle under its feet, and every worker that still runs code of
\* the pool is among them.  A worker that leaves finds its own handle there:
\* line 55 leaves ptr unset otherwise.
JoinsSafely ==
    \A w \in Workers :
        /\ pc[w] = "removing" => ~is_cancel
        /\ pc[w] \notin {"none", "ended", "detached"} => w \in threads_handle

\* A destroyed pool is used by no thread.
NoUseAfterDestroy ==
    owner = "destroyed" =>
        \A w \in Workers : pc[w] \in {"none", "ended", "detached"}

\* A connection that was handed to Run is taken by a worker unless the server
\* stops first, although Run may have woken a worker that was about to leave; the
\* server stops, too, when a worker is needed for it and none can be started.
TaskIsTaken ==
    \A t \in Tasks : t \in Queued ~> t \in handled \/ is_cancel

\* The destructor returns when the handlers do.
PoolEnds == is_cancel ~> owner = "destroyed"

=============================================================================
