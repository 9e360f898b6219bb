----------------------------- MODULE HttpServer -----------------------------
(***************************************************************************)
(* The connections of the web panel (src/rbslib/Network.cpp): LoopWait     *)
(* accepts them and hands each to the task pool, and the handles through   *)
(* which its thread and the workers share one socket.                      *)
(*                                                                         *)
(* A TCPConnection is two pointers, to a mutex and to a counter that all   *)
(* copies of it have in common; the handle that counts down to zero closes *)
(* the socket and deletes both.  The task, a lambda, has a handle in it,   *)
(* so whoever copies or drops a task copies or drops a handle.             *)
(*                                                                         *)
(* Which worker runs, and when one is started, is module TaskPool; here    *)
(* any worker takes the next task.                                         *)
(***************************************************************************)
EXTENDS Integers, Sequences, FiniteSets

CONSTANTS
    Connections,    \* those that are accepted
    Workers,        \* threads of the pool
    Loop,           \* the thread of LoopWait
    None

\* connection is LoopWait's, closure the lambda it makes, func Run's parameter.
Locals  == {"connection", "closure", "func"}
Threads == Workers \cup {Loop}

\* A task in the list is named by its connection, func of a worker by the worker.
Handles == Locals \cup Connections \cup Workers

ASSUME HttpServerAssumption ==
    /\ IsFiniteSet(Connections) /\ IsFiniteSet(Workers)
    /\ Loop \notin Workers /\ None \notin Connections \cup Threads
    /\ None \notin Nat /\ "deleted" \notin Threads \cup {None}
    /\ Locals \cap (Connections \cup Workers) = {} /\ Connections \cap Workers = {}

VARIABLES
    pc,                 \* what each thread is about to do
    sock,               \* of each connection: new, open, closed
    counter,            \* what reference_counter points to
    mutex,              \* None, the thread that has it, or deleted
    handle,             \* the pointers of each handle
    reg,                \* what a thread that holds a mutex read in the counter
    task_list, task_lock, is_cancel

pool == <<task_list, task_lock, is_cancel>>
vars == <<pc, sock, counter, mutex, handle, reg, pool>>

Null == [mutex |-> None, reference_counter |-> None]
To(c) == [mutex |-> c, reference_counter |-> c]

Init ==
    /\ pc = [t \in Threads |-> IF t = Loop THEN "accept" ELSE "wait"]
    /\ sock = [c \in Connections |-> "new"]
    /\ counter = [c \in Connections |-> 0]
    /\ mutex = [c \in Connections |-> None]
    /\ handle = [h \in Handles |-> Null]
    /\ reg = [t \in Threads |-> None]
    /\ task_list = <<>> /\ task_lock = None /\ is_cancel = FALSE

(***************************************************************************)
(* Where a handle is copied, moved or destroyed                            *)
(***************************************************************************)

Copying == {"capture", "push", "take"}
Closing == {"dropFunc", "dropConnection", "pop", "dropTask", "clear"}
Using   == Copying \cup {"move"} \cup Closing

Source(t) ==
    CASE pc[t] \in {"capture", "dropConnection"} -> "connection"
      [] pc[t] = "move"                          -> "closure"
      [] pc[t] \in {"push", "dropFunc"}          -> "func"
      [] pc[t] \in {"take", "pop", "clear"}      -> Head(task_list)
      [] OTHER                                   -> t

\* It is about to look at its handle; an empty list has none to destroy.
Wants(t) ==
    /\ pc[t] \in Using /\ reg[t] = None
    /\ pc[t] = "clear" => task_list # <<>>

\* c is the connection.
Destination(t, c) ==
    CASE pc[t] = "capture" -> "closure"
      [] pc[t] = "move"    -> "func"
      [] pc[t] = "push"    -> c
      [] OTHER             -> t

After ==
    [capture  |-> "move",           move  |-> "enqueue",
     push     |-> "dropFunc",       dropFunc |-> "dropConnection",
     dropConnection |-> "accept",   take  |-> "pop",
     pop      |-> "run",            dropTask |-> "wait",
     clear    |-> "clear"]

\* A task is pushed, and taken out, under the lock of the pool; and the task of
\* a worker goes at the end of the loop's body, where the worker has that lock.
Passed(t, c) ==
    /\ pc' = [pc EXCEPT ![t] = After[@]]
    /\ task_list' = IF pc[t] = "push" THEN Append(task_list, c)
                    ELSE IF pc[t] \in {"pop", "clear"} THEN Tail(task_list)
                    ELSE task_list
    /\ task_lock' = IF pc[t] \in {"push", "pop", "dropTask"} THEN None ELSE task_lock
    /\ UNCHANGED is_cancel

\* Mutant: the counter is changed without the mutex.
Lock_Not(t) ==
    /\ Wants(t)
    /\ LET c == handle[Source(t)].reference_counter
       IN  /\ c # None
           /\ reg' = [reg EXCEPT ![t] = counter[c]]
    /\ UNCHANGED <<pc, sock, counter, mutex, handle, pool>>

\* Whoever wants to change the counter takes the mutex and reads it.
Lock(t) ==
    /\ Wants(t)
    /\ LET c == handle[Source(t)].reference_counter
       IN  /\ c # None /\ mutex[c] = None
           /\ mutex' = [mutex EXCEPT ![c] = t]
           /\ reg' = [reg EXCEPT ![t] = counter[c]]
    /\ UNCHANGED <<pc, sock, counter, handle, pool>>

Unlock(t, c) ==
    /\ mutex' = [mutex EXCEPT ![c] = None]
    /\ reg' = [reg EXCEPT ![t] = None]

\* Mutant: the new handle is not counted.
Copy_NoCount(t) ==
    /\ pc[t] \in Copying /\ reg[t] # None
    /\ LET c == handle[Source(t)].reference_counter
       IN  /\ handle' = [handle EXCEPT ![Destination(t, c)] = To(c)]
           /\ Unlock(t, c)
           /\ Passed(t, c)
    /\ UNCHANGED <<sock, counter>>

Copy(t) ==
    /\ pc[t] \in Copying /\ reg[t] # None
    /\ LET c == handle[Source(t)].reference_counter
       IN  /\ counter' = [counter EXCEPT ![c] = reg[t] + 1]
           /\ handle' = [handle EXCEPT ![Destination(t, c)] = To(c)]
           /\ Unlock(t, c)
           /\ Passed(t, c)
    /\ UNCHANGED sock

\* Mutant: what is moved from keeps its pointers.
Move_Keeps(t) ==
    /\ pc[t] = "move" /\ reg[t] # None
    /\ LET c == handle[Source(t)].reference_counter
       IN  /\ handle' = [handle EXCEPT ![Destination(t, c)] = To(c)]
           /\ Unlock(t, c)
           /\ Passed(t, c)
    /\ UNCHANGED <<sock, counter>>

\* The new handle counts for the old one.
Move(t) ==
    /\ pc[t] = "move" /\ reg[t] # None
    /\ LET c == handle[Source(t)].reference_counter
       IN  /\ handle' = [handle EXCEPT ![Source(t)] = Null,
                                       ![Destination(t, c)] = To(c)]
           /\ Unlock(t, c)
           /\ Passed(t, c)
    /\ UNCHANGED <<sock, counter>>

\* Close, of a handle that is not the last.
Drop(t) ==
    /\ pc[t] \in Closing /\ reg[t] # None /\ reg[t] > 1
    /\ LET c == handle[Source(t)].reference_counter
       IN  /\ counter' = [counter EXCEPT ![c] = reg[t] - 1]
           /\ handle' = [handle EXCEPT ![Source(t)] = Null]
           /\ Unlock(t, c)
           /\ Passed(t, c)
    /\ UNCHANGED sock

\* Close, of the last: the mutex is let go, and deleted after that.
DropLast(t) ==
    /\ pc[t] \in Closing /\ reg[t] # None /\ reg[t] <= 1
    /\ LET c == handle[Source(t)].reference_counter
       IN  /\ sock' = [sock EXCEPT ![c] = "closed"]
           /\ counter' = [counter EXCEPT ![c] = 0]
           /\ handle' = [handle EXCEPT ![Source(t)].reference_counter = None]
           /\ Unlock(t, c)
    /\ UNCHANGED <<pc, pool>>

DeleteMutex(t) ==
    /\ pc[t] \in Closing /\ Wants(t)
    /\ LET h == handle[Source(t)]
       IN  /\ h.reference_counter = None /\ h.mutex # None
           /\ mutex' = [mutex EXCEPT ![h.mutex] = "deleted"]
           /\ handle' = [handle EXCEPT ![Source(t)] = Null]
           /\ Passed(t, h.mutex)
    /\ UNCHANGED <<sock, counter, reg>>

(***************************************************************************)
(* LoopWait                                                                *)
(***************************************************************************)

Goto(t, place) == pc' = [pc EXCEPT ![t] = place]

Accept(c) ==
    /\ pc[Loop] = "accept" /\ sock[c] = "new"
    /\ sock' = [sock EXCEPT ![c] = "open"]
    /\ counter' = [counter EXCEPT ![c] = 1]
    /\ handle' = [handle EXCEPT !["connection"] = To(c)]
    /\ Goto(Loop, "capture")
    /\ UNCHANGED <<mutex, reg, pool>>

\* accept fails, because of Disable or for any reason of its own, or Run has thrown
\* when it could start no thread: LoopWait is left and the pool is destroyed.
AcceptFails ==
    /\ pc[Loop] = "accept"
    /\ Goto(Loop, "cancel")
    /\ UNCHANGED <<sock, counter, mutex, handle, reg, pool>>

Enqueue ==
    /\ pc[Loop] = "enqueue" /\ task_lock = None
    /\ task_lock' = Loop
    /\ Goto(Loop, "push")
    /\ UNCHANGED <<sock, counter, mutex, handle, reg, task_list, is_cancel>>

Cancel ==
    /\ pc[Loop] = "cancel" /\ task_lock = None
    /\ is_cancel' = TRUE
    /\ Goto(Loop, "join")
    /\ UNCHANGED <<sock, counter, mutex, handle, reg, task_list, task_lock>>

\* Every worker has ended; tasks nobody took are destroyed with the list.
Join ==
    /\ pc[Loop] = "join"
    /\ \A w \in Workers : pc[w] = "gone"
    /\ Goto(Loop, "clear")
    /\ UNCHANGED <<sock, counter, mutex, handle, reg, pool>>

\* Mutant: the tasks that are left are not destroyed.
Cleared_Leaks ==
    /\ pc[Loop] = "clear"
    /\ Goto(Loop, "done")
    /\ UNCHANGED <<sock, counter, mutex, handle, reg, pool>>

Cleared ==
    /\ pc[Loop] = "clear" /\ task_list = <<>>
    /\ Goto(Loop, "done")
    /\ UNCHANGED <<sock, counter, mutex, handle, reg, pool>>

(***************************************************************************)
(* A worker                                                                *)
(***************************************************************************)

Wake(w) ==
    /\ pc[w] = "wait" /\ task_lock = None
    /\ ~is_cancel /\ task_list # <<>>
    /\ task_lock' = w
    /\ Goto(w, "take")
    /\ UNCHANGED <<sock, counter, mutex, handle, reg, task_list, is_cancel>>

Leave(w) ==
    /\ pc[w] = "wait" /\ task_lock = None /\ is_cancel
    /\ Goto(w, "gone")
    /\ UNCHANGED <<sock, counter, mutex, handle, reg, pool>>

\* Recv and Send, until the client hangs up or wants no more.
Return(w) ==
    /\ pc[w] = "run"
    /\ Goto(w, "return")
    /\ UNCHANGED <<sock, counter, mutex, handle, reg, pool>>

Relock(w) ==
    /\ pc[w] = "return" /\ task_lock = None
    /\ task_lock' = w
    /\ Goto(w, "dropTask")
    /\ UNCHANGED <<sock, counter, mutex, handle, reg, task_list, is_cancel>>

HandleStep(t) ==
    Lock(t) \/ Copy(t) \/ Move(t) \/ Drop(t) \/ DropLast(t) \/ DeleteMutex(t)

LoopStep   == HandleStep(Loop) \/ Enqueue \/ Cancel \/ Join \/ Cleared
WorkerStep(w) == HandleStep(w) \/ Wake(w) \/ Leave(w) \/ Return(w) \/ Relock(w)

Next ==
    \/ LoopStep \/ AcceptFails
    \/ \E c \in Connections : Accept(c)
    \/ \E w \in Workers : WorkerStep(w)

Spec == Init /\ [][Next]_vars

\* Threads run, mutexes pass none over for ever, and clients hang up.
FairSpec ==
    /\ Spec /\ SF_vars(LoopStep)
    /\ \A w \in Workers : SF_vars(WorkerStep(w))

-----------------------------------------------------------------------------

\* Each variable has its type.
TypeOK ==
    /\ pc \in [Threads -> Using \cup {"accept", "enqueue", "cancel", "join", "done",
                                      "wait", "run", "return", "gone"}]
    /\ sock \in [Connections -> {"new", "open", "closed"}]
    /\ counter \in [Connections -> Nat]
    /\ mutex \in [Connections -> Threads \cup {None, "deleted"}]
    /\ handle \in [Handles -> [mutex : Connections \cup {None},
                               reference_counter : Connections \cup {None}]]
    /\ reg \in [Threads -> Nat \cup {None}]
    /\ task_list \in Seq(Connections)
    /\ task_lock \in Threads \cup {None} /\ is_cancel \in BOOLEAN

Holders(c) == {h \in Handles : handle[h].reference_counter = c}

\* Whoever finds the mutex free finds in the counter how many handles there are,
\* whatever the threads that copy and drop them do at the same time.
CountersExact ==
    \A c \in Connections :
        mutex[c] = None => counter[c] = Cardinality(Holders(c))

\* Nobody locks a mutex that was deleted, or talks to a client through a socket
\* that was closed.
NoUseAfterClose ==
    /\ \A t \in Threads : Wants(t) =>
              /\ handle[Source(t)].mutex # None
              /\ mutex[handle[Source(t)].mutex] # "deleted"
    /\ \A w \in Workers : pc[w] = "run" =>
          \E c \in Connections : handle[w] = To(c) /\ sock[c] = "open"

SharedSockets == INSTANCE SharedSocket
                     WITH holders <- [c \in Connections |-> Holders(c)]

\* A socket is closed once, with the last handle and not before.
SocketsShared == SharedSockets!Spec

\* Every connection that was accepted is closed, whether a worker has served it
\* or LoopWait has ended before one came to it: no descriptor is left behind.
SocketCloses ==
    \A c \in Connections : sock[c] = "open" ~> sock[c] = "closed"

=============================================================================
