---------------------------- MODULE AccessProofs ----------------------------
(***************************************************************************)
(* Proofs about AccessLists, for any names, logins, workers and commands,  *)
(* with a disk that may fail and a process that may end at any step.       *)
(***************************************************************************)
EXTENDS AccessLists, SequenceTheorems, TLAPS

\* The mutex has a holder between two steps exactly while somebody saves.
LockInv == \A t \in Threads : pc[t] \in {"open", "write"} <=> lock = t

\* A job that is being done has names left, and a list if it changes one.  A
\* process that is not up has neither jobs nor logins.
JobInv ==
    /\ \A t \in Threads :
        /\ pc[t] \in {"change", "open", "write", "kick"} => job[t].names # <<>>
        /\ pc[t] \in {"change", "open", "write"} => job[t].list \in Kinds
    /\ \A w \in Workers : pc[w] \notin {"down", "creating", "reading"}
    /\ ~Up => /\ \A w \in Workers : pc[w] = "idle"
              /\ \A c \in Logins : stage[c] = "out"
              /\ swept = {}

\* Names that were swept are banned; a login that on_login let through with
\* such a name had been let through before the sweep.
BanInv ==
    /\ \A n \in swept : lists["black"][n] > 0
    /\ \A c \in Logins :
        /\ stage[c] # "out" => who[c] \in Names
        /\ InCheck(c) => who[c] \notin swept
        /\ stage[c] \in {"admitted", "online"} /\ who[c] \in swept
              => c \in overtook

\* What on_login has found so far, if nothing or one thing changed meanwhile.
CheckInv ==
    \A c \in Logins :
        /\ stage[c] = "out" => moves[c] = 0
        /\ InCheck(c) /\ moves[c] = 0 =>
              /\ lists["black"][who[c]] = 0
              /\ stage[c] = "white" => on
        /\ stage[c] = "switch" /\ moves[c] <= 1 =>
              (on => lists["white"][who[c]] > 0) \in seen[c]
        /\ stage[c] = "white" /\ moves[c] <= 1 =>
              (lists["white"][who[c]] > 0) \in seen[c]

IInv == TypeOK /\ OneEntry /\ FileFollows /\ LockInv /\ JobInv /\ BanInv
        /\ CheckInv

-----------------------------------------------------------------------------
\* The lines of the console name somebody.
LEMMA LineNames == ASSUME NEW s \in Lines
                   PROVE s \in Seq(Names) /\ s # <<>>
  BY AccessAssumption

\* What is left of a list of names is one.
LEMMA RestNames ==
    ASSUME NEW s \in Seq(Names), s # <<>>
    PROVE  Head(s) \in Names /\ Tail(s) \in Seq(Names)
  BY HeadTailProperties

-----------------------------------------------------------------------------
(* The invariant, conjunct by conjunct. *)

\* The jobs that the console and the panel start.
LEMMA JobTypes ==
    /\ \A j \in ConsoleJobs : /\ j \in Job /\ j.names # <<>>
                              /\ j.list # None => j.list \in Kinds
    /\ \A k \in Kinds, a \in BOOLEAN, n \in Names :
          /\ Change(k, a, FALSE, <<n>>) \in Job
          /\ Change(k, a, FALSE, <<n>>).names # <<>>
          /\ Change(k, a, FALSE, <<n>>).list \in Kinds
    /\ \A n \in Names : /\ KickOnly(<<n>>) \in Job
                        /\ KickOnly(<<n>>).names # <<>>
    /\ NoJob \in Job
<1>1. ASSUME NEW s \in Seq(Names), s # <<>>, NEW k \in Kinds,
             NEW a \in BOOLEAN, NEW kick \in BOOLEAN
      PROVE  /\ Change(k, a, kick, s) \in Job
             /\ Change(k, a, kick, s).names # <<>>
             /\ Change(k, a, kick, s).list \in Kinds
  BY <1>1 DEF Change, Job
<1>2. ASSUME NEW s \in Lines
      PROVE  /\ KickOnly(s) \in Job /\ KickOnly(s).names # <<>>
             /\ KickOnly(s).list = None
  BY <1>2, LineNames DEF KickOnly, Job
<1>3. ASSUME NEW j \in ConsoleJobs
      PROVE  /\ j \in Job /\ j.names # <<>>
             /\ j.list # None => j.list \in Kinds
  <2>1. PICK s \in Lines :
            j \in {Change("white", TRUE, FALSE, s),
                  Change("white", FALSE, FALSE, s),
                  Change("black", TRUE, TRUE, s),
                  Change("black", FALSE, FALSE, s), KickOnly(s)}
    BY <1>3 DEF ConsoleJobs
  <2>2. "white" \in Kinds /\ "black" \in Kinds
    BY DEF Kinds
  <2> QED
    BY <1>1, <1>2, <2>1, <2>2, LineNames
<1>4. ASSUME NEW n \in Names
      PROVE  /\ <<n>> \in Seq(Names) /\ <<n>> # <<>>
  BY <1>4
<1>5. ASSUME NEW k \in Kinds, NEW a \in BOOLEAN, NEW n \in Names
      PROVE  /\ Change(k, a, FALSE, <<n>>) \in Job
             /\ Change(k, a, FALSE, <<n>>).names # <<>>
             /\ Change(k, a, FALSE, <<n>>).list \in Kinds
  BY <1>1, <1>4, <1>5
<1>6. \A n \in Names : /\ KickOnly(<<n>>) \in Job
                       /\ KickOnly(<<n>>).names # <<>>
  BY <1>4 DEF KickOnly, Job
<1>7. <<>> \in Seq(Names)
  OBVIOUS
<1>8. NoJob \in Job
  BY <1>7 DEF NoJob, Job
<1> QED
  BY <1>3, <1>5, <1>6, <1>8

\* A thread that is done with a name, or that an exception has stopped, goes to
\* a place its job allows, and the others stay where they are.
LEMMA NextJob ==
    ASSUME TypeOK, JobInv, NEW t \in Threads, job[t].names # <<>>,
           NextName(t) \/ Abandon(t)
    PROVE  /\ pc' \in [Threads -> PCs] /\ job' \in [Threads -> Job]
           /\ pc'[t] \in {"idle", "change", "kick"}
           /\ pc'[t] \in {"change", "kick"} => job'[t].names # <<>>
           /\ pc'[t] = "change" => job'[t].list \in Kinds
           /\ \A u \in Threads \ {t} : pc'[u] = pc[u] /\ job'[u] = job[u]
<1> DEFINE j == job[t]
           rest == Tail(j.names)
<1>1. j \in Job /\ rest \in Seq(Names) /\ j.list \in Kinds \cup {None}
  BY RestNames DEF TypeOK, Job
<1>2. CASE Abandon(t)
  BY <1>2, JobTypes DEF Abandon, TypeOK, PCs
<1>3. CASE NextName(t) /\ rest = <<>>
  BY <1>2, <1>3 DEF NextName
<1>4. CASE NextName(t) /\ rest # <<>>
  <2>1. /\ pc' = [pc EXCEPT ![t] = IF j.list = None THEN "kick" ELSE "change"]
        /\ job' = [job EXCEPT ![t].names = rest]
    BY <1>4 DEF NextName
  <2>2. [j EXCEPT !.names = rest] \in Job
    BY <1>1 DEF Job
  <2>3. /\ job'[t] = [j EXCEPT !.names = rest]
        /\ job'[t].names = rest /\ job'[t].list = j.list
        /\ job' \in [Threads -> Job]
        /\ \A u \in Threads \ {t} : job'[u] = job[u]
    BY <1>1, <2>1, <2>2 DEF TypeOK, Job
  <2>4. /\ pc' \in [Threads -> PCs]
        /\ pc'[t] \in {"change", "kick"}
        /\ pc'[t] = "change" => j.list # None
        /\ \A u \in Threads \ {t} : pc'[u] = pc[u]
    BY <2>1 DEF TypeOK, PCs
  <2> QED
    BY <1>1, <1>4, <2>3, <2>4
<1> QED
  BY <1>2, <1>3, <1>4

\* The bookkeeping of a change keeps its types.
LEMMA WatchTypes ==
    ASSUME TypeOK, NEW ls, NEW o, Watch(ls, o)
    PROVE  seen' \in [Logins -> SUBSET BOOLEAN] /\ moves' \in [Logins -> 0..2]
<1>1. ASSUME NEW c \in Logins PROVE Verdict(ls, o, who[c]) \in BOOLEAN
  BY DEF Verdict
<1> QED
  BY <1>1 DEF Watch, TypeOK

\* A login that on_login decides about.
LEMMA LoginTypes ==
    ASSUME TypeOK, NEW c \in Logins, Leave(c) \/ Admit(c)
    PROVE  /\ stage' = [stage EXCEPT ![c] = stage'[c]]
           /\ stage'[c] \in {"out", "admitted"}
           /\ stage' \in [Logins -> {"out", "switch", "white", "admitted",
                                     "online", "leaving"}]
           /\ who' \in [Logins -> Names \cup {None}]
           /\ seen' \in [Logins -> SUBSET BOOLEAN]
           /\ moves' \in [Logins -> 0..2] /\ overtook' \subseteq Logins
  BY DEF Leave, Admit, TypeOK

\* What a process that starts has in memory.
LEMMA FreshTypes ==
    /\ NoLists \in Lists /\ Stopped \in [Threads -> PCs]
    /\ NoJobs \in [Threads -> Job]
    /\ AllOut \in [Logins -> {"out", "switch", "white", "admitted", "online",
                            "leaving"}]
    /\ NoNames \in [Logins -> Names \cup {None}]
    /\ Unseen \in [Logins -> SUBSET BOOLEAN] /\ Unmoved \in [Logins -> 0..2]
<1>1. NoLists \in Lists
  BY DEF NoLists, Lists
<1>2. Stopped \in [Threads -> PCs]
  BY DEF Stopped, PCs
<1>3. NoJobs \in [Threads -> Job]
  BY JobTypes DEF NoJobs
<1>4. /\ AllOut \in [Logins -> {"out", "switch", "white", "admitted",
                              "online", "leaving"}]
      /\ NoNames \in [Logins -> Names \cup {None}]
      /\ Unseen \in [Logins -> SUBSET BOOLEAN] /\ Unmoved \in [Logins -> 0..2]
  BY DEF AllOut, NoNames, Unseen, Unmoved
<1> QED
  BY <1>1, <1>2, <1>3, <1>4

\* If nothing has changed, one look would still say what the last one said.
LEMMA StillSays ==
    ASSUME TypeOK, CheckInv, NEW c \in Logins, InCheck(c), moves[c] = 0
    PROVE  (on => lists["white"][who[c]] > 0) \in seen[c]
<1>1. CASE stage[c] = "switch"
  BY <1>1 DEF CheckInv
<1>2. CASE stage[c] = "white"
  BY <1>2 DEF CheckInv, InCheck
<1> QED
  BY <1>1, <1>2 DEF InCheck

\* A change is noted by the logins that on_login is deciding about.
LEMMA Noted ==
    ASSUME TypeOK, BanInv, NEW ls, NEW o, Watch(ls, o), UNCHANGED logins,
           NEW c \in Logins
    PROVE  /\ ~InCheck(c) => UNCHANGED <<stage[c], moves[c]>>
           /\ InCheck(c) /\ moves[c] > 0 => moves'[c] = 2
           /\ InCheck(c) /\ moves[c] = 0 =>
                 /\ moves'[c] = 1 /\ who[c] \in Names
                 /\ seen'[c] = seen[c] \cup {Verdict(ls, o, who[c])}
           /\ UNCHANGED <<stage[c], who[c]>>
  BY DEF Watch, InCheck, TypeOK, BanInv, logins

\* Every step keeps the types.
LEMMA TypeStep == TypeOK /\ JobInv /\ [Next]_vars => TypeOK'
<1> SUFFICES ASSUME TypeOK /\ JobInv, [Next]_vars PROVE TypeOK'
  OBVIOUS
<1>1. CASE InitCreate
  BY <1>1, AccessAssumption
  DEF InitCreate, Goto, TypeOK, PCs, threads, logins, watch, bans
<1>2. CASE InitCreated
  BY <1>2, FreshTypes
  DEF InitCreated, Goto, TypeOK, PCs, threads, logins, watch, bans
<1>3. CASE InitRead
  BY <1>3 DEF InitRead, TypeOK, PCs, Threads, Up, threads, logins, watch, bans
<1>4. CASE Crash
  BY <1>4, FreshTypes DEF Crash, TypeOK
<1>5. CASE Command
  <2>1. PICK j \in ConsoleJobs :
            /\ Goto(Main, "idle", IF j.list = None THEN "kick" ELSE "change")
            /\ job' = [job EXCEPT ![Main] = j]
    BY <1>5 DEF Command
  <2>2. j \in Job
    BY JobTypes
  <2> QED
    BY <1>5, <2>1, <2>2 DEF Command, Goto, TypeOK, PCs, logins, watch, bans
<1>6. ASSUME NEW t \in Workers, PanelCheck(t) PROVE TypeOK'
  <2>1. PICK k \in Kinds, a \in BOOLEAN, n \in Names :
            job' = [job EXCEPT ![t] = Change(k, a, FALSE, <<n>>)]
    BY <1>6 DEF PanelCheck
  <2>2. Change(k, a, FALSE, <<n>>) \in Job
    BY <2>1, JobTypes
  <2> QED
    BY <1>6, <2>1, <2>2 DEF PanelCheck, Goto, TypeOK, PCs, logins, watch, bans
<1>7. ASSUME NEW t \in Workers, PanelKick(t) PROVE TypeOK'
  BY <1>7, JobTypes DEF PanelKick, Goto, TypeOK, PCs, logins, watch, bans
<1>8. ASSUME NEW t \in Threads, SwitchCheck(t) PROVE TypeOK'
  BY <1>8, AccessAssumption
  DEF SwitchCheck, Goto, TypeOK, PCs, threads, logins, watch, bans
<1>9. ASSUME NEW t \in Threads, ChangeList(t) PROVE TypeOK'
  <2> DEFINE j == job[t]
             n == Head(j.names)
             after == [lists EXCEPT ![j.list][n] =
                           IF j.add THEN @ + 1 ELSE @ - 1]
  <2>1. pc[t] = "change" /\ j \in Job /\ j.list \in Kinds /\ n \in Names
    BY <1>9, RestNames DEF ChangeList, Goto, TypeOK, JobInv, Job
  <2>2. IF j.add THEN lists[j.list][n] = 0 ELSE lists[j.list][n] > 0
    BY <1>9 DEF ChangeList, Possible
  <2>3. after \in Lists
    BY <2>1, <2>2 DEF TypeOK, Lists
  <2>4. lists' = after /\ Watch(after, on)
    BY <1>9 DEF ChangeList
  <2>5. seen' \in [Logins -> SUBSET BOOLEAN] /\ moves' \in [Logins -> 0..2]
    BY <2>4, WatchTypes
  <2> QED
    BY <1>9, <2>3, <2>4, <2>5 DEF ChangeList, Goto, TypeOK, PCs, logins
<1>10. ASSUME NEW t \in Threads, ChangeThrows(t) PROVE TypeOK'
  <2>1. pc' \in [Threads -> PCs] /\ job' \in [Threads -> Job]
    BY <1>10, NextJob DEF ChangeThrows, JobInv
  <2> QED
    BY <1>10, <2>1 DEF ChangeThrows, TypeOK, logins, watch, bans
<1>11. ASSUME NEW t \in Threads, SaveOpen(t) PROVE TypeOK'
  BY <1>11, AccessAssumption
  DEF SaveOpen, Goto, TypeOK, PCs, threads, logins, watch, bans
<1>12. ASSUME NEW t \in Threads, SaveOpenThrows(t) PROVE TypeOK'
  <2>1. pc' \in [Threads -> PCs] /\ job' \in [Threads -> Job]
    BY <1>12, NextJob DEF SaveOpenThrows, JobInv
  <2> QED
    BY <1>12, <2>1 DEF SaveOpenThrows, TypeOK, logins, watch, bans
<1>13. ASSUME NEW t \in Threads, SaveWrite(t) PROVE TypeOK'
  <2>1. pc' \in [Threads -> PCs] /\ job' \in [Threads -> Job]
    <3>1. CASE NextName(t) \/ Abandon(t)
      BY <1>13, <3>1, NextJob DEF SaveWrite, JobInv
    <3>2. CASE pc' = [pc EXCEPT ![t] = "kick"] /\ UNCHANGED job
      BY <3>2 DEF TypeOK, PCs
    <3> QED
      BY <1>13, <3>1, <3>2 DEF SaveWrite, Saved
  <2> QED
    BY <1>13, <2>1 DEF SaveWrite, TypeOK, logins, watch, bans
<1>14. ASSUME NEW t \in Threads, SaveWriteFails(t) PROVE TypeOK'
  <2>1. pc' \in [Threads -> PCs] /\ job' \in [Threads -> Job]
    <3>1. CASE NextName(t) \/ Abandon(t)
      BY <1>14, <3>1, NextJob DEF SaveWriteFails, JobInv
    <3>2. CASE pc' = [pc EXCEPT ![t] = "kick"] /\ UNCHANGED job
      BY <3>2 DEF TypeOK, PCs
    <3> QED
      BY <1>14, <3>1, <3>2 DEF SaveWriteFails, Saved
  <2> QED
    BY <1>14, <2>1 DEF SaveWriteFails, TypeOK, logins, watch, bans
<1>15. ASSUME NEW t \in Threads, SwitchSet(t) PROVE TypeOK'
  <2>1. on' \in BOOLEAN /\ Watch(lists, on')
    BY <1>15 DEF SwitchSet
  <2>2. seen' \in [Logins -> SUBSET BOOLEAN] /\ moves' \in [Logins -> 0..2]
    BY <2>1, WatchTypes
  <2> QED
    BY <1>15, <2>1, <2>2 DEF SwitchSet, TypeOK, PCs, logins, bans
<1>16. ASSUME NEW t \in Threads, Kick(t) PROVE TypeOK'
  <2> DEFINE n == Head(job[t].names)
  <2>1. /\ pc[t] = "kick" /\ (NextName(t) \/ Abandon(t))
        /\ job[t].names # <<>> /\ job[t] \in Job
    BY <1>16 DEF Kick, JobInv, TypeOK
  <2>2. pc' \in [Threads -> PCs] /\ job' \in [Threads -> Job]
    BY <2>1, NextJob DEF Job
  <2>3. stage' \in [Logins -> {"out", "switch", "white", "admitted",
                               "online", "leaving"}]
    BY <1>16 DEF Kick, TypeOK
  <2>4. n \in Names
    BY <2>1, RestNames DEF Job
  <2>5. swept' \subseteq Names /\ overtook' \subseteq Logins
    BY <1>16, <2>4 DEF Kick, TypeOK, bans
  <2> QED
    BY <1>16, <2>2, <2>3, <2>5 DEF Kick, TypeOK, watch
<1>17. ASSUME NEW c \in Logins, LoginBlack(c) PROVE TypeOK'
  <2>1. PICK n \in Names :
            /\ stage' = [stage EXCEPT ![c] = "switch"]
            /\ who' = [who EXCEPT ![c] = n]
            /\ seen' = [seen EXCEPT ![c] = {Verdict(lists, on, n)}]
    BY <1>17 DEF LoginBlack
  <2>2. Verdict(lists, on, n) \in BOOLEAN
    BY DEF Verdict
  <2> QED
    BY <1>17, <2>1, <2>2 DEF LoginBlack, TypeOK, threads, bans
<1>18. ASSUME NEW c \in Logins, LoginSwitch(c) PROVE TypeOK'
  <2>1. CASE on
    BY <1>18, <2>1 DEF LoginSwitch, TypeOK, threads, watch
  <2>2. CASE ~on
    BY <1>18, <2>2, LoginTypes DEF LoginSwitch, TypeOK, threads
  <2> QED
    BY <2>1, <2>2
<1>19. ASSUME NEW c \in Logins, LoginWhite(c) PROVE TypeOK'
  BY <1>19, LoginTypes DEF LoginWhite, TypeOK, threads
<1>20. ASSUME NEW c \in Logins, Enter(c) PROVE TypeOK'
  BY <1>20, AccessAssumption
  DEF Enter, TypeOK, PCs, threads, logins, watch, bans
<1>21. ASSUME NEW c \in Logins, End(c) PROVE TypeOK'
  BY <1>21, LoginTypes DEF End, TypeOK, threads
<1>22. CASE UNCHANGED vars
  BY <1>22 DEF vars, threads, logins, watch, bans, TypeOK, PCs
<1> QED
  BY <1>1, <1>2, <1>3, <1>4, <1>5, <1>6, <1>7, <1>8, <1>9, <1>10, <1>11,
     <1>12, <1>13, <1>14, <1>15, <1>16, <1>17, <1>18, <1>19, <1>20, <1>21,
     <1>22
  DEF Next, Start, Step, OnLogin, Threads

\* Who holds the mutex is who saves.
LEMMA LockStep == TypeOK /\ JobInv /\ LockInv /\ [Next]_vars => LockInv'
<1> SUFFICES ASSUME TypeOK /\ JobInv /\ LockInv, [Next]_vars PROVE LockInv'
  OBVIOUS
<1>1. CASE InitCreate
  BY <1>1, AccessAssumption
  DEF InitCreate, Goto, LockInv, TypeOK, JobInv, Threads, Kinds, Up, threads,
      PCs
<1>2. CASE InitCreated
  BY <1>2, AccessAssumption
  DEF InitCreated, Goto, LockInv, TypeOK, JobInv, Threads, Kinds, Up, threads,
      PCs
<1>3. CASE InitRead
  BY <1>3, AccessAssumption
  DEF InitRead, Goto, LockInv, TypeOK, JobInv, Threads, Kinds, Up, threads,
      PCs
<1>4. CASE Crash
  BY <1>4, AccessAssumption
  DEF Crash, Stopped, NoJobs, AllOut, NoNames, Unseen, Unmoved, NoJob,
      NoLists, LockInv, TypeOK, JobInv, Threads, Kinds, Up, threads, PCs
<1>5. CASE Command
  BY <1>5, AccessAssumption
  DEF Command, Goto, ConsoleJobs, Change, KickOnly, LockInv, TypeOK, JobInv,
      Threads, Kinds, Up, threads, PCs
<1>6. ASSUME NEW t \in Workers, PanelCheck(t) PROVE LockInv'
  BY <1>6, AccessAssumption
  DEF PanelCheck, Goto, Change, Possible, LockInv, TypeOK, JobInv, Threads,
      Kinds, Up, threads, PCs
<1>7. ASSUME NEW t \in Workers, PanelKick(t) PROVE LockInv'
  BY <1>7, AccessAssumption
  DEF PanelKick, Goto, KickOnly, LockInv, TypeOK, JobInv, Threads, Kinds, Up,
      threads, PCs
<1>8. ASSUME NEW t \in Threads, SwitchCheck(t) PROVE LockInv'
  BY <1>8, AccessAssumption
  DEF SwitchCheck, Goto, LockInv, TypeOK, JobInv, Threads, Kinds, Up, threads,
      PCs
<1>9. ASSUME NEW t \in Threads, ChangeList(t) PROVE LockInv'
  BY <1>9, AccessAssumption
  DEF ChangeList, Goto, Possible, Watch, LockInv, TypeOK, JobInv, Threads,
      Kinds, Up, threads, PCs
<1>10. ASSUME NEW t \in Threads, ChangeThrows(t) PROVE LockInv'
  BY <1>10, AccessAssumption
  DEF ChangeThrows, Abandon, NoJob, LockInv, TypeOK, JobInv, Threads, Kinds,
      Up, threads, PCs
<1>11. ASSUME NEW t \in Threads, SaveOpen(t) PROVE LockInv'
  BY <1>11, AccessAssumption
  DEF SaveOpen, Goto, LockInv, TypeOK, JobInv, Threads, Kinds, Up, threads,
      PCs
<1>12. ASSUME NEW t \in Threads, SaveOpenThrows(t) PROVE LockInv'
  BY <1>12, AccessAssumption
  DEF SaveOpenThrows, Abandon, NoJob, LockInv, TypeOK, JobInv, Threads, Kinds,
      Up, threads, PCs
<1>13. ASSUME NEW t \in Threads, SaveWrite(t) PROVE LockInv'
  BY <1>13, AccessAssumption
  DEF SaveWrite, Saved, NextName, Abandon, NoJob, LockInv, TypeOK, JobInv,
      Threads, Kinds, Up, threads, PCs
<1>14. ASSUME NEW t \in Threads, SaveWriteFails(t) PROVE LockInv'
  BY <1>14, AccessAssumption
  DEF SaveWriteFails, Saved, NextName, Abandon, NoJob, LockInv, TypeOK,
      JobInv, Threads, Kinds, Up, threads, PCs
<1>15. ASSUME NEW t \in Threads, SwitchSet(t) PROVE LockInv'
  BY <1>15, AccessAssumption
  DEF SwitchSet, Watch, LockInv, TypeOK, JobInv, Threads, Kinds, Up, threads,
      PCs
<1>16. ASSUME NEW t \in Threads, Kick(t) PROVE LockInv'
  BY <1>16, AccessAssumption
  DEF Kick, NextName, Abandon, NoJob, LockInv, TypeOK, JobInv, Threads, Kinds,
      Up, threads, PCs
<1>17. ASSUME NEW c \in Logins, LoginBlack(c) PROVE LockInv'
  BY <1>17, AccessAssumption
  DEF LoginBlack, LockInv, TypeOK, JobInv, Threads, Kinds, Up, threads, PCs
<1>18. ASSUME NEW c \in Logins, LoginSwitch(c) PROVE LockInv'
  BY <1>18, AccessAssumption
  DEF LoginSwitch, Leave, Admit, LockInv, TypeOK, JobInv, Threads, Kinds, Up,
      threads, PCs
<1>19. ASSUME NEW c \in Logins, LoginWhite(c) PROVE LockInv'
  BY <1>19, AccessAssumption
  DEF LoginWhite, Leave, Admit, LockInv, TypeOK, JobInv, Threads, Kinds, Up,
      threads, PCs
<1>20. ASSUME NEW c \in Logins, Enter(c) PROVE LockInv'
  BY <1>20, AccessAssumption
  DEF Enter, LockInv, TypeOK, JobInv, Threads, Kinds, Up, threads, PCs
<1>21. ASSUME NEW c \in Logins, End(c) PROVE LockInv'
  BY <1>21, AccessAssumption
  DEF End, Leave, LockInv, TypeOK, JobInv, Threads, Kinds, Up, threads, PCs
<1>22. CASE UNCHANGED vars
  BY <1>22 DEF vars, threads, logins, watch, bans, LockInv, TypeOK, JobInv,
      Threads, Kinds, Up, PCs
<1> QED
  BY <1>1, <1>2, <1>3, <1>4, <1>5, <1>6, <1>7, <1>8, <1>9, <1>10, <1>11,
     <1>12, <1>13, <1>14, <1>15, <1>16, <1>17, <1>18, <1>19, <1>20, <1>21,
     <1>22
  DEF Next, Start, Step, OnLogin, Threads

\* Every step leaves each job with names left, and a process that is not up
\* with nothing to do.
LEMMA JobStep == TypeOK /\ JobInv /\ [Next]_vars => JobInv'
<1> SUFFICES ASSUME TypeOK /\ JobInv, [Next]_vars PROVE JobInv'
  OBVIOUS
<1>1. CASE InitCreate
  BY <1>1, AccessAssumption
  DEF InitCreate, Goto, JobInv, TypeOK, Threads, Kinds, Up, threads, logins,
      bans, PCs, InCheck
<1>2. CASE InitCreated
  BY <1>2, AccessAssumption
  DEF InitCreated, Goto, JobInv, TypeOK, Threads, Kinds, Up, threads, logins,
      bans, PCs, InCheck
<1>3. CASE InitRead
  BY <1>3, AccessAssumption
  DEF InitRead, Goto, JobInv, TypeOK, Threads, Kinds, Up, threads, logins,
      bans, PCs, InCheck
<1>4. CASE Crash
  BY <1>4, AccessAssumption
  DEF Crash, Stopped, NoJobs, AllOut, NoNames, Unseen, Unmoved, NoJob,
      NoLists, JobInv, TypeOK, Threads, Kinds, Up, threads, logins, bans, PCs,
      InCheck
<1>5. CASE Command
  BY <1>5, AccessAssumption
  DEF Command, Goto, ConsoleJobs, Change, KickOnly, JobInv, TypeOK, Threads,
      Kinds, Up, threads, logins, bans, PCs, InCheck
<1>6. ASSUME NEW t \in Workers, PanelCheck(t) PROVE JobInv'
  BY <1>6, AccessAssumption
  DEF PanelCheck, Goto, Change, Possible, JobInv, TypeOK, Threads, Kinds, Up,
      threads, logins, bans, PCs, InCheck
<1>7. ASSUME NEW t \in Workers, PanelKick(t) PROVE JobInv'
  BY <1>7, AccessAssumption
  DEF PanelKick, Goto, KickOnly, JobInv, TypeOK, Threads, Kinds, Up, threads,
      logins, bans, PCs, InCheck
<1>8. ASSUME NEW t \in Threads, SwitchCheck(t) PROVE JobInv'
  BY <1>8, AccessAssumption
  DEF SwitchCheck, Goto, JobInv, TypeOK, Threads, Kinds, Up, threads, logins,
      bans, PCs, InCheck
<1>9. ASSUME NEW t \in Threads, ChangeList(t) PROVE JobInv'
  BY <1>9, AccessAssumption
  DEF ChangeList, Goto, Possible, Watch, JobInv, TypeOK, Threads, Kinds, Up,
      threads, logins, bans, PCs, InCheck
<1>10. ASSUME NEW t \in Threads, ChangeThrows(t) PROVE JobInv'
  BY <1>10, AccessAssumption
  DEF ChangeThrows, Abandon, NoJob, JobInv, TypeOK, Threads, Kinds, Up,
      threads, logins, bans, PCs, InCheck
<1>11. ASSUME NEW t \in Threads, SaveOpen(t) PROVE JobInv'
  BY <1>11, AccessAssumption
  DEF SaveOpen, Goto, JobInv, TypeOK, Threads, Kinds, Up, threads, logins,
      bans, PCs, InCheck
<1>12. ASSUME NEW t \in Threads, SaveOpenThrows(t) PROVE JobInv'
  BY <1>12, AccessAssumption
  DEF SaveOpenThrows, Abandon, NoJob, JobInv, TypeOK, Threads, Kinds, Up,
      threads, logins, bans, PCs, InCheck
<1>13. ASSUME NEW t \in Threads, SaveWrite(t) PROVE JobInv'
  <2>1. /\ job[t].names # <<>> /\ job[t].list \in Kinds /\ Up
        /\ pc[t] = "write" /\ UNCHANGED <<logins, swept>>
    BY <1>13 DEF SaveWrite, JobInv, TypeOK, Up, Threads, watch, bans
  <2>2. CASE NextName(t) \/ Abandon(t)
    BY <2>1, <2>2, NextJob DEF JobInv, Up, Threads, logins
  <2>3. CASE pc' = [pc EXCEPT ![t] = "kick"] /\ UNCHANGED job
    BY <2>1, <2>3 DEF JobInv, TypeOK, Up, Threads, logins
  <2> QED
    BY <1>13, <2>2, <2>3 DEF SaveWrite, Saved
<1>14. ASSUME NEW t \in Threads, SaveWriteFails(t) PROVE JobInv'
  <2>1. /\ job[t].names # <<>> /\ job[t].list \in Kinds /\ Up
        /\ pc[t] = "write" /\ UNCHANGED <<logins, swept>>
    BY <1>14 DEF SaveWriteFails, JobInv, TypeOK, Up, Threads, watch, bans
  <2>2. CASE NextName(t) \/ Abandon(t)
    BY <2>1, <2>2, NextJob DEF JobInv, Up, Threads, logins
  <2>3. CASE pc' = [pc EXCEPT ![t] = "kick"] /\ UNCHANGED job
    BY <2>1, <2>3 DEF JobInv, TypeOK, Up, Threads, logins
  <2> QED
    BY <1>14, <2>2, <2>3 DEF SaveWriteFails, Saved
<1>15. ASSUME NEW t \in Threads, SwitchSet(t) PROVE JobInv'
  BY <1>15, AccessAssumption
  DEF SwitchSet, Watch, JobInv, TypeOK, Threads, Kinds, Up, threads, logins,
      bans, PCs, InCheck
<1>16. ASSUME NEW t \in Threads, Kick(t) PROVE JobInv'
  <2>1. /\ job[t].names # <<>> /\ Up /\ pc[t] = "kick"
        /\ NextName(t) \/ Abandon(t)
    BY <1>16 DEF Kick, JobInv, TypeOK, Up, Threads
  <2>2. Up' /\ pc[Main] \notin {"down", "creating", "reading"}
    BY <2>1, NextJob DEF Up, Threads
  <2> QED
    BY <2>1, <2>2, NextJob DEF JobInv, Up, Threads
<1>17. ASSUME NEW c \in Logins, LoginBlack(c) PROVE JobInv'
  BY <1>17, AccessAssumption
  DEF LoginBlack, JobInv, TypeOK, Threads, Kinds, Up, threads, logins, bans,
      PCs, InCheck
<1>18. ASSUME NEW c \in Logins, LoginSwitch(c) PROVE JobInv'
  BY <1>18, AccessAssumption
  DEF LoginSwitch, Leave, Admit, JobInv, TypeOK, Threads, Kinds, Up, threads,
      logins, bans, PCs, InCheck
<1>19. ASSUME NEW c \in Logins, LoginWhite(c) PROVE JobInv'
  BY <1>19, AccessAssumption
  DEF LoginWhite, Leave, Admit, JobInv, TypeOK, Threads, Kinds, Up, threads,
      logins, bans, PCs, InCheck
<1>20. ASSUME NEW c \in Logins, Enter(c) PROVE JobInv'
  BY <1>20, AccessAssumption
  DEF Enter, JobInv, TypeOK, Threads, Kinds, Up, threads, logins, bans, PCs,
      InCheck
<1>21. ASSUME NEW c \in Logins, End(c) PROVE JobInv'
  BY <1>21, AccessAssumption
  DEF End, Leave, JobInv, TypeOK, Threads, Kinds, Up, threads, logins, bans,
      PCs, InCheck
<1>22. CASE UNCHANGED vars
  BY <1>22 DEF vars, threads, logins, watch, bans, JobInv, TypeOK, Threads,
      Kinds, Up, PCs, InCheck
<1> QED
  BY <1>1, <1>2, <1>3, <1>4, <1>5, <1>6, <1>7, <1>8, <1>9, <1>10, <1>11,
     <1>12, <1>13, <1>14, <1>15, <1>16, <1>17, <1>18, <1>19, <1>20, <1>21,
     <1>22
  DEF Next, Start, Step, OnLogin, Threads

\* A name that was swept stays banned, and nobody with it is let in.
LEMMA BanStep == TypeOK /\ JobInv /\ BanInv /\ [Next]_vars => BanInv'
<1> SUFFICES ASSUME TypeOK /\ JobInv /\ BanInv, [Next]_vars PROVE BanInv'
  OBVIOUS
<1>1. CASE InitCreate
  BY <1>1, AccessAssumption, SMTT(30)
  DEF InitCreate, Goto, BanInv, TypeOK, JobInv, Kinds, Lists, InCheck,
      StrandFree, Online, logins, bans
<1>2. CASE InitCreated
  BY <1>2, AccessAssumption, SMTT(30)
  DEF InitCreated, Goto, BanInv, TypeOK, JobInv, Kinds, Lists, InCheck,
      StrandFree, Online, logins, bans
<1>3. CASE InitRead
  <2>1. swept' = {} /\ \A c \in Logins : stage'[c] = "out"
    BY <1>3 DEF InitRead, JobInv, Up, logins, bans
  <2> QED
    BY <2>1 DEF BanInv, InCheck
<1>4. CASE Crash
  BY <1>4, AccessAssumption, SMTT(30)
  DEF Crash, Stopped, NoJobs, AllOut, NoNames, Unseen, Unmoved, NoJob,
      NoLists, BanInv, TypeOK, JobInv, Kinds, Lists, InCheck, StrandFree,
      Online, logins, bans
<1>5. CASE Command
  BY <1>5, AccessAssumption, SMTT(30)
  DEF Command, Goto, ConsoleJobs, Change, KickOnly, BanInv, TypeOK, JobInv,
      Kinds, Lists, InCheck, StrandFree, Online, logins, bans
<1>6. ASSUME NEW t \in Workers, PanelCheck(t) PROVE BanInv'
  BY <1>6, AccessAssumption, SMTT(30)
  DEF PanelCheck, Goto, Change, Possible, BanInv, TypeOK, JobInv, Kinds,
      Lists, InCheck, StrandFree, Online, logins, bans
<1>7. ASSUME NEW t \in Workers, PanelKick(t) PROVE BanInv'
  BY <1>7, AccessAssumption, SMTT(30)
  DEF PanelKick, Goto, KickOnly, BanInv, TypeOK, JobInv, Kinds, Lists,
      InCheck, StrandFree, Online, logins, bans
<1>8. ASSUME NEW t \in Threads, SwitchCheck(t) PROVE BanInv'
  BY <1>8, AccessAssumption, SMTT(30)
  DEF SwitchCheck, Goto, BanInv, TypeOK, JobInv, Kinds, Lists, InCheck,
      StrandFree, Online, logins, bans
<1>9. ASSUME NEW t \in Threads, ChangeList(t) PROVE BanInv'
  BY <1>9, AccessAssumption, SMTT(30)
  DEF ChangeList, Goto, Possible, Watch, BanInv, TypeOK, JobInv, Kinds, Lists,
      InCheck, StrandFree, Online, logins, bans
<1>10. ASSUME NEW t \in Threads, ChangeThrows(t) PROVE BanInv'
  BY <1>10, AccessAssumption, SMTT(30)
  DEF ChangeThrows, Abandon, NoJob, BanInv, TypeOK, JobInv, Kinds, Lists,
      InCheck, StrandFree, Online, logins, bans
<1>11. ASSUME NEW t \in Threads, SaveOpen(t) PROVE BanInv'
  BY <1>11, AccessAssumption, SMTT(30)
  DEF SaveOpen, Goto, BanInv, TypeOK, JobInv, Kinds, Lists, InCheck,
      StrandFree, Online, logins, bans
<1>12. ASSUME NEW t \in Threads, SaveOpenThrows(t) PROVE BanInv'
  BY <1>12, AccessAssumption, SMTT(30)
  DEF SaveOpenThrows, Abandon, NoJob, BanInv, TypeOK, JobInv, Kinds, Lists,
      InCheck, StrandFree, Online, logins, bans
<1>13. ASSUME NEW t \in Threads, SaveWrite(t) PROVE BanInv'
  BY <1>13, AccessAssumption, SMTT(30)
  DEF SaveWrite, Saved, NextName, Abandon, NoJob, BanInv, TypeOK, JobInv,
      Kinds, Lists, InCheck, StrandFree, Online, logins, bans
<1>14. ASSUME NEW t \in Threads, SaveWriteFails(t) PROVE BanInv'
  BY <1>14, AccessAssumption, SMTT(30)
  DEF SaveWriteFails, Saved, NextName, Abandon, NoJob, BanInv, TypeOK, JobInv,
      Kinds, Lists, InCheck, StrandFree, Online, logins, bans
<1>15. ASSUME NEW t \in Threads, SwitchSet(t) PROVE BanInv'
  BY <1>15, AccessAssumption, SMTT(30)
  DEF SwitchSet, Watch, BanInv, TypeOK, JobInv, Kinds, Lists, InCheck,
      StrandFree, Online, logins, bans
<1>16. ASSUME NEW t \in Threads, Kick(t) PROVE BanInv'
  BY <1>16, AccessAssumption, SMTT(30)
  DEF Kick, NextName, Abandon, NoJob, BanInv, TypeOK, JobInv, Kinds, Lists,
      InCheck, StrandFree, Online, logins, bans
<1>17. ASSUME NEW c \in Logins, LoginBlack(c) PROVE BanInv'
  BY <1>17, AccessAssumption, SMTT(30)
  DEF LoginBlack, BanInv, TypeOK, JobInv, Kinds, Lists, InCheck, StrandFree,
      Online, logins, bans
<1>18. ASSUME NEW c \in Logins, LoginSwitch(c) PROVE BanInv'
  BY <1>18, AccessAssumption, SMTT(30)
  DEF LoginSwitch, Leave, Admit, BanInv, TypeOK, JobInv, Kinds, Lists,
      InCheck, StrandFree, Online, logins, bans
<1>19. ASSUME NEW c \in Logins, LoginWhite(c) PROVE BanInv'
  BY <1>19, AccessAssumption, SMTT(30)
  DEF LoginWhite, Leave, Admit, BanInv, TypeOK, JobInv, Kinds, Lists, InCheck,
      StrandFree, Online, logins, bans
<1>20. ASSUME NEW c \in Logins, Enter(c) PROVE BanInv'
  BY <1>20, AccessAssumption, SMTT(30)
  DEF Enter, BanInv, TypeOK, JobInv, Kinds, Lists, InCheck, StrandFree,
      Online, logins, bans
<1>21. ASSUME NEW c \in Logins, End(c) PROVE BanInv'
  BY <1>21, AccessAssumption, SMTT(30)
  DEF End, Leave, BanInv, TypeOK, JobInv, Kinds, Lists, InCheck, StrandFree,
      Online, logins, bans
<1>22. CASE UNCHANGED vars
  BY <1>22 DEF vars, threads, logins, watch, bans, BanInv, TypeOK, JobInv,
      Kinds, Lists, InCheck, StrandFree, Online
<1> QED
  BY <1>1, <1>2, <1>3, <1>4, <1>5, <1>6, <1>7, <1>8, <1>9, <1>10, <1>11,
     <1>12, <1>13, <1>14, <1>15, <1>16, <1>17, <1>18, <1>19, <1>20, <1>21,
     <1>22
  DEF Next, Start, Step, OnLogin, Threads

\* What on_login has found stays what one look could have found.
LEMMA CheckStep ==
    TypeOK /\ JobInv /\ BanInv /\ CheckInv /\ [Next]_vars => CheckInv'
<1> SUFFICES ASSUME TypeOK /\ JobInv /\ BanInv /\ CheckInv, [Next]_vars
             PROVE  CheckInv'
  OBVIOUS
<1>1. CASE InitCreate
  BY <1>1, AccessAssumption, SMTT(30)
  DEF InitCreate, Goto, CheckInv, TypeOK, Kinds, Lists, InCheck, Verdict,
      logins, watch
<1>2. CASE InitCreated
  BY <1>2, AccessAssumption, SMTT(30)
  DEF InitCreated, Goto, CheckInv, TypeOK, Kinds, Lists, InCheck, Verdict,
      logins, watch
<1>3. CASE InitRead
  <2>1. \A c \in Logins : stage'[c] = "out" /\ stage[c] = "out"
    BY <1>3 DEF InitRead, JobInv, Up, logins
  <2> QED
    BY <1>3, <2>1 DEF InitRead, CheckInv, InCheck, watch
<1>4. CASE Crash
  BY <1>4, AccessAssumption, SMTT(30)
  DEF Crash, Stopped, NoJobs, AllOut, NoNames, Unseen, Unmoved, NoJob,
      NoLists, CheckInv, TypeOK, Kinds, Lists, InCheck, Verdict, logins, watch
<1>5. CASE Command
  BY <1>5, AccessAssumption, SMTT(30)
  DEF Command, Goto, ConsoleJobs, Change, KickOnly, CheckInv, TypeOK, Kinds,
      Lists, InCheck, Verdict, logins, watch
<1>6. ASSUME NEW t \in Workers, PanelCheck(t) PROVE CheckInv'
  BY <1>6, AccessAssumption, SMTT(30)
  DEF PanelCheck, Goto, Change, Possible, CheckInv, TypeOK, Kinds, Lists,
      InCheck, Verdict, logins, watch
<1>7. ASSUME NEW t \in Workers, PanelKick(t) PROVE CheckInv'
  BY <1>7, AccessAssumption, SMTT(30)
  DEF PanelKick, Goto, KickOnly, CheckInv, TypeOK, Kinds, Lists, InCheck,
      Verdict, logins, watch
<1>8. ASSUME NEW t \in Threads, SwitchCheck(t) PROVE CheckInv'
  BY <1>8, AccessAssumption, SMTT(30)
  DEF SwitchCheck, Goto, CheckInv, TypeOK, Kinds, Lists, InCheck, Verdict,
      logins, watch
<1>9. ASSUME NEW t \in Threads, ChangeList(t) PROVE CheckInv'
  <2> DEFINE j == job[t]
             n == Head(j.names)
             after == [lists EXCEPT ![j.list][n] =
                           IF j.add THEN @ + 1 ELSE @ - 1]
  <2>1. /\ pc[t] = "change" /\ j \in Job /\ j.list \in Kinds /\ n \in Names
        /\ lists' = after /\ Watch(after, on) /\ UNCHANGED <<on, logins>>
    BY <1>9, RestNames DEF ChangeList, Goto, TypeOK, JobInv, Job
  <2> SUFFICES ASSUME NEW c \in Logins PROVE CheckInv!(c)'
    BY DEF CheckInv
  <2> DEFINE old == stage[c]
             new == stage'[c]
  <2>0. /\ ~InCheck(c) => new = old /\ moves'[c] = moves[c]
        /\ InCheck(c) /\ moves[c] > 0 => new = old /\ moves'[c] = 2
    <3>1. Watch(after, on) /\ UNCHANGED logins
      BY <2>1
    <3> HIDE DEF after
    <3> QED
      BY <3>1, Noted
  <2>2. CASE ~InCheck(c)
    BY <2>0, <2>2 DEF CheckInv, InCheck
  <2>3. CASE InCheck(c) /\ moves[c] > 0
    BY <2>0, <2>3 DEF InCheck
  <2>4. CASE InCheck(c) /\ moves[c] = 0
    <3>1. /\ UNCHANGED <<stage[c], who[c], on>>
          /\ moves'[c] = 1 /\ who[c] \in Names
          /\ seen'[c] = seen[c] \cup {Verdict(after, on, who[c])}
      BY <2>1, <2>4, Noted
    <3>2. (on => lists'["white"][who[c]] > 0) \in seen'[c]
      <4>1. CASE j.list = "white"
        <5>1. after["black"][who[c]] = 0
          BY <2>1, <2>4, <3>1, <4>1 DEF CheckInv, TypeOK, Lists, Kinds
        <5>2. Verdict(after, on, who[c]) = (on => after["white"][who[c]] > 0)
          BY <5>1 DEF Verdict
        <5> QED
          BY <2>1, <3>1, <5>2
      <4>2. CASE j.list = "black"
        <5>1. after["white"] = lists["white"]
          BY <2>1, <4>2 DEF TypeOK, Lists, Kinds
        <5> QED
          BY <2>1, <2>4, <3>1, <5>1, StillSays
      <4> QED
        BY <2>1, <4>1, <4>2 DEF Kinds
    <3>3. stage[c] = "white" => on
      BY <2>4 DEF CheckInv, InCheck
    <3> QED
      BY <2>4, <3>1, <3>2, <3>3 DEF InCheck
  <2> QED
    BY <2>2, <2>3, <2>4 DEF TypeOK
<1>10. ASSUME NEW t \in Threads, ChangeThrows(t) PROVE CheckInv'
  BY <1>10, AccessAssumption, SMTT(30)
  DEF ChangeThrows, Abandon, NoJob, CheckInv, TypeOK, Kinds, Lists, InCheck,
      Verdict, logins, watch
<1>11. ASSUME NEW t \in Threads, SaveOpen(t) PROVE CheckInv'
  BY <1>11, AccessAssumption, SMTT(30)
  DEF SaveOpen, Goto, CheckInv, TypeOK, Kinds, Lists, InCheck, Verdict,
      logins, watch
<1>12. ASSUME NEW t \in Threads, SaveOpenThrows(t) PROVE CheckInv'
  BY <1>12, AccessAssumption, SMTT(30)
  DEF SaveOpenThrows, Abandon, NoJob, CheckInv, TypeOK, Kinds, Lists, InCheck,
      Verdict, logins, watch
<1>13. ASSUME NEW t \in Threads, SaveWrite(t) PROVE CheckInv'
  BY <1>13, AccessAssumption, SMTT(30)
  DEF SaveWrite, Saved, NextName, Abandon, NoJob, CheckInv, TypeOK, Kinds,
      Lists, InCheck, Verdict, logins, watch
<1>14. ASSUME NEW t \in Threads, SaveWriteFails(t) PROVE CheckInv'
  BY <1>14, AccessAssumption, SMTT(30)
  DEF SaveWriteFails, Saved, NextName, Abandon, NoJob, CheckInv, TypeOK,
      Kinds, Lists, InCheck, Verdict, logins, watch
<1>15. ASSUME NEW t \in Threads, SwitchSet(t) PROVE CheckInv'
  <2>1. Watch(lists, on') /\ UNCHANGED <<lists, logins>>
    BY <1>15 DEF SwitchSet
  <2> SUFFICES ASSUME NEW c \in Logins PROVE CheckInv!(c)'
    BY DEF CheckInv
  <2>2. CASE ~InCheck(c)
    BY <2>1, <2>2, Noted, SMTT(30) DEF CheckInv, InCheck
  <2>3. CASE InCheck(c) /\ moves[c] > 0
    BY <2>1, <2>3, Noted DEF InCheck
  <2>4. CASE InCheck(c) /\ moves[c] = 0
    <3>1. /\ UNCHANGED <<stage[c], who[c]>> /\ moves'[c] = 1
          /\ seen'[c] = seen[c] \cup {Verdict(lists, on', who[c])}
      BY <2>1, <2>4, Noted
    <3>2. Verdict(lists, on', who[c]) = (on' => lists["white"][who[c]] > 0)
      BY <2>4 DEF CheckInv, Verdict
    <3> QED
      BY <2>1, <2>4, <3>1, <3>2 DEF CheckInv, InCheck
  <2> QED
    BY <2>2, <2>3, <2>4 DEF TypeOK
<1>16. ASSUME NEW t \in Threads, Kick(t) PROVE CheckInv'
  BY <1>16, AccessAssumption, SMTT(30)
  DEF Kick, NextName, Abandon, NoJob, CheckInv, TypeOK, Kinds, Lists, InCheck,
      Verdict, logins, watch
<1>17. ASSUME NEW c \in Logins, LoginBlack(c) PROVE CheckInv'
  BY <1>17, AccessAssumption, SMTT(30)
  DEF LoginBlack, CheckInv, TypeOK, Kinds, Lists, InCheck, Verdict, logins,
      watch
<1>18. ASSUME NEW c \in Logins, LoginSwitch(c) PROVE CheckInv'
  <2>1. CASE ~on
    BY <1>18, <2>1 DEF LoginSwitch, Admit, CheckInv, InCheck, TypeOK
  <2>2. CASE on
    <3>1. /\ stage' = [stage EXCEPT ![c] = "white"] /\ stage[c] = "switch"
          /\ UNCHANGED <<lists, on, who, seen, moves>>
      BY <1>18, <2>2 DEF LoginSwitch, watch
    <3> SUFFICES ASSUME NEW d \in Logins PROVE CheckInv!(d)'
      BY DEF CheckInv
    <3>2. CASE d # c
      BY <3>1, <3>2 DEF CheckInv, InCheck, TypeOK
    <3>3. CASE d = c
      BY <2>2, <3>1, <3>3 DEF CheckInv, InCheck, TypeOK
    <3> QED
      BY <3>2, <3>3
  <2> QED
    BY <2>1, <2>2
<1>19. ASSUME NEW c \in Logins, LoginWhite(c) PROVE CheckInv'
  BY <1>19, AccessAssumption, SMTT(30)
  DEF LoginWhite, Leave, Admit, CheckInv, TypeOK, Kinds, Lists, InCheck,
      Verdict, logins, watch
<1>20. ASSUME NEW c \in Logins, Enter(c) PROVE CheckInv'
  BY <1>20, AccessAssumption, SMTT(30)
  DEF Enter, CheckInv, TypeOK, Kinds, Lists, InCheck, Verdict, logins, watch
<1>21. ASSUME NEW c \in Logins, End(c) PROVE CheckInv'
  BY <1>21, AccessAssumption, SMTT(30)
  DEF End, Leave, CheckInv, TypeOK, Kinds, Lists, InCheck, Verdict, logins,
      watch
<1>22. CASE UNCHANGED vars
  BY <1>22 DEF vars, threads, logins, watch, bans, CheckInv, TypeOK, Kinds,
      Lists, InCheck, Verdict
<1> QED
  BY <1>1, <1>2, <1>3, <1>4, <1>5, <1>6, <1>7, <1>8, <1>9, <1>10, <1>11,
     <1>12, <1>13, <1>14, <1>15, <1>16, <1>17, <1>18, <1>19, <1>20, <1>21,
     <1>22
  DEF Next, Start, Step, OnLogin, Threads

\* No step puts a name into a list twice.
LEMMA EntryStep == TypeOK /\ JobInv /\ OneEntry /\ [Next]_vars => OneEntry'
<1> SUFFICES ASSUME TypeOK /\ JobInv /\ OneEntry, [Next]_vars PROVE OneEntry'
  OBVIOUS
<1>1. CASE InitCreate
  BY <1>1, AccessAssumption
  DEF InitCreate, Goto, OneEntry, TypeOK, Kinds, Lists
<1>2. CASE InitCreated
  BY <1>2 DEF InitCreated, NoLists, OneEntry, Lists
<1>3. CASE InitRead
  BY <1>3, AccessAssumption
  DEF InitRead, Goto, OneEntry, TypeOK, Kinds, Lists
<1>4. CASE Crash
  BY <1>4, AccessAssumption
  DEF Crash, Stopped, NoJobs, AllOut, NoNames, Unseen, Unmoved, NoJob,
      NoLists, OneEntry, TypeOK, Kinds, Lists
<1>5. CASE Command
  BY <1>5, AccessAssumption
  DEF Command, Goto, ConsoleJobs, Change, KickOnly, OneEntry, TypeOK, Kinds,
      Lists
<1>6. ASSUME NEW t \in Workers, PanelCheck(t) PROVE OneEntry'
  BY <1>6, AccessAssumption
  DEF PanelCheck, Goto, Change, Possible, OneEntry, TypeOK, Kinds, Lists
<1>7. ASSUME NEW t \in Workers, PanelKick(t) PROVE OneEntry'
  BY <1>7, AccessAssumption
  DEF PanelKick, Goto, KickOnly, OneEntry, TypeOK, Kinds, Lists
<1>8. ASSUME NEW t \in Threads, SwitchCheck(t) PROVE OneEntry'
  BY <1>8, AccessAssumption
  DEF SwitchCheck, Goto, OneEntry, TypeOK, Kinds, Lists
<1>9. ASSUME NEW t \in Threads, ChangeList(t) PROVE OneEntry'
  BY <1>9, AccessAssumption
  DEF ChangeList, Goto, Possible, Watch, OneEntry, TypeOK, Kinds, Lists
<1>10. ASSUME NEW t \in Threads, ChangeThrows(t) PROVE OneEntry'
  BY <1>10, AccessAssumption
  DEF ChangeThrows, Abandon, NoJob, OneEntry, TypeOK, Kinds, Lists
<1>11. ASSUME NEW t \in Threads, SaveOpen(t) PROVE OneEntry'
  BY <1>11, AccessAssumption
  DEF SaveOpen, Goto, OneEntry, TypeOK, Kinds, Lists
<1>12. ASSUME NEW t \in Threads, SaveOpenThrows(t) PROVE OneEntry'
  BY <1>12, AccessAssumption
  DEF SaveOpenThrows, Abandon, NoJob, OneEntry, TypeOK, Kinds, Lists
<1>13. ASSUME NEW t \in Threads, SaveWrite(t) PROVE OneEntry'
  BY <1>13, AccessAssumption
  DEF SaveWrite, Saved, NextName, Abandon, NoJob, OneEntry, TypeOK, Kinds,
      Lists
<1>14. ASSUME NEW t \in Threads, SaveWriteFails(t) PROVE OneEntry'
  BY <1>14, AccessAssumption
  DEF SaveWriteFails, Saved, NextName, Abandon, NoJob, OneEntry, TypeOK,
      Kinds, Lists
<1>15. ASSUME NEW t \in Threads, SwitchSet(t) PROVE OneEntry'
  BY <1>15, AccessAssumption
  DEF SwitchSet, Watch, OneEntry, TypeOK, Kinds, Lists
<1>16. ASSUME NEW t \in Threads, Kick(t) PROVE OneEntry'
  BY <1>16, AccessAssumption
  DEF Kick, NextName, Abandon, NoJob, OneEntry, TypeOK, Kinds, Lists
<1>17. ASSUME NEW c \in Logins, LoginBlack(c) PROVE OneEntry'
  BY <1>17, AccessAssumption
  DEF LoginBlack, OneEntry, TypeOK, Kinds, Lists
<1>18. ASSUME NEW c \in Logins, LoginSwitch(c) PROVE OneEntry'
  BY <1>18, AccessAssumption
  DEF LoginSwitch, Leave, Admit, OneEntry, TypeOK, Kinds, Lists
<1>19. ASSUME NEW c \in Logins, LoginWhite(c) PROVE OneEntry'
  BY <1>19, AccessAssumption
  DEF LoginWhite, Leave, Admit, OneEntry, TypeOK, Kinds, Lists
<1>20. ASSUME NEW c \in Logins, Enter(c) PROVE OneEntry'
  BY <1>20, AccessAssumption
  DEF Enter, OneEntry, TypeOK, Kinds, Lists
<1>21. ASSUME NEW c \in Logins, End(c) PROVE OneEntry'
  BY <1>21, AccessAssumption
  DEF End, Leave, OneEntry, TypeOK, Kinds, Lists
<1>22. CASE UNCHANGED vars
  BY <1>22 DEF vars, threads, logins, watch, bans, OneEntry, TypeOK, Kinds,
      Lists
<1> QED
  BY <1>1, <1>2, <1>3, <1>4, <1>5, <1>6, <1>7, <1>8, <1>9, <1>10, <1>11,
     <1>12, <1>13, <1>14, <1>15, <1>16, <1>17, <1>18, <1>19, <1>20, <1>21,
     <1>22
  DEF Next, Start, Step, OnLogin, Threads

\* Every step that leaves nobody saving leaves the lists in the file.
LEMMA FileStep ==
    TypeOK /\ JobInv /\ LockInv /\ FileFollows /\ [Next]_vars => FileFollows'
<1> SUFFICES ASSUME TypeOK /\ JobInv /\ LockInv /\ FileFollows, [Next]_vars
             PROVE  FileFollows'
  OBVIOUS
<1>1. CASE InitCreate
  BY <1>1, AccessAssumption
  DEF InitCreate, Goto, FileFollows, TypeOK, JobInv, LockInv, Threads, Up,
      threads
<1>2. CASE InitCreated
  BY <1>2, AccessAssumption
  DEF InitCreated, Goto, FileFollows, TypeOK, JobInv, LockInv, Threads, Up,
      threads
<1>3. CASE InitRead
  BY <1>3, AccessAssumption
  DEF InitRead, Goto, FileFollows, TypeOK, JobInv, LockInv, Threads, Up,
      threads
<1>4. CASE Crash
  BY <1>4, AccessAssumption
  DEF Crash, Stopped, NoJobs, AllOut, NoNames, Unseen, Unmoved, NoJob,
      NoLists, FileFollows, TypeOK, JobInv, LockInv, Threads, Up, threads
<1>5. CASE Command
  BY <1>5, AccessAssumption
  DEF Command, Goto, ConsoleJobs, Change, KickOnly, FileFollows, TypeOK,
      JobInv, LockInv, Threads, Up, threads
<1>6. ASSUME NEW t \in Workers, PanelCheck(t) PROVE FileFollows'
  BY <1>6, AccessAssumption
  DEF PanelCheck, Goto, Change, Possible, FileFollows, TypeOK, JobInv,
      LockInv, Threads, Up, threads
<1>7. ASSUME NEW t \in Workers, PanelKick(t) PROVE FileFollows'
  BY <1>7, AccessAssumption
  DEF PanelKick, Goto, KickOnly, FileFollows, TypeOK, JobInv, LockInv,
      Threads, Up, threads
<1>8. ASSUME NEW t \in Threads, SwitchCheck(t) PROVE FileFollows'
  BY <1>8, AccessAssumption
  DEF SwitchCheck, Goto, FileFollows, TypeOK, JobInv, LockInv, Threads, Up,
      threads
<1>9. ASSUME NEW t \in Threads, ChangeList(t) PROVE FileFollows'
  BY <1>9, AccessAssumption
  DEF ChangeList, Goto, Possible, Watch, FileFollows, TypeOK, JobInv, LockInv,
      Threads, Up, threads
<1>10. ASSUME NEW t \in Threads, ChangeThrows(t) PROVE FileFollows'
  BY <1>10, AccessAssumption
  DEF ChangeThrows, Abandon, NoJob, FileFollows, TypeOK, JobInv, LockInv,
      Threads, Up, threads
<1>11. ASSUME NEW t \in Threads, SaveOpen(t) PROVE FileFollows'
  BY <1>11, AccessAssumption
  DEF SaveOpen, Goto, FileFollows, TypeOK, JobInv, LockInv, Threads, Up,
      threads
<1>12. ASSUME NEW t \in Threads, SaveOpenThrows(t) PROVE FileFollows'
  BY <1>12, AccessAssumption
  DEF SaveOpenThrows, Abandon, NoJob, FileFollows, TypeOK, JobInv, LockInv,
      Threads, Up, threads
<1>13. ASSUME NEW t \in Threads, SaveWrite(t) PROVE FileFollows'
  BY <1>13, AccessAssumption
  DEF SaveWrite, Saved, NextName, Abandon, NoJob, FileFollows, TypeOK, JobInv,
      LockInv, Threads, Up, threads
<1>14. ASSUME NEW t \in Threads, SaveWriteFails(t) PROVE FileFollows'
  BY <1>14, AccessAssumption
  DEF SaveWriteFails, Saved, NextName, Abandon, NoJob, FileFollows, TypeOK,
      JobInv, LockInv, Threads, Up, threads
<1>15. ASSUME NEW t \in Threads, SwitchSet(t) PROVE FileFollows'
  BY <1>15, AccessAssumption
  DEF SwitchSet, Watch, FileFollows, TypeOK, JobInv, LockInv, Threads, Up,
      threads
<1>16. ASSUME NEW t \in Threads, Kick(t) PROVE FileFollows'
  BY <1>16, AccessAssumption
  DEF Kick, NextName, Abandon, NoJob, FileFollows, TypeOK, JobInv, LockInv,
      Threads, Up, threads
<1>17. ASSUME NEW c \in Logins, LoginBlack(c) PROVE FileFollows'
  BY <1>17, AccessAssumption
  DEF LoginBlack, FileFollows, TypeOK, JobInv, LockInv, Threads, Up, threads
<1>18. ASSUME NEW c \in Logins, LoginSwitch(c) PROVE FileFollows'
  BY <1>18, AccessAssumption
  DEF LoginSwitch, Leave, Admit, FileFollows, TypeOK, JobInv, LockInv,
      Threads, Up, threads
<1>19. ASSUME NEW c \in Logins, LoginWhite(c) PROVE FileFollows'
  BY <1>19, AccessAssumption
  DEF LoginWhite, Leave, Admit, FileFollows, TypeOK, JobInv, LockInv, Threads,
      Up, threads
<1>20. ASSUME NEW c \in Logins, Enter(c) PROVE FileFollows'
  BY <1>20, AccessAssumption
  DEF Enter, FileFollows, TypeOK, JobInv, LockInv, Threads, Up, threads
<1>21. ASSUME NEW c \in Logins, End(c) PROVE FileFollows'
  BY <1>21, AccessAssumption
  DEF End, Leave, FileFollows, TypeOK, JobInv, LockInv, Threads, Up, threads
<1>22. CASE UNCHANGED vars
  BY <1>22 DEF vars, threads, logins, watch, bans, FileFollows, TypeOK,
      JobInv, LockInv, Threads, Up
<1> QED
  BY <1>1, <1>2, <1>3, <1>4, <1>5, <1>6, <1>7, <1>8, <1>9, <1>10, <1>11,
     <1>12, <1>13, <1>14, <1>15, <1>16, <1>17, <1>18, <1>19, <1>20, <1>21,
     <1>22
  DEF Next, Start, Step, OnLogin, Threads

-----------------------------------------------------------------------------
(* The results. *)

\* A program that has never run.
LEMMA InitHolds == Init => IInv
<1> SUFFICES ASSUME Init PROVE IInv
  OBVIOUS
<1>1. TypeOK
  BY FreshTypes DEF Init, TypeOK
<1>2. /\ pc[Main] = "down" /\ \A w \in Workers : pc[w] = "idle"
      /\ \A c \in Logins : stage[c] = "out" /\ moves[c] = 0
      /\ lock = None /\ swept = {} /\ ~Up
  BY AccessAssumption DEF Init, Stopped, AllOut, Unmoved, Threads, Up
<1>3. OneEntry
  BY AccessAssumption DEF Init, OneEntry, NoLists
<1>4. FileFollows /\ LockInv
  BY <1>2, AccessAssumption DEF FileFollows, LockInv, Threads
<1>5. JobInv /\ BanInv /\ CheckInv
  BY <1>2 DEF JobInv, BanInv, CheckInv, InCheck, Threads
<1> QED
  BY <1>1, <1>3, <1>4, <1>5 DEF IInv

\* The inductive invariant holds in every reachable state: who saves holds the
\* mutex, jobs have names, a sweep and what on_login has found so far agree with
\* the lists.
THEOREM AccessInvariant == Spec => []IInv
<1>1. Init => IInv
  BY InitHolds
<1>2. IInv /\ [Next]_vars => IInv'
  BY TypeStep, LockStep, JobStep, BanStep, CheckStep, EntryStep, FileStep
  DEF IInv
<1> QED
  BY <1>1, <1>2, PTL DEF Spec

\* Every variable keeps its type, whatever fails or ends.
THEOREM AccessTypeCorrect == Spec => []TypeOK
<1>1. IInv => TypeOK
  BY DEF IInv
<1> QED
  BY <1>1, AccessInvariant, PTL

\* A name is in a list at most once, in memory and in the file.
THEOREM AccessOneEntry == Spec => []OneEntry
<1>1. IInv => OneEntry
  BY DEF IInv
<1> QED
  BY <1>1, AccessInvariant, PTL

\* Whenever nobody saves, the file holds the lists, unless the last save failed.
THEOREM AccessFileFollows == Spec => []FileFollows
<1>1. IInv => FileFollows
  BY DEF IInv
<1> QED
  BY <1>1, AccessInvariant, PTL

\* Nobody outlives a ban but who had passed on_login when it looked for him.
THEOREM AccessBanHolds == Spec => []BanHolds
<1>1. IInv => BanHolds
  BY DEF IInv, BanInv, BanHolds
<1> QED
  BY <1>1, AccessInvariant, PTL

\* on_login decides as one look would have, if at most one thing changes while
\* it looks.
THEOREM AccessOneMoment == Spec => OneMoment
<1>1. IInv /\ [Next]_vars =>
        [\A c \in Logins :
            /\ InCheck(c) /\ stage'[c] \in {"admitted", "out"}
            /\ Up' /\ moves[c] <= 1
            => (stage'[c] = "admitted") \in seen[c]]_vars
  <2> SUFFICES ASSUME IInv, [Next]_vars, NEW c \in Logins, InCheck(c),
                      stage'[c] \in {"admitted", "out"}, Up', moves[c] <= 1
               PROVE  (stage'[c] = "admitted") \in seen[c]
    OBVIOUS
  <2>1. Up /\ TypeOK /\ CheckInv
    BY DEF IInv, JobInv, InCheck
  <2>2. ASSUME NEW d \in Logins, LoginSwitch(d)
        PROVE  (stage'[c] = "admitted") \in seen[c]
    BY <2>1, <2>2
    DEF LoginSwitch, Leave, Admit, InCheck, CheckInv, TypeOK
  <2>3. ASSUME NEW d \in Logins, LoginWhite(d)
        PROVE  (stage'[c] = "admitted") \in seen[c]
    BY <2>1, <2>3
    DEF LoginWhite, Leave, Admit, InCheck, CheckInv, TypeOK
  <2>4. ASSUME NEW d \in Logins, LoginBlack(d) \/ Enter(d) \/ End(d)
        PROVE  FALSE
    BY <2>4 DEF LoginBlack, Enter, End, StrandFree
  <2>5. ASSUME NEW t \in Threads, Kick(t) PROVE FALSE
    BY <2>5 DEF Kick, StrandFree
  <2>6. Crash => FALSE
    BY DEF Crash, Stopped, Up, Threads
  <2>7. CASE UNCHANGED stage
    BY <2>7 DEF InCheck
  <2>8. ASSUME NEW t \in Threads,
               Start(t) \/ SwitchCheck(t) \/ (Step(t) /\ ~Kick(t))
        PROVE  UNCHANGED stage
    BY <2>8
    DEF Start, SwitchCheck, Step, Command, PanelCheck, PanelKick, ChangeList,
        ChangeThrows, SaveOpen, SaveOpenThrows, SaveWrite, SaveWriteFails,
        SwitchSet, logins
  <2>9. InitCreate \/ InitCreated \/ InitRead => UNCHANGED stage
    BY DEF InitCreate, InitCreated, InitRead, logins
  <2> QED
    BY <2>2, <2>3, <2>4, <2>5, <2>6, <2>7, <2>8, <2>9
    DEF Next, OnLogin, Step, vars, logins
<1> QED
  BY <1>1, AccessInvariant, PTL DEF Spec, OneMoment

=============================================================================
