---------------------------- MODULE AccessLists ----------------------------
(***************************************************************************)
(* src/WhiteBlackList.cpp and everybody who uses it: the console           *)
(* (main.cpp), the workers of the panel (WebControl.cpp) and the login     *)
(* callback of the default proxy (ProxyManager.cpp), with as much of that  *)
(* proxy as a ban meets: logins on the way into users, and the kick.       *)
(*                                                                         *)
(* Every function of WhiteBlackList holds the mutex from end to end; only  *)
(* those that save do more than one thing meanwhile.                       *)
(***************************************************************************)
EXTENDS Naturals, Sequences

CONSTANTS
    Names,
    Logins,      \* connections of the default proxy
    Workers,     \* workers of the panel
    Main,        \* the main thread: start-up, then the console
    Lines,       \* the arguments of console commands
    DiskErrors,  \* whether a save may fail
    Missing,     \* no file
    Torn,        \* a file that is empty or cut off
    None

Kinds   == {"white", "black"}
Lists   == [Kinds -> [Names -> Nat]]
Threads == Workers \cup {Main}

ASSUME AccessAssumption ==
    /\ Lines \subseteq Seq(Names) \ {<<>>}
    /\ Main \notin Workers /\ None \notin Threads
    /\ Missing \notin Lists /\ Torn \notin Lists /\ Missing # Torn
    /\ DiskErrors \in BOOLEAN

VARIABLES
    lists,    \* how often each name is in each list
    on,       \* WhiteListStatus
    file,
    lock,     \* who holds the mutex while it saves
    pc, job,  \* where each thread is, and what it was told to do
    stage,    \* where each login is: on_login, the map of users
    who       \* its name

VARIABLES     \* history
    unsaved,  \* the last save failed
    seen,     \* what one look at the lists would have told the login, since
              \* on_login began to look
    moves,    \* how often they changed since then; 2 is twice or more
    swept,    \* names that a ban has dealt with, and that are still banned
    overtook  \* logins that had passed on_login when a ban looked for them

threads == <<pc, job>>
logins  == <<stage, who>>
watch   == <<seen, moves>>
bans    == <<swept, overtook>>
vars == <<lists, on, file, lock, threads, logins, unsaved, watch, bans>>

NoLists == [k \in Kinds |-> [n \in Names |-> 0]]
NoJob   == [list |-> None, add |-> FALSE, kick |-> FALSE, names |-> <<>>]

Up == pc[Main] \notin {"down", "creating", "reading"}

\* A process that has not started.
Stopped == [t \in Threads |-> IF t = Main THEN "down" ELSE "idle"]
NoJobs  == [t \in Threads |-> NoJob]
NoNames == [c \in Logins |-> None]
AllOut  == [c \in Logins |-> "out"]
Unseen  == [c \in Logins |-> {}]
Unmoved == [c \in Logins |-> 0]

Init ==
    /\ file = Missing
    /\ lists = NoLists /\ on = FALSE /\ lock = None
    /\ pc = Stopped /\ job = NoJobs /\ stage = AllOut /\ who = NoNames
    /\ unsaved = FALSE /\ seen = Unseen /\ moves = Unmoved
    /\ swept = {} /\ overtook = {}

\* on_login runs in the strand and is between two of its three looks.
InCheck(c) == stage[c] \in {"switch", "white"}

\* Mutant: on_login is called outside the strand.
StrandFree_Always == TRUE

\* Nobody is in the strand of the proxy.
StrandFree == \A c \in Logins : ~InCheck(c)

Goto(t, from, to) == pc[t] = from /\ pc' = [pc EXCEPT ![t] = to]

-----------------------------------------------------------------------------
(* What a login would be told by one look at everything. *)

Verdict(ls, o, n) == ls["black"][n] = 0 /\ (o => ls["white"][n] > 0)

\* Bookkeeping of a change to the lists ls or the switch o.
Watch(ls, o) ==
    /\ seen' = [c \in Logins |-> IF InCheck(c)
                  THEN seen[c] \cup {Verdict(ls, o, who[c])} ELSE seen[c]]
    /\ moves' = [c \in Logins |-> IF InCheck(c) /\ moves[c] < 2
                  THEN moves[c] + 1 ELSE moves[c]]

-----------------------------------------------------------------------------
(* WhiteBlackList::Init, while the program starts.  It throws when the file
   cannot be read, and the program ends: no step. *)

InitCreate ==
    /\ file = Missing /\ file' = Torn
    /\ Goto(Main, "down", "creating")
    /\ UNCHANGED <<lists, on, lock, job, logins, unsaved, watch, bans>>

InitCreated ==
    /\ file' = NoLists
    /\ Goto(Main, "creating", "reading")
    /\ UNCHANGED <<lists, on, lock, job, logins, unsaved, watch, bans>>

\* The switch is not in this file: config.json says how it starts.
InitRead ==
    /\ file \notin {Missing, Torn}
    /\ pc[Main] \in {"down", "reading"} /\ pc' = [pc EXCEPT ![Main] = "idle"]
    /\ lists' = file /\ on' \in BOOLEAN
    /\ UNCHANGED <<file, lock, job, logins, unsaved, watch, bans>>

-----------------------------------------------------------------------------
(* Jobs of the console and of the panel. *)

Change(k, a, kick, s) == [list |-> k, add |-> a, kick |-> kick, names |-> s]
KickOnly(s) == [list |-> None, add |-> FALSE, kick |-> TRUE, names |-> s]

ConsoleJobs == UNION
    {{Change("white", TRUE, FALSE, s), Change("white", FALSE, FALSE, s),
      Change("black", TRUE, TRUE, s),  Change("black", FALSE, FALSE, s),
      KickOnly(s)} : s \in Lines}

\* AddX finds the name nowhere, RemoveX finds it.
Possible(j) ==
    IF j.add THEN lists[j.list][Head(j.names)] = 0
             ELSE lists[j.list][Head(j.names)] > 0

Command ==
    /\ Up
    /\ \E j \in ConsoleJobs :
        /\ Goto(Main, "idle", IF j.list = None THEN "kick" ELSE "change")
        /\ job' = [job EXCEPT ![Main] = j]
    /\ UNCHANGED <<lists, on, file, lock, logins, unsaved, watch, bans>>

\* The handlers of the panel look first, in a section of its own, and answer
\* 400 if there is nothing to do.
PanelCheck(w) ==
    /\ Up /\ lock = None
    /\ Goto(w, "idle", "change")
    /\ \E k \in Kinds, a \in BOOLEAN, n \in Names :
        /\ Possible(Change(k, a, FALSE, <<n>>))
        /\ job' = [job EXCEPT ![w] = Change(k, a, FALSE, <<n>>)]
    /\ UNCHANGED <<lists, on, file, lock, logins, unsaved, watch, bans>>

PanelKick(w) ==
    /\ Up
    /\ Goto(w, "idle", "kick")
    /\ \E n \in Names : job' = [job EXCEPT ![w] = KickOnly(<<n>>)]
    /\ UNCHANGED <<lists, on, file, lock, logins, unsaved, watch, bans>>

\* An exception ends the whole job.
Abandon(t) ==
    /\ pc' = [pc EXCEPT ![t] = "idle"]
    /\ job' = [job EXCEPT ![t] = NoJob]

\* One name is dealt with.
NextName(t) ==
    LET j == job[t]
        rest == Tail(j.names)
    IN  IF rest = <<>> THEN Abandon(t)
        ELSE /\ pc' = [pc EXCEPT ![t] = IF j.list = None THEN "kick" ELSE "change"]
             /\ job' = [job EXCEPT ![t].names = rest]

\* Mutant: nothing is looked for, as if the look of the panel were enough.
ChangeList_NoFind(t) ==
    LET j == job[t]
        n == Head(j.names)
        after == [lists EXCEPT ![j.list][n] = IF j.add THEN @ + 1 ELSE @ - 1]
    IN  /\ Goto(t, "change", "open")
        /\ lock = None /\ lock' = t
        /\ lists' = after /\ Watch(after, on)
        /\ swept' = IF j.list = "black" THEN swept \ {n} ELSE swept
        /\ UNCHANGED <<on, file, job, logins, unsaved, overtook>>

\* AddWhiteList, AddBlackList, RemoveWhiteList, RemoveBlackList: the list.
ChangeList(t) ==
    LET j == job[t]
        n == Head(j.names)
        after == [lists EXCEPT ![j.list][n] = IF j.add THEN @ + 1 ELSE @ - 1]
    IN  /\ Goto(t, "change", "open")
        /\ lock = None /\ lock' = t
        /\ Possible(j)
        /\ lists' = after /\ Watch(after, on)
        /\ swept' = IF j.list = "black" THEN swept \ {n} ELSE swept
        /\ UNCHANGED <<on, file, job, logins, unsaved, overtook>>

ChangeThrows(t) ==
    /\ pc[t] = "change" /\ lock = None
    /\ ~Possible(job[t])
    /\ Abandon(t)
    /\ UNCHANGED <<lists, on, file, lock, logins, unsaved, watch, bans>>

-----------------------------------------------------------------------------
(* SaveWhiteBlackList, with the mutex held. *)

\* Mutant: the file is opened without Replace and written after the unlock.
SaveOpen_Unlocks(t) ==
    /\ Goto(t, "open", "write")
    /\ file' = Torn /\ lock' = None
    /\ UNCHANGED <<lists, on, job, logins, unsaved, watch, bans>>

SaveOpen(t) ==
    /\ Goto(t, "open", "write")
    /\ file' = Torn
    /\ UNCHANGED <<lists, on, lock, job, logins, unsaved, watch, bans>>

\* create_directories or Open throws: the list has changed all the same.
SaveOpenThrows(t) ==
    /\ DiskErrors /\ pc[t] = "open"
    /\ lock' = None /\ unsaved' = TRUE
    /\ Abandon(t)
    /\ UNCHANGED <<lists, on, file, logins, watch, bans>>

\* The end of an operation: the console kicks whom it has banned.
Saved(t) == IF job[t].kick THEN pc' = [pc EXCEPT ![t] = "kick"] /\ UNCHANGED job
                           ELSE NextName(t)

\* Mutant: the section goes on while the player is kicked.
SaveWrite_KeepsLock(t) ==
    /\ pc[t] = "write"
    /\ file' = lists /\ unsaved' = FALSE
    /\ Saved(t)
    /\ UNCHANGED <<lists, on, lock, logins, watch, bans>>

SaveWrite(t) ==
    /\ pc[t] = "write"
    /\ file' = lists /\ lock' = None /\ unsaved' = FALSE
    /\ Saved(t)
    /\ UNCHANGED <<lists, on, logins, watch, bans>>

\* fwrite fails, which throws, or fclose does, which nobody notices.
SaveWriteFails(t) ==
    /\ DiskErrors /\ pc[t] = "write"
    /\ lock' = None /\ unsaved' = TRUE
    /\ Abandon(t) \/ Saved(t)
    /\ UNCHANGED <<lists, on, file, logins, watch, bans>>

-----------------------------------------------------------------------------
(* The switch: a look, then the change if there is one, as two sections. *)

SwitchCheck(t) ==
    /\ Up /\ lock = None
    /\ Goto(t, "idle", IF on THEN "set_off" ELSE "set_on")
    /\ UNCHANGED <<lists, on, file, lock, job, logins, unsaved, watch, bans>>

SwitchSet(t) ==
    /\ pc[t] \in {"set_on", "set_off"} /\ lock = None
    /\ on' = (pc[t] = "set_on")
    /\ pc' = [pc EXCEPT ![t] = "idle"]
    /\ Watch(lists, on')
    /\ UNCHANGED <<lists, file, lock, job, logins, unsaved, bans>>

-----------------------------------------------------------------------------
(* Proxy::KickByUsername, in the strand of the default proxy.  When it finds
   nobody it throws std::runtime_error, and when the socket of the player it
   finds is gone shutdown throws; neither is the ProxyException that the callers
   catch. *)

Online(n) == {c \in Logins : who[c] = n /\ stage[c] \in {"online", "leaving"}}

\* A ban kicks nobody when there is no default proxy, which there may not be when
\* nobody plays; without one the other commands that kick throw.
MaySkip(t) == job[t].list = "black" /\ \A c \in Logins : stage[c] = "out"

Kick(t) ==
    LET n == Head(job[t].names)
    IN  /\ pc[t] = "kick" /\ StrandFree
        /\ stage' = [c \in Logins |-> IF c \in Online(n) THEN "leaving" ELSE stage[c]]
        /\ \/ Abandon(t)
           \/ (Online(n) # {} \/ MaySkip(t)) /\ NextName(t)
        /\ IF job[t].list = "black" /\ lists["black"][n] > 0
           THEN /\ swept' = swept \cup {n}
                /\ overtook' = overtook \cup
                       {c \in Logins : who[c] = n /\ stage[c] = "admitted"}
           ELSE UNCHANGED bans
        /\ UNCHANGED <<lists, on, file, lock, who, unsaved, watch>>

-----------------------------------------------------------------------------
(* A login: the callback of AttachCallbacks takes the mutex three times, in
   the strand, then the server is connected and the name entered. *)

Leave(c) ==
    /\ stage' = [stage EXCEPT ![c] = "out"]
    /\ who' = [who EXCEPT ![c] = None]
    /\ seen' = [seen EXCEPT ![c] = {}] /\ moves' = [moves EXCEPT ![c] = 0]
    /\ overtook' = overtook \ {c}

Admit(c) ==
    /\ stage' = [stage EXCEPT ![c] = "admitted"]
    /\ seen' = [seen EXCEPT ![c] = {}] /\ moves' = [moves EXCEPT ![c] = 0]
    /\ UNCHANGED <<who, overtook>>

\* IsInBlack.  A name that is in the list is refused: no change.
LoginBlack(c) ==
    /\ Up /\ lock = None /\ StrandFree /\ stage[c] = "out"
    /\ \E n \in Names :
        /\ lists["black"][n] = 0
        /\ stage' = [stage EXCEPT ![c] = "switch"]
        /\ who' = [who EXCEPT ![c] = n]
        /\ seen' = [seen EXCEPT ![c] = {Verdict(lists, on, n)}]
    /\ UNCHANGED <<lists, on, file, lock, threads, unsaved, moves, bans>>

\* Mutant: || for &&.
LoginSwitch_Or(c) ==
    /\ lock = None /\ stage[c] = "switch"
    /\ IF on THEN Leave(c)
       ELSE stage' = [stage EXCEPT ![c] = "white"] /\ UNCHANGED <<who, watch, overtook>>
    /\ UNCHANGED <<lists, on, file, lock, threads, unsaved, swept>>

\* IsWhiteListOn.
LoginSwitch(c) ==
    /\ lock = None /\ stage[c] = "switch"
    /\ IF on THEN stage' = [stage EXCEPT ![c] = "white"] /\ UNCHANGED <<who, watch, overtook>>
       ELSE Admit(c)
    /\ UNCHANGED <<lists, on, file, lock, threads, unsaved, swept>>

\* IsInWhite.
LoginWhite(c) ==
    /\ lock = None /\ stage[c] = "white"
    /\ IF lists["white"][who[c]] > 0 THEN Admit(c) ELSE Leave(c)
    /\ UNCHANGED <<lists, on, file, lock, threads, unsaved, swept>>

\* The name is entered, unless it is there already.
Enter(c) ==
    /\ stage[c] = "admitted" /\ StrandFree /\ Online(who[c]) = {}
    /\ stage' = [stage EXCEPT ![c] = "online"]
    /\ UNCHANGED <<lists, on, file, lock, threads, who, unsaved, watch, bans>>

\* It is, or the server cannot be reached, or the session ends.
End(c) ==
    /\ stage[c] \in {"admitted", "online", "leaving"} /\ StrandFree
    /\ Leave(c)
    /\ UNCHANGED <<lists, on, file, lock, threads, unsaved, swept>>

\* The process ends, by exit or by accident, whatever its threads are doing.
Crash ==
    /\ pc[Main] # "down"
    /\ lists' = NoLists /\ on' = FALSE /\ lock' = None
    /\ pc' = Stopped /\ job' = NoJobs /\ stage' = AllOut /\ who' = NoNames
    /\ unsaved' = FALSE /\ seen' = Unseen /\ moves' = Unmoved
    /\ swept' = {} /\ overtook' = {}
    /\ UNCHANGED file

-----------------------------------------------------------------------------
Start(t) == IF t = Main THEN Command ELSE PanelCheck(t) \/ PanelKick(t)

Step(t) ==
    \/ ChangeList(t) \/ ChangeThrows(t)
    \/ SaveOpen(t) \/ SaveOpenThrows(t) \/ SaveWrite(t) \/ SaveWriteFails(t)
    \/ SwitchSet(t) \/ Kick(t)

OnLogin(c) == LoginSwitch(c) \/ LoginWhite(c)

Next ==
    \/ InitCreate \/ InitCreated \/ InitRead \/ Crash
    \/ \E t \in Threads : Start(t) \/ SwitchCheck(t) \/ Step(t)
    \/ \E c \in Logins : LoginBlack(c) \/ OnLogin(c) \/ Enter(c) \/ End(c)

Spec == Init /\ [][Next]_vars

\* Threads and coroutines run; neither the mutex nor the strand passes one over
\* for ever.
FairSpec ==
    /\ Spec
    /\ \A t \in Threads : SF_vars(Step(t))
    /\ \A c \in Logins : SF_vars(OnLogin(c))

-----------------------------------------------------------------------------
PCs == {"down", "creating", "reading", "idle", "change", "open", "write",
        "kick", "set_on", "set_off"}
Job == [list : Kinds \cup {None}, add : BOOLEAN, kick : BOOLEAN,
        names : Seq(Names)]

TypeOK ==
    /\ lists \in Lists /\ on \in BOOLEAN /\ file \in Lists \cup {Missing, Torn}
    /\ lock \in Threads \cup {None}
    /\ pc \in [Threads -> PCs] /\ job \in [Threads -> Job]
    /\ stage \in [Logins -> {"out", "switch", "white", "admitted", "online", "leaving"}]
    /\ who \in [Logins -> Names \cup {None}]
    /\ unsaved \in BOOLEAN /\ seen \in [Logins -> SUBSET BOOLEAN]
    /\ moves \in [Logins -> 0..2] /\ swept \subseteq Names
    /\ overtook \subseteq Logins

\* A name is in a list at most once, in memory and in the file, so that one
\* RemoveX takes it out, although the panel looks and adds in two sections.
OneEntry ==
    /\ \A k \in Kinds, n \in Names : lists[k][n] <= 1
    /\ file \in Lists => \A k \in Kinds, n \in Names : file[k][n] <= 1

\* Unless the last save failed, the file holds the lists whenever nobody is
\* saving, so a process that ends then starts again with what it had.
FileFollows == Up /\ lock = None /\ ~unsaved => file = lists

\* A player who is online although a ban of the console has dealt with his
\* name had passed on_login, and had not been entered, when the ban looked for
\* him; nobody else outlives a ban.
BanHolds ==
    \A c \in Logins : stage[c] = "online" /\ who[c] \in swept => c \in overtook

\* on_login takes the mutex three times; if nothing or one thing changes
\* meanwhile, it decides as one look would have at some moment in between.
OneMoment ==
    [][\A c \in Logins :
        /\ InCheck(c) /\ stage'[c] \in {"admitted", "out"}
        /\ Up' /\ moves[c] <= 1
        => (stage'[c] = "admitted") \in seen[c]]_vars

\* Every command and request ends: the mutex and the strand are not waited for
\* in a circle.
JobEnds == \A t \in Threads : pc[t] \in PCs \ {"down", "creating", "reading", "idle"}
                              ~> pc[t] \in {"down", "idle"}

\* The help of the console, main.cpp: "ban <player_name> [...]: Ban users".
\* When the command ends every name it was given is banned, if the disk
\* works and nobody else changes the lists.
BanAll ==
    [][/\ job[Main].list = "black" /\ job[Main].add
       /\ pc[Main] # "idle" /\ pc'[Main] = "idle"
       => \A k \in DOMAIN job[Main].names :
              lists'["black"][job[Main].names[k]] > 0]_vars

=============================================================================
