--------------------------- MODULE PostgresPool ---------------------------
(***************************************************************************)
(* The connection pool of runtime/store.rs: acquire, release, the pinned   *)
(* connection of with_exclusive and the one-statement loan of with_client. *)
(*                                                                         *)
(* Both mutexes of the pool are explicit, because acquire takes them in    *)
(* more than one order; the total_conns mutex is only seen held where a    *)
(* thread keeps it while it waits for the other one.  A connection is only *)
(* "open" or "closed": the server may close it at any time, in the pool or *)
(* in use.                                                                 *)
(***************************************************************************)
EXTENDS Naturals, Sequences, FiniteSets

CONSTANTS
    Threads,   \* request threads
    None,      \* a mutex nobody holds
    MaxSize,   \* --db-pool-size
    MaxDepth   \* bound of the model: nesting of with_exclusive

ASSUME NoneAssumption == None \notin Threads
ASSUME ThreadsAssumption == IsFiniteSet(Threads)
ASSUME SizeAssumption == MaxSize \in Nat \ {0} /\ MaxDepth \in Nat \ {0}

VARIABLES
    idle,       \* PostgresPool::idle, a stack of connections
    total,      \* PostgresPool::total_conns
    idleLock,   \* who holds the mutex of idle
    totalLock,  \* who keeps the mutex of total_conns
    pc,         \* where a thread is in acquire, in use or in release
    conn,       \* the connection a thread holds
    depth       \* nesting of with_exclusive on the thread, 0 for with_client

vars == <<idle, total, idleLock, totalLock, pc, conn, depth>>

TypeOK ==
    /\ idle \in Seq({"open", "closed"}) /\ Len(idle) <= MaxSize
    /\ total \in 0..MaxSize
    /\ idleLock \in Threads \cup {None}
    /\ totalLock \in Threads \cup {None}
    /\ pc \in [Threads -> {"out", "enter", "scan", "sleep", "waiting", "expired", "connect",
                           "giveback", "reconnect", "drop", "relock", "using", "return"}]
    /\ conn \in [Threads -> {"none", "open", "closed"}]
    /\ depth \in [Threads -> 0..MaxDepth]

Init ==
    /\ idle = <<"open">>
    /\ total = 1
    /\ idleLock = None
    /\ totalLock = None
    /\ pc = [t \in Threads |-> "out"]
    /\ conn = [t \in Threads |-> "none"]
    /\ depth = [t \in Threads |-> 0]

Goto(t, label) == pc' = [pc EXCEPT ![t] = label]

Waiting == {t \in Threads : pc[t] = "waiting"}

\* Condvar::notify_one while t moves to `label`; a woken thread wants the mutex back.
NotifyOne(t, label) ==
    IF Waiting = {}
    THEN Goto(t, label)
    ELSE \E w \in Waiting : pc' = [pc EXCEPT ![t] = label, ![w] = "enter"]
----------------------------------------------------------------------------
(* acquire                                                                 *)

Begin(t, d) ==
    /\ pc[t] = "out"
    /\ depth' = [depth EXCEPT ![t] = d]
    /\ Goto(t, "enter")
    /\ UNCHANGED <<idle, total, idleLock, totalLock, conn>>

LockIdle(t) ==
    /\ pc[t] = "enter" \/ (pc[t] = "expired" /\ idle # <<>>)
    /\ idleLock = None
    /\ idleLock' = t
    /\ Goto(t, "scan")
    /\ UNCHANGED <<idle, total, totalLock, conn, depth>>

\* Pop a connection; one the server closed is replaced outside the mutex.
Pop(t) ==
    /\ pc[t] = "scan" /\ idle # <<>>
    /\ LET c == idle[Len(idle)] IN
        /\ idle' = SubSeq(idle, 1, Len(idle) - 1)
        /\ IF c = "open"
           THEN conn' = [conn EXCEPT ![t] = "open"] /\ Goto(t, "using")
           ELSE UNCHANGED conn /\ Goto(t, "reconnect")
    /\ idleLock' = None
    /\ UNCHANGED <<total, totalLock, depth>>

\* No idle connection and room for one more: take the slot, then connect.
Reserve(t) ==
    /\ pc[t] = "scan" /\ idle = <<>>
    /\ totalLock = None
    /\ total < MaxSize
    /\ total' = total + 1
    /\ idleLock' = None
    /\ Goto(t, "connect")
    /\ UNCHANGED <<idle, totalLock, conn, depth>>

\* Mutant: the mutex of total_conns is kept during the wait.
FullKeepsLock(t) ==
    /\ pc[t] = "scan" /\ idle = <<>>
    /\ totalLock = None
    /\ total >= MaxSize
    /\ totalLock' = t
    /\ Goto(t, "sleep")
    /\ UNCHANGED <<idle, total, idleLock, conn, depth>>

\* The pool is full.  The mutex of total_conns is released before the wait, the
\* one of idle by the wait itself.
Full(t) ==
    /\ pc[t] = "scan" /\ idle = <<>>
    /\ totalLock = None
    /\ total >= MaxSize
    /\ Goto(t, "sleep")
    /\ UNCHANGED <<idle, total, idleLock, totalLock, conn, depth>>

Sleep(t) ==
    /\ pc[t] = "sleep"
    /\ idleLock' = None
    /\ Goto(t, "waiting")
    /\ UNCHANGED <<idle, total, totalLock, conn, depth>>

\* 30 seconds went by.
Timeout(t) ==
    /\ pc[t] = "waiting"
    /\ Goto(t, "expired")
    /\ UNCHANGED <<idle, total, idleLock, totalLock, conn, depth>>

GiveUp(t) ==
    /\ pc[t] = "expired" /\ idleLock = None /\ idle = <<>>
    /\ Goto(t, "out")
    /\ depth' = [depth EXCEPT ![t] = 0]
    /\ UNCHANGED <<idle, total, idleLock, totalLock, conn>>

Connected(t) ==
    /\ pc[t] \in {"connect", "reconnect"}
    /\ conn' = [conn EXCEPT ![t] = "open"]
    /\ Goto(t, "using")
    /\ UNCHANGED <<idle, total, idleLock, totalLock, depth>>

ConnectFails(t) ==
    /\ pc[t] \in {"connect", "reconnect"}
    /\ Goto(t, IF pc[t] = "connect" THEN "giveback" ELSE "drop")
    /\ UNCHANGED <<idle, total, idleLock, totalLock, conn, depth>>

\* A new connection failed: the slot is free again, acquire returns the error.
GiveBack(t) ==
    /\ pc[t] = "giveback" /\ totalLock = None
    /\ total' = total - 1
    /\ NotifyOne(t, "out")
    /\ depth' = [depth EXCEPT ![t] = 0]
    /\ UNCHANGED <<idle, idleLock, totalLock, conn>>

\* Mutant: the slot of a connection that could not be replaced is not given back.
DropKeepsSlot(t) ==
    /\ pc[t] = "drop" /\ totalLock = None
    /\ totalLock' = t
    /\ Goto(t, "relock")
    /\ UNCHANGED <<idle, total, idleLock, conn, depth>>

\* A replacement failed: the slot is freed and its mutex kept...
Drop(t) ==
    /\ pc[t] = "drop" /\ totalLock = None
    /\ total' = total - 1
    /\ totalLock' = t
    /\ Goto(t, "relock")
    /\ UNCHANGED <<idle, idleLock, conn, depth>>

\* ...until the mutex of idle is held again.
Relock(t) ==
    /\ pc[t] = "relock" /\ idleLock = None
    /\ idleLock' = t
    /\ totalLock' = None
    /\ Goto(t, "scan")
    /\ UNCHANGED <<idle, total, conn, depth>>
----------------------------------------------------------------------------
(* Use and release                                                         *)

\* One statement.  A closed connection fails it and is replaced if possible.
Statement(t) ==
    /\ pc[t] = "using"
    /\ conn[t] = "closed" => conn' \in {conn, [conn EXCEPT ![t] = "open"]}
    /\ conn[t] = "open" => UNCHANGED conn
    /\ Goto(t, IF depth[t] = 0 THEN "return" ELSE "using")
    /\ UNCHANGED <<idle, total, idleLock, totalLock, depth>>

\* with_exclusive inside with_exclusive only counts.
Nest(t) ==
    /\ pc[t] = "using" /\ depth[t] \in 1..(MaxDepth - 1)
    /\ depth' = [depth EXCEPT ![t] = @ + 1]
    /\ UNCHANGED <<idle, total, idleLock, totalLock, pc, conn>>

\* ExclusiveGuard::drop, also when the section unwinds.
Leave(t) ==
    /\ pc[t] = "using" /\ depth[t] > 0
    /\ depth' = [depth EXCEPT ![t] = @ - 1]
    /\ Goto(t, IF depth[t] = 1 THEN "return" ELSE "using")
    /\ UNCHANGED <<idle, total, idleLock, totalLock, conn>>

\* Mutant: the connection goes back to the pool and nobody is told.
ReleaseSilently(t) ==
    /\ pc[t] = "return" /\ idleLock = None
    /\ idle' = Append(idle, conn[t])
    /\ conn' = [conn EXCEPT ![t] = "none"]
    /\ Goto(t, "out")
    /\ UNCHANGED <<total, idleLock, totalLock, depth>>

Release(t) ==
    /\ pc[t] = "return" /\ idleLock = None
    /\ idle' = Append(idle, conn[t])
    /\ conn' = [conn EXCEPT ![t] = "none"]
    /\ NotifyOne(t, "out")
    /\ UNCHANGED <<total, idleLock, totalLock, depth>>

\* The server closes a connection.
Close ==
    /\ \/ /\ \E i \in DOMAIN idle : idle[i] = "open" /\ idle' = [idle EXCEPT ![i] = "closed"]
          /\ UNCHANGED conn
       \/ /\ \E t \in Threads :
                conn[t] = "open" /\ conn' = [conn EXCEPT ![t] = "closed"]
          /\ UNCHANGED idle
    /\ UNCHANGED <<total, idleLock, totalLock, pc, depth>>

\* What a thread does once it is in the pool, up to the end of its loan.
Step(t) ==
    \/ LockIdle(t) \/ Pop(t) \/ Reserve(t) \/ Full(t) \/ Sleep(t) \/ Timeout(t) \/ GiveUp(t)
    \/ Connected(t) \/ ConnectFails(t) \/ GiveBack(t) \/ Drop(t) \/ Relock(t)
    \/ Statement(t) \/ Nest(t) \/ Leave(t) \/ Release(t)

Next ==
    \/ \E t \in Threads : Step(t) \/ \E d \in {0, 1} : Begin(t, d)
    \/ Close

Spec == Init /\ [][Next]_vars
----------------------------------------------------------------------------
(* Properties                                                              *)

\* A thread that uses up a slot of the pool without its connection being idle.
HoldsSlot(t) ==
    pc[t] \in {"connect", "giveback", "reconnect", "drop", "using", "return"}

\* total_conns counts every connection there is or is being made, and no other:
\* a slot lost on some failure path would shrink the pool for good, one counted
\* twice would let it grow past --db-pool-size.
SlotsAccounted == total = Len(idle) + Cardinality({t \in Threads : HoldsSlot(t)})

\* Nobody sleeps beside an idle connection: while somebody waits, each idle
\* connection has a thread that is awake to take it (release pushes and notifies
\* under the mutex).
WaitersAreWoken ==
    Waiting # {} =>
        Len(idle) <= Cardinality({t \in Threads : pc[t] \in {"enter", "expired", "scan"}})

\* One thread keeps total_conns and wants idle, another holds idle and wants
\* total_conns.
LockCycle ==
    \E t, u \in Threads :
        /\ pc[t] = "relock" /\ totalLock = t
        /\ pc[u] = "scan" /\ idleLock = u /\ idle = <<>>

\* The threads whose every next step has to find a mutex free, and that find it held.
WantsIdle(t)  == pc[t] \in {"enter", "expired", "relock", "return"}
WantsTotal(t) == pc[t] \in {"giveback", "drop"} \/ (pc[t] = "scan" /\ idle = <<>>)

Stuck(t) == (WantsIdle(t) /\ idleLock # None) \/ (WantsTotal(t) /\ totalLock # None)

\* A thread in the pool that cannot move waits for one that can, or it is caught
\* in the lock cycle: no other order of locks, waits and notifications stops the pool.
StuckOnlyInCycle ==
    (\E t \in Threads : Stuck(t)) =>
        LockCycle \/ \E t \in Threads : pc[t] # "out" /\ ~Stuck(t)

\* The same without the exception: whoever enters acquire gets a connection or an
\* error (store.rs: "timeout (30s) esperando por una conexion disponible en el pool").
NeverStuck ==
    (\E t \in Threads : Stuck(t)) => \E t \in Threads : pc[t] # "out" /\ ~Stuck(t)
=============================================================================
