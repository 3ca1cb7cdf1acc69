---------------------------- MODULE LiveStreams ----------------------------
(***************************************************************************)
(* Live `stream`s over a collection: what happens between a committed      *)
(* write and the event a subscriber of that collection receives.           *)
(*                                                                         *)
(*   runtime/db.rs    Db::call (insert, applyPatch, increment, delete),    *)
(*                    subscribe, publish, deliver_local and the            *)
(*                    begin/commit/rollback_transaction trio               *)
(*   runtime/mod.rs   Expr::Transaction and the `upsert` method            *)
(*   runtime/store.rs with_exclusive: the SQLite writer or a pinned        *)
(*                    connection of the PostgreSQL pool                    *)
(*   runtime/server.rs write_live_stream, the thread behind each stream    *)
(*                                                                         *)
(* Every request runs in its own thread.  A row is abstracted to the       *)
(* version of its last write; versions are never reused, so a version also *)
(* names the row it belongs to.  Connections is the set of connections a   *)
(* request can hold exclusively: one for SQLite (the ReentrantMutex around *)
(* the writer), the pool for PostgreSQL.                                   *)
(***************************************************************************)
EXTENDS Integers, Sequences

CONSTANTS
    Threads,          \* request threads
    Streams,          \* threads serving one live stream each
    Rows,             \* ids of one collection
    Connections,      \* connections that can be held exclusively
    None,             \* no connection is held
    SeparateReaders,  \* reads use connections of their own (SQLite on a file)
    Buffer,           \* LIVE_STREAM_BUFFER: capacity of a subscriber's channel
    MaxWrites         \* bound of the model: successful writes of one behaviour

ASSUME ConnectionsAssumption == None \notin Connections
ASSUME ReadersAssumption == SeparateReaders \in BOOLEAN
ASSUME BoundsAssumption == Buffer \in Nat \ {0} /\ MaxWrites \in Nat

VARIABLES
    \* the database
    db,         \* committed version of each row, NoRow when there is none
    clock,      \* last version handed out
    dirty,      \* what the open SQL transaction of a thread wrote to each row
    \* request threads
    mode,       \* "auto", "upsert" or "tx": the exclusive section a thread is in
    pc,         \* the next step of a thread
    conn,       \* the connection a thread holds exclusively
    row,        \* the row the current operation is about
    cur,        \* the version the current operation has at hand
    out,        \* events a thread still has to hand to deliver_local
    \* Db::transaction_pending_publishes, an Option<Vec<event>> of the process
    open,       \* is it Some?
    pending,    \* the queued events, with the thread that queued each
    \* streams
    phase,      \* "off", "registered", "live" or "ended"
    sub,        \* is the sender of the stream in Db::subscribers?
    chan,       \* its channel
    seen,       \* versions the client has been sent
    \* history
    wrote,      \* versions the open transaction of a thread wrote
    confirmed,  \* versions whose write was committed
    lostReread,   \* versions whose announcement died with a failed re-read
    lostRollback  \* versions discarded by the rollback of another thread

dbVars     == <<db, clock, dirty, wrote, confirmed>>
opVars     == <<row, cur>>
queueVars  == <<open, pending>>
streamVars == <<phase, sub, chan, seen>>
lostVars   == <<lostReread, lostRollback>>
vars == <<db, clock, dirty, mode, pc, conn, row, cur, out, open, pending,
          phase, sub, chan, seen, wrote, confirmed, lostReread, lostRollback>>

NoRow     == 0
Unwritten == -1
Version   == 1..MaxWrites
Elems(q)  == {q[i] : i \in DOMAIN q}
Vers(q)   == {q[i].ver : i \in DOMAIN q}
Event     == [ver : Version, by : Threads]

TypeOK ==
    /\ db \in [Rows -> 0..MaxWrites]
    /\ clock \in 0..MaxWrites
    /\ dirty \in [Threads -> [Rows -> Unwritten..MaxWrites]]
    /\ mode \in [Threads -> {"auto", "upsert", "tx"}]
    /\ pc \in [Threads -> {"idle", "reread", "publish", "deliver", "delete", "failed", "begin",
                           "opening", "opened", "committed", "rolledback"}]
    /\ conn \in [Threads -> Connections \cup {None}]
    /\ row \in [Threads -> Rows]
    /\ cur \in [Threads -> 0..MaxWrites]
    /\ out \in [Threads -> Seq(Version)]
    /\ open \in BOOLEAN
    /\ pending \in Seq(Event)
    /\ phase \in [Streams -> {"off", "registered", "live", "ended"}]
    /\ sub \in [Streams -> BOOLEAN]
    /\ chan \in [Streams -> Seq(Version)]
    /\ \A s \in Streams : Len(chan[s]) <= Buffer
    /\ seen \in [Streams -> SUBSET Version]
    /\ wrote \in [Threads -> SUBSET Version]
    /\ confirmed \in SUBSET Version
    /\ lostReread \in SUBSET Version
    /\ lostRollback \in SUBSET Version

Clean == [r \in Rows |-> Unwritten]

Init ==
    /\ db = [r \in Rows |-> NoRow]
    /\ clock = 0
    /\ dirty = [t \in Threads |-> Clean]
    /\ mode = [t \in Threads |-> "auto"]
    /\ pc = [t \in Threads |-> "idle"]
    /\ conn = [t \in Threads |-> None]
    /\ row \in [Threads -> Rows]
    /\ cur = [t \in Threads |-> NoRow]
    /\ out = [t \in Threads |-> <<>>]
    /\ open = FALSE
    /\ pending = <<>>
    /\ phase = [s \in Streams |-> "off"]
    /\ sub = [s \in Streams |-> FALSE]
    /\ chan = [s \in Streams |-> <<>>]
    /\ seen = [s \in Streams |-> {}]
    /\ wrote = [t \in Threads |-> {}]
    /\ confirmed = {}
    /\ lostReread = {}
    /\ lostRollback = {}
----------------------------------------------------------------------------
(* Connections and isolation.                                              *)

Free(c) == \A t \in Threads : conn[t] # c

\* Mutant: a statement does not wait for the exclusive section of another thread.
ExecuteAnyway(t) == TRUE

\* A statement runs on the connection the thread has pinned, or on a free one.
CanExecute(t) == conn[t] # None \/ \E c \in Connections : Free(c)

CanRead(t) == SeparateReaders \/ CanExecute(t)

\* What a SELECT of thread t finds: its own uncommitted writes, else what is
\* committed (WAL readers and READ COMMITTED see nothing of other transactions).
Visible(t, r) == IF dirty[t][r] = Unwritten THEN db[r] ELSE dirty[t][r]

\* A row another open transaction wrote is locked until that transaction ends.
RowFree(t, r) == \A u \in Threads \ {t} : dirty[u][r] = Unwritten

Pin(t) == \E c \in Connections : Free(c) /\ conn' = [conn EXCEPT ![t] = c]

Unpin(t) ==
    /\ conn' = [conn EXCEPT ![t] = None]
    /\ mode' = [mode EXCEPT ![t] = "auto"]
    /\ pc' = [pc EXCEPT ![t] = "idle"]
    /\ cur' = [cur EXCEPT ![t] = NoRow]

\* The end of one operation: `upsert` leaves its exclusive section with it, a
\* transaction goes on with its body.
EndOp(t) ==
    /\ pc' = [pc EXCEPT ![t] = "idle"]
    /\ mode' = [mode EXCEPT ![t] = IF @ = "upsert" THEN "auto" ELSE @]
    /\ conn' = [conn EXCEPT ![t] = IF mode[t] = "upsert" THEN None ELSE @]
    /\ cur' = [cur EXCEPT ![t] = NoRow]

\* An operation that returns an error ends the body it is in: a program has no
\* way to catch it, so what a transaction does next is to roll back.
Fails(t) ==
    IF mode[t] = "tx"
    THEN /\ pc' = [pc EXCEPT ![t] = "failed"]
         /\ cur' = [cur EXCEPT ![t] = NoRow]
         /\ UNCHANGED <<mode, conn>>
    ELSE EndOp(t)

Goto(t, label) ==
    /\ pc' = [pc EXCEPT ![t] = label]
    /\ UNCHANGED <<mode, conn>>

\* One row changes: in the open transaction of t, or committed at once.
Store(t, r, v) ==
    IF mode[t] = "tx"
    THEN /\ dirty' = [dirty EXCEPT ![t] = [@ EXCEPT ![r] = v]]
         /\ UNCHANGED db
    ELSE /\ db' = [db EXCEPT ![r] = v]
         /\ UNCHANGED dirty
----------------------------------------------------------------------------
(* insert, applyPatch, increment: write, re-read by id, publish.           *)

Write(t, r) ==
    /\ pc[t] = "idle"
    /\ mode[t] = "upsert" => r = row[t]
    /\ CanExecute(t) /\ RowFree(t, r)
    /\ clock < MaxWrites
    /\ clock' = clock + 1
    /\ Store(t, r, clock + 1)
    /\ IF mode[t] = "tx"
       THEN /\ wrote' = [wrote EXCEPT ![t] = @ \cup {clock + 1}]
            /\ UNCHANGED confirmed
       ELSE /\ confirmed' = confirmed \cup {clock + 1}
            /\ UNCHANGED wrote
    /\ row' = [row EXCEPT ![t] = r]
    /\ cur' = [cur EXCEPT ![t] = clock + 1]
    /\ Goto(t, "reread")
    /\ UNCHANGED <<out, queueVars, streamVars, lostVars>>

\* The SELECT after the write: the row as it is now, or an error when somebody
\* deleted it in between.
Reread(t) ==
    /\ pc[t] = "reread"
    /\ CanRead(t)
    /\ IF Visible(t, row[t]) = NoRow
       THEN Fails(t)
       ELSE /\ cur' = [cur EXCEPT ![t] = Visible(t, row[t])]
            /\ Goto(t, "publish")
    /\ UNCHANGED <<dbVars, row, out, queueVars, streamVars, lostVars>>

\* The SELECT itself fails (`?`): the write stands and nothing is published.
RereadFails(t) ==
    /\ pc[t] = "reread"
    /\ lostReread' = lostReread \cup {cur[t]}
    /\ Fails(t)
    /\ UNCHANGED <<dbVars, row, out, queueVars, streamVars, lostRollback>>

\* publish: queue the event when a transaction is open, whoever opened it.
Publish(t) ==
    /\ pc[t] = "publish"
    /\ IF open
       THEN /\ pending' = Append(pending, [ver |-> cur[t], by |-> t])
            /\ EndOp(t)
            /\ UNCHANGED out
       ELSE /\ out' = [out EXCEPT ![t] = <<cur[t]>>]
            /\ Goto(t, "deliver")
            /\ UNCHANGED <<cur, pending>>
    /\ UNCHANGED <<dbVars, row, open, streamVars, lostVars>>

\* Mutant: a channel without the bound of LIVE_STREAM_BUFFER.
FitsAlways(s) == phase[s] # "ended"

\* try_send to every subscriber; one whose channel is full or whose receiver is
\* gone is dropped from the list.
Fits(s) == phase[s] # "ended" /\ Len(chan[s]) < Buffer

deliver_local(v) ==
    /\ chan' = [s \in Streams |-> IF sub[s] /\ Fits(s) THEN Append(chan[s], v) ELSE chan[s]]
    /\ sub' = [s \in Streams |-> sub[s] /\ Fits(s)]
    /\ UNCHANGED <<phase, seen>>

Deliver(t) ==
    /\ pc[t] = "deliver"
    /\ deliver_local(Head(out[t]))
    /\ out' = [out EXCEPT ![t] = Tail(@)]
    /\ IF Tail(out[t]) = <<>> THEN EndOp(t) ELSE Goto(t, "deliver") /\ UNCHANGED cur
    /\ UNCHANGED <<dbVars, row, queueVars, lostVars>>
----------------------------------------------------------------------------
(* delete: read the row, DELETE it, publish what was read.                 *)

DeleteRead(t, r) ==
    /\ pc[t] = "idle" /\ mode[t] # "upsert"
    /\ CanRead(t)
    /\ row' = [row EXCEPT ![t] = r]
    /\ cur' = [cur EXCEPT ![t] = Visible(t, r)]
    /\ Goto(t, "delete")
    /\ UNCHANGED <<dbVars, out, queueVars, streamVars, lostVars>>

DeleteExec(t) ==
    /\ pc[t] = "delete"
    /\ CanExecute(t) /\ RowFree(t, row[t])
    /\ IF Visible(t, row[t]) = NoRow
       THEN EndOp(t) /\ UNCHANGED <<db, dirty>>
       ELSE /\ Store(t, row[t], NoRow)
            /\ IF cur[t] = NoRow THEN EndOp(t) ELSE Goto(t, "publish") /\ UNCHANGED cur
    /\ UNCHANGED <<clock, wrote, confirmed, row, out, queueVars, streamVars, lostVars>>
----------------------------------------------------------------------------
(* upsert: look for the row and write it inside one exclusive section.     *)

UpsertFind(t, r) ==
    /\ pc[t] = "idle" /\ mode[t] = "auto"
    /\ Pin(t)
    /\ mode' = [mode EXCEPT ![t] = "upsert"]
    /\ row' = [row EXCEPT ![t] = r]
    /\ cur' = [cur EXCEPT ![t] = db[r]]
    /\ UNCHANGED <<dbVars, pc, out, queueVars, streamVars, lostVars>>

\* matchFn, updateFn or the write itself fails.
UpsertFails(t) ==
    /\ pc[t] = "idle" /\ mode[t] = "upsert"
    /\ Unpin(t)
    /\ UNCHANGED <<dbVars, row, out, queueVars, streamVars, lostVars>>
----------------------------------------------------------------------------
(* transaction { }: every step runs on the connection pinned by the first. *)

TransactionStart(t) ==
    /\ pc[t] = "idle" /\ mode[t] = "auto"
    /\ Pin(t)
    /\ mode' = [mode EXCEPT ![t] = "tx"]
    /\ pc' = [pc EXCEPT ![t] = "begin"]
    /\ UNCHANGED <<dbVars, opVars, out, queueVars, streamVars, lostVars>>

\* begin_transaction refuses when the queue of the process is already open.
BeginCheck(t) ==
    /\ pc[t] = "begin"
    /\ IF open THEN Unpin(t) ELSE Goto(t, "opening") /\ UNCHANGED cur
    /\ UNCHANGED <<dbVars, row, out, queueVars, streamVars, lostVars>>

BeginSql(t) ==
    /\ pc[t] = "opening"
    /\ Unpin(t) \/ (Goto(t, "opened") /\ UNCHANGED cur)
    /\ UNCHANGED <<dbVars, row, out, queueVars, streamVars, lostVars>>

\* Mutant: BEGIN without opening the queue of publications.
BeginWithoutQueue(t) ==
    /\ pc[t] = "opened"
    /\ Goto(t, "idle")
    /\ UNCHANGED <<dbVars, opVars, out, queueVars, streamVars, lostVars>>

BeginQueue(t) ==
    /\ pc[t] = "opened"
    /\ open' = TRUE
    /\ pending' = <<>>
    /\ Goto(t, "idle")
    /\ UNCHANGED <<dbVars, opVars, out, streamVars, lostVars>>

InBody(t) == pc[t] = "idle" /\ mode[t] = "tx"

Commit(t) ==
    /\ InBody(t)
    /\ db' = [r \in Rows |-> Visible(t, r)]
    /\ confirmed' = confirmed \cup wrote[t]
    /\ dirty' = [dirty EXCEPT ![t] = Clean]
    /\ wrote' = [wrote EXCEPT ![t] = {}]
    /\ Goto(t, "committed")
    /\ UNCHANGED <<clock, opVars, out, queueVars, streamVars, lostVars>>

\* The body returns an error or panics, or the COMMIT fails.
Rollback(t) ==
    /\ InBody(t) \/ pc[t] = "failed"
    /\ dirty' = [dirty EXCEPT ![t] = Clean]
    /\ wrote' = [wrote EXCEPT ![t] = {}]
    /\ Goto(t, "rolledback")
    /\ UNCHANGED <<db, clock, confirmed, opVars, out, queueVars, streamVars, lostVars>>

\* Mutant: the commit delivers only what its own thread queued.
CommitTakeOwn(t) ==
    LET own == SelectSeq(pending, LAMBDA e : e.by = t) IN
    /\ pc[t] = "committed"
    /\ open' = FALSE
    /\ pending' = <<>>
    /\ out' = [out EXCEPT ![t] = [i \in DOMAIN own |-> own[i].ver]]
    /\ conn' = [conn EXCEPT ![t] = None]
    /\ mode' = [mode EXCEPT ![t] = "auto"]
    /\ pc' = [pc EXCEPT ![t] = IF own = <<>> THEN "idle" ELSE "deliver"]
    /\ UNCHANGED <<dbVars, opVars, streamVars, lostVars>>

\* take() the queue, leave the exclusive section, deliver what was taken.
CommitTake(t) ==
    /\ pc[t] = "committed"
    /\ open' = FALSE
    /\ pending' = <<>>
    /\ out' = [out EXCEPT ![t] = [i \in DOMAIN pending |-> pending[i].ver]]
    /\ conn' = [conn EXCEPT ![t] = None]
    /\ mode' = [mode EXCEPT ![t] = "auto"]
    /\ pc' = [pc EXCEPT ![t] = IF pending = <<>> THEN "idle" ELSE "deliver"]
    /\ UNCHANGED <<dbVars, opVars, streamVars, lostVars>>

\* Mutant: a rollback that leaves the queue open, as a panic in the body once did.
RollbackKeepsQueue(t) ==
    /\ pc[t] = "rolledback"
    /\ Unpin(t)
    /\ UNCHANGED <<dbVars, row, out, queueVars, streamVars, lostVars>>

\* Mutant: a rollback that does not give the connection back.
RollbackLeaksConnection(t) ==
    /\ pc[t] = "rolledback"
    /\ open' = FALSE
    /\ pending' = <<>>
    /\ mode' = [mode EXCEPT ![t] = "auto"]
    /\ pc' = [pc EXCEPT ![t] = "idle"]
    /\ UNCHANGED <<dbVars, conn, opVars, out, streamVars, lostVars>>

RollbackDrop(t) ==
    /\ pc[t] = "rolledback"
    /\ open' = FALSE
    /\ pending' = <<>>
    /\ lostRollback' = lostRollback \cup
           {pending[i].ver : i \in {j \in DOMAIN pending : pending[j].by # t}}
    /\ Unpin(t)
    /\ UNCHANGED <<dbVars, row, out, streamVars, lostReread>>
----------------------------------------------------------------------------
(* A live stream: register the sender, then take the snapshot, then send   *)
(* one event after another until the write fails or the sender is gone.    *)

Register(s) ==
    /\ phase[s] = "off"
    /\ phase' = [phase EXCEPT ![s] = "registered"]
    /\ sub' = [sub EXCEPT ![s] = TRUE]
    /\ UNCHANGED <<dbVars, mode, pc, conn, opVars, out, queueVars, chan, seen, lostVars>>

Snapshot(s) ==
    /\ phase[s] = "registered"
    /\ SeparateReaders \/ \E c \in Connections : Free(c)
    /\ phase' = [phase EXCEPT ![s] = "live"]
    /\ seen' = [seen EXCEPT ![s] = {db[r] : r \in Rows} \ {NoRow}]
    /\ UNCHANGED <<dbVars, mode, pc, conn, opVars, out, queueVars, sub, chan, lostVars>>

\* Mutant: the stream stops reading as soon as its sender was dropped.
ConsumeWhileSubscribed(s) ==
    /\ phase[s] = "live" /\ sub[s] /\ chan[s] # <<>>
    /\ seen' = [seen EXCEPT ![s] = @ \cup {Head(chan[s])}]
    /\ chan' = [chan EXCEPT ![s] = Tail(@)]
    /\ UNCHANGED <<dbVars, mode, pc, conn, opVars, out, queueVars, phase, sub, lostVars>>

Consume(s) ==
    /\ phase[s] = "live" /\ chan[s] # <<>>
    /\ seen' = [seen EXCEPT ![s] = @ \cup {Head(chan[s])}]
    /\ chan' = [chan EXCEPT ![s] = Tail(@)]
    /\ UNCHANGED <<dbVars, mode, pc, conn, opVars, out, queueVars, phase, sub, lostVars>>

\* The snapshot cannot be read or written, or writing an event fails: the
\* receiver goes away and the sender stays until the next delivery.
HangUp(s) ==
    /\ phase[s] = "registered" \/ (phase[s] = "live" /\ chan[s] # <<>>)
    /\ phase' = [phase EXCEPT ![s] = "ended"]
    /\ chan' = [chan EXCEPT ![s] = <<>>]
    /\ UNCHANGED <<dbVars, mode, pc, conn, opVars, out, queueVars, sub, seen, lostVars>>

\* The sender was dropped and the channel ran dry: the stream ends in order.
ChannelClosed(s) ==
    /\ phase[s] = "live" /\ ~sub[s] /\ chan[s] = <<>>
    /\ phase' = [phase EXCEPT ![s] = "ended"]
    /\ UNCHANGED <<dbVars, mode, pc, conn, opVars, out, queueVars, sub, chan, seen, lostVars>>
----------------------------------------------------------------------------
Finish(t) == Commit(t) \/ Rollback(t)

Progress(t) ==
    \/ Publish(t) \/ Deliver(t) \/ UpsertFails(t)
    \/ BeginCheck(t) \/ BeginSql(t) \/ BeginQueue(t)
    \/ CommitTake(t) \/ RollbackDrop(t)

\* The statements after the first of an operation: they may have to wait for a
\* connection, and the re-read may fail.
Statement(t) == Reread(t) \/ RereadFails(t) \/ DeleteExec(t)

Request(t) ==
    \/ \E r \in Rows : Write(t, r) \/ DeleteRead(t, r) \/ UpsertFind(t, r)
    \/ TransactionStart(t) \/ Finish(t) \/ Statement(t) \/ Progress(t)

Stream(s) ==
    Register(s) \/ Snapshot(s) \/ Consume(s) \/ HangUp(s) \/ ChannelClosed(s)

Next == (\E t \in Threads : Request(t)) \/ (\E s \in Streams : Stream(s))

Spec == Init /\ [][Next]_vars

(* A thread that can run runs; the body of a transaction ends (every body  *)
(* spends a step budget) and waiting for a connection ends when it is free *)
(* again and again (parking_lot hands a contended mutex over).  Nobody is  *)
(* obliged to start a request, and a client may hang up or not.            *)
FairSpec ==
    /\ Spec
    /\ \A t \in Threads : /\ WF_vars(Progress(t))
                          /\ SF_vars(Reread(t) \/ DeleteExec(t))
                          /\ SF_vars(Finish(t))
    /\ \A s \in Streams : WF_vars(Consume(s)) /\ WF_vars(ChannelClosed(s))
----------------------------------------------------------------------------
(* Properties.                                                             *)

\* A transaction whose fate is open: what it queued may still be discarded.
Undecided(t) == mode[t] = "tx" /\ pc[t] # "committed"

\* Version v is on its way to the subscribers: an operation outside any
\* transaction is about to publish it, or it is queued behind a transaction
\* that will not take it along when it fails, or it is being delivered.
OnItsWay(v) ==
    \/ \E t \in Threads : ~Undecided(t) /\ pc[t] \in {"reread", "publish"} /\ cur[t] = v
    \/ \E i \in DOMAIN pending : pending[i].ver = v /\ ~Undecided(pending[i].by)
    \/ \E t \in Threads : v \in Elems(out[t])

Subscribed(s) == phase[s] = "live" /\ sub[s]

Announced(s, v) == v \in seen[s] \cup Elems(chan[s]) \/ OnItsWay(v)

\* No committed row goes missing (db.rs, subscribe: "lo que NO puede pasar es que
\* no aparezca en ninguna de las dos"): for every connected stream the committed
\* version of every row is in its snapshot, in its events or on its way, unless
\* its re-read failed or the rollback of somebody else's transaction took it.
NothingLost ==
    \A s \in Streams, r \in Rows :
        Subscribed(s) /\ db[r] # NoRow =>
            Announced(s, db[r]) \/ db[r] \in lostReread \cup lostRollback

\* The same without the last exception (db.rs, rollback_transaction: "ninguna de
\* esas filas quedó firme en la base"): a rollback discards only events of its
\* own writes.
NothingLostToRollback ==
    \A s \in Streams, r \in Rows :
        Subscribed(s) /\ db[r] # NoRow => Announced(s, db[r]) \/ db[r] \in lostReread

\* No stream is shown a write that was not committed (publish: "publicar una fila
\* que la transacción después rollbackea le mentiría a cualquier stream").
NoPhantom == \A s \in Streams : seen[s] \cup Elems(chan[s]) \subseteq confirmed

\* What an `upsert` found still holds when it writes (mod.rs, upsert: two threads
\* must not both see "no match" and both insert).
UpsertDecisionHolds ==
    \A t \in Threads : mode[t] = "upsert" /\ pc[t] = "idle" => db[row[t]] = cur[t]

\* `transaction { }` is refused only for nesting, never because another request
\* has one open (GRAMMAR.md 3.154): whoever runs the check finds no open queue.
BeginNeverRefused == \A t \in Threads : pc[t] = "begin" => ~open

\* With the one connection of SQLite, the exclusive section of a request keeps those
\* of all other requests of the process out (mod.rs, upsert: the section is held
\* "durante TODO el ciclo buscar+decidir+escribir").
SectionsHold == BeginNeverRefused /\ UpsertDecisionHolds

\* begin_transaction refuses nobody: a thread here never nests, so who is refused is so
\* because of another request (GRAMMAR.md 3.154 of this check: "Por qué esto nunca es
\* un falso positivo entre requests distintas").
NeverRefused == [][\A t \in Threads : BeginCheck(t) => pc'[t] = "opening"]_vars

\* Every request gets to its end, whatever the other threads do with the
\* connections and the queue.
RequestsEnd ==
    \A t \in Threads :
        (pc[t] # "idle" \/ mode[t] # "auto") ~> (pc[t] = "idle" /\ mode[t] = "auto")

\* What is in the channel of a stream reaches the client, or the stream ends;
\* one whose sender was dropped for being slow ends after its last event.
StreamsDrain ==
    \A s \in Streams :
        /\ \A v \in Version :
            (phase[s] = "live" /\ v \in Elems(chan[s])) ~> (v \in seen[s] \/ phase[s] = "ended")
        /\ (phase[s] = "live" /\ ~sub[s]) ~> phase[s] = "ended"
=============================================================================
