------------------------- MODULE LiveStreamsProofs -------------------------
(***************************************************************************)
(* Theorems about LiveStreams with one connection to hold exclusively, as  *)
(* with SQLite: any number of threads, streams, rows and writes.  The      *)
(* argument of runtime/mod.rs is that the lock of the connection orders    *)
(* everything else: whoever has an open transaction or an upsert under way *)
(* holds the only connection, so nobody else writes, begins or commits     *)
(* meanwhile.  HoldInv says that; the rest of IInv builds on it.           *)
(***************************************************************************)
EXTENDS LiveStreams, TLAPS

SingleWriter == \A c, d \in Connections : c = d

TxLabels == {"begin", "opening", "opened", "committed", "rolledback"}

\* Which steps a thread may be at in which section.
PcInv ==
    \A t \in Threads :
        /\ pc[t] \in TxLabels => mode[t] = "tx"
        /\ pc[t] = "failed" => mode[t] = "tx"
        /\ pc[t] = "delete" => mode[t] # "upsert"
        /\ pc[t] \in {"reread", "publish"} => cur[t] \in Version
        /\ out[t] # <<>> <=> pc[t] = "deliver"

\* The exclusive sections exclude each other, and the queue is open exactly while
\* some transaction is past its BEGIN.
HoldInv ==
    /\ \A t \in Threads : mode[t] = "auto" <=> conn[t] = None
    /\ \A t, u \in Threads : conn[t] # None /\ conn[u] # None => t = u
    /\ open <=> \E t \in Threads : mode[t] = "tx" /\ pc[t] \notin {"begin", "opening", "opened"}
    /\ ~open => pending = <<>>

\* Only the body of a transaction has uncommitted writes.
DirtyInv ==
    /\ \A t \in Threads :
        mode[t] # "tx" \/ pc[t] \in TxLabels => wrote[t] = {} /\ dirty[t] = Clean
    /\ \A t \in Threads, r \in Rows : dirty[t][r] \in wrote[t] \cup {NoRow, Unwritten}

\* Where a version that may still be rolled back can be.
PhantomInv ==
    /\ \A r \in Rows : db[r] \in confirmed \cup {NoRow}
    /\ \A t \in Threads :
        /\ pc[t] \in {"reread", "publish", "delete"} => cur[t] \in confirmed \cup wrote[t] \cup {NoRow}
        /\ Elems(out[t]) \subseteq confirmed
    /\ \A i \in DOMAIN pending :
        \/ pending[i].ver \in confirmed
        \/ \E t \in Threads : pending[i].ver \in wrote[t] \/ pc[t] = "rolledback"
    /\ NoPhantom

\* A version is in one row only, and a re-read is about the row that was written.
RowInv ==
    /\ \A r \in Rows : db[r] <= clock
    /\ \A t \in Threads : cur[t] <= clock /\ \A r \in Rows : dirty[t][r] <= clock
    /\ \A r, q \in Rows : db[r] = db[q] /\ db[r] # NoRow => r = q
    /\ \A t \in Threads, r, q \in Rows :
        dirty[t][r] \in Version => dirty[t][r] # db[q] /\ (dirty[t][r] = dirty[t][q] => r = q)
    /\ \A t, u \in Threads, r \in Rows :
        pc[t] = "reread" /\ cur[t] \in {db[r], dirty[u][r]} => r = row[t]

\* What a transaction wrote is queued under its name by the time it commits.
QueueInv ==
    \A t \in Threads, r \in Rows :
        dirty[t][r] \in Version =>
            \/ pc[t] \in {"reread", "publish"} /\ cur[t] = dirty[t][r]
            \/ \E i \in DOMAIN pending : pending[i] = [ver |-> dirty[t][r], by |-> t]
            \/ dirty[t][r] \in lostReread

----------------------------------------------------------------------------
(* Types and labels.                                                       *)

Labels == {"idle", "reread", "publish", "deliver", "delete", "failed"} \cup TxLabels

\* TypeOK by the groups of variables that the steps change together.
DbTypes ==
    /\ db \in [Rows -> 0..MaxWrites]
    /\ clock \in 0..MaxWrites
    /\ dirty \in [Threads -> [Rows -> Unwritten..MaxWrites]]
    /\ wrote \in [Threads -> SUBSET Version]
    /\ confirmed \in SUBSET Version

ThreadTypes ==
    /\ mode \in [Threads -> {"auto", "upsert", "tx"}]
    /\ pc \in [Threads -> Labels]
    /\ conn \in [Threads -> Connections \cup {None}]
    /\ cur \in [Threads -> 0..MaxWrites]

StreamTypes ==
    /\ phase \in [Streams -> {"off", "registered", "live", "ended"}]
    /\ sub \in [Streams -> BOOLEAN]
    /\ chan \in [Streams -> Seq(Version)]
    /\ \A s \in Streams : Len(chan[s]) <= Buffer
    /\ seen \in [Streams -> SUBSET Version]

OtherTypes ==
    /\ row \in [Threads -> Rows]
    /\ out \in [Threads -> Seq(Version)]
    /\ open \in BOOLEAN
    /\ pending \in Seq(Event)
    /\ lostReread \in SUBSET Version
    /\ lostRollback \in SUBSET Version

\* The groups make up TypeOK, before a step and after it.
LEMMA TypeGroups ==
    /\ TypeOK <=> DbTypes /\ ThreadTypes /\ StreamTypes /\ OtherTypes
    /\ TypeOK' <=> DbTypes' /\ ThreadTypes' /\ StreamTypes' /\ OtherTypes'
<1>1. Labels = {"idle", "reread", "publish", "deliver", "delete", "failed", "begin",
                "opening", "opened", "committed", "rolledback"}
  BY DEF Labels, TxLabels
<1>. QED  BY <1>1 DEF TypeOK, DbTypes, ThreadTypes, StreamTypes, OtherTypes

\* What EndOp does to each thread.
LEMMA EndOpEffect ==
    ASSUME ThreadTypes, NEW t \in Threads, EndOp(t)
    PROVE  /\ ThreadTypes'
           /\ pc'[t] = "idle" /\ cur'[t] = NoRow
           /\ mode'[t] = IF mode[t] = "upsert" THEN "auto" ELSE mode[t]
           /\ conn'[t] = IF mode[t] = "upsert" THEN None ELSE conn[t]
           /\ \A u \in Threads \ {t} : pc'[u] = pc[u] /\ mode'[u] = mode[u]
                                       /\ conn'[u] = conn[u] /\ cur'[u] = cur[u]
<1>1. pc' \in [Threads -> Labels] /\ mode' \in [Threads -> {"auto", "upsert", "tx"}]
  BY DEF ThreadTypes, EndOp, Labels
<1>2. cur' \in [Threads -> 0..MaxWrites]
  BY BoundsAssumption DEF ThreadTypes, EndOp, NoRow
<1>3. conn' \in [Threads -> Connections \cup {None}]
  BY DEF ThreadTypes, EndOp
<1>. QED  BY <1>1, <1>2, <1>3 DEF ThreadTypes, EndOp

\* An operation ends with a result or with an error.
Ends(t) == EndOp(t) \/ Fails(t)

\* What the end of an operation does to each thread.
LEMMA EndsEffect ==
    ASSUME ThreadTypes, NEW t \in Threads, Ends(t)
    PROVE  /\ ThreadTypes'
           /\ pc'[t] = "idle" \/ (pc'[t] = "failed" /\ mode[t] = "tx")
           /\ cur'[t] = NoRow
           /\ mode'[t] = IF mode[t] = "upsert" THEN "auto" ELSE mode[t]
           /\ conn'[t] = IF mode[t] = "upsert" THEN None ELSE conn[t]
           /\ \A u \in Threads \ {t} : pc'[u] = pc[u] /\ mode'[u] = mode[u]
                                       /\ conn'[u] = conn[u] /\ cur'[u] = cur[u]
<1>1. CASE EndOp(t)  BY <1>1, EndOpEffect
<1>2. CASE Fails(t) /\ mode[t] = "tx"
  <2>1. pc' \in [Threads -> Labels]  BY <1>2 DEF Fails, ThreadTypes, Labels
  <2>2. cur' \in [Threads -> 0..MaxWrites]
    BY <1>2, BoundsAssumption DEF Fails, ThreadTypes, NoRow
  <2>. QED  BY <1>2, <2>1, <2>2 DEF Fails, ThreadTypes
<1>. QED  BY <1>1, <1>2 DEF Ends, Fails

\* What Unpin does to each thread.
LEMMA UnpinEffect ==
    ASSUME ThreadTypes, NEW t \in Threads, Unpin(t)
    PROVE  /\ ThreadTypes'
           /\ pc'[t] = "idle" /\ cur'[t] = NoRow /\ mode'[t] = "auto" /\ conn'[t] = None
           /\ \A u \in Threads \ {t} : pc'[u] = pc[u] /\ mode'[u] = mode[u]
                                       /\ conn'[u] = conn[u] /\ cur'[u] = cur[u]
<1>1. pc' \in [Threads -> Labels] /\ mode' \in [Threads -> {"auto", "upsert", "tx"}]
  BY DEF ThreadTypes, Unpin, Labels
<1>2. cur' \in [Threads -> 0..MaxWrites]
  BY BoundsAssumption DEF ThreadTypes, Unpin, NoRow
<1>3. conn' \in [Threads -> Connections \cup {None}]
  BY DEF ThreadTypes, Unpin
<1>. QED  BY <1>1, <1>2, <1>3 DEF ThreadTypes, Unpin

\* What Goto does to each thread.
LEMMA GotoEffect ==
    ASSUME ThreadTypes, NEW t \in Threads, NEW label \in Labels, Goto(t, label)
    PROVE  /\ pc' \in [Threads -> Labels]
           /\ mode' = mode /\ conn' = conn
           /\ pc'[t] = label /\ \A u \in Threads \ {t} : pc'[u] = pc[u]
           /\ UNCHANGED cur => ThreadTypes'
BY DEF ThreadTypes, Goto

\* The initial values have their types.
LEMMA TypeInit == Init => TypeOK /\ PcInv
<1>. SUFFICES ASSUME Init PROVE TypeOK /\ PcInv  OBVIOUS
<1>. USE BoundsAssumption DEF Init, NoRow, Unwritten, Clean, Version
<1>1. DbTypes
  BY DEF DbTypes
<1>2. ThreadTypes
  BY DEF ThreadTypes, Labels
<1>3. <<>> \in Seq(Version) /\ <<>> \in Seq(Event) /\ Len(<<>>) <= Buffer
  OBVIOUS
<1>4. StreamTypes
  BY <1>3 DEF StreamTypes
<1>5. OtherTypes
  BY <1>3 DEF OtherTypes
<1>6. PcInv
  BY DEF PcInv, TxLabels
<1>. QED  BY <1>1, <1>2, <1>4, <1>5, <1>6, TypeGroups

\* What thread t reads is NoRow or a version.
LEMMA VisibleType ==
    ASSUME DbTypes, NEW t \in Threads, NEW r \in Rows
    PROVE  Visible(t, r) \in 0..MaxWrites
BY BoundsAssumption DEF DbTypes, Visible, Unwritten

\* One row of one transaction changes, or one row of the database.
LEMMA StoreType ==
    ASSUME DbTypes, NEW t \in Threads, NEW r \in Rows, NEW v \in 0..MaxWrites, Store(t, r, v)
    PROVE  /\ db' \in [Rows -> 0..MaxWrites]
           /\ dirty' \in [Threads -> [Rows -> Unwritten..MaxWrites]]
<1>1. CASE mode[t] = "tx"
  <2>1. dirty' = [dirty EXCEPT ![t] = [dirty[t] EXCEPT ![r] = v]] /\ db' = db
    BY <1>1 DEF Store
  <2>2. dirty[t] \in [Rows -> Unwritten..MaxWrites] /\ v \in Unwritten..MaxWrites
    BY BoundsAssumption DEF DbTypes, Unwritten
  <2>3. [dirty[t] EXCEPT ![r] = v] \in [Rows -> Unwritten..MaxWrites]
    BY <2>2
  <2>. QED  BY <2>1, <2>3 DEF DbTypes
<1>2. CASE mode[t] # "tx"
  BY <1>2 DEF Store, DbTypes
<1>. QED  BY <1>1, <1>2

\* An event in the queue bears a version and the name of a thread.
LEMMA PendingType ==
    ASSUME OtherTypes, NEW i \in DOMAIN pending
    PROVE  pending[i] \in Event /\ pending[i].ver \in Version /\ pending[i].by \in Threads
<1>1. pending \in Seq(Event)  BY DEF OtherTypes
<1>2. pending[i] \in Event  BY <1>1
<1>. QED  BY <1>2 DEF Event

\* Every statement, publication and transaction step keeps the types.
LEMMA RequestTypes ==
    ASSUME TypeOK, PcInv, NEW t \in Threads, Request(t)
    PROVE  TypeOK'
<1>0. DbTypes /\ ThreadTypes /\ StreamTypes /\ OtherTypes
  BY TypeGroups
<1>. SUFFICES DbTypes' /\ ThreadTypes' /\ StreamTypes' /\ OtherTypes'
  BY TypeGroups
<1>. USE <1>0
<1>a. ASSUME UNCHANGED dbVars PROVE DbTypes'
  BY <1>a DEF dbVars, DbTypes
<1>b. ASSUME UNCHANGED streamVars PROVE StreamTypes'
  BY <1>b DEF streamVars, StreamTypes
<1>c. ASSUME row' \in [Threads -> Rows], UNCHANGED <<out, queueVars, lostVars>> PROVE OtherTypes'
  BY <1>c DEF queueVars, lostVars, OtherTypes
<1>1. ASSUME NEW r \in Rows, Write(t, r)
      PROVE  DbTypes' /\ ThreadTypes' /\ StreamTypes' /\ OtherTypes'
  <2>1. clock + 1 \in Version /\ clock + 1 \in 0..MaxWrites
    BY <1>1, BoundsAssumption DEF Write, DbTypes, Version
  <2>2. db' \in [Rows -> 0..MaxWrites] /\ dirty' \in [Threads -> [Rows -> Unwritten..MaxWrites]]
    BY <1>1, <2>1, StoreType DEF Write
  <2>3. wrote' \in [Threads -> SUBSET Version]
    BY <1>1, <2>1 DEF Write, DbTypes
  <2>4. confirmed' \in SUBSET Version
    BY <1>1, <2>1 DEF Write, DbTypes
  <2>5. DbTypes'  BY <1>1, <2>1, <2>2, <2>3, <2>4 DEF Write, DbTypes
  <2>6. ThreadTypes'
    <3>1. cur' \in [Threads -> 0..MaxWrites]  BY <1>1, <2>1 DEF Write, ThreadTypes
    <3>2. Goto(t, "reread") /\ "reread" \in Labels  BY <1>1 DEF Write, Labels
    <3>. QED  BY <3>1, <3>2, GotoEffect DEF ThreadTypes
  <2>7. row' \in [Threads -> Rows]  BY <1>1 DEF Write, OtherTypes
  <2>. QED  BY <1>1, <1>b, <1>c, <2>5, <2>6, <2>7 DEF Write
<1>2. ASSUME NEW r \in Rows, DeleteRead(t, r)
      PROVE  DbTypes' /\ ThreadTypes' /\ StreamTypes' /\ OtherTypes'
  <2>1. cur' \in [Threads -> 0..MaxWrites]
    BY <1>2, VisibleType DEF DeleteRead, ThreadTypes
  <2>2. Goto(t, "delete") /\ "delete" \in Labels  BY <1>2 DEF DeleteRead, Labels
  <2>3. ThreadTypes'  BY <2>1, <2>2, GotoEffect DEF ThreadTypes
  <2>4. row' \in [Threads -> Rows]  BY <1>2 DEF DeleteRead, OtherTypes
  <2>. QED  BY <1>2, <1>a, <1>b, <1>c, <2>3, <2>4 DEF DeleteRead
<1>3. ASSUME NEW r \in Rows, UpsertFind(t, r)
      PROVE  DbTypes' /\ ThreadTypes' /\ StreamTypes' /\ OtherTypes'
  <2>1. cur' \in [Threads -> 0..MaxWrites]  BY <1>3 DEF UpsertFind, ThreadTypes, DbTypes
  <2>2. conn' \in [Threads -> Connections \cup {None}]  BY <1>3 DEF UpsertFind, Pin, ThreadTypes
  <2>3. ThreadTypes'  BY <1>3, <2>1, <2>2 DEF UpsertFind, ThreadTypes
  <2>4. row' \in [Threads -> Rows]  BY <1>3 DEF UpsertFind, OtherTypes
  <2>. QED  BY <1>3, <1>a, <1>b, <1>c, <2>3, <2>4 DEF UpsertFind
<1>4. CASE TransactionStart(t)
  <2>1. conn' \in [Threads -> Connections \cup {None}]  BY <1>4 DEF TransactionStart, Pin, ThreadTypes
  <2>2. ThreadTypes'  BY <1>4, <2>1 DEF TransactionStart, ThreadTypes, opVars, Labels, TxLabels
  <2>3. row' \in [Threads -> Rows]  BY <1>4 DEF TransactionStart, opVars, OtherTypes
  <2>. QED  BY <1>4, <1>a, <1>b, <1>c, <2>2, <2>3 DEF TransactionStart
<1>5. CASE Commit(t)
  <2>1. db' \in [Rows -> 0..MaxWrites]  BY <1>5, VisibleType DEF Commit
  <2>2. dirty' \in [Threads -> [Rows -> Unwritten..MaxWrites]]
    BY <1>5, BoundsAssumption DEF Commit, Clean, Unwritten, DbTypes
  <2>3. DbTypes'  BY <1>5, <2>1, <2>2 DEF Commit, DbTypes
  <2>4. ThreadTypes'
    <3>1. Goto(t, "committed") /\ "committed" \in Labels /\ UNCHANGED cur
      BY <1>5 DEF Commit, Labels, TxLabels, opVars
    <3>. QED  BY <3>1, GotoEffect
  <2>5. row' \in [Threads -> Rows]  BY <1>5 DEF Commit, opVars, OtherTypes
  <2>. QED  BY <1>5, <1>b, <1>c, <2>3, <2>4, <2>5 DEF Commit
<1>6. CASE Rollback(t)
  <2>1. dirty' \in [Threads -> [Rows -> Unwritten..MaxWrites]]
    BY <1>6, BoundsAssumption DEF Rollback, Clean, Unwritten, DbTypes
  <2>2. DbTypes'  BY <1>6, <2>1 DEF Rollback, DbTypes
  <2>3. ThreadTypes'
    <3>1. Goto(t, "rolledback") /\ "rolledback" \in Labels /\ UNCHANGED cur
      BY <1>6 DEF Rollback, Labels, TxLabels, opVars
    <3>. QED  BY <3>1, GotoEffect
  <2>4. row' \in [Threads -> Rows]  BY <1>6 DEF Rollback, opVars, OtherTypes
  <2>. QED  BY <1>6, <1>b, <1>c, <2>2, <2>3, <2>4 DEF Rollback
<1>7. CASE Reread(t)
  <2>0. row[t] \in Rows  BY DEF OtherTypes
  <2>1. Visible(t, row[t]) \in 0..MaxWrites  BY <2>0, VisibleType
  <2>2. CASE Fails(t)
    BY <1>7, <1>a, <1>b, <1>c, <2>2, EndsEffect DEF Ends, Reread, OtherTypes
  <2>3. CASE cur' = [cur EXCEPT ![t] = Visible(t, row[t])] /\ Goto(t, "publish")
    <3>1. cur' \in [Threads -> 0..MaxWrites]  BY <2>1, <2>3 DEF ThreadTypes
    <3>2. "publish" \in Labels  BY DEF Labels
    <3>3. ThreadTypes'  BY <2>3, <3>1, <3>2, GotoEffect DEF ThreadTypes
    <3>. QED  BY <1>7, <1>a, <1>b, <1>c, <3>3 DEF Reread, OtherTypes
  <2>. QED  BY <1>7, <2>2, <2>3 DEF Reread
<1>8. CASE RereadFails(t)
  <2>1. cur[t] \in Version  BY <1>8 DEF RereadFails, PcInv
  <2>2. OtherTypes'  BY <1>8, <2>1 DEF RereadFails, OtherTypes, queueVars
  <2>. QED  BY <1>8, <1>a, <1>b, <2>2, EndsEffect DEF Ends, RereadFails
<1>9. CASE DeleteExec(t)
  <2>0. row[t] \in Rows /\ NoRow \in 0..MaxWrites  BY BoundsAssumption DEF OtherTypes, NoRow
  <2>1. /\ db' \in [Rows -> 0..MaxWrites]
        /\ dirty' \in [Threads -> [Rows -> Unwritten..MaxWrites]]
    <3>1. CASE UNCHANGED <<db, dirty>>  BY <3>1 DEF DbTypes
    <3>2. CASE Store(t, row[t], NoRow)  BY <2>0, <3>2, StoreType
    <3>. QED  BY <1>9, <3>1, <3>2 DEF DeleteExec
  <2>2. DbTypes'  BY <1>9, <2>1 DEF DeleteExec, DbTypes
  <2>3. ThreadTypes'
    <3>1. CASE EndOp(t)  BY <3>1, EndOpEffect
    <3>2. CASE Goto(t, "publish") /\ UNCHANGED cur  BY <3>2, GotoEffect DEF Labels
    <3>. QED  BY <1>9, <3>1, <3>2 DEF DeleteExec
  <2>. QED  BY <1>9, <1>b, <1>c, <2>2, <2>3 DEF DeleteExec, OtherTypes
<1>10. CASE Publish(t)
  <2>1. cur[t] \in Version  BY <1>10 DEF Publish, PcInv
  <2>2. [ver |-> cur[t], by |-> t] \in Event  BY <2>1 DEF Event
  <2>3. CASE open
    <3>1. pending' \in Seq(Event)
      <4>1. pending' = Append(pending, [ver |-> cur[t], by |-> t])  BY <1>10, <2>3 DEF Publish
      <4>. QED  BY <2>2, <4>1 DEF OtherTypes
    <3>2. OtherTypes'  BY <1>10, <2>3, <3>1 DEF Publish, OtherTypes, lostVars
    <3>. QED  BY <1>10, <1>a, <1>b, <2>3, <3>2, EndOpEffect DEF Publish
  <2>4. CASE ~open
    <3>1. out' \in [Threads -> Seq(Version)]
      <4>1. out' = [out EXCEPT ![t] = <<cur[t]>>]  BY <1>10, <2>4 DEF Publish
      <4>2. <<cur[t]>> \in Seq(Version)  BY <2>1
      <4>. QED  BY <4>1, <4>2 DEF OtherTypes
    <3>2. OtherTypes'  BY <1>10, <2>4, <3>1 DEF Publish, OtherTypes, lostVars
    <3>. QED  BY <1>10, <1>a, <1>b, <2>4, <3>2, GotoEffect DEF Publish, Labels
  <2>. QED  BY <2>3, <2>4
<1>11. CASE Deliver(t)
  <2>1. out[t] # <<>> /\ out[t] \in Seq(Version)  BY <1>11 DEF Deliver, PcInv, OtherTypes
  <2>2. Head(out[t]) \in Version /\ Tail(out[t]) \in Seq(Version)  BY <2>1
  <2>3. StreamTypes'
    <3>. DEFINE v == Head(out[t])
    <3>1. ASSUME NEW s \in Streams, Fits(s)
          PROVE  Append(chan[s], v) \in Seq(Version) /\ Len(Append(chan[s], v)) <= Buffer
      <4>1. chan[s] \in Seq(Version) /\ Len(chan[s]) < Buffer  BY <3>1 DEF Fits, StreamTypes
      <4>. QED  BY <2>2, <4>1, BoundsAssumption
    <3>2. chan' = [s \in Streams |-> IF sub[s] /\ Fits(s) THEN Append(chan[s], v) ELSE chan[s]]
      BY <1>11 DEF Deliver, deliver_local
    <3>3. chan' \in [Streams -> Seq(Version)] /\ \A s \in Streams : Len(chan'[s]) <= Buffer
      BY <3>1, <3>2 DEF StreamTypes
    <3>4. sub' \in [Streams -> BOOLEAN]
      <4>1. sub' = [s \in Streams |-> sub[s] /\ Fits(s)]  BY <1>11 DEF Deliver, deliver_local
      <4>2. \A s \in Streams : (sub[s] /\ Fits(s)) \in BOOLEAN  OBVIOUS
      <4>. QED  BY <4>1, <4>2
    <3>. QED  BY <1>11, <3>3, <3>4 DEF Deliver, deliver_local, StreamTypes
  <2>4. OtherTypes'
    <3>1. out' \in [Threads -> Seq(Version)]  BY <1>11, <2>2 DEF Deliver, OtherTypes
    <3>. QED  BY <1>11, <3>1 DEF Deliver, OtherTypes, queueVars, lostVars
  <2>5. ThreadTypes'
    <3>1. CASE EndOp(t)  BY <3>1, EndOpEffect
    <3>2. CASE Goto(t, "deliver") /\ UNCHANGED cur  BY <3>2, GotoEffect DEF Labels
    <3>. QED  BY <1>11, <3>1, <3>2 DEF Deliver
  <2>. QED  BY <1>11, <1>a, <2>3, <2>4, <2>5 DEF Deliver
<1>12. CASE UpsertFails(t)
  BY <1>12, <1>a, <1>b, <1>c, UnpinEffect DEF UpsertFails, OtherTypes
<1>13. CASE BeginCheck(t)
  <2>1. CASE Unpin(t)
    BY <1>13, <1>a, <1>b, <1>c, <2>1, UnpinEffect DEF BeginCheck, OtherTypes
  <2>2. CASE Goto(t, "opening") /\ UNCHANGED cur
    BY <1>13, <1>a, <1>b, <1>c, <2>2, GotoEffect DEF BeginCheck, OtherTypes, Labels, TxLabels
  <2>. QED  BY <1>13, <2>1, <2>2 DEF BeginCheck
<1>14. CASE BeginSql(t)
  <2>1. CASE Unpin(t)
    BY <1>14, <1>a, <1>b, <1>c, <2>1, UnpinEffect DEF BeginSql, OtherTypes
  <2>2. CASE Goto(t, "opened") /\ UNCHANGED cur
    BY <1>14, <1>a, <1>b, <1>c, <2>2, GotoEffect DEF BeginSql, OtherTypes, Labels, TxLabels
  <2>. QED  BY <1>14, <2>1, <2>2 DEF BeginSql
<1>15. CASE BeginQueue(t)
  <2>1. Goto(t, "idle") /\ "idle" \in Labels /\ UNCHANGED cur  BY <1>15 DEF BeginQueue, opVars, Labels
  <2>2. ThreadTypes'  BY <2>1, GotoEffect
  <2>3. <<>> \in Seq(Event)  OBVIOUS
  <2>4. OtherTypes'  BY <1>15, <2>3 DEF BeginQueue, OtherTypes, opVars, lostVars
  <2>. QED  BY <1>15, <1>a, <1>b, <2>2, <2>4 DEF BeginQueue
<1>16. CASE CommitTake(t)
  <2>1. [i \in DOMAIN pending |-> pending[i].ver] \in Seq(Version)
    <3>1. DOMAIN pending = 1..Len(pending) /\ Len(pending) \in Nat  BY DEF OtherTypes
    <3>. QED  BY <3>1, PendingType
  <2>2. out' \in [Threads -> Seq(Version)]  BY <1>16, <2>1 DEF CommitTake, OtherTypes
  <2>3. <<>> \in Seq(Event)  OBVIOUS
  <2>4. OtherTypes'  BY <1>16, <2>2, <2>3 DEF CommitTake, OtherTypes, opVars, lostVars
  <2>5. ThreadTypes'
    <3>1. pc' \in [Threads -> Labels]  BY <1>16 DEF CommitTake, ThreadTypes, Labels
    <3>2. mode' \in [Threads -> {"auto", "upsert", "tx"}]  BY <1>16 DEF CommitTake, ThreadTypes
    <3>3. conn' \in [Threads -> Connections \cup {None}]  BY <1>16 DEF CommitTake, ThreadTypes
    <3>. QED  BY <1>16, <3>1, <3>2, <3>3 DEF CommitTake, ThreadTypes, opVars
  <2>. QED  BY <1>16, <1>a, <1>b, <2>4, <2>5 DEF CommitTake
<1>17. CASE RollbackDrop(t)
  <2>1. \A i \in DOMAIN pending : pending[i].ver \in Version  BY PendingType
  <2>2. lostRollback' \in SUBSET Version  BY <1>17, <2>1 DEF RollbackDrop, OtherTypes
  <2>3. <<>> \in Seq(Event)  OBVIOUS
  <2>4. OtherTypes'  BY <1>17, <2>2, <2>3 DEF RollbackDrop, OtherTypes
  <2>. QED  BY <1>17, <1>a, <1>b, <2>4, UnpinEffect DEF RollbackDrop
<1>. QED
  BY <1>1, <1>2, <1>3, <1>4, <1>5, <1>6, <1>7, <1>8, <1>9, <1>10, <1>11, <1>12, <1>13,
     <1>14, <1>15, <1>16, <1>17 DEF Request, Finish, Statement, Progress

\* Nor does a stream thread break them; it only changes its own stream.
LEMMA StreamStep ==
    ASSUME TypeOK, NEW s \in Streams, Stream(s)
    PROVE  TypeOK' /\ UNCHANGED <<dbVars, mode, pc, conn, opVars, out, queueVars, lostVars>>
<1>0. DbTypes /\ ThreadTypes /\ StreamTypes /\ OtherTypes
  BY TypeGroups
<1>1. UNCHANGED <<dbVars, mode, pc, conn, opVars, out, queueVars, lostVars>>
  BY DEF Stream, Register, Snapshot, Consume, HangUp, ChannelClosed
<1>2. DbTypes' /\ ThreadTypes' /\ OtherTypes'
  BY <1>0, <1>1 DEF DbTypes, ThreadTypes, OtherTypes, dbVars, opVars, queueVars, lostVars
<1>3. StreamTypes'
  <2>. USE <1>0 DEF StreamTypes
  <2>1. CASE Register(s)
    BY <2>1 DEF Register
  <2>2. CASE Snapshot(s)
    <3>1. {db[r] : r \in Rows} \ {NoRow} \in SUBSET Version  BY DEF DbTypes, NoRow, Version
    <3>. QED  BY <2>2, <3>1 DEF Snapshot
  <2>3. CASE Consume(s)
    <3>1. chan[s] \in Seq(Version) /\ chan[s] # <<>>  BY <2>3 DEF Consume
    <3>2. /\ Head(chan[s]) \in Version /\ Tail(chan[s]) \in Seq(Version)
          /\ Len(Tail(chan[s])) <= Buffer
      BY <3>1, BoundsAssumption
    <3>3. chan' \in [Streams -> Seq(Version)] /\ \A x \in Streams : Len(chan'[x]) <= Buffer
      BY <2>3, <3>2 DEF Consume
    <3>4. seen' \in [Streams -> SUBSET Version]  BY <2>3, <3>2 DEF Consume
    <3>. QED  BY <2>3, <3>3, <3>4 DEF Consume
  <2>4. CASE HangUp(s)
    <3>1. <<>> \in Seq(Version) /\ Len(<<>>) <= Buffer  BY BoundsAssumption
    <3>2. chan' \in [Streams -> Seq(Version)] /\ \A x \in Streams : Len(chan'[x]) <= Buffer
      BY <2>4, <3>1 DEF HangUp
    <3>. QED  BY <2>4, <3>2 DEF HangUp
  <2>5. CASE ChannelClosed(s)
    BY <2>5 DEF ChannelClosed
  <2>. QED  BY <2>1, <2>2, <2>3, <2>4, <2>5 DEF Stream
<1>. QED  BY <1>1, <1>2, <1>3, TypeGroups

\* A step of one thread leaves what belongs to the others alone.
LEMMA OthersSame ==
    ASSUME TypeOK, NEW t \in Threads, Request(t), NEW u \in Threads, u # t
    PROVE  /\ mode'[u] = mode[u] /\ pc'[u] = pc[u] /\ conn'[u] = conn[u]
           /\ row'[u] = row[u] /\ cur'[u] = cur[u] /\ out'[u] = out[u]
           /\ dirty'[u] = dirty[u] /\ wrote'[u] = wrote[u]
<1>. USE DEF TypeOK, dbVars, opVars
<1>1. CASE \E r \in Rows : Write(t, r) \/ DeleteRead(t, r) \/ UpsertFind(t, r)
  BY <1>1 DEF Write, Store, Goto, DeleteRead, UpsertFind, Pin
<1>2. CASE TransactionStart(t) \/ Finish(t)
  BY <1>2 DEF TransactionStart, Pin, Finish, Commit, Rollback, Goto
<1>3. CASE Statement(t)
  BY <1>3 DEF Statement, Reread, RereadFails, DeleteExec, Store, EndOp, Fails, Goto
<1>4. CASE Publish(t) \/ Deliver(t)
  BY <1>4 DEF Publish, Deliver, EndOp, Goto
<1>5. CASE UpsertFails(t) \/ BeginCheck(t) \/ BeginSql(t) \/ BeginQueue(t)
  BY <1>5 DEF UpsertFails, BeginCheck, BeginSql, BeginQueue, Unpin, Goto
<1>6. CASE CommitTake(t) \/ RollbackDrop(t)
  BY <1>6 DEF CommitTake, RollbackDrop, Unpin
<1>. QED  BY <1>1, <1>2, <1>3, <1>4, <1>5, <1>6 DEF Request, Progress

\* Labels and sections stay in step with each other.
LEMMA PcStep ==
    ASSUME TypeOK, PcInv, NEW t \in Threads, Request(t)
    PROVE  PcInv'
<1>. DEFINE PcOf(m, p, c, o) == /\ p \in TxLabels => m = "tx"
                                /\ p = "failed" => m = "tx"
                                /\ p = "delete" => m # "upsert"
                                /\ p \in {"reread", "publish"} => c \in Version
                                /\ o # <<>> <=> p = "deliver"
<1>0. PcOf(mode[t], pc[t], cur[t], out[t]) /\ ThreadTypes /\ OtherTypes /\ DbTypes
  BY TypeGroups DEF PcInv
<1>. SUFFICES PcOf(mode'[t], pc'[t], cur'[t], out'[t])
  BY OthersSame DEF PcInv
<1>. USE DEF TxLabels
<1>1. CASE Ends(t) /\ UNCHANGED out /\ pc[t] # "deliver"
  BY <1>0, <1>1, EndsEffect
<1>2. CASE Unpin(t) /\ UNCHANGED out /\ pc[t] # "deliver"
  BY <1>0, <1>2, UnpinEffect
<1>3. CASE \E r \in Rows : Write(t, r)
  <2>1. PICK r \in Rows : Write(t, r)  BY <1>3
  <2>2. clock + 1 \in Version  BY <1>0, <2>1, BoundsAssumption DEF Write, DbTypes, Version
  <2>3. cur'[t] = clock + 1 /\ UNCHANGED out  BY <1>0, <2>1 DEF Write, ThreadTypes
  <2>4. pc'[t] = "reread" /\ mode' = mode  BY <1>0, <2>1, GotoEffect DEF Write, Labels
  <2>. QED  BY <1>0, <2>1, <2>2, <2>3, <2>4 DEF Write
<1>4. CASE \E r \in Rows : DeleteRead(t, r)
  <2>1. PICK r \in Rows : DeleteRead(t, r)  BY <1>4
  <2>2. pc'[t] = "delete" /\ mode' = mode  BY <1>0, <2>1, GotoEffect DEF DeleteRead, Labels
  <2>. QED  BY <1>0, <2>1, <2>2 DEF DeleteRead
<1>5. CASE (\E r \in Rows : UpsertFind(t, r)) \/ TransactionStart(t)
  BY <1>0, <1>5 DEF UpsertFind, TransactionStart, opVars, ThreadTypes
<1>6. CASE Commit(t) \/ Rollback(t)
  BY <1>0, <1>6 DEF Commit, Rollback, InBody, Goto, opVars, ThreadTypes
<1>7. CASE Reread(t)
  <2>1. row[t] \in Rows  BY <1>0 DEF OtherTypes
  <2>2. Visible(t, row[t]) \in 0..MaxWrites  BY <1>0, <2>1, VisibleType
  <2>3. CASE Visible(t, row[t]) = NoRow
    BY <1>1, <1>7, <2>3 DEF Reread, Ends
  <2>4. CASE Visible(t, row[t]) # NoRow
    <3>1. cur'[t] \in Version /\ UNCHANGED out
      BY <1>0, <1>7, <2>2, <2>4 DEF Reread, ThreadTypes, NoRow, Version
    <3>2. pc'[t] = "publish" /\ mode' = mode
      BY <1>0, <1>7, <2>4, GotoEffect DEF Reread, Labels
    <3>. QED  BY <1>0, <1>7, <3>1, <3>2 DEF Reread
  <2>. QED  BY <2>3, <2>4
<1>8. CASE RereadFails(t)
  BY <1>1, <1>8 DEF RereadFails, Ends
<1>9. CASE DeleteExec(t)
  <2>1. CASE EndOp(t)  BY <1>1, <1>9, <2>1 DEF DeleteExec, Ends
  <2>2. CASE cur[t] # NoRow /\ Goto(t, "publish") /\ UNCHANGED cur
    <3>1. cur[t] \in Version  BY <1>0, <2>2 DEF ThreadTypes, NoRow, Version
    <3>2. pc'[t] = "publish" /\ mode' = mode  BY <1>0, <2>2, GotoEffect DEF Labels
    <3>. QED  BY <1>0, <1>9, <2>2, <3>1, <3>2 DEF DeleteExec
  <2>. QED  BY <1>9, <2>1, <2>2 DEF DeleteExec
<1>10. CASE Publish(t)
  <2>1. CASE open  BY <1>1, <1>10, <2>1 DEF Publish, Ends
  <2>2. CASE ~open
    <3>1. pc'[t] = "deliver" /\ mode' = mode
      BY <1>0, <1>10, <2>2, GotoEffect DEF Publish, Labels
    <3>2. out'[t] = <<cur[t]>>  BY <1>0, <1>10, <2>2 DEF Publish, OtherTypes
    <3>. QED  BY <3>1, <3>2
  <2>. QED  BY <2>1, <2>2
<1>11. CASE Deliver(t)
  <2>1. out'[t] = Tail(out[t])  BY <1>0, <1>11 DEF Deliver, OtherTypes
  <2>2. CASE Tail(out[t]) = <<>>
    <3>1. EndOp(t)  BY <1>11, <2>2 DEF Deliver
    <3>2. pc'[t] = "idle"  BY <1>0, <3>1, EndOpEffect
    <3>. QED  BY <2>1, <2>2, <3>2
  <2>3. CASE Tail(out[t]) # <<>>
    <3>1. Goto(t, "deliver")  BY <1>11, <2>3 DEF Deliver
    <3>2. pc'[t] = "deliver"  BY <1>0, <3>1, GotoEffect DEF Labels
    <3>. QED  BY <2>1, <2>3, <3>2
  <2>. QED  BY <2>2, <2>3
<1>12. CASE UpsertFails(t) \/ RollbackDrop(t)
  BY <1>2, <1>12 DEF UpsertFails, RollbackDrop
<1>13. CASE BeginCheck(t) \/ BeginSql(t)
  <2>1. CASE Unpin(t)  BY <1>2, <1>13, <2>1 DEF BeginCheck, BeginSql
  <2>2. CASE \E l \in {"opening", "opened"} : Goto(t, l)
    <3>1. pc'[t] \in {"opening", "opened"} /\ mode' = mode  BY <1>0, <2>2 DEF Goto, ThreadTypes
    <3>. QED  BY <1>0, <1>13, <3>1 DEF BeginCheck, BeginSql
  <2>. QED  BY <1>13, <2>1, <2>2 DEF BeginCheck, BeginSql
<1>14. CASE BeginQueue(t)
  BY <1>0, <1>14 DEF BeginQueue, Goto, ThreadTypes
<1>15. CASE CommitTake(t)
  <2>1. out'[t] = [i \in DOMAIN pending |-> pending[i].ver]
    BY <1>0, <1>15 DEF CommitTake, OtherTypes
  <2>2. out'[t] = <<>> <=> pending = <<>>
    <3>1. DOMAIN pending = 1..Len(pending) /\ Len(pending) \in Nat /\ (pending = <<>> <=> Len(pending) = 0)
      BY <1>0 DEF OtherTypes
    <3>2. <<>> = [i \in 1..0 |-> pending[i].ver]  OBVIOUS
    <3>3. CASE pending = <<>>
      <4>1. DOMAIN pending = 1..0  BY <3>1, <3>3
      <4>. QED  BY <2>1, <3>2, <3>3, <4>1
    <3>4. CASE pending # <<>>
      <4>1. 1 \in DOMAIN out'[t]  BY <2>1, <3>1, <3>4
      <4>2. DOMAIN <<>> = 1..0  BY <3>2
      <4>. QED  BY <3>4, <4>1, <4>2
    <3>. QED  BY <3>3, <3>4
  <2>3. pc'[t] = (IF pending = <<>> THEN "idle" ELSE "deliver") /\ mode'[t] = "auto"
    BY <1>0, <1>15 DEF CommitTake, ThreadTypes
  <2>. QED  BY <2>2, <2>3
<1>. QED
  BY <1>3, <1>4, <1>5, <1>6, <1>7, <1>8, <1>9, <1>10, <1>11, <1>12, <1>13, <1>14, <1>15
  DEF Request, Finish, Statement, Progress

\* Every variable keeps its type, whatever connections there are: in particular
\* no channel ever holds more than LIVE_STREAM_BUFFER events.
THEOREM TypeCorrect == Spec => []TypeOK
<1>1. Init => TypeOK /\ PcInv
  BY TypeInit
<1>2. TypeOK /\ PcInv /\ [Next]_vars => TypeOK' /\ PcInv'
  <2>. SUFFICES ASSUME TypeOK, PcInv, [Next]_vars PROVE TypeOK' /\ PcInv'  OBVIOUS
  <2>1. ASSUME NEW t \in Threads, Request(t) PROVE TypeOK' /\ PcInv'
    BY <2>1, RequestTypes, PcStep
  <2>2. ASSUME NEW s \in Streams, Stream(s) PROVE TypeOK' /\ PcInv'
    BY <2>2, StreamStep DEF PcInv, opVars
  <2>3. CASE UNCHANGED vars
    BY <2>3 DEF vars, TypeOK, PcInv
  <2>. QED  BY <2>1, <2>2, <2>3 DEF Next
<1>. QED  BY <1>1, <1>2, PTL DEF Spec
----------------------------------------------------------------------------
(* One exclusive section at a time.                                        *)

Opened(t) == mode[t] = "tx" /\ pc[t] \notin {"begin", "opening", "opened"}

\* With one connection, a thread that holds it is the only one that holds any,
\* and no connection is free.
LEMMA HolderAlone ==
    ASSUME SingleWriter, TypeOK, HoldInv, NEW t \in Threads, conn[t] # None
    PROVE  /\ \A c \in Connections : ~Free(c)
           /\ \A u \in Threads \ {t} : conn[u] = None /\ mode[u] = "auto" /\ ~CanExecute(u)
<1>1. conn[t] \in Connections  BY DEF TypeOK
<1>2. \A c \in Connections : ~Free(c)  BY <1>1 DEF SingleWriter, Free
<1>3. \A u \in Threads \ {t} : conn[u] = None /\ mode[u] = "auto"  BY DEF HoldInv
<1>. QED  BY <1>2, <1>3 DEF CanExecute

\* A thread takes the connection when nobody holds it, and gives it back with
\* the section.
LEMMA SectionStep ==
    ASSUME TypeOK, PcInv, HoldInv, NEW t \in Threads, Request(t)
    PROVE  \/ conn' = conn /\ mode' = mode
           \/ /\ mode[t] = "auto" /\ mode'[t] # "auto" /\ conn'[t] # None
              /\ \E c \in Connections : Free(c)
           \/ mode[t] # "auto" /\ mode'[t] = "auto" /\ conn'[t] = None
<1>0. ThreadTypes  BY TypeGroups
<1>1. CASE Ends(t)
  <2>1. CASE mode[t] = "upsert"  BY <1>0, <1>1, <2>1, EndsEffect
  <2>2. CASE mode[t] # "upsert"
    <3>1. mode' = mode /\ conn' = conn  BY <1>0, <1>1, <2>2 DEF Ends, EndOp, Fails, ThreadTypes
    <3>. QED  BY <3>1
  <2>. QED  BY <2>1, <2>2
<1>2. CASE mode[t] # "auto" /\ Unpin(t)
  BY <1>0, <1>2, UnpinEffect
<1>3. CASE UNCHANGED <<mode, conn>>
  BY <1>3
<1>4. CASE (\E r \in Rows : UpsertFind(t, r)) \/ TransactionStart(t)
  <2>1. Pin(t) /\ mode[t] = "auto" /\ mode'[t] # "auto"
    BY <1>0, <1>4 DEF UpsertFind, TransactionStart, ThreadTypes
  <2>2. PICK c \in Connections : Free(c) /\ conn' = [conn EXCEPT ![t] = c]  BY <2>1 DEF Pin
  <2>3. conn'[t] = c /\ c # None  BY <1>0, <2>2, ConnectionsAssumption DEF ThreadTypes
  <2>. QED  BY <2>1, <2>2, <2>3
<1>5. CASE CommitTake(t)
  <2>1. mode[t] = "tx"  BY <1>5 DEF CommitTake, PcInv, TxLabels
  <2>2. mode'[t] = "auto" /\ conn'[t] = None  BY <1>0, <1>5 DEF CommitTake, ThreadTypes
  <2>. QED  BY <2>1, <2>2
<1>6. CASE \E r \in Rows : Write(t, r) \/ DeleteRead(t, r)
  BY <1>3, <1>6 DEF Write, DeleteRead, Goto
<1>7. CASE Finish(t) \/ BeginQueue(t)
  BY <1>3, <1>7 DEF Finish, Commit, Rollback, BeginQueue, Goto
<1>8. CASE Statement(t)
  BY <1>1, <1>3, <1>8 DEF Statement, Reread, RereadFails, DeleteExec, Goto, Ends
<1>9. CASE Publish(t) \/ Deliver(t)
  BY <1>1, <1>3, <1>9 DEF Publish, Deliver, Goto, Ends
<1>10. CASE UpsertFails(t)
  BY <1>2, <1>10 DEF UpsertFails
<1>11. CASE BeginCheck(t) \/ BeginSql(t) \/ RollbackDrop(t)
  <2>1. mode[t] = "tx"  BY <1>11 DEF BeginCheck, BeginSql, RollbackDrop, PcInv, TxLabels
  <2>. QED  BY <1>2, <1>3, <1>11, <2>1 DEF BeginCheck, BeginSql, RollbackDrop, Goto
<1>. QED
  BY <1>4, <1>5, <1>6, <1>7, <1>8, <1>9, <1>10, <1>11 DEF Request, Progress

\* The queue opens with the transaction of t and closes with it.
LEMMA QueueStep ==
    ASSUME TypeOK, PcInv, NEW t \in Threads, Request(t)
    PROVE  \/ open' = open /\ Opened(t)' = Opened(t) /\ (pending' = pending \/ open)
           \/ ~Opened(t) /\ mode[t] = "tx" /\ Opened(t)' /\ open' /\ pending' = <<>>
           \/ Opened(t) /\ ~Opened(t)' /\ ~open' /\ pending' = <<>>
<1>0. ThreadTypes  BY TypeGroups
<1>. USE DEF Opened
<1>1. CASE Ends(t) /\ pc[t] \notin {"begin", "opening", "opened"} /\ open' = open
           /\ (pending' = pending \/ open)
  BY <1>0, <1>1, EndsEffect
<1>2. ASSUME NEW l \in Labels, Goto(t, l), UNCHANGED queueVars,
             pc[t] \in {"begin", "opening", "opened"} <=> l \in {"begin", "opening", "opened"}
      PROVE  open' = open /\ Opened(t)' = Opened(t) /\ pending' = pending
  BY <1>0, <1>2, GotoEffect DEF queueVars
<1>3. ASSUME Unpin(t), UNCHANGED queueVars, ~Opened(t)
      PROVE  open' = open /\ Opened(t)' = Opened(t) /\ pending' = pending
  BY <1>0, <1>3, UnpinEffect DEF queueVars
<1>4. CASE \E r \in Rows : Write(t, r) \/ DeleteRead(t, r)
  BY <1>2, <1>4 DEF Write, DeleteRead, Labels
<1>5. CASE (\E r \in Rows : UpsertFind(t, r)) \/ TransactionStart(t)
  BY <1>0, <1>5 DEF UpsertFind, TransactionStart, ThreadTypes, queueVars
<1>6. CASE Finish(t)
  BY <1>2, <1>6 DEF Finish, Commit, Rollback, InBody, Labels, TxLabels
<1>7. CASE Statement(t)
  BY <1>1, <1>2, <1>7 DEF Statement, Reread, RereadFails, DeleteExec, Labels, Ends, queueVars
<1>8. CASE Publish(t)
  BY <1>1, <1>2, <1>8 DEF Publish, Labels, Ends, queueVars
<1>9. CASE Deliver(t)
  BY <1>1, <1>2, <1>9 DEF Deliver, Labels, Ends, queueVars
<1>10. CASE UpsertFails(t)
  BY <1>3, <1>10 DEF UpsertFails
<1>11. CASE BeginCheck(t) \/ BeginSql(t)
  BY <1>2, <1>3, <1>11 DEF BeginCheck, BeginSql, Labels, TxLabels
<1>12. CASE BeginQueue(t)
  <2>1. mode[t] = "tx" /\ pc[t] = "opened"  BY <1>12 DEF BeginQueue, PcInv, TxLabels
  <2>2. pc'[t] = "idle" /\ mode' = mode  BY <1>0, <1>12, GotoEffect DEF BeginQueue, Labels
  <2>. QED  BY <1>12, <2>1, <2>2 DEF BeginQueue
<1>13. CASE CommitTake(t)
  <2>1. mode[t] = "tx" /\ pc[t] = "committed"  BY <1>13 DEF CommitTake, PcInv, TxLabels
  <2>2. mode'[t] = "auto"  BY <1>0, <1>13 DEF CommitTake, ThreadTypes
  <2>. QED  BY <1>13, <2>1, <2>2 DEF CommitTake
<1>14. CASE RollbackDrop(t)
  <2>1. mode[t] = "tx" /\ pc[t] = "rolledback"  BY <1>14 DEF RollbackDrop, PcInv, TxLabels
  <2>2. mode'[t] = "auto"  BY <1>0, <1>14, UnpinEffect DEF RollbackDrop
  <2>. QED  BY <1>14, <2>1, <2>2 DEF RollbackDrop
<1>. QED
  BY <1>4, <1>5, <1>6, <1>7, <1>8, <1>9, <1>10, <1>11, <1>12, <1>13, <1>14 DEF Request, Progress

\* The exclusive sections still exclude each other after a step.
LEMMA HoldStep ==
    ASSUME SingleWriter, TypeOK, PcInv, HoldInv, NEW t \in Threads, Request(t)
    PROVE  HoldInv'
<1>. USE OthersSame, SectionStep
<1>1. \A u \in Threads : mode'[u] = "auto" <=> conn'[u] = None
  BY DEF HoldInv
<1>2. ASSUME NEW u \in Threads \ {t}, conn'[u] # None PROVE conn'[t] = None
  <2>1. conn[u] # None  BY <1>2
  <2>2. conn[t] = None /\ mode[t] = "auto" /\ \A c \in Connections : ~Free(c)
    BY <2>1, HolderAlone
  <2>. QED  BY <2>2
<1>3. \A u, w \in Threads : conn'[u] # None /\ conn'[w] # None => u = w
  <2>. SUFFICES ASSUME NEW u \in Threads, NEW w \in Threads, conn'[u] # None, conn'[w] # None, u # w
                PROVE  FALSE
    OBVIOUS
  <2>. QED  BY <1>2 DEF HoldInv
<1>4. \A u \in Threads \ {t} : Opened(u)' = Opened(u)
  BY DEF Opened
<1>5. mode[t] = "tx" => \A u \in Threads \ {t} : ~Opened(u)
  BY HolderAlone DEF HoldInv, Opened
<1>6. open <=> \E u \in Threads : Opened(u)
  BY DEF HoldInv, Opened
<1>7. (open' <=> \E u \in Threads : Opened(u)') /\ (~open' => pending' = <<>>)
  BY <1>4, <1>5, <1>6, QueueStep DEF HoldInv, Opened
<1>. QED  BY <1>1, <1>3, <1>7 DEF HoldInv, Opened

\* What an upsert found outlives every step of every other thread.
LEMMA UpsertStep ==
    ASSUME SingleWriter, TypeOK, PcInv, HoldInv, UpsertDecisionHolds, NEW t \in Threads, Request(t)
    PROVE  UpsertDecisionHolds'
<1>0. ThreadTypes /\ DbTypes /\ OtherTypes  BY TypeGroups
<1>1. ASSUME NEW u \in Threads \ {t}, mode'[u] = "upsert", pc'[u] = "idle"
      PROVE  db'[row'[u]] = cur'[u]
  <2>1. mode[u] = "upsert" /\ conn[u] # None /\ row'[u] = row[u] /\ db[row[u]] = cur'[u]
    BY <1>1, OthersSame DEF HoldInv, UpsertDecisionHolds
  <2>2. mode[t] = "auto" /\ ~CanExecute(t)  BY <2>1, HolderAlone
  <2>3. db' = db
    <3>1. ~Finish(t) /\ ~DeleteExec(t) /\ \A r \in Rows : ~Write(t, r)
      BY <2>2 DEF Finish, Commit, Rollback, InBody, DeleteExec, Write, PcInv
    <3>. QED
      BY <3>1 DEF Request, Statement, Progress, DeleteRead, UpsertFind, TransactionStart, Reread,
                  RereadFails, Publish, Deliver, UpsertFails, BeginCheck, BeginSql, BeginQueue,
                  CommitTake, RollbackDrop, dbVars
  <2>. QED  BY <2>1, <2>3
<1>2. ASSUME mode'[t] = "upsert", pc'[t] = "idle" PROVE db'[row'[t]] = cur'[t]
  <2>1. ~Ends(t)  BY <1>0, <1>2, EndsEffect
  <2>2. ~Unpin(t)  BY <1>0, <1>2, UnpinEffect
  <2>3. ASSUME NEW l \in Labels, Goto(t, l) PROVE l = "idle" /\ mode[t] = "upsert"
    BY <1>0, <1>2, <2>3, GotoEffect
  <2>4. PICK r \in Rows : UpsertFind(t, r)
    <3>1. \A r \in Rows : ~Write(t, r) /\ ~DeleteRead(t, r)
      BY <2>3 DEF Write, DeleteRead, Labels
    <3>2. ~TransactionStart(t)  BY <1>0, <1>2 DEF TransactionStart, ThreadTypes
    <3>3. ~Finish(t)  BY <2>3 DEF Finish, Commit, Rollback, Labels, TxLabels
    <3>4. ~Statement(t)  BY <2>1, <2>3 DEF Statement, Reread, RereadFails, DeleteExec, Labels, Ends
    <3>5. ~Publish(t) /\ ~Deliver(t)  BY <2>1, <2>3 DEF Publish, Deliver, Labels, Ends
    <3>6. ~UpsertFails(t) /\ ~RollbackDrop(t)  BY <2>2 DEF UpsertFails, RollbackDrop
    <3>7. ~BeginCheck(t) /\ ~BeginSql(t)  BY <2>2, <2>3 DEF BeginCheck, BeginSql, Labels, TxLabels
    <3>8. ~BeginQueue(t)
      <4>1. mode[t] # "upsert" \/ pc[t] # "opened"  BY DEF PcInv, TxLabels
      <4>. QED  BY <2>3, <4>1 DEF BeginQueue, Labels
    <3>9. ~CommitTake(t)  BY <1>0, <1>2 DEF CommitTake, ThreadTypes
    <3>. QED  BY <3>1, <3>2, <3>3, <3>4, <3>5, <3>6, <3>7, <3>8, <3>9 DEF Request, Progress
  <2>. QED  BY <1>0, <2>4 DEF UpsertFind, dbVars, ThreadTypes, OtherTypes
<1>. QED  BY <1>1, <1>2 DEF UpsertDecisionHolds

SerialInv == TypeOK /\ PcInv /\ HoldInv /\ UpsertDecisionHolds

\* With one connection every behaviour keeps its exclusive sections apart.
LEMMA Serial ==
    ASSUME SingleWriter
    PROVE  Spec => []SerialInv
<1>1. Init => SerialInv
  <2>. SUFFICES ASSUME Init PROVE SerialInv  OBVIOUS
  <2>1. TypeOK /\ PcInv  BY TypeInit
  <2>2. HoldInv /\ UpsertDecisionHolds  BY DEF Init, HoldInv, UpsertDecisionHolds
  <2>. QED  BY <2>1, <2>2 DEF SerialInv
<1>2. SerialInv /\ [Next]_vars => SerialInv'
  <2>. SUFFICES ASSUME SerialInv, [Next]_vars PROVE SerialInv'  OBVIOUS
  <2>. USE DEF SerialInv
  <2>1. ASSUME NEW t \in Threads, Request(t) PROVE SerialInv'
    BY <2>1, RequestTypes, PcStep, HoldStep, UpsertStep
  <2>2. ASSUME NEW s \in Streams, Stream(s) PROVE SerialInv'
    BY <2>2, StreamStep
    DEF PcInv, HoldInv, UpsertDecisionHolds, dbVars, opVars, queueVars
  <2>3. CASE UNCHANGED vars
    BY <2>3 DEF vars, TypeOK, PcInv, HoldInv, UpsertDecisionHolds
  <2>. QED  BY <2>1, <2>2, <2>3 DEF Next
<1>. QED  BY <1>1, <1>2, PTL DEF Spec

\* begin_transaction is refused only for nesting: with one connection, whoever
\* reaches its check holds that connection, and the queue is closed.
THEOREM BeginNotRefused ==
    ASSUME SingleWriter
    PROVE  Spec => []BeginNeverRefused
<1>1. SerialInv => BeginNeverRefused
  <2>. SUFFICES ASSUME SerialInv, NEW t \in Threads, pc[t] = "begin", open PROVE FALSE
    BY DEF BeginNeverRefused
  <2>1. mode[t] = "tx"  BY DEF SerialInv, PcInv, TxLabels
  <2>2. PICK u \in Threads : mode[u] = "tx" /\ pc[u] \notin {"begin", "opening", "opened"}
    BY DEF SerialInv, HoldInv
  <2>. QED  BY <2>1, <2>2 DEF SerialInv, HoldInv
<1>. QED  BY <1>1, Serial, PTL

\* What the find of an upsert saw holds until its write, so two upserts cannot
\* both see "no match" and both insert.
THEOREM UpsertIsAtomic ==
    ASSUME SingleWriter
    PROVE  Spec => []UpsertDecisionHolds
<1>1. SerialInv => UpsertDecisionHolds
  BY DEF SerialInv
<1>. QED  BY <1>1, Serial, PTL

\* The exclusive section of a request keeps the sections of all the others out
\* (mod.rs, upsert and run_transaction take the one connection of the process).
THEOREM SectionsCorrect ==
    ASSUME SingleWriter
    PROVE  Spec => []SectionsHold
<1>1. BeginNeverRefused /\ UpsertDecisionHolds => SectionsHold
  BY DEF SectionsHold
<1>. QED  BY <1>1, BeginNotRefused, UpsertIsAtomic, PTL
----------------------------------------------------------------------------
(* No stream is shown what a rollback takes back.                          *)

\* Only the body of a transaction writes, and its end takes everything back or
\* commits it.
LEMMA DirtyStep ==
    ASSUME TypeOK, PcInv, DirtyInv, NEW t \in Threads, Request(t)
    PROVE  DirtyInv'
<1>0. ThreadTypes /\ DbTypes /\ OtherTypes  BY TypeGroups
<1>. DEFINE Outside(m, p) == m # "tx" \/ p \in TxLabels
<1>. SUFFICES /\ Outside(mode'[t], pc'[t]) => wrote'[t] = {} /\ dirty'[t] = Clean
              /\ \A r \in Rows : dirty'[t][r] \in wrote'[t] \cup {NoRow, Unwritten}
  BY OthersSame DEF DirtyInv
<1>. USE DEF TxLabels
<1>a. ASSUME UNCHANGED <<dirty, wrote>>, Outside(mode'[t], pc'[t]) => Outside(mode[t], pc[t])
      PROVE  /\ Outside(mode'[t], pc'[t]) => wrote'[t] = {} /\ dirty'[t] = Clean
             /\ \A r \in Rows : dirty'[t][r] \in wrote'[t] \cup {NoRow, Unwritten}
  BY <1>a DEF DirtyInv
<1>b. ASSUME NEW l \in Labels, Goto(t, l)
      PROVE  mode' = mode /\ (l \notin TxLabels => (~Outside(mode[t], pc[t]) => ~Outside(mode'[t], pc'[t])))
  BY <1>0, <1>b, GotoEffect
<1>c. ASSUME Ends(t) PROVE Outside(mode'[t], pc'[t]) => Outside(mode[t], pc[t])
  BY <1>0, <1>c, EndsEffect
<1>1. ASSUME NEW r \in Rows, Write(t, r)
      PROVE  /\ Outside(mode'[t], pc'[t]) => wrote'[t] = {} /\ dirty'[t] = Clean
             /\ \A q \in Rows : dirty'[t][q] \in wrote'[t] \cup {NoRow, Unwritten}
  <2>1. pc'[t] = "reread" /\ mode' = mode  BY <1>0, <1>1, GotoEffect DEF Write, Labels
  <2>2. CASE mode[t] = "tx"
    <3>1. wrote'[t] = wrote[t] \cup {clock + 1}  BY <1>0, <1>1, <2>2 DEF Write, DbTypes
    <3>2. /\ dirty'[t][r] = clock + 1
          /\ \A q \in Rows \ {r} : dirty'[t][q] = dirty[t][q]
      BY <1>0, <1>1, <2>2 DEF Write, Store, DbTypes
    <3>. QED  BY <2>1, <2>2, <3>1, <3>2 DEF DirtyInv
  <2>3. CASE mode[t] # "tx"
    BY <1>a, <1>1, <2>3 DEF Write, Store
  <2>. QED  BY <2>2, <2>3
<1>2. CASE \E r \in Rows : DeleteRead(t, r)
  BY <1>a, <1>b, <1>2 DEF DeleteRead, Labels, dbVars
<1>3. CASE (\E r \in Rows : UpsertFind(t, r)) \/ TransactionStart(t)
  BY <1>a, <1>3 DEF UpsertFind, TransactionStart, dbVars
<1>4. CASE Finish(t)
  <2>1. wrote'[t] = {} /\ dirty'[t] = Clean  BY <1>0, <1>4 DEF Finish, Commit, Rollback, DbTypes
  <2>. QED  BY <2>1 DEF Clean
<1>5. CASE Reread(t) \/ RereadFails(t)
  BY <1>a, <1>b, <1>c, <1>5 DEF Reread, RereadFails, Labels, Ends, dbVars
<1>6. CASE DeleteExec(t)
  <2>1. row[t] \in Rows  BY <1>0 DEF OtherTypes
  <2>2. wrote' = wrote  BY <1>6 DEF DeleteExec
  <2>3. Outside(mode'[t], pc'[t]) => Outside(mode[t], pc[t])
    BY <1>b, <1>c, <1>6 DEF DeleteExec, Labels, Ends
  <2>4. CASE UNCHANGED dirty  BY <1>a, <2>2, <2>3, <2>4
  <2>5. CASE mode[t] = "tx" /\ Store(t, row[t], NoRow)
    <3>1. /\ dirty'[t][row[t]] = NoRow
          /\ \A q \in Rows \ {row[t]} : dirty'[t][q] = dirty[t][q]
      BY <1>0, <2>1, <2>5 DEF Store, DbTypes
    <3>2. ~Outside(mode[t], pc[t])  BY <1>6, <2>5 DEF DeleteExec
    <3>. QED  BY <2>2, <2>3, <3>1, <3>2 DEF DirtyInv
  <2>. QED  BY <1>6, <2>4, <2>5 DEF DeleteExec, Store
<1>7. CASE Publish(t) \/ Deliver(t)
  BY <1>a, <1>b, <1>c, <1>7 DEF Publish, Deliver, Labels, Ends, dbVars
<1>8. CASE UpsertFails(t)
  BY <1>a, <1>8 DEF UpsertFails, dbVars
<1>9. CASE BeginCheck(t) \/ BeginSql(t) \/ BeginQueue(t) \/ CommitTake(t) \/ RollbackDrop(t)
  BY <1>a, <1>9 DEF BeginCheck, BeginSql, BeginQueue, CommitTake, RollbackDrop, dbVars
<1>. QED
  BY <1>1, <1>2, <1>3, <1>4, <1>5, <1>6, <1>7, <1>8, <1>9 DEF Request, Statement, Progress

\* What is committed stays committed, and what a transaction wrote stays its own
\* until it is committed or discarded.
LEMMA ConfirmedStep ==
    ASSUME TypeOK, NEW t \in Threads, Request(t)
    PROVE  /\ confirmed \subseteq confirmed'
           /\ \A u \in Threads : wrote[u] \subseteq wrote'[u] \cup confirmed' \/ Rollback(t)
<1>0. DbTypes  BY TypeGroups
<1>1. CASE \E r \in Rows : Write(t, r)
  <2>1. CASE wrote' = [wrote EXCEPT ![t] = @ \cup {clock + 1}] /\ UNCHANGED confirmed
    BY <1>0, <2>1 DEF DbTypes
  <2>2. CASE confirmed' = confirmed \cup {clock + 1} /\ UNCHANGED wrote
    BY <2>2
  <2>. QED  BY <1>1, <2>1, <2>2 DEF Write
<1>2. CASE Commit(t)
  BY <1>0, <1>2 DEF Commit, DbTypes
<1>3. CASE Rollback(t)
  BY <1>0, <1>3 DEF Rollback, DbTypes
<1>4. CASE UNCHANGED <<wrote, confirmed>>
  BY <1>4
<1>. QED
  BY <1>1, <1>2, <1>3, <1>4
  DEF Request, Finish, Statement, Progress, DeleteRead, UpsertFind, TransactionStart, Reread,
      RereadFails, DeleteExec, Publish, Deliver, UpsertFails, BeginCheck, BeginSql, BeginQueue,
      CommitTake, RollbackDrop, dbVars

\* What a thread reads is committed or its own.
LEMMA VisibleHistory ==
    ASSUME TypeOK, DirtyInv, PhantomInv, NEW t \in Threads, NEW r \in Rows
    PROVE  Visible(t, r) \in confirmed \cup wrote[t] \cup {NoRow}
BY DEF DirtyInv, PhantomInv, Visible, Unwritten, NoRow

\* The database holds committed versions.
LEMMA DbStep ==
    ASSUME TypeOK, DirtyInv, PhantomInv, NEW t \in Threads, Request(t)
    PROVE  \A r \in Rows : db'[r] \in confirmed' \cup {NoRow}
<1>0. DbTypes /\ OtherTypes  BY TypeGroups
<1>1. CASE db' = db
  BY <1>1, ConfirmedStep DEF PhantomInv
<1>2. ASSUME NEW q \in Rows, Write(t, q), mode[t] # "tx"
      PROVE  \A r \in Rows : db'[r] \in confirmed' \cup {NoRow}
  <2>1. /\ confirmed' = confirmed \cup {clock + 1} /\ db'[q] = clock + 1
        /\ \A r \in Rows \ {q} : db'[r] = db[r]
    BY <1>0, <1>2 DEF Write, Store, DbTypes
  <2>. QED  BY <2>1 DEF PhantomInv
<1>3. CASE DeleteExec(t) /\ mode[t] # "tx"
  <2>1. confirmed' = confirmed /\ \A r \in Rows : db'[r] \in {db[r], NoRow}
    BY <1>0, <1>3 DEF DeleteExec, Store, DbTypes, OtherTypes
  <2>. QED  BY <2>1 DEF PhantomInv
<1>4. CASE Commit(t)
  <2>1. confirmed' = confirmed \cup wrote[t] /\ \A r \in Rows : db'[r] = Visible(t, r)
    BY <1>4 DEF Commit
  <2>. QED  BY <2>1, VisibleHistory
<1>5. ASSUME NEW q \in Rows, Write(t, q), mode[t] = "tx" PROVE db' = db
  BY <1>5 DEF Write, Store
<1>6. CASE DeleteExec(t) /\ mode[t] = "tx"
  BY <1>1, <1>6 DEF DeleteExec, Store
<1>. QED
  BY <1>1, <1>2, <1>3, <1>4, <1>5, <1>6
  DEF Request, Finish, Statement, Progress, DeleteRead, UpsertFind, TransactionStart, Reread,
      RereadFails, Rollback, Publish, Deliver, UpsertFails, BeginCheck, BeginSql, BeginQueue,
      CommitTake, RollbackDrop, dbVars

\* Outside a transaction nothing is uncommitted: what a thread publishes then, and
\* what the end of a transaction takes out of the queue, was committed.
LEMMA OutStep ==
    ASSUME SingleWriter, SerialInv, DirtyInv, PhantomInv, NEW t \in Threads, Request(t)
    PROVE  Elems(out'[t]) \subseteq confirmed'
<1>0. TypeOK /\ PcInv /\ HoldInv /\ ThreadTypes /\ OtherTypes  BY TypeGroups DEF SerialInv
<1>1. CASE out' = out
  BY <1>0, <1>1, ConfirmedStep DEF PhantomInv
<1>2. CASE Publish(t) /\ ~open
  <2>1. mode[t] # "tx"  BY <1>0, <1>2 DEF HoldInv, Publish
  <2>2. cur[t] \in confirmed
    BY <1>0, <1>2, <2>1 DEF PhantomInv, DirtyInv, PcInv, Publish, NoRow, Version
  <2>3. out'[t] = <<cur[t]>> /\ confirmed' = confirmed
    BY <1>0, <1>2 DEF Publish, OtherTypes, dbVars
  <2>. QED  BY <2>2, <2>3 DEF Elems
<1>3. CASE Deliver(t)
  <2>1. out[t] \in Seq(Version) /\ out[t] # <<>>  BY <1>0, <1>3 DEF Deliver, PcInv, OtherTypes
  <2>2. out'[t] = Tail(out[t]) /\ confirmed' = confirmed
    BY <1>0, <1>3 DEF Deliver, OtherTypes, dbVars
  <2>3. \A i \in DOMAIN Tail(out[t]) : i + 1 \in DOMAIN out[t] /\ Tail(out[t])[i] = out[t][i + 1]
    BY <2>1
  <2>. QED  BY <2>2, <2>3 DEF Elems, PhantomInv
<1>4. CASE CommitTake(t)
  <2>1. mode[t] = "tx" /\ pc[t] = "committed"  BY <1>0, <1>4 DEF CommitTake, PcInv, TxLabels
  <2>2. conn[t] # None  BY <1>0, <2>1 DEF HoldInv
  <2>3. \A u \in Threads : wrote[u] = {} /\ pc[u] # "rolledback"
    BY <1>0, <2>1, <2>2, HolderAlone DEF DirtyInv, PcInv, TxLabels
  <2>4. \A i \in DOMAIN pending : pending[i].ver \in confirmed
    BY <2>3 DEF PhantomInv
  <2>5. out'[t] = [i \in DOMAIN pending |-> pending[i].ver] /\ confirmed' = confirmed
    BY <1>0, <1>4 DEF CommitTake, OtherTypes, dbVars
  <2>. QED  BY <2>4, <2>5 DEF Elems
<1>5. CASE Publish(t) /\ open
  BY <1>1, <1>5 DEF Publish
<1>. QED
  BY <1>1, <1>2, <1>3, <1>4, <1>5
  DEF Request, Finish, Statement, Progress, Write, DeleteRead, UpsertFind, TransactionStart,
      Reread, RereadFails, DeleteExec, Commit, Rollback, UpsertFails, BeginCheck, BeginSql,
      BeginQueue, RollbackDrop

\* The version an operation has at hand is committed or of its own transaction.
LEMMA CurStep ==
    ASSUME SerialInv, DirtyInv, PhantomInv, NEW t \in Threads, Request(t),
           pc'[t] \in {"reread", "publish", "delete"}
    PROVE  cur'[t] \in confirmed' \cup wrote'[t] \cup {NoRow}
<1>0. TypeOK /\ PcInv /\ ThreadTypes /\ DbTypes /\ OtherTypes  BY TypeGroups DEF SerialInv
<1>1. ~EndOp(t) /\ ~Fails(t) /\ ~Unpin(t)  BY <1>0, EndsEffect, UnpinEffect DEF Ends
<1>2. ASSUME NEW l \in Labels, Goto(t, l) PROVE l \in {"reread", "publish", "delete"}
  BY <1>0, <1>2, GotoEffect
<1>3. CASE \E r \in Rows : Write(t, r)
  BY <1>0, <1>3 DEF Write, ThreadTypes, DbTypes
<1>4. CASE \E r \in Rows : DeleteRead(t, r)
  <2>1. PICK r \in Rows : DeleteRead(t, r)  BY <1>4
  <2>2. cur'[t] = Visible(t, r) /\ UNCHANGED <<confirmed, wrote>>
    BY <1>0, <2>1 DEF DeleteRead, ThreadTypes, dbVars
  <2>. QED  BY <1>0, <2>2, VisibleHistory
<1>5. CASE Reread(t)
  <2>1. row[t] \in Rows  BY <1>0 DEF OtherTypes
  <2>2. cur'[t] = Visible(t, row[t]) /\ UNCHANGED <<confirmed, wrote>>
    BY <1>0, <1>1, <1>5 DEF Reread, ThreadTypes, dbVars
  <2>. QED  BY <1>0, <2>1, <2>2, VisibleHistory
<1>6. CASE DeleteExec(t)
  <2>1. UNCHANGED <<cur, confirmed, wrote>> /\ pc[t] = "delete"
    BY <1>1, <1>6 DEF DeleteExec
  <2>. QED  BY <2>1 DEF PhantomInv
<1>8. \A r \in Rows : ~UpsertFind(t, r)
  BY DEF UpsertFind
<1>9. ~TransactionStart(t) /\ ~CommitTake(t)
  BY <1>0 DEF TransactionStart, CommitTake, ThreadTypes
<1>10. ~Finish(t)
  BY <1>2 DEF Finish, Commit, Rollback, Labels, TxLabels
<1>11. ~RereadFails(t) /\ ~UpsertFails(t) /\ ~RollbackDrop(t)
  BY <1>1 DEF RereadFails, UpsertFails, RollbackDrop
<1>12. ~Publish(t) /\ ~Deliver(t)
  BY <1>1, <1>2 DEF Publish, Deliver, Labels
<1>13. ~BeginCheck(t) /\ ~BeginSql(t) /\ ~BeginQueue(t)
  BY <1>1, <1>2 DEF BeginCheck, BeginSql, BeginQueue, Labels, TxLabels
<1>. QED
  BY <1>3, <1>4, <1>5, <1>6, <1>8, <1>9, <1>10, <1>11, <1>12, <1>13
  DEF Request, Statement, Progress

\* A queued event is committed, or the transaction that wrote it is still open.
LEMMA PendingStep ==
    ASSUME SingleWriter, SerialInv, DirtyInv, PhantomInv, NEW t \in Threads, Request(t)
    PROVE  \A i \in DOMAIN pending' :
               \/ pending'[i].ver \in confirmed'
               \/ \E u \in Threads : pending'[i].ver \in wrote'[u] \/ pc'[u] = "rolledback"
<1>. DEFINE Safe(v) == v \in confirmed' \/ \E u \in Threads : v \in wrote'[u] \/ pc'[u] = "rolledback"
<1>0. TypeOK /\ PcInv /\ ThreadTypes /\ DbTypes /\ OtherTypes  BY TypeGroups DEF SerialInv
<1>1. CASE RollbackDrop(t)
  BY <1>1 DEF RollbackDrop
<1>2. CASE Rollback(t)
  <2>1. pc'[t] = "rolledback"  BY <1>0, <1>2, GotoEffect DEF Rollback, Labels, TxLabels
  <2>. QED  BY <2>1
<1>3. CASE ~RollbackDrop(t) /\ ~Rollback(t)
  <2>1. \A u \in Threads : pc[u] = "rolledback" => pc'[u] = "rolledback"
    <3>1. pc[t] # "rolledback"
      BY <1>3 DEF Request, Finish, Statement, Progress, Write, DeleteRead, UpsertFind,
                  TransactionStart, Reread, RereadFails, DeleteExec, Commit, Publish, Deliver,
                  UpsertFails, BeginCheck, BeginSql, BeginQueue, CommitTake, InBody
    <3>. QED  BY <1>0, <3>1, OthersSame
  <2>2. \A i \in DOMAIN pending : Safe(pending[i].ver)
    BY <1>0, <1>3, <2>1, ConfirmedStep DEF PhantomInv
  <2>3. CASE UNCHANGED pending
    BY <2>2, <2>3
  <2>4. CASE pending' = <<>>
    BY <2>4
  <2>5. CASE Publish(t) /\ open
    <3>1. cur[t] \in confirmed \cup wrote[t] /\ UNCHANGED <<confirmed, wrote>>
      BY <1>0, <2>5 DEF Publish, PhantomInv, PcInv, NoRow, Version, dbVars
    <3>2. Safe(cur[t])  BY <3>1
    <3>3. pending' = Append(pending, [ver |-> cur[t], by |-> t])  BY <2>5 DEF Publish
    <3>4. \A i \in DOMAIN pending' : pending'[i].ver = cur[t] \/
                                     (i \in DOMAIN pending /\ pending'[i] = pending[i])
      BY <1>0, <3>3 DEF OtherTypes
    <3>. QED  BY <2>2, <3>2, <3>4
  <2>. QED
    BY <1>3, <2>3, <2>4, <2>5
    DEF Request, Finish, Statement, Progress, Write, DeleteRead, UpsertFind, TransactionStart,
        Reread, RereadFails, DeleteExec, Commit, Publish, Deliver, UpsertFails, BeginCheck,
        BeginSql, BeginQueue, CommitTake, queueVars
<1>. QED  BY <1>1, <1>2, <1>3

\* A delivery puts a committed version into the channels.
LEMMA DeliverStep ==
    ASSUME TypeOK, PcInv, PhantomInv, NEW t \in Threads, Request(t)
    PROVE  NoPhantom'
<1>0. StreamTypes /\ OtherTypes  BY TypeGroups
<1>1. CASE UNCHANGED streamVars
  BY <1>1, ConfirmedStep DEF PhantomInv, NoPhantom, streamVars
<1>2. CASE Deliver(t)
  <2>. DEFINE v == Head(out[t])
  <2>1. out[t] \in Seq(Version) /\ out[t] # <<>>  BY <1>0, <1>2 DEF Deliver, PcInv, OtherTypes
  <2>2. v \in Elems(out[t])  BY <2>1 DEF Elems
  <2>3. v \in confirmed /\ confirmed' = confirmed  BY <1>2, <2>2 DEF PhantomInv, Deliver, dbVars
  <2>4. ASSUME NEW s \in Streams PROVE Elems(chan'[s]) \subseteq Elems(chan[s]) \cup {v}
    <3>1. chan'[s] = IF sub[s] /\ Fits(s) THEN Append(chan[s], v) ELSE chan[s]
      BY <1>2 DEF Deliver, deliver_local
    <3>2. chan[s] \in Seq(Version)  BY <1>0 DEF StreamTypes
    <3>3. \A i \in DOMAIN Append(chan[s], v) :
              Append(chan[s], v)[i] = v \/ (i \in DOMAIN chan[s] /\ Append(chan[s], v)[i] = chan[s][i])
      BY <3>2
    <3>. QED  BY <3>1, <3>3 DEF Elems
  <2>5. seen' = seen  BY <1>2 DEF Deliver, deliver_local
  <2>. QED  BY <2>3, <2>4, <2>5 DEF PhantomInv, NoPhantom
<1>. QED
  BY <1>1, <1>2
  DEF Request, Finish, Statement, Progress, Write, DeleteRead, UpsertFind, TransactionStart,
      Reread, RereadFails, DeleteExec, Commit, Rollback, Publish, UpsertFails, BeginCheck,
      BeginSql, BeginQueue, CommitTake, RollbackDrop

\* A stream shows its client what was committed, or what its channel held.
LEMMA StreamShows ==
    ASSUME TypeOK, PhantomInv, NEW s \in Streams, Stream(s)
    PROVE  NoPhantom'
<1>0. StreamTypes /\ confirmed' = confirmed  BY TypeGroups, StreamStep DEF dbVars
<1>. SUFFICES ASSUME NEW x \in Streams
              PROVE  seen'[x] \cup Elems(chan'[x]) \subseteq confirmed
  BY <1>0 DEF NoPhantom
<1>1. seen[x] \cup Elems(chan[x]) \subseteq confirmed  BY DEF PhantomInv, NoPhantom
<1>2. CASE Register(s) \/ ChannelClosed(s)
  BY <1>1, <1>2 DEF Register, ChannelClosed
<1>3. CASE Snapshot(s)
  BY <1>0, <1>1, <1>3 DEF Snapshot, PhantomInv, StreamTypes
<1>4. CASE Consume(s)
  <2>1. chan[s] \in Seq(Version) /\ chan[s] # <<>>  BY <1>0, <1>4 DEF Consume, StreamTypes
  <2>2. Head(chan[s]) \in Elems(chan[s])  BY <2>1 DEF Elems
  <2>3. \A i \in DOMAIN Tail(chan[s]) : i + 1 \in DOMAIN chan[s] /\ Tail(chan[s])[i] = chan[s][i + 1]
    BY <2>1
  <2>4. Elems(Tail(chan[s])) \subseteq Elems(chan[s])  BY <2>3 DEF Elems
  <2>. QED  BY <1>0, <1>1, <1>4, <2>2, <2>4 DEF Consume, StreamTypes
<1>5. CASE HangUp(s)
  <2>1. Elems(<<>>) = {}  BY DEF Elems
  <2>. QED  BY <1>0, <1>1, <1>5, <2>1 DEF HangUp, StreamTypes
<1>. QED  BY <1>2, <1>3, <1>4, <1>5 DEF Stream

SafeInv == SerialInv /\ DirtyInv /\ PhantomInv

\* Where uncommitted versions can be, in every behaviour with one connection.
LEMMA Safety ==
    ASSUME SingleWriter
    PROVE  Spec => []SafeInv
<1>1. Init => DirtyInv /\ PhantomInv
  <2>. SUFFICES ASSUME Init PROVE DirtyInv /\ PhantomInv  OBVIOUS
  <2>1. Elems(<<>>) = {} /\ DOMAIN pending = {}  BY DEF Init, Elems
  <2>2. DirtyInv  BY DEF Init, DirtyInv, Clean
  <2>3. PhantomInv  BY <2>1 DEF Init, PhantomInv, NoPhantom
  <2>. QED  BY <2>2, <2>3
<1>2. SerialInv /\ SerialInv' /\ DirtyInv /\ PhantomInv /\ [Next]_vars => DirtyInv' /\ PhantomInv'
  <2>. SUFFICES ASSUME SerialInv, SerialInv', DirtyInv, PhantomInv, [Next]_vars
                PROVE  DirtyInv' /\ PhantomInv'
    OBVIOUS
  <2>0. TypeOK /\ PcInv  BY DEF SerialInv
  <2>1. ASSUME NEW t \in Threads, Request(t) PROVE DirtyInv' /\ PhantomInv'
    <3>1. DirtyInv'  BY <2>0, <2>1, DirtyStep
    <3>2. \A u \in Threads : pc'[u] \in {"reread", "publish", "delete"} =>
              cur'[u] \in confirmed' \cup wrote'[u] \cup {NoRow}
      BY <2>0, <2>1, CurStep, OthersSame, ConfirmedStep DEF PhantomInv
    <3>3. \A u \in Threads : Elems(out'[u]) \subseteq confirmed'
      BY <2>0, <2>1, OutStep, OthersSame, ConfirmedStep DEF PhantomInv
    <3>. QED
      BY <2>0, <2>1, <3>1, <3>2, <3>3, DbStep, PendingStep, DeliverStep DEF PhantomInv
  <2>2. ASSUME NEW s \in Streams, Stream(s) PROVE DirtyInv' /\ PhantomInv'
    <3>1. UNCHANGED <<dbVars, mode, pc, conn, opVars, out, queueVars, lostVars>> /\ NoPhantom'
      BY <2>0, <2>2, StreamStep, StreamShows
    <3>. QED  BY <3>1 DEF DirtyInv, PhantomInv, dbVars, opVars, queueVars
  <2>3. CASE UNCHANGED vars
    BY <2>3 DEF vars, DirtyInv, PhantomInv, NoPhantom
  <2>. QED  BY <2>1, <2>2, <2>3 DEF Next
<1>. QED  BY <1>1, <1>2, Serial, PTL DEF Spec, SafeInv

\* No stream is ever shown a write that was not committed: an event of an open
\* transaction waits in the queue, and a rollback discards it there.
THEOREM NothingPhantom ==
    ASSUME SingleWriter
    PROVE  Spec => []NoPhantom
<1>1. SafeInv => NoPhantom
  BY DEF SafeInv, PhantomInv
<1>. QED  BY <1>1, Safety, PTL
----------------------------------------------------------------------------
(* No stream misses what is committed.                                     *)

\* One thread at a time has uncommitted writes.
LEMMA OneWriter ==
    ASSUME SingleWriter, SerialInv, DirtyInv, NEW t \in Threads, mode[t] = "tx"
    PROVE  \A u \in Threads \ {t} : dirty[u] = Clean /\ ~Undecided(u)
<1>1. conn[t] # None /\ TypeOK /\ HoldInv  BY DEF SerialInv, HoldInv
<1>. QED  BY <1>1, HolderAlone DEF DirtyInv, Undecided

\* What a write, a deletion or the end of a transaction does to the rows.
LEMMA RowsStep ==
    ASSUME TypeOK, NEW t \in Threads, Request(t)
    PROVE  \/ UNCHANGED <<db, dirty, clock>>
           \/ \E r \in Rows : Write(t, r)
           \/ pc[t] = "delete" /\ clock' = clock /\ pc'[t] # "reread" /\ Store(t, row[t], NoRow)
                /\ row' = row /\ cur'[t] \in {cur[t], NoRow}
           \/ Finish(t)
<1>0. ThreadTypes  BY TypeGroups
<1>1. CASE DeleteExec(t)
  <2>1. CASE EndOp(t)  BY <1>0, <1>1, <2>1, EndOpEffect DEF DeleteExec
  <2>2. CASE Goto(t, "publish") /\ UNCHANGED cur
    BY <1>0, <1>1, <2>2, GotoEffect DEF DeleteExec, Labels
  <2>. QED  BY <1>1, <2>1, <2>2 DEF DeleteExec
<1>. QED
  BY <1>1
  DEF Request, Statement, Progress, DeleteRead, UpsertFind, TransactionStart, Reread, RereadFails,
      Publish, Deliver, UpsertFails, BeginCheck, BeginSql, BeginQueue, CommitTake, RollbackDrop,
      dbVars

\* The version at hand was handed out by the clock; a re-read stays one.
LEMMA CurBound ==
    ASSUME TypeOK, RowInv, NEW t \in Threads, Request(t)
    PROVE  /\ cur'[t] <= clock' /\ clock <= clock'
           /\ pc'[t] = "reread" => \E r \in Rows : Write(t, r)
<1>0. ThreadTypes /\ DbTypes /\ OtherTypes /\ row[t] \in Rows  BY TypeGroups DEF OtherTypes
<1>1. clock \in Nat /\ NoRow <= clock /\ cur[t] <= clock
  BY <1>0, BoundsAssumption DEF DbTypes, NoRow, RowInv
<1>2. \A r \in Rows : Visible(t, r) <= clock /\ db[r] <= clock  BY DEF RowInv, Visible
<1>3. CASE \E r \in Rows : Write(t, r)
  <2>1. cur'[t] = clock + 1 /\ clock' = clock + 1  BY <1>0, <1>3 DEF Write, ThreadTypes
  <2>. QED  BY <1>1, <1>3, <2>1
<1>4. CASE Ends(t) /\ UNCHANGED clock
  BY <1>0, <1>1, <1>4, EndsEffect
<1>5. CASE Unpin(t) /\ UNCHANGED clock
  BY <1>0, <1>1, <1>5, UnpinEffect
<1>6. ASSUME NEW l \in Labels \ {"reread"}, Goto(t, l), UNCHANGED <<clock, cur>>
      PROVE  cur'[t] <= clock' /\ clock <= clock' /\ pc'[t] # "reread"
  BY <1>0, <1>1, <1>6, GotoEffect
<1>7. CASE \E r \in Rows : DeleteRead(t, r)
  BY <1>0, <1>1, <1>2, <1>7, GotoEffect DEF DeleteRead, ThreadTypes, dbVars, Labels
<1>8. CASE \E r \in Rows : UpsertFind(t, r)
  BY <1>0, <1>1, <1>2, <1>8 DEF UpsertFind, ThreadTypes, dbVars
<1>9. CASE TransactionStart(t) \/ CommitTake(t)
  BY <1>0, <1>1, <1>9 DEF TransactionStart, CommitTake, ThreadTypes, dbVars, opVars
<1>10. CASE Finish(t) \/ BeginQueue(t)
  BY <1>6, <1>10 DEF Finish, Commit, Rollback, BeginQueue, opVars, dbVars, Labels, TxLabels
<1>11. CASE Reread(t)
  <2>1. CASE Fails(t)  BY <1>4, <1>11, <2>1 DEF Ends, Reread, dbVars
  <2>2. CASE cur' = [cur EXCEPT ![t] = Visible(t, row[t])] /\ Goto(t, "publish")
    BY <1>0, <1>1, <1>2, <1>11, <2>2, GotoEffect DEF Reread, dbVars, ThreadTypes, Labels
  <2>. QED  BY <1>11, <2>1, <2>2 DEF Reread
<1>12. CASE RereadFails(t) \/ DeleteExec(t)
  BY <1>4, <1>6, <1>12 DEF Ends, RereadFails, DeleteExec, dbVars, Labels
<1>13. CASE Publish(t) \/ Deliver(t)
  BY <1>4, <1>6, <1>13 DEF Ends, Publish, Deliver, dbVars, Labels
<1>14. CASE UpsertFails(t) \/ BeginCheck(t) \/ BeginSql(t) \/ RollbackDrop(t)
  BY <1>5, <1>6, <1>14 DEF UpsertFails, BeginCheck, BeginSql, RollbackDrop, dbVars, Labels, TxLabels
<1>. QED
  BY <1>3, <1>7, <1>8, <1>9, <1>10, <1>11, <1>12, <1>13, <1>14 DEF Request, Statement, Progress

\* A version never gets into a second row.
LEMMA RowStep ==
    ASSUME SingleWriter, SerialInv, DirtyInv, RowInv, NEW t \in Threads, Request(t)
    PROVE  RowInv'
<1>0. /\ TypeOK /\ PcInv /\ ThreadTypes /\ DbTypes /\ OtherTypes /\ row[t] \in Rows
      /\ clock \in Nat
  BY TypeGroups, BoundsAssumption DEF SerialInv, DbTypes, OtherTypes
<1>1. \A u \in Threads : cur'[u] <= clock' /\ (u # t => cur'[u] = cur[u] /\ row'[u] = row[u] /\ pc'[u] = pc[u])
  <2>1. clock' \in Nat  BY <1>0, RequestTypes, BoundsAssumption DEF TypeOK
  <2>2. \A u \in Threads : cur[u] \in Nat /\ cur[u] <= clock
    BY <1>0, BoundsAssumption DEF ThreadTypes, RowInv
  <2>. QED  BY <1>0, <2>1, <2>2, CurBound, OthersSame
<1>2. CASE UNCHANGED <<db, dirty, clock>>
  <2>1. CASE \E r \in Rows : Write(t, r)
    BY <1>0, <1>2, <2>1 DEF Write
  <2>2. CASE pc'[t] # "reread"
    BY <1>0, <1>1, <1>2, <2>2 DEF RowInv
  <2>. QED  BY <1>0, <2>1, <2>2, CurBound
<1>3. ASSUME NEW r \in Rows, Write(t, r) PROVE RowInv'
  <2>1. /\ clock' = clock + 1 /\ cur'[t] = clock + 1 /\ row'[t] = r
        /\ clock + 1 \notin {NoRow, Unwritten}
    BY <1>0, <1>3 DEF Write, ThreadTypes, OtherTypes, NoRow, Unwritten
  <2>2. /\ \A q \in Rows : db[q] <= clock /\ db[q] \in Nat
        /\ \A u \in Threads, q \in Rows : dirty[u][q] <= clock /\ dirty[u][q] \in Int
        /\ \A u \in Threads : cur[u] <= clock /\ cur[u] \in Nat
    BY <1>0, BoundsAssumption DEF RowInv, DbTypes, ThreadTypes, Unwritten
  <2>3. CASE mode[t] = "tx"
    <3>1. /\ db' = db /\ dirty'[t][r] = clock + 1
          /\ \A q \in Rows \ {r} : dirty'[t][q] = dirty[t][q]
          /\ \A u \in Threads \ {t} : dirty'[u] = dirty[u]
      BY <1>0, <1>3, <2>3 DEF Write, Store, DbTypes
    <3>2. \A u \in Threads, q \in Rows : dirty'[u][q] = clock + 1 \/ dirty'[u][q] = dirty[u][q]
      BY <3>1
    <3>3. \A u \in Threads, p, q \in Rows :
              dirty'[u][p] \in Version =>
                  dirty'[u][p] # db'[q] /\ (dirty'[u][p] = dirty'[u][q] => p = q)
      <4>. SUFFICES ASSUME NEW u \in Threads, NEW p \in Rows, NEW q \in Rows, dirty'[u][p] \in Version
                    PROVE  dirty'[u][p] # db'[q] /\ (dirty'[u][p] = dirty'[u][q] => p = q)
        OBVIOUS
      <4>1. CASE u # t  BY <3>1, <4>1 DEF RowInv
      <4>2. CASE u = t /\ p = r
        <5>1. dirty'[u][p] = clock + 1  BY <3>1, <4>2
        <5>2. dirty'[u][p] # db'[q]  BY <1>0, <2>2, <3>1, <5>1
        <5>3. q # r => dirty'[u][q] # clock + 1  BY <1>0, <2>2, <3>1, <4>2
        <5>. QED  BY <4>2, <5>1, <5>2, <5>3
      <4>3. CASE u = t /\ p # r
        <5>1. dirty'[u][p] = dirty[u][p] /\ db'[q] = db[q]  BY <3>1, <4>3
        <5>2. q = r => dirty'[u][p] # dirty'[u][q]  BY <1>0, <2>2, <3>1, <4>3, <5>1
        <5>3. q # r => dirty'[u][q] = dirty[u][q]  BY <3>1, <4>3
        <5>. QED  BY <5>1, <5>2, <5>3 DEF RowInv
      <4>. QED  BY <4>1, <4>2, <4>3
    <3>4. \A x, u \in Threads, q \in Rows :
              pc'[x] = "reread" /\ cur'[x] \in {db'[q], dirty'[u][q]} => q = row'[x]
      <4>. SUFFICES ASSUME NEW x \in Threads, NEW u \in Threads, NEW q \in Rows, pc'[x] = "reread",
                           cur'[x] \in {db'[q], dirty'[u][q]}
                    PROVE  q = row'[x]
        OBVIOUS
      <4>1. CASE x = t
        <5>1. db'[q] # clock + 1 /\ dirty[u][q] # clock + 1  BY <1>0, <2>2, <3>1
        <5>. QED  BY <2>1, <3>1, <4>1, <5>1
      <4>2. CASE x # t
        <5>1. cur'[x] = cur[x] /\ row'[x] = row[x] /\ pc[x] = "reread"  BY <1>1, <4>2
        <5>2. cur[x] # clock + 1  BY <1>0, <2>2
        <5>3. cur[x] \in {db[q], dirty[u][q]}  BY <3>1, <3>2, <5>1, <5>2
        <5>. QED  BY <5>1, <5>3 DEF RowInv
      <4>. QED  BY <4>1, <4>2
    <3>5. /\ \A q \in Rows : db'[q] <= clock'
          /\ \A u \in Threads, q \in Rows : dirty'[u][q] <= clock'
      BY <1>0, <2>1, <2>2, <3>1, <3>2
    <3>6. \A p, q \in Rows : db'[p] = db'[q] /\ db'[p] # NoRow => p = q
      BY <3>1 DEF RowInv
    <3>. QED  BY <1>1, <3>3, <3>4, <3>5, <3>6 DEF RowInv
  <2>4. CASE mode[t] # "tx"
    <3>1. /\ dirty' = dirty /\ db'[r] = clock + 1
          /\ \A q \in Rows \ {r} : db'[q] = db[q]
      BY <1>0, <1>3, <2>4 DEF Write, Store, DbTypes
    <3>2. \A q \in Rows : db'[q] = clock + 1 \/ db'[q] = db[q]
      BY <3>1
    <3>3. \A u \in Threads, p, q \in Rows :
              dirty'[u][p] \in Version =>
                  dirty'[u][p] # db'[q] /\ (dirty'[u][p] = dirty'[u][q] => p = q)
      <4>1. \A u \in Threads, p \in Rows : dirty[u][p] # clock + 1  BY <1>0, <2>2
      <4>. QED  BY <3>1, <3>2, <4>1 DEF RowInv
    <3>4. \A x, u \in Threads, q \in Rows :
              pc'[x] = "reread" /\ cur'[x] \in {db'[q], dirty'[u][q]} => q = row'[x]
      <4>. SUFFICES ASSUME NEW x \in Threads, NEW u \in Threads, NEW q \in Rows, pc'[x] = "reread",
                           cur'[x] \in {db'[q], dirty'[u][q]}
                    PROVE  q = row'[x]
        OBVIOUS
      <4>1. CASE x = t
        <5>1. db[q] # clock + 1 /\ dirty[u][q] # clock + 1  BY <1>0, <2>2
        <5>. QED  BY <2>1, <3>1, <4>1, <5>1
      <4>2. CASE x # t
        <5>1. cur'[x] = cur[x] /\ row'[x] = row[x] /\ pc[x] = "reread"  BY <1>1, <4>2
        <5>2. cur[x] # clock + 1  BY <1>0, <2>2
        <5>3. cur[x] \in {db[q], dirty[u][q]}  BY <3>1, <3>2, <5>1, <5>2
        <5>. QED  BY <5>1, <5>3 DEF RowInv
      <4>. QED  BY <4>1, <4>2
    <3>5. /\ \A q \in Rows : db'[q] <= clock'
          /\ \A u \in Threads, q \in Rows : dirty'[u][q] <= clock'
      BY <1>0, <2>1, <2>2, <3>1, <3>2
    <3>6. \A p, q \in Rows : db'[p] = db'[q] /\ db'[p] # NoRow => p = q
      <4>1. \A q \in Rows : db[q] # clock + 1  BY <1>0, <2>2
      <4>. QED  BY <3>1, <4>1 DEF RowInv
    <3>. QED  BY <1>1, <3>3, <3>4, <3>5, <3>6 DEF RowInv
  <2>. QED  BY <2>3, <2>4
<1>4. CASE /\ pc[t] = "delete" /\ clock' = clock /\ pc'[t] # "reread" /\ Store(t, row[t], NoRow)
           /\ row' = row /\ cur'[t] \in {cur[t], NoRow}
  <2>1. /\ \A q \in Rows : db'[q] \in {db[q], NoRow}
        /\ \A u \in Threads, q \in Rows : dirty'[u][q] \in {dirty[u][q], NoRow}
    <3>1. CASE mode[t] = "tx"
      <4>1. /\ db' = db /\ dirty'[t][row[t]] = NoRow
            /\ \A q \in Rows \ {row[t]} : dirty'[t][q] = dirty[t][q]
            /\ \A u \in Threads \ {t} : dirty'[u] = dirty[u]
        BY <1>0, <1>4, <3>1 DEF Store, DbTypes
      <4>. QED  BY <4>1
    <3>2. CASE mode[t] # "tx"
      <4>1. /\ dirty' = dirty /\ db'[row[t]] = NoRow
            /\ \A q \in Rows \ {row[t]} : db'[q] = db[q]
        BY <1>0, <1>4, <3>2 DEF Store, DbTypes
      <4>. QED  BY <4>1
    <3>. QED  BY <3>1, <3>2
  <2>2. NoRow <= clock /\ NoRow \notin Version  BY <1>0 DEF NoRow, Version
  <2>3. \A u \in Threads : pc'[u] = "reread" => cur'[u] # NoRow
    BY <1>0, <1>1, <1>4, <2>2 DEF PcInv
  <2>4. \A x, u \in Threads, q \in Rows :
            pc'[x] = "reread" /\ cur'[x] \in {db'[q], dirty'[u][q]} => q = row'[x]
    BY <1>1, <1>4, <2>1, <2>3 DEF RowInv
  <2>5. \A u \in Threads, p, q \in Rows :
            dirty'[u][p] \in Version =>
                dirty'[u][p] # db'[q] /\ (dirty'[u][p] = dirty'[u][q] => p = q)
    BY <2>1, <2>2 DEF RowInv
  <2>. QED  BY <1>1, <1>4, <2>1, <2>2, <2>4, <2>5 DEF RowInv
<1>5. CASE Finish(t)
  <2>1. mode[t] = "tx"  BY <1>0, <1>5 DEF Finish, Commit, Rollback, InBody, PcInv
  <2>2. \A u \in Threads : dirty'[u] = Clean
    <3>1. dirty'[t] = Clean  BY <1>0, <1>5 DEF Finish, Commit, Rollback, DbTypes
    <3>. QED  BY <1>0, <2>1, <3>1, OneWriter, OthersSame
  <2>3. \A u \in Threads, q \in Rows : dirty'[u][q] = Unwritten  BY <2>2 DEF Clean
  <2>4. Unwritten \notin Version /\ Unwritten <= clock /\ clock' = clock /\ pc'[t] # "reread"
    <3>1. pc'[t] # "reread"  BY <1>0, <1>5, GotoEffect DEF Finish, Commit, Rollback, Labels, TxLabels
    <3>. QED  BY <1>0, <1>5, <3>1 DEF Unwritten, Version, Finish, Commit, Rollback
  <2>5. \A q \in Rows : db'[q] = db[q] \/ (db'[q] = dirty[t][q] /\ dirty[t][q] # Unwritten)
    BY <1>5 DEF Finish, Commit, Rollback, Visible
  <2>6. \A q \in Rows : db'[q] # NoRow /\ db'[q] # db[q] => dirty[t][q] \in Version
    <3>1. \A q \in Rows : dirty[t][q] \in Unwritten..MaxWrites  BY <1>0 DEF DbTypes
    <3>2. \A q \in Rows : dirty[t][q] \notin {NoRow, Unwritten} => dirty[t][q] \in Version
      BY <3>1, BoundsAssumption DEF Version, NoRow, Unwritten
    <3>. QED  BY <2>5, <3>2
  <2>7. \A u \in Threads : pc'[u] = "reread" => cur'[u] # Unwritten /\ cur'[u] # NoRow
    BY <1>0, <1>1, <2>4 DEF PcInv, Version, Unwritten, NoRow
  <2>8. \A x, u \in Threads, q \in Rows :
            pc'[x] = "reread" /\ cur'[x] \in {db'[q], dirty'[u][q]} => q = row'[x]
    BY <1>1, <2>3, <2>4, <2>5, <2>7 DEF RowInv
  <2>9. \A p, q \in Rows : db'[p] = db'[q] /\ db'[p] # NoRow => p = q
    BY <2>5, <2>6 DEF RowInv
  <2>10. \A q \in Rows : db'[q] <= clock'  BY <2>4, <2>5 DEF RowInv
  <2>. QED  BY <1>1, <2>3, <2>4, <2>8, <2>9, <2>10 DEF RowInv
<1>. QED  BY <1>0, <1>2, <1>3, <1>4, <1>5, RowsStep

\* What may become of the queue, and that nothing recorded as lost is forgotten.
LEMMA PendingGrows ==
    ASSUME TypeOK, NEW t \in Threads, Request(t)
    PROVE  /\ lostReread \subseteq lostReread' /\ lostRollback \subseteq lostRollback'
           /\ \/ pending' = pending
              \/ Publish(t) /\ open /\ pending' = Append(pending, [ver |-> cur[t], by |-> t])
              \/ (BeginQueue(t) \/ CommitTake(t) \/ RollbackDrop(t)) /\ pending' = <<>>
<1>1. CASE \E r \in Rows : Write(t, r) \/ DeleteRead(t, r) \/ UpsertFind(t, r)
  BY <1>1 DEF Write, DeleteRead, UpsertFind, queueVars, lostVars
<1>2. CASE TransactionStart(t) \/ Finish(t) \/ Statement(t)
  BY <1>2 DEF TransactionStart, Finish, Commit, Rollback, Statement, Reread, RereadFails,
              DeleteExec, queueVars, lostVars
<1>3. CASE Progress(t)
  BY <1>3 DEF Progress, Publish, Deliver, UpsertFails, BeginCheck, BeginSql, BeginQueue,
              CommitTake, RollbackDrop, queueVars, lostVars
<1>. QED  BY <1>1, <1>2, <1>3 DEF Request

\* The queue only grows between the BEGIN of a transaction and its end.
LEMMA PendingKeeps ==
    ASSUME TypeOK, NEW t \in Threads, Request(t), NEW i \in DOMAIN pending,
           ~BeginQueue(t), ~CommitTake(t), ~RollbackDrop(t)
    PROVE  i \in DOMAIN pending' /\ pending'[i] = pending[i]
<1>1. pending \in Seq(Event)  BY DEF TypeOK
<1>2. CASE pending' = pending  BY <1>2
<1>3. CASE pending' = Append(pending, [ver |-> cur[t], by |-> t])  BY <1>1, <1>3
<1>. QED  BY <1>2, <1>3, PendingGrows

\* What a publication queues is the last event of the queue.
LEMMA PendingNew ==
    ASSUME TypeOK, NEW t \in Threads, Publish(t), open
    PROVE  \E i \in DOMAIN pending' : pending'[i] = [ver |-> cur[t], by |-> t]
<1>1. pending \in Seq(Event) /\ pending' = Append(pending, [ver |-> cur[t], by |-> t])
  BY DEF TypeOK, Publish
<1>2. /\ Len(pending) + 1 \in DOMAIN pending'
      /\ pending'[Len(pending) + 1] = [ver |-> cur[t], by |-> t]
  BY <1>1
<1>. QED  BY <1>2

\* Every write of an open transaction is announced in the queue, about to be, or
\* recorded as one whose re-read failed.
LEMMA QueuedStep ==
    ASSUME SingleWriter, SerialInv, DirtyInv, RowInv, QueueInv, NEW t \in Threads, Request(t)
    PROVE  QueueInv'
<1>0. TypeOK /\ PcInv /\ HoldInv /\ ThreadTypes /\ DbTypes /\ OtherTypes /\ row[t] \in Rows
  BY TypeGroups DEF SerialInv, OtherTypes
<1>. SUFFICES ASSUME NEW u \in Threads, NEW r \in Rows, dirty'[u][r] \in Version
              PROVE  \/ pc'[u] \in {"reread", "publish"} /\ cur'[u] = dirty'[u][r]
                     \/ \E i \in DOMAIN pending' : pending'[i] = [ver |-> dirty'[u][r], by |-> u]
                     \/ dirty'[u][r] \in lostReread'
  BY DEF QueueInv
<1>. DEFINE Queued(v) == \E i \in DOMAIN pending : pending[i] = [ver |-> v, by |-> u]
<1>1. \A q \in Rows : Clean[q] \notin Version  BY DEF Clean, Version, Unwritten
<1>2. ASSUME dirty'[u][r] = dirty[u][r], Queued(dirty[u][r])
      PROVE  \E i \in DOMAIN pending' : pending'[i] = [ver |-> dirty'[u][r], by |-> u]
  <2>1. ~BeginQueue(t) /\ ~CommitTake(t) /\ ~RollbackDrop(t)
    <3>1. mode[u] = "tx" /\ pc[u] \notin TxLabels  BY <1>0, <1>1, <1>2 DEF DirtyInv
    <3>2. u # t => mode[t] # "tx"  BY <1>0, <3>1 DEF HoldInv
    <3>3. mode[t] # "tx" \/ pc[t] \notin TxLabels  BY <3>1, <3>2
    <3>. QED  BY <1>0, <3>3 DEF BeginQueue, CommitTake, RollbackDrop, PcInv, TxLabels
  <2>. QED  BY <1>0, <1>2, <2>1, PendingKeeps
<1>3. ASSUME dirty'[u][r] = dirty[u][r], dirty[u][r] \in lostReread
      PROVE  dirty'[u][r] \in lostReread'
  BY <1>0, <1>3, PendingGrows
<1>4. CASE u # t
  <2>1. dirty'[u][r] = dirty[u][r] /\ pc'[u] = pc[u] /\ cur'[u] = cur[u]
    BY <1>0, <1>4, OthersSame
  <2>. QED  BY <1>2, <1>3, <2>1 DEF QueueInv
<1>5. CASE u = t
  <2>1. mode[t] = "tx" \/ \E q \in Rows : Write(t, q)
    <3>1. CASE mode[t] # "tx" /\ \A q \in Rows : ~Write(t, q)
      <4>1. dirty' = dirty
        BY <1>0, <3>1, RowsStep DEF Store, Finish, Commit, Rollback, InBody, PcInv
      <4>. QED  BY <1>1, <1>5, <3>1, <4>1 DEF DirtyInv
    <3>. QED  BY <3>1
  <2>2. CASE \E q \in Rows : Write(t, q)
    <3>1. PICK q \in Rows : Write(t, q)  BY <2>2
    <3>2. pc'[t] = "reread" /\ cur'[t] = clock + 1 /\ pc[t] = "idle" /\ mode' = mode
      BY <1>0, <3>1, GotoEffect DEF Write, ThreadTypes, Labels
    <3>3. mode[t] = "tx"
      BY <1>1, <1>5, <3>1 DEF Write, Store, DirtyInv
    <3>4. /\ dirty'[t][q] = clock + 1
          /\ r # q => dirty'[t][r] = dirty[t][r]
      BY <1>0, <3>1, <3>3 DEF Write, Store, DbTypes
    <3>5. CASE r = q  BY <1>5, <3>2, <3>4, <3>5
    <3>6. CASE r # q  BY <1>2, <1>3, <1>5, <3>2, <3>4, <3>6 DEF QueueInv
    <3>. QED  BY <3>5, <3>6
  <2>3. CASE Finish(t)
    <3>1. dirty'[t] = Clean  BY <1>0, <2>3 DEF Finish, Commit, Rollback, DbTypes
    <3>. QED  BY <1>1, <1>5, <3>1
  <2>4. CASE DeleteExec(t)
    <3>1. dirty'[t][r] = dirty[t][r]
      <4>1. CASE Store(t, row[t], NoRow) /\ mode[t] = "tx"
        <5>1. /\ dirty'[t][row[t]] = NoRow
              /\ r # row[t] => dirty'[t][r] = dirty[t][r]
          BY <1>0, <4>1 DEF Store, DbTypes
        <5>2. NoRow \notin Version  BY DEF NoRow, Version
        <5>. QED  BY <1>5, <5>1, <5>2
      <4>. QED  BY <2>4, <4>1 DEF DeleteExec, Store
    <3>2. pc[t] = "delete"  BY <2>4 DEF DeleteExec
    <3>. QED  BY <1>2, <1>3, <1>5, <3>1, <3>2 DEF QueueInv
  <2>5. CASE Reread(t)
    <3>1. dirty' = dirty  BY <2>5 DEF Reread, dbVars
    <3>2. CASE cur[t] # dirty[t][r]
      <4>1. pc[t] = "reread" /\ dirty'[t][r] = dirty[t][r]  BY <2>5, <3>1 DEF Reread
      <4>. QED  BY <1>2, <1>3, <1>5, <3>2, <4>1 DEF QueueInv
    <3>3. CASE cur[t] = dirty[t][r]
      <4>1. r = row[t]  BY <2>5, <3>3 DEF RowInv, Reread
      <4>2. Visible(t, row[t]) = dirty[t][r] /\ dirty[t][r] # NoRow
        BY <1>5, <3>1, <4>1 DEF Visible, Version, Unwritten, NoRow
      <4>3. cur'[t] = dirty[t][r] /\ pc'[t] = "publish"
        BY <1>0, <2>5, <4>2, GotoEffect DEF Reread, ThreadTypes, Labels
      <4>. QED  BY <1>5, <3>1, <4>3
    <3>. QED  BY <3>2, <3>3
  <2>6. CASE RereadFails(t)
    <3>1. dirty' = dirty /\ cur[t] \in lostReread'  BY <2>6 DEF RereadFails, dbVars
    <3>. QED  BY <1>2, <1>3, <1>5, <3>1 DEF QueueInv
  <2>7. CASE Publish(t)
    <3>1. dirty' = dirty /\ pc[t] = "publish"  BY <2>7 DEF Publish, dbVars
    <3>2. mode[t] = "tx"  BY <2>1, <2>7 DEF Write, Publish
    <3>3. open  BY <1>0, <3>1, <3>2 DEF HoldInv
    <3>4. CASE cur[t] = dirty[t][r]  BY <1>0, <1>5, <2>7, <3>1, <3>3, <3>4, PendingNew
    <3>5. CASE cur[t] # dirty[t][r]  BY <1>2, <1>3, <1>5, <3>1, <3>5 DEF QueueInv
    <3>. QED  BY <3>4, <3>5
  <2>8. CASE ~Finish(t) /\ ~Statement(t) /\ ~Publish(t) /\ \A q \in Rows : ~Write(t, q)
    <3>1. pc[t] \notin {"reread", "publish"} /\ dirty' = dirty
      BY <2>8 DEF Request, Progress, DeleteRead, UpsertFind, TransactionStart, Deliver, UpsertFails,
                  BeginCheck, BeginSql, BeginQueue, CommitTake, RollbackDrop, dbVars
    <3>. QED  BY <1>2, <1>3, <1>5, <3>1 DEF QueueInv
  <2>. QED  BY <2>2, <2>3, <2>4, <2>5, <2>6, <2>7, <2>8 DEF Statement
<1>. QED  BY <1>4, <1>5

Covered(s, v) == Announced(s, v) \/ v \in lostReread \cup lostRollback

LostBase == SerialInv /\ DirtyInv /\ RowInv /\ QueueInv

\* An event in the queue that no rollback of its own can discard stays on its way:
\* it is delivered with the commit of the transaction it waits for, or the
\* rollback of that transaction takes it along and it is recorded as lost.
LEMMA PendingCovered ==
    ASSUME SingleWriter, LostBase, NEW t \in Threads, Request(t), NEW s \in Streams,
           NEW i \in DOMAIN pending, ~Undecided(pending[i].by), NEW v \in {pending[i].ver}
    PROVE  Covered(s, v)'
<1>0. TypeOK /\ PcInv /\ HoldInv /\ ThreadTypes /\ OtherTypes /\ pending[i].by \in Threads
  BY TypeGroups, PendingType DEF LostBase, SerialInv
<1>u. PICK u \in Threads : u = pending[i].by  BY <1>0
<1>1. pending # <<>> /\ open
  <2>1. DOMAIN <<>> = {}  OBVIOUS
  <2>. QED  BY <1>0, <2>1 DEF HoldInv
<1>2. PICK w \in Threads : mode[w] = "tx" /\ pc[w] \notin {"begin", "opening", "opened"}
  BY <1>0, <1>1 DEF HoldInv
<1>3. conn[w] # None /\ \A c \in Connections : ~Free(c)
  BY <1>0, <1>2, HolderAlone DEF HoldInv
<1>4. CASE CommitTake(t)
  <2>1. out'[t] = [j \in DOMAIN pending |-> pending[j].ver]
    BY <1>0, <1>4 DEF CommitTake, OtherTypes
  <2>2. v \in Elems(out'[t])  BY <2>1 DEF Elems
  <2>. QED  BY <2>2 DEF Covered, Announced, OnItsWay
<1>5. CASE RollbackDrop(t)
  <2>1. Undecided(t)  BY <1>0, <1>5 DEF RollbackDrop, PcInv, TxLabels, Undecided
  <2>2. pending[i].by # t  BY <2>1
  <2>3. v \in lostRollback'  BY <1>5, <2>2 DEF RollbackDrop
  <2>. QED  BY <2>3 DEF Covered
<1>6. ~BeginQueue(t)
  <2>1. SUFFICES ASSUME BeginQueue(t) PROVE FALSE  OBVIOUS
  <2>2. pc[t] = "opened" /\ mode[t] = "tx"  BY <1>0, <2>1 DEF BeginQueue, PcInv, TxLabels
  <2>. QED  BY <1>0, <1>2, <2>2 DEF HoldInv
<1>7. CASE ~CommitTake(t) /\ ~RollbackDrop(t)
  <2>1. i \in DOMAIN pending' /\ pending'[i] = pending[i]  BY <1>0, <1>6, <1>7, PendingKeeps
  <2>2. ~Undecided(u)'
    <3>1. CASE u # t  BY <1>0, <1>u, <3>1, OthersSame DEF Undecided
    <3>2. CASE u = t
      <4>1. mode[t] # "tx" \/ pc[t] = "committed"  BY <1>u, <3>2 DEF Undecided
      <4>2. pc[t] # "committed"
        BY <1>7 DEF Request, Finish, Statement, Progress, Write, DeleteRead, UpsertFind,
                    TransactionStart, Reread, RereadFails, DeleteExec, Commit, Rollback, InBody,
                    Publish, Deliver, UpsertFails, BeginCheck, BeginSql, BeginQueue
      <4>3. ~TransactionStart(t)  BY <1>3 DEF TransactionStart, Pin
      <4>4. ~\E r \in Rows : UpsertFind(t, r)  BY <1>3 DEF UpsertFind, Pin
      <4>5. mode'[t] # "tx"
        <5>1. EndOp(t) \/ Fails(t) => mode'[t] # "tx"  BY <1>0, <4>1, <4>2, EndsEffect DEF Ends
        <5>2. Unpin(t) => mode'[t] # "tx"  BY <1>0, UnpinEffect
        <5>3. mode' = mode => mode'[t] # "tx"  BY <4>1, <4>2
        <5>. QED
          BY <1>6, <1>7, <4>3, <4>4, <5>1, <5>2, <5>3
          DEF Request, Finish, Statement, Progress, Write, DeleteRead, Reread, RereadFails,
              DeleteExec, Commit, Rollback, Publish, Deliver, UpsertFails, BeginCheck, BeginSql, Goto
      <4>. QED  BY <3>2, <4>5 DEF Undecided
    <3>. QED  BY <3>1, <3>2
  <2>. QED  BY <1>u, <2>1, <2>2 DEF Covered, Announced, OnItsWay
<1>. QED  BY <1>4, <1>5, <1>7

\* A write outside a transaction that is about to be announced is announced, with
\* the version that its row still has.
LEMMA OwnCovered ==
    ASSUME SingleWriter, LostBase, NEW t \in Threads, Request(t), NEW s \in Streams, NEW r \in Rows,
           db[r] # NoRow, cur[t] = db[r], ~Undecided(t), pc[t] \in {"reread", "publish"}
    PROVE  Covered(s, db[r])'
<1>0. TypeOK /\ ThreadTypes /\ OtherTypes  BY TypeGroups DEF LostBase, SerialInv
<1>1. mode[t] # "tx"  BY DEF Undecided
<1>2. CASE Reread(t)
  <2>1. r = row[t]  BY <1>2 DEF Reread, LostBase, RowInv
  <2>2. Visible(t, row[t]) = db[r]  BY <1>1, <2>1 DEF Visible, LostBase, DirtyInv, Clean
  <2>3. cur'[t] = db[r] /\ pc'[t] = "publish" /\ mode'[t] = mode[t] /\ db' = db
    BY <1>0, <1>2, <2>2, GotoEffect DEF Reread, ThreadTypes, Labels, dbVars
  <2>. QED  BY <1>1, <2>3 DEF Covered, Announced, OnItsWay, Undecided
<1>3. CASE RereadFails(t)
  <2>1. cur[t] \in lostReread' /\ db' = db  BY <1>3 DEF RereadFails, dbVars
  <2>. QED  BY <2>1 DEF Covered
<1>4. CASE Publish(t)
  <2>1. db' = db  BY <1>4 DEF Publish, dbVars
  <2>2. CASE open
    <3>1. \E i \in DOMAIN pending' : pending'[i] = [ver |-> cur[t], by |-> t]
      BY <1>0, <1>4, <2>2, PendingNew
    <3>2. mode'[t] # "tx"  BY <1>0, <1>1, <1>4, <2>2, EndOpEffect DEF Publish
    <3>. QED  BY <2>1, <3>1, <3>2 DEF Covered, Announced, OnItsWay, Undecided
  <2>3. CASE ~open
    <3>1. out'[t] = <<cur[t]>>  BY <1>0, <1>4, <2>3 DEF Publish, OtherTypes
    <3>2. cur[t] \in Elems(out'[t])  BY <3>1 DEF Elems
    <3>. QED  BY <2>1, <3>2 DEF Covered, Announced, OnItsWay
  <2>. QED  BY <2>2, <2>3
<1>. QED
  BY <1>2, <1>3, <1>4
  DEF Request, Finish, Statement, Progress, Write, DeleteRead, UpsertFind, TransactionStart,
      DeleteExec, Commit, Rollback, InBody, Deliver, UpsertFails, BeginCheck, BeginSql, BeginQueue,
      CommitTake, RollbackDrop

\* What is being delivered reaches every channel that stays subscribed.
LEMMA OutCovered ==
    ASSUME TypeOK, PcInv, NEW t \in Threads, Request(t), NEW s \in Streams, Subscribed(s)',
           NEW v \in Elems(out[t])
    PROVE  Covered(s, v)'
<1>0. StreamTypes /\ OtherTypes  BY TypeGroups
<1>1. PICK i \in DOMAIN out[t] : out[t][i] = v  BY DEF Elems
<1>2. out[t] # <<>> /\ out[t] \in Seq(Version)
  <2>1. DOMAIN <<>> = {}  OBVIOUS
  <2>. QED  BY <1>0, <1>1, <2>1 DEF OtherTypes
<1>3. Deliver(t)
  <2>1. pc[t] = "deliver"  BY <1>2 DEF PcInv
  <2>. QED
    BY <2>1 DEF Request, Finish, Statement, Progress, Write, DeleteRead, UpsertFind,
                TransactionStart, Reread, RereadFails, DeleteExec, Commit, Rollback, InBody, Publish,
                UpsertFails, BeginCheck, BeginSql, BeginQueue, CommitTake, RollbackDrop
<1>4. CASE v = Head(out[t])
  <2>1. sub[s] /\ Fits(s)  BY <1>3 DEF Deliver, deliver_local, Subscribed
  <2>2. chan'[s] = Append(chan[s], v) /\ chan[s] \in Seq(Version)
    BY <1>0, <1>3, <1>4, <2>1 DEF Deliver, deliver_local, StreamTypes
  <2>3. v \in Elems(chan'[s])
    <3>1. Len(chan[s]) + 1 \in DOMAIN chan'[s] /\ chan'[s][Len(chan[s]) + 1] = v  BY <2>2
    <3>. QED  BY <3>1 DEF Elems
  <2>. QED  BY <2>3 DEF Covered, Announced
<1>5. CASE v # Head(out[t])
  <2>1. i - 1 \in DOMAIN Tail(out[t]) /\ Tail(out[t])[i - 1] = v  BY <1>1, <1>2, <1>5
  <2>2. out'[t] = Tail(out[t])  BY <1>0, <1>3 DEF Deliver, OtherTypes
  <2>3. v \in Elems(out'[t])  BY <2>1, <2>2 DEF Elems
  <2>. QED  BY <2>3 DEF Covered, Announced, OnItsWay
<1>. QED  BY <1>4, <1>5

\* What a stream has shown or holds in its channel, a request leaves there.
LEMMA StreamKeeps ==
    ASSUME TypeOK, NEW t \in Threads, Request(t), NEW s \in Streams, Subscribed(s)'
    PROVE  Subscribed(s) /\ seen[s] \cup Elems(chan[s]) \subseteq seen'[s] \cup Elems(chan'[s])
<1>0. StreamTypes  BY TypeGroups
<1>1. CASE UNCHANGED streamVars
  BY <1>1 DEF streamVars, Subscribed
<1>2. CASE Deliver(t)
  <2>1. Subscribed(s) /\ seen' = seen  BY <1>2 DEF Deliver, deliver_local, Subscribed
  <2>2. chan[s] \in Seq(Version) /\ (chan'[s] = chan[s] \/ chan'[s] = Append(chan[s], Head(out[t])))
    BY <1>0, <1>2 DEF Deliver, deliver_local, StreamTypes
  <2>3. \A i \in DOMAIN chan[s] : i \in DOMAIN chan'[s] /\ chan'[s][i] = chan[s][i]
    <3>1. CASE chan'[s] = chan[s]  BY <3>1
    <3>2. CASE chan'[s] = Append(chan[s], Head(out[t]))  BY <2>2, <3>2
    <3>. QED  BY <2>2, <3>1, <3>2
  <2>. QED  BY <2>1, <2>3 DEF Elems
<1>. QED
  BY <1>1, <1>2
  DEF Request, Finish, Statement, Progress, Write, DeleteRead, UpsertFind, TransactionStart,
      Reread, RereadFails, DeleteExec, Commit, Rollback, Publish, UpsertFails, BeginCheck,
      BeginSql, BeginQueue, CommitTake, RollbackDrop

\* A request loses no row: the version it leaves in a row is announced.
LEMMA LostStep ==
    ASSUME SingleWriter, LostBase, NothingLost, NEW t \in Threads, Request(t)
    PROVE  NothingLost'
<1>0. TypeOK /\ PcInv /\ ThreadTypes /\ DbTypes /\ OtherTypes
  BY TypeGroups DEF LostBase, SerialInv
<1>. SUFFICES ASSUME NEW s \in Streams, NEW r \in Rows, Subscribed(s)', db'[r] # NoRow
              PROVE  Covered(s, db[r])'
  BY DEF NothingLost, Covered
<1>1. CASE db'[r] = db[r]
  <2>1. PICK v \in {db[r]} : v = db'[r]  BY <1>1
  <2>. SUFFICES Covered(s, v)'  BY <2>1 DEF Covered, Announced
  <2>2. Subscribed(s) /\ Covered(s, v)
    BY <1>0, <1>1, StreamKeeps DEF NothingLost, Covered
  <2>3. CASE v \in seen[s] \cup Elems(chan[s])
    <3>1. v \in seen'[s] \cup Elems(chan'[s])  BY <1>0, <2>3, StreamKeeps
    <3>. QED  BY <3>1 DEF Covered, Announced
  <2>4. CASE v \in lostReread \cup lostRollback
    BY <1>0, <2>4, PendingGrows DEF Covered
  <2>5. ASSUME NEW u \in Threads, ~Undecided(u), pc[u] \in {"reread", "publish"}, cur[u] = v
        PROVE  Covered(s, v)'
    <3>1. CASE u = t
      <4>1. Covered(s, db[r])'  BY <1>1, <2>1, <2>5, <3>1, OwnCovered
      <4>. QED  BY <2>1, <4>1 DEF Covered, Announced
    <3>2. CASE u # t
      <4>1. ~Undecided(u)' /\ pc'[u] = pc[u] /\ cur'[u] = cur[u]
        BY <1>0, <2>5, <3>2, OthersSame DEF Undecided
      <4>. QED  BY <2>5, <4>1 DEF Covered, Announced, OnItsWay
    <3>. QED  BY <3>1, <3>2
  <2>6. ASSUME NEW i \in DOMAIN pending, pending[i].ver = v, ~Undecided(pending[i].by)
        PROVE  Covered(s, v)'
    BY <2>6, PendingCovered
  <2>7. ASSUME NEW u \in Threads, v \in Elems(out[u]) PROVE Covered(s, v)'
    <3>1. CASE u = t  BY <1>0, <2>7, <3>1, OutCovered
    <3>2. CASE u # t
      <4>1. out'[u] = out[u]  BY <1>0, <3>2, OthersSame
      <4>. QED  BY <2>7, <4>1 DEF Covered, Announced, OnItsWay, Elems
    <3>. QED  BY <3>1, <3>2
  <2>. QED  BY <2>2, <2>3, <2>4, <2>5, <2>6, <2>7 DEF Covered, Announced, OnItsWay
<1>2. ASSUME Write(t, r), mode[t] # "tx" PROVE Covered(s, db[r])'
  <2>1. db'[r] = clock + 1 /\ cur'[t] = clock + 1
    BY <1>0, <1>2 DEF Write, Store, DbTypes, ThreadTypes
  <2>2. pc'[t] = "reread" /\ mode' = mode  BY <1>0, <1>2, GotoEffect DEF Write, Labels
  <2>. QED  BY <1>2, <2>1, <2>2 DEF Covered, Announced, OnItsWay, Undecided
<1>3. ASSUME Commit(t), db'[r] # db[r] PROVE Covered(s, db[r])'
  <2>1. db'[r] = dirty[t][r] /\ dirty[t][r] # Unwritten /\ dirty[t][r] \in Unwritten..MaxWrites
    BY <1>0, <1>3 DEF Commit, Visible, DbTypes
  <2>2. dirty[t][r] \in Version
    BY <2>1, BoundsAssumption DEF Version, Unwritten, NoRow
  <2>3. pc[t] = "idle" /\ pc'[t] = "committed" /\ UNCHANGED <<pending, lostReread>>
    BY <1>0, <1>3, GotoEffect DEF Commit, InBody, Labels, TxLabels, queueVars, lostVars
  <2>4. \/ \E i \in DOMAIN pending : pending[i] = [ver |-> dirty[t][r], by |-> t]
        \/ dirty[t][r] \in lostReread
    BY <2>2, <2>3 DEF LostBase, QueueInv
  <2>. QED  BY <2>1, <2>3, <2>4 DEF Covered, Announced, OnItsWay, Undecided
<1>4. CASE db'[r] # db[r]
  <2>1. CASE \E q \in Rows : Write(t, q)
    <3>1. PICK q \in Rows : Write(t, q)  BY <2>1
    <3>2. mode[t] # "tx" /\ q = r  BY <1>0, <1>4, <3>1 DEF Write, Store, DbTypes
    <3>. QED  BY <1>2, <3>1, <3>2
  <2>2. ~Store(t, row[t], NoRow)
    BY <1>0, <1>4 DEF Store, DbTypes, OtherTypes
  <2>3. CASE Finish(t)  BY <1>3, <1>4, <2>3 DEF Finish, Rollback
  <2>. QED  BY <1>0, <1>4, <2>1, <2>2, <2>3, RowsStep
<1>. QED  BY <1>1, <1>4

\* Nor does a stream: its snapshot shows every committed row, and what it takes
\* out of its channel it shows.
LEMMA StreamLoses ==
    ASSUME TypeOK, NothingLost, NEW s \in Streams, Stream(s)
    PROVE  NothingLost'
<1>0. StreamTypes /\ UNCHANGED <<dbVars, mode, pc, conn, opVars, out, queueVars, lostVars>>
  BY TypeGroups, StreamStep
<1>1. ASSUME NEW v, OnItsWay(v) \/ v \in lostReread \cup lostRollback
      PROVE  (OnItsWay(v) \/ v \in lostReread \cup lostRollback)'
  BY <1>0, <1>1 DEF OnItsWay, Undecided, opVars, queueVars, lostVars
<1>. SUFFICES ASSUME NEW x \in Streams, NEW r \in Rows, NEW v \in {db[r]}, v # NoRow, Subscribed(x)'
              PROVE  v \in seen'[x] \cup Elems(chan'[x])
                     \/ (OnItsWay(v) \/ v \in lostReread \cup lostRollback)'
  BY <1>0 DEF NothingLost, Announced, dbVars
<1>2. ASSUME Subscribed(x), seen[x] \cup Elems(chan[x]) \subseteq seen'[x] \cup Elems(chan'[x])
      PROVE  v \in seen'[x] \cup Elems(chan'[x])
             \/ (OnItsWay(v) \/ v \in lostReread \cup lostRollback)'
  BY <1>1, <1>2 DEF NothingLost, Announced
<1>3. CASE Register(s)
  BY <1>0, <1>2, <1>3 DEF Register, Subscribed, StreamTypes
<1>4. CASE Snapshot(s)
  <2>1. CASE x = s  BY <1>0, <1>4, <2>1 DEF Snapshot, StreamTypes
  <2>2. CASE x # s  BY <1>0, <1>2, <1>4, <2>2 DEF Snapshot, Subscribed, StreamTypes
  <2>. QED  BY <2>1, <2>2
<1>5. CASE Consume(s)
  <2>1. Subscribed(x)  BY <1>0, <1>5 DEF Consume, Subscribed
  <2>2. CASE x = s
    <3>1. chan[s] \in Seq(Version) /\ chan[s] # <<>>  BY <1>0, <1>5 DEF Consume, StreamTypes
    <3>2. seen'[s] = seen[s] \cup {Head(chan[s])} /\ chan'[s] = Tail(chan[s])
      BY <1>0, <1>5 DEF Consume, StreamTypes
    <3>3. \A i \in DOMAIN chan[s] :
              chan[s][i] = Head(chan[s]) \/ (i - 1 \in DOMAIN Tail(chan[s]) /\ Tail(chan[s])[i - 1] = chan[s][i])
      BY <3>1
    <3>4. Elems(chan[s]) \subseteq {Head(chan[s])} \cup Elems(Tail(chan[s]))  BY <3>3 DEF Elems
    <3>. QED  BY <1>2, <2>1, <2>2, <3>2, <3>4
  <2>3. CASE x # s  BY <1>0, <1>2, <1>5, <2>1, <2>3 DEF Consume, StreamTypes
  <2>. QED  BY <2>2, <2>3
<1>6. CASE HangUp(s)
  <2>1. x # s  BY <1>0, <1>6 DEF HangUp, Subscribed, StreamTypes
  <2>. QED  BY <1>0, <1>2, <1>6, <2>1 DEF HangUp, Subscribed, StreamTypes
<1>7. CASE ChannelClosed(s)
  <2>1. x # s  BY <1>0, <1>7 DEF ChannelClosed, Subscribed, StreamTypes
  <2>. QED  BY <1>0, <1>2, <1>7, <2>1 DEF ChannelClosed, Subscribed, StreamTypes
<1>. QED  BY <1>3, <1>4, <1>5, <1>6, <1>7 DEF Stream

IInv == SafeInv /\ RowInv /\ QueueInv /\ NothingLost

\* The inductive invariant of the module, and its invariance.
THEOREM Invariance ==
    ASSUME SingleWriter
    PROVE  Spec => []IInv
<1>1. Init => RowInv /\ QueueInv /\ NothingLost
  <2>. SUFFICES ASSUME Init PROVE RowInv /\ QueueInv /\ NothingLost  OBVIOUS
  <2>. USE DEF Init, Clean, NoRow, Unwritten, Version
  <2>1. RowInv  BY DEF RowInv
  <2>2. QueueInv  BY DEF QueueInv
  <2>3. NothingLost  BY DEF NothingLost, Subscribed
  <2>. QED  BY <2>1, <2>2, <2>3
<1>2. SafeInv /\ RowInv /\ QueueInv /\ NothingLost /\ [Next]_vars => RowInv' /\ QueueInv' /\ NothingLost'
  <2>. SUFFICES ASSUME SafeInv, RowInv, QueueInv, NothingLost, [Next]_vars
                PROVE  RowInv' /\ QueueInv' /\ NothingLost'
    OBVIOUS
  <2>0. SerialInv /\ DirtyInv /\ TypeOK /\ LostBase  BY DEF SafeInv, SerialInv, LostBase
  <2>1. ASSUME NEW t \in Threads, Request(t) PROVE RowInv' /\ QueueInv' /\ NothingLost'
    BY <2>0, <2>1, RowStep, QueuedStep, LostStep
  <2>2. ASSUME NEW s \in Streams, Stream(s) PROVE RowInv' /\ QueueInv' /\ NothingLost'
    <3>1. UNCHANGED <<dbVars, mode, pc, conn, opVars, out, queueVars, lostVars>> /\ NothingLost'
      BY <2>0, <2>2, StreamStep, StreamLoses
    <3>. QED  BY <3>1 DEF RowInv, QueueInv, dbVars, opVars, queueVars, lostVars
  <2>3. CASE UNCHANGED vars
    BY <2>3 DEF vars, RowInv, QueueInv, NothingLost, Subscribed, Announced, OnItsWay, Undecided
  <2>. QED  BY <2>1, <2>2, <2>3 DEF Next
<1>. QED  BY <1>1, <1>2, Safety, PTL DEF Spec, IInv

\* No committed row goes missing: a connected stream has shown it, will show it,
\* or the program itself dropped its announcement in one of the two recorded ways.
THEOREM NothingGoesMissing ==
    ASSUME SingleWriter
    PROVE  Spec => []NothingLost
<1>1. IInv => NothingLost
  BY DEF IInv
<1>. QED  BY <1>1, Invariance, PTL
=============================================================================
