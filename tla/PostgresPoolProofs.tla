------------------------- MODULE PostgresPoolProofs -------------------------
(***************************************************************************)
(* Theorems about PostgresPool, for any finite set of threads and any size *)
(* of the pool.  The inductive invariant says who holds each mutex: the    *)
(* counting of connections and the wake-ups rest on it.                    *)
(***************************************************************************)
EXTENDS PostgresPool, FiniteSetTheorems, SequenceTheorems, TLAPS

Holding == {t \in Threads : HoldsSlot(t)}
Awake   == {t \in Threads : pc[t] \in {"enter", "expired", "scan"}}

\* Where a thread is tells which mutex and whether it has a connection; a thread
\* goes to sleep with the mutex of idle held and idle empty.
LockInv ==
    /\ \A t \in Threads : idleLock = t <=> pc[t] \in {"scan", "sleep"}
    /\ \A t \in Threads : totalLock = t <=> pc[t] = "relock"
    /\ \A t \in Threads : pc[t] = "sleep" => idle = <<>>
    /\ \A t \in Threads : conn[t] # "none" <=> pc[t] \in {"using", "return"}

\* TypeOK without its bounds below, which follow from the counting.
Types ==
    /\ idle \in Seq({"open", "closed"})
    /\ total \in Int /\ total <= MaxSize
    /\ idleLock \in Threads \cup {None}
    /\ totalLock \in Threads \cup {None}
    /\ pc \in [Threads -> {"out", "enter", "scan", "sleep", "waiting", "expired", "connect",
                           "giveback", "reconnect", "drop", "relock", "using", "return"}]
    /\ conn \in [Threads -> {"none", "open", "closed"}]
    /\ depth \in [Threads -> 0..MaxDepth]

IInv == Types /\ LockInv /\ SlotsAccounted /\ WaitersAreWoken
----------------------------------------------------------------------------
\* The sets that are counted are finite.
LEMMA Counted ==
    /\ IsFiniteSet(Holding) /\ Cardinality(Holding) \in Nat
    /\ IsFiniteSet(Awake) /\ Cardinality(Awake) \in Nat
<1>1. Holding \subseteq Threads /\ Awake \subseteq Threads  BY DEF Holding, Awake
<1>2. IsFiniteSet(Holding) /\ IsFiniteSet(Awake)  BY <1>1, ThreadsAssumption, FS_Subset
<1>. QED  BY <1>2, FS_CardinalityType

\* A slot is never counted below zero, and no more connections are idle than the pool
\* may have.
LEMMA TypesSuffice == IInv => TypeOK
<1>. SUFFICES ASSUME IInv PROVE TypeOK  OBVIOUS
<1>1. total = Len(idle) + Cardinality(Holding)  BY DEF IInv, SlotsAccounted, Holding
<1>2. Len(idle) \in Nat  BY DEF IInv, Types
<1>3. total \in 0..MaxSize /\ Len(idle) <= MaxSize
  BY <1>1, <1>2, Counted, SizeAssumption DEF IInv, Types
<1>. QED  BY <1>3 DEF IInv, Types, TypeOK

\* The pool starts with one open connection and nobody in it.
LEMMA InitIInv == Init => IInv
<1>. SUFFICES ASSUME Init PROVE IInv  OBVIOUS
<1>1. Types /\ LockInv  BY SizeAssumption, NoneAssumption DEF Init, Types, LockInv
<1>2. Holding = {} /\ Waiting = {}  BY DEF Init, Holding, HoldsSlot, Waiting
<1>3. SlotsAccounted  BY <1>2, FS_EmptySet DEF Init, SlotsAccounted, Holding
<1>4. WaitersAreWoken  BY <1>2 DEF WaitersAreWoken
<1>. QED  BY <1>1, <1>3, <1>4 DEF IInv
----------------------------------------------------------------------------
\* What is left of the stack after a pop.
LEMMA PopProperties ==
    ASSUME NEW S, NEW s \in Seq(S), s # <<>>
    PROVE  /\ SubSeq(s, 1, Len(s) - 1) \in Seq(S)
           /\ Len(SubSeq(s, 1, Len(s) - 1)) = Len(s) - 1
           /\ s[Len(s)] \in S
<1>1. Len(s) \in Nat /\ Len(s) # 0  BY EmptySeq
<1>2. \A i \in 1..Len(s) - 1 : s[i] \in S  BY <1>1, ElementOfSeq
<1>3. s[Len(s)] \in S  BY <1>1, ElementOfSeq
<1>4. Len(s) - 1 \in Int /\ 1 \in Int  BY <1>1
<1>5. /\ SubSeq(s, 1, Len(s) - 1) \in Seq(S)
      /\ Len(SubSeq(s, 1, Len(s) - 1)) = IF 1 <= Len(s) - 1 THEN Len(s) - 1 - 1 + 1 ELSE 0
  BY <1>2, <1>4, SubSeqProperties
<1>6. \A n \in Nat : n # 0 => (IF 1 <= n - 1 THEN n - 1 - 1 + 1 ELSE 0) = n - 1  OBVIOUS
<1>7. Len(SubSeq(s, 1, Len(s) - 1)) = Len(s) - 1  BY <1>1, <1>5, <1>6, Zenon
<1>. QED  BY <1>3, <1>5, <1>7, Zenon

\* Every step keeps the types.
LEMMA TypesStep == ASSUME IInv, [Next]_vars PROVE Types'
<1>. USE SizeAssumption DEF IInv, Types
<1>1. ASSUME NEW t \in Threads, NEW d \in {0, 1}, Begin(t, d) PROVE Types'
  BY <1>1 DEF Begin, Goto
<1>2. ASSUME NEW t \in Threads, LockIdle(t) PROVE Types'
  BY <1>2 DEF LockIdle, Goto
<1>3. ASSUME NEW t \in Threads, Pop(t) PROVE Types'
  <2>1. idle' \in Seq({"open", "closed"})  BY <1>3, PopProperties DEF Pop
  <2>. QED  BY <1>3, <2>1 DEF Pop, Goto
<1>4. ASSUME NEW t \in Threads, Reserve(t) \/ Full(t) \/ Sleep(t) \/ Timeout(t) \/ GiveUp(t) PROVE Types'
  <2>1. CASE Reserve(t)  BY <2>1 DEF Reserve, Goto
  <2>2. CASE Full(t)  BY <2>2 DEF Full, Goto
  <2>3. CASE Sleep(t)  BY <2>3 DEF Sleep, Goto
  <2>4. CASE Timeout(t)  BY <2>4 DEF Timeout, Goto
  <2>5. CASE GiveUp(t)  BY <2>5 DEF GiveUp, Goto
  <2>. QED  BY <1>4, <2>1, <2>2, <2>3, <2>4, <2>5
<1>5. ASSUME NEW t \in Threads, Connected(t) \/ ConnectFails(t) \/ Drop(t) \/ Relock(t) PROVE Types'
  <2>1. CASE Connected(t)  BY <2>1 DEF Connected, Goto
  <2>2. CASE ConnectFails(t)  BY <2>2 DEF ConnectFails, Goto
  <2>3. CASE Drop(t)
    <3>1. total' \in Int /\ total' <= MaxSize  BY <2>3 DEF Drop
    <3>. QED  BY <2>3, <3>1 DEF Drop, Goto
  <2>4. CASE Relock(t)  BY <2>4 DEF Relock, Goto
  <2>. QED  BY <1>5, <2>1, <2>2, <2>3, <2>4
<1>6. ASSUME NEW t \in Threads, GiveBack(t) PROVE Types'
  BY <1>6 DEF GiveBack, NotifyOne, Waiting, Goto
<1>7. ASSUME NEW t \in Threads, Statement(t) \/ Nest(t) \/ Leave(t) PROVE Types'
  <2>1. CASE Statement(t)
    <3>1. conn[t] \in {"open", "closed"}  BY <2>1 DEF Statement, LockInv
    <3>. QED  BY <2>1, <3>1 DEF Statement, Goto
  <2>2. CASE Nest(t)
    <3>1. depth[t] + 1 \in 0..MaxDepth  BY <2>2 DEF Nest
    <3>. QED  BY <2>2, <3>1 DEF Nest
  <2>3. CASE Leave(t)  BY <2>3 DEF Leave, Goto
  <2>. QED  BY <1>7, <2>1, <2>2, <2>3
<1>8. ASSUME NEW t \in Threads, Release(t) PROVE Types'
  <2>1. conn[t] \in {"open", "closed"}  BY <1>8 DEF Release, LockInv
  <2>2. idle' \in Seq({"open", "closed"})  BY <1>8, <2>1 DEF Release
  <2>. QED  BY <1>8, <2>2 DEF Release, NotifyOne, Waiting, Goto
<1>9. CASE Close
  BY <1>9 DEF Close
<1>10. CASE UNCHANGED vars
  BY <1>10 DEF vars
<1>. QED  BY <1>1, <1>2, <1>3, <1>4, <1>5, <1>6, <1>7, <1>8, <1>9, <1>10 DEF Next, Step

\* A mutex is taken and left where the program says so, by the thread that says so.
LEMMA LockStep == ASSUME IInv, [Next]_vars PROVE LockInv'
<1>. USE NoneAssumption DEF IInv, Types, LockInv
<1>1. ASSUME NEW t \in Threads, NEW d \in {0, 1}, Begin(t, d) PROVE LockInv'
  BY <1>1 DEF Begin, Goto
<1>2. ASSUME NEW t \in Threads, LockIdle(t) PROVE LockInv'
  BY <1>2 DEF LockIdle, Goto
<1>3. ASSUME NEW t \in Threads, Pop(t) PROVE LockInv'
  BY <1>3 DEF Pop, Goto
<1>4. ASSUME NEW t \in Threads, Reserve(t) \/ Full(t) \/ Sleep(t) \/ Timeout(t) \/ GiveUp(t) PROVE LockInv'
  <2>1. CASE Reserve(t)  BY <2>1 DEF Reserve, Goto
  <2>2. CASE Full(t)  BY <2>2 DEF Full, Goto
  <2>3. CASE Sleep(t)  BY <2>3 DEF Sleep, Goto
  <2>4. CASE Timeout(t)  BY <2>4 DEF Timeout, Goto
  <2>5. CASE GiveUp(t)  BY <2>5 DEF GiveUp, Goto
  <2>. QED  BY <1>4, <2>1, <2>2, <2>3, <2>4, <2>5
<1>5. ASSUME NEW t \in Threads, Connected(t) \/ ConnectFails(t) \/ Drop(t) \/ Relock(t) PROVE LockInv'
  <2>1. CASE Connected(t)  BY <2>1 DEF Connected, Goto
  <2>2. CASE ConnectFails(t)  BY <2>2 DEF ConnectFails, Goto
  <2>3. CASE Drop(t)  BY <2>3 DEF Drop, Goto
  <2>4. CASE Relock(t)  BY <2>4 DEF Relock, Goto
  <2>. QED  BY <1>5, <2>1, <2>2, <2>3, <2>4
<1>6. ASSUME NEW t \in Threads, GiveBack(t) PROVE LockInv'
  BY <1>6 DEF GiveBack, NotifyOne, Waiting, Goto
<1>7. ASSUME NEW t \in Threads, Statement(t) \/ Nest(t) \/ Leave(t) PROVE LockInv'
  <2>1. CASE Statement(t)  BY <2>1 DEF Statement, Goto
  <2>2. CASE Nest(t)  BY <2>2 DEF Nest, Goto
  <2>3. CASE Leave(t)  BY <2>3 DEF Leave, Goto
  <2>. QED  BY <1>7, <2>1, <2>2, <2>3
<1>8. ASSUME NEW t \in Threads, Release(t) PROVE LockInv'
  BY <1>8 DEF Release, NotifyOne, Waiting, Goto
<1>9. CASE Close
  BY <1>9 DEF Close
<1>10. CASE UNCHANGED vars
  BY <1>10 DEF vars
<1>. QED  BY <1>1, <1>2, <1>3, <1>4, <1>5, <1>6, <1>7, <1>8, <1>9, <1>10 DEF Next, Step
----------------------------------------------------------------------------
\* Counting: a step leaves the slots in use alone, takes one or gives one back.
LEMMA SlotsStep == ASSUME IInv, [Next]_vars PROVE SlotsAccounted'
<1>. USE DEF IInv, Types
<1>0. /\ total = Len(idle) + Cardinality(Holding)
      /\ IsFiniteSet(Holding) /\ Cardinality(Holding) \in Nat
      /\ Len(idle) \in Nat
      /\ SlotsAccounted' <=> total' = Len(idle') + Cardinality(Holding')
  BY Counted DEF SlotsAccounted, Holding
<1>a. ASSUME Holding' = Holding, total' = total, Len(idle') = Len(idle)
      PROVE  SlotsAccounted'
  BY <1>0, <1>a
<1>b. ASSUME NEW t \in Threads, t \notin Holding, Holding' = Holding \cup {t},
             \/ total' = total + 1 /\ Len(idle') = Len(idle)
             \/ total' = total /\ Len(idle') = Len(idle) - 1
      PROVE  SlotsAccounted'
  <2>1. Cardinality(Holding') = Cardinality(Holding) + 1  BY <1>0, <1>b, FS_AddElement
  <2>. QED  BY <1>0, <1>b, <2>1
<1>c. ASSUME NEW t \in Threads, t \in Holding, Holding' = Holding \ {t},
             \/ total' = total - 1 /\ Len(idle') = Len(idle)
             \/ total' = total /\ Len(idle') = Len(idle) + 1
      PROVE  SlotsAccounted'
  <2>1. Cardinality(Holding') = Cardinality(Holding) - 1  BY <1>0, <1>c, FS_RemoveElement
  <2>. QED  BY <1>0, <1>c, <2>1
<1>1. ASSUME NEW t \in Threads, NEW d \in {0, 1}, Begin(t, d) PROVE SlotsAccounted'
  <2>1. Holding' = Holding  BY <1>1 DEF Begin, Goto, Holding, HoldsSlot
  <2>. QED  BY <1>1, <1>a, <2>1 DEF Begin
<1>2. ASSUME NEW t \in Threads, LockIdle(t) PROVE SlotsAccounted'
  <2>1. Holding' = Holding  BY <1>2 DEF LockIdle, Goto, Holding, HoldsSlot
  <2>. QED  BY <1>2, <1>a, <2>1 DEF LockIdle
<1>3. ASSUME NEW t \in Threads, Pop(t) PROVE SlotsAccounted'
  <2>1. t \notin Holding /\ Holding' = Holding \cup {t}  BY <1>3 DEF Pop, Goto, Holding, HoldsSlot
  <2>2. total' = total /\ Len(idle') = Len(idle) - 1  BY <1>3, PopProperties DEF Pop
  <2>. QED  BY <1>b, <2>1, <2>2
<1>4. ASSUME NEW t \in Threads, Reserve(t) PROVE SlotsAccounted'
  <2>1. t \notin Holding /\ Holding' = Holding \cup {t}  BY <1>4 DEF Reserve, Goto, Holding, HoldsSlot
  <2>2. total' = total + 1 /\ Len(idle') = Len(idle)  BY <1>4 DEF Reserve
  <2>. QED  BY <1>b, <2>1, <2>2
<1>5. ASSUME NEW t \in Threads, Full(t) \/ Sleep(t) \/ Timeout(t) \/ GiveUp(t) PROVE SlotsAccounted'
  <2>1. CASE Full(t)
    <3>1. Holding' = Holding  BY <2>1 DEF Full, Goto, Holding, HoldsSlot
    <3>. QED  BY <2>1, <1>a, <3>1 DEF Full
  <2>2. CASE Sleep(t)
    <3>1. Holding' = Holding  BY <2>2 DEF Sleep, Goto, Holding, HoldsSlot
    <3>. QED  BY <2>2, <1>a, <3>1 DEF Sleep
  <2>3. CASE Timeout(t)
    <3>1. Holding' = Holding  BY <2>3 DEF Timeout, Goto, Holding, HoldsSlot
    <3>. QED  BY <2>3, <1>a, <3>1 DEF Timeout
  <2>4. CASE GiveUp(t)
    <3>1. Holding' = Holding  BY <2>4 DEF GiveUp, Goto, Holding, HoldsSlot
    <3>. QED  BY <2>4, <1>a, <3>1 DEF GiveUp
  <2>. QED  BY <1>5, <2>1, <2>2, <2>3, <2>4
<1>6. ASSUME NEW t \in Threads, Connected(t) \/ ConnectFails(t) \/ Relock(t) PROVE SlotsAccounted'
  <2>1. CASE Connected(t)
    <3>1. Holding' = Holding  BY <2>1 DEF Connected, Goto, Holding, HoldsSlot
    <3>. QED  BY <2>1, <1>a, <3>1 DEF Connected
  <2>2. CASE ConnectFails(t)
    <3>1. Holding' = Holding  BY <2>2 DEF ConnectFails, Goto, Holding, HoldsSlot
    <3>. QED  BY <2>2, <1>a, <3>1 DEF ConnectFails
  <2>3. CASE Relock(t)
    <3>1. Holding' = Holding  BY <2>3 DEF Relock, Goto, Holding, HoldsSlot
    <3>. QED  BY <2>3, <1>a, <3>1 DEF Relock
  <2>. QED  BY <1>6, <2>1, <2>2, <2>3
<1>7. ASSUME NEW t \in Threads, GiveBack(t) PROVE SlotsAccounted'
  <2>1. t \in Holding /\ Holding' = Holding \ {t}
    BY <1>7 DEF GiveBack, NotifyOne, Waiting, Goto, Holding, HoldsSlot
  <2>2. total' = total - 1 /\ Len(idle') = Len(idle)  BY <1>7 DEF GiveBack
  <2>. QED  BY <1>c, <2>1, <2>2
<1>8. ASSUME NEW t \in Threads, Drop(t) PROVE SlotsAccounted'
  <2>1. t \in Holding /\ Holding' = Holding \ {t}  BY <1>8 DEF Drop, Goto, Holding, HoldsSlot
  <2>2. total' = total - 1 /\ Len(idle') = Len(idle)  BY <1>8 DEF Drop
  <2>. QED  BY <1>c, <2>1, <2>2
<1>9. ASSUME NEW t \in Threads, Statement(t) \/ Nest(t) \/ Leave(t) PROVE SlotsAccounted'
  <2>1. CASE Statement(t)
    <3>1. Holding' = Holding  BY <2>1 DEF Statement, Goto, Holding, HoldsSlot
    <3>. QED  BY <2>1, <1>a, <3>1 DEF Statement
  <2>2. CASE Nest(t)
    <3>1. Holding' = Holding  BY <2>2 DEF Nest, Holding, HoldsSlot
    <3>. QED  BY <2>2, <1>a, <3>1 DEF Nest
  <2>3. CASE Leave(t)
    <3>1. Holding' = Holding  BY <2>3 DEF Leave, Goto, Holding, HoldsSlot
    <3>. QED  BY <2>3, <1>a, <3>1 DEF Leave
  <2>. QED  BY <1>9, <2>1, <2>2, <2>3
<1>10. ASSUME NEW t \in Threads, Release(t) PROVE SlotsAccounted'
  <2>1. t \in Holding /\ Holding' = Holding \ {t}
    BY <1>10 DEF Release, NotifyOne, Waiting, Goto, Holding, HoldsSlot
  <2>2. conn[t] \in {"open", "closed"}  BY <1>10 DEF Release, LockInv
  <2>3. total' = total /\ Len(idle') = Len(idle) + 1  BY <1>10, <2>2 DEF Release
  <2>. QED  BY <1>c, <2>1, <2>3
<1>11. CASE Close
  <2>1. Holding' = Holding  BY <1>11 DEF Close, Holding, HoldsSlot
  <2>. QED  BY <1>11, <1>a, <2>1 DEF Close
<1>12. CASE UNCHANGED vars
  <2>1. Holding' = Holding  BY <1>12 DEF vars, Holding, HoldsSlot
  <2>. QED  BY <1>12, <1>a, <2>1 DEF vars
<1>. QED
  BY <1>1, <1>2, <1>3, <1>4, <1>5, <1>6, <1>7, <1>8, <1>9, <1>10, <1>11, <1>12 DEF Next, Step
----------------------------------------------------------------------------
\* Wake-ups: who takes a connection was awake, who returns one wakes somebody, and
\* nobody goes to sleep beside one.
LEMMA WokenStep == ASSUME IInv, [Next]_vars PROVE WaitersAreWoken'
<1>. USE DEF IInv, Types
<1>0. /\ Waiting # {} => Len(idle) <= Cardinality(Awake)
      /\ IsFiniteSet(Awake) /\ Cardinality(Awake) \in Nat
      /\ Len(idle) \in Nat
      /\ WaitersAreWoken' <=> (Waiting' # {} => Len(idle') <= Cardinality(Awake'))
  BY Counted DEF WaitersAreWoken, Awake
<1>f. Awake' \subseteq Threads /\ IsFiniteSet(Awake') /\ Cardinality(Awake') \in Nat
  <2>1. Awake' \subseteq Threads  BY DEF Awake
  <2>. QED  BY <2>1, ThreadsAssumption, FS_Subset, FS_CardinalityType
<1>a. ASSUME Waiting' \subseteq Waiting, Awake \subseteq Awake', Len(idle') = Len(idle)
      PROVE  WaitersAreWoken'
  <2>1. Cardinality(Awake) <= Cardinality(Awake')  BY <1>a, <1>f, FS_Subset
  <2>. QED  BY <1>0, <1>a, <1>f, <2>1
<1>b. ASSUME idle' = <<>> PROVE WaitersAreWoken'
  BY <1>0, <1>b, <1>f
<1>c. ASSUME NEW t \in Threads, NotifyOne(t, "out"), pc[t] \in {"giveback", "return"},
             Len(idle') \in {Len(idle), Len(idle) + 1}
      PROVE  WaitersAreWoken'
  <2>1. CASE Waiting = {}
    <3>1. Waiting' = {}  BY <1>c, <2>1 DEF NotifyOne, Waiting, Goto
    <3>. QED  BY <1>0, <3>1
  <2>2. CASE Waiting # {}
    <3>1. PICK w \in Waiting : pc' = [pc EXCEPT ![t] = "out", ![w] = "enter"]
      BY <1>c, <2>2 DEF NotifyOne
    <3>2. w \notin Awake /\ Awake' = Awake \cup {w}  BY <1>c, <3>1 DEF Waiting, Awake
    <3>3. Cardinality(Awake') = Cardinality(Awake) + 1  BY <1>0, <3>2, FS_AddElement
    <3>. QED  BY <1>0, <1>c, <2>2, <3>3
  <2>. QED  BY <2>1, <2>2
<1>1. ASSUME NEW t \in Threads, NEW d \in {0, 1}, Begin(t, d) PROVE WaitersAreWoken'
  BY <1>1, <1>a DEF Begin, Goto, Waiting, Awake
<1>2. ASSUME NEW t \in Threads, LockIdle(t) PROVE WaitersAreWoken'
  BY <1>2, <1>a DEF LockIdle, Goto, Waiting, Awake
<1>3. ASSUME NEW t \in Threads, Pop(t) PROVE WaitersAreWoken'
  <2>1. t \in Awake /\ Awake' = Awake \ {t} /\ Waiting' = Waiting
    BY <1>3 DEF Pop, Goto, Waiting, Awake
  <2>2. Cardinality(Awake') = Cardinality(Awake) - 1  BY <1>0, <2>1, FS_RemoveElement
  <2>3. Len(idle') = Len(idle) - 1  BY <1>3, PopProperties DEF Pop
  <2>. QED  BY <1>0, <2>1, <2>2, <2>3
<1>4. ASSUME NEW t \in Threads, Reserve(t) \/ Full(t) \/ Sleep(t) \/ GiveUp(t) PROVE WaitersAreWoken'
  <2>1. idle' = <<>>  BY <1>4 DEF Reserve, Full, Sleep, GiveUp, LockInv
  <2>. QED  BY <1>b, <2>1
<1>5. ASSUME NEW t \in Threads, Timeout(t) PROVE WaitersAreWoken'
  BY <1>5, <1>a DEF Timeout, Goto, Waiting, Awake
<1>6. ASSUME NEW t \in Threads, Connected(t) PROVE WaitersAreWoken'
  BY <1>6, <1>a DEF Connected, Goto, Waiting, Awake
<1>7. ASSUME NEW t \in Threads, ConnectFails(t) PROVE WaitersAreWoken'
  BY <1>7, <1>a DEF ConnectFails, Goto, Waiting, Awake
<1>8. ASSUME NEW t \in Threads, GiveBack(t) PROVE WaitersAreWoken'
  BY <1>8, <1>c DEF GiveBack
<1>9. ASSUME NEW t \in Threads, Drop(t) PROVE WaitersAreWoken'
  BY <1>9, <1>a DEF Drop, Goto, Waiting, Awake
<1>10. ASSUME NEW t \in Threads, Relock(t) PROVE WaitersAreWoken'
  BY <1>10, <1>a DEF Relock, Goto, Waiting, Awake
<1>11. ASSUME NEW t \in Threads, Statement(t) PROVE WaitersAreWoken'
  BY <1>11, <1>a DEF Statement, Goto, Waiting, Awake
<1>12. ASSUME NEW t \in Threads, Nest(t) PROVE WaitersAreWoken'
  BY <1>12, <1>a DEF Nest, Waiting, Awake
<1>13. ASSUME NEW t \in Threads, Leave(t) PROVE WaitersAreWoken'
  BY <1>13, <1>a DEF Leave, Goto, Waiting, Awake
<1>14. ASSUME NEW t \in Threads, Release(t) PROVE WaitersAreWoken'
  <2>1. conn[t] \in {"open", "closed"}  BY <1>14 DEF Release, LockInv
  <2>2. Len(idle') = Len(idle) + 1  BY <1>14, <2>1 DEF Release
  <2>. QED  BY <1>14, <1>c, <2>2 DEF Release
<1>15. CASE Close
  BY <1>15, <1>a DEF Close, Waiting, Awake
<1>16. CASE UNCHANGED vars
  BY <1>16, <1>a DEF vars, Waiting, Awake
<1>. QED
  BY <1>1, <1>2, <1>3, <1>4, <1>5, <1>6, <1>7, <1>8, <1>9, <1>10, <1>11, <1>12, <1>13, <1>14,
     <1>15, <1>16 DEF Next, Step
----------------------------------------------------------------------------
\* Who holds a mutex of the pool waits for nothing, or holds idle and waits for total,
\* which is kept by a thread that waits for idle: so a chain of waits ends after two
\* threads, at one that can go on or in the cycle.
LEMMA WaitsEnd == IInv => StuckOnlyInCycle
<1>. USE NoneAssumption DEF IInv, Types, LockInv, Stuck, WantsIdle, WantsTotal
<1>. SUFFICES ASSUME IInv, NEW t \in Threads, Stuck(t), ~LockCycle
              PROVE  \E u \in Threads : pc[u] # "out" /\ ~Stuck(u)
  BY DEF StuckOnlyInCycle
<1>1. CASE idleLock # None
  <2>1. idleLock \in Threads /\ pc[idleLock] \in {"scan", "sleep"}  BY <1>1
  <2>2. CASE WantsTotal(idleLock) /\ totalLock # None
    <3>1. totalLock \in Threads /\ pc[totalLock] = "relock"  BY <2>2
    <3>2. pc[idleLock] = "scan" /\ idle = <<>>  BY <2>1, <2>2
    <3>. QED  BY <2>1, <3>1, <3>2 DEF LockCycle
  <2>. QED  BY <2>1, <2>2
<1>2. CASE idleLock = None
  <2>1. totalLock # None  BY <1>2
  <2>2. totalLock \in Threads /\ pc[totalLock] = "relock"  BY <2>1
  <2>. QED  BY <1>2, <2>2
<1>. QED  BY <1>1, <1>2
\* Stuck says no more than it should: a thread that takes a step was not.
LEMMA StuckIsStill == \A t \in Threads : Step(t) => ~Stuck(t)
BY DEF Step, LockIdle, Pop, Reserve, Full, Sleep, Timeout, GiveUp, Connected, ConnectFails, GiveBack,
       Drop, Relock, Statement, Nest, Leave, Release, Stuck, WantsIdle, WantsTotal

\* With both mutexes held by the cycle, nobody takes or leaves one, fills idle or moves the two.
LEMMA CycleStep == ASSUME IInv, [Next]_vars, LockCycle PROVE LockCycle'
<1>. USE NoneAssumption DEF IInv, Types, LockInv
<1>1. PICK t \in Threads, u \in Threads :
         pc[t] = "relock" /\ totalLock = t /\ pc[u] = "scan" /\ idleLock = u /\ idle = <<>>
  BY DEF LockCycle
<1>. SUFFICES pc'[t] = "relock" /\ totalLock' = t /\ pc'[u] = "scan" /\ idleLock' = u /\ idle' = <<>>
  BY DEF LockCycle
<1>2. ASSUME NEW v \in Threads, Step(v)
      PROVE  /\ UNCHANGED <<idle, totalLock, idleLock>>
             /\ pc'[t] = pc[t] /\ pc'[u] = pc[u]
  <2>1. ~Stuck(v) /\ v # t /\ v # u
    BY <1>1, <1>2, StuckIsStill DEF Stuck, WantsIdle, WantsTotal
  <2>2. pc[v] \in {"waiting", "connect", "reconnect", "using"}
    BY <1>1, <1>2, <2>1
       DEF Stuck, WantsIdle, WantsTotal, Step, LockIdle, Pop, Reserve, Full, Sleep, Timeout, GiveUp,
           Connected, ConnectFails, GiveBack, Drop, Relock, Statement, Nest, Leave, Release
  <2>3. Timeout(v) \/ Connected(v) \/ ConnectFails(v) \/ Statement(v) \/ Nest(v) \/ Leave(v)
    BY <1>2, <2>2 DEF Step, LockIdle, Pop, Reserve, Full, Sleep, GiveUp, GiveBack, Drop, Relock, Release
  <2>. QED
    BY <2>1, <2>3 DEF Timeout, Connected, ConnectFails, Statement, Nest, Leave, Goto
<1>3. ASSUME NEW v \in Threads, NEW d \in {0, 1}, Begin(v, d)
      PROVE  /\ UNCHANGED <<idle, totalLock, idleLock>>
             /\ pc'[t] = pc[t] /\ pc'[u] = pc[u]
  BY <1>1, <1>3 DEF Begin, Goto
<1>4. CASE Close  BY <1>1, <1>4 DEF Close
<1>5. CASE UNCHANGED vars  BY <1>1, <1>5 DEF vars
<1>. QED  BY <1>1, <1>2, <1>3, <1>4, <1>5 DEF Next
----------------------------------------------------------------------------
(* The theorems.                                                           *)

\* Who holds which mutex, what is counted and who is awake hold together from the
\* first step on (acquire and release of store.rs).
THEOREM Invariance == Spec => []IInv
<1>1. IInv /\ [Next]_vars => IInv'
  BY TypesStep, LockStep, SlotsStep, WokenStep DEF IInv
<1>. QED  BY InitIInv, <1>1, PTL DEF Spec

\* The pool never has, idle or counted, more connections than --db-pool-size.
THEOREM TypeCorrect == Spec => []TypeOK
BY Invariance, TypesSuffice, PTL

\* total_conns counts each connection once, on every failure path of acquire.
THEOREM SlotsCorrect == Spec => []SlotsAccounted
<1>1. IInv => SlotsAccounted  BY DEF IInv
<1>. QED  BY Invariance, <1>1, PTL

\* acquire, release and the drop of a dead connection stop each other only in the one
\* order of the two mutexes that store.rs takes both ways.
THEOREM StuckCorrect == Spec => []StuckOnlyInCycle
BY Invariance, WaitsEnd, PTL

\* What the two threads of the cycle wait for never comes: no timeout of another thread, no
\* closed connection and no new request ends it.
THEOREM CycleIsForever == Spec => [][LockCycle => LockCycle']_vars
<1>1. IInv /\ [Next]_vars => (LockCycle => LockCycle')  BY CycleStep
<1>. QED  BY Invariance, <1>1, PTL DEF Spec

\* Nobody sleeps on the condition variable beside an idle connection.
THEOREM WaitersCorrect == Spec => []WaitersAreWoken
<1>1. IInv => WaitersAreWoken  BY DEF IInv
<1>. QED  BY Invariance, <1>1, PTL
=============================================================================
