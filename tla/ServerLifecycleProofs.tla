----------------------- MODULE ServerLifecycleProofs -----------------------
(***************************************************************************)
(* Theorems about ServerLifecycle, for any number of requests and workers  *)
(* and any limits.  All of them rest on one inductive invariant, IInv:     *)
(* the admission counter is only trustworthy because of what each step of  *)
(* the loop knows about the request it has in hand, and the job store      *)
(* because of what a request thread knows about its own job.               *)
(***************************************************************************)
EXTENDS ServerLifecycle, FiniteSetTheorems, TLAPS

\* The requests in_flight stands for, the one being refused aside.
Held == {q \in Requests : Counted(q) /\ run[q] \in {"running", "enqueued", "returned", "panicked"}}

\* What the main loop has in hand at each of its steps.
HandInv ==
    /\ loop \in {"admit", "count", "undo"} <=> hand # None
    /\ hand # None => kind[hand] # "new" /\ run[hand] = "none"
    /\ loop = "undo" => Counted(hand)
    /\ \A q \in Requests : kind[q] = "new" => run[q] = "none"

\* When the loop is left, and what it may admit while it drains.
DrainInv ==
    /\ Up <=> loop # "left"
    /\ exited = "clean" => in_flight = 0
    /\ started => draining
    /\ started /\ loop = "count" => kind[hand] \in Exempt

CounterInv == in_flight = Cardinality(Held) + (IF loop = "undo" THEN 1 ELSE 0)

\* A job exists only once its request enqueued it, and ages only once it ended.
JobInv ==
    /\ \A j \in Requests : status[j] # "unknown" => run[j] \notin {"none", "running"}
    /\ \A j \in old : status[j] \in Ended

IInv == TypeOK /\ HandInv /\ DrainInv /\ CounterInv /\ JobInv /\ JobsInOnePlace
----------------------------------------------------------------------------
(* The counter.                                                            *)

\* The requests of a process are finitely many, so in_flight can count them.
LEMMA HeldFinite == IsFiniteSet(Held) /\ Cardinality(Held) \in Nat
<1>1. Held \subseteq Requests  BY DEF Held
<1>2. IsFiniteSet(Held)  BY <1>1, RequestsAssumption, FS_Subset
<1>. QED  BY <1>2, FS_CardinalityType

\* At the start no thread serves a request and in_flight is 0.
LEMMA CounterInit == Init => CounterInv
<1>. SUFFICES ASSUME Init PROVE CounterInv  OBVIOUS
<1>1. Held = {}  BY DEF Init, Held
<1>. QED  BY <1>1, FS_EmptySet DEF Init, CounterInv

\* fetch_add and fetch_sub follow the threads: Count adds the request it starts or is
\* about to refuse, Undo and Release take it out again.
LEMMA CounterStep ==
    ASSUME IInv, [Next]_vars
    PROVE  CounterInv'
<1>. USE DEF IInv, TypeOK, HandInv, DrainInv, CounterInv, Up
<1>0. IsFiniteSet(Held) /\ Cardinality(Held) \in Nat  BY HeldFinite
<1>1. ASSUME Held' = Held, in_flight' = in_flight, loop # "undo", loop' # "undo"
      PROVE  CounterInv'
  BY <1>1
<1>2. CASE Check
  BY <1>2, <1>1 DEF Check, Leave, Held, Counted
<1>3. ASSUME NEW q \in Requests, NEW k \in Kinds, Accept(q, k)
      PROVE  CounterInv'
  <2>1. run[q] = "none"  BY <1>3 DEF Accept
  <2>2. Held' = Held  BY <1>3, <2>1 DEF Accept, Held, Counted
  <2>. QED  BY <1>1, <1>3, <2>2 DEF Accept
<1>4. CASE AcceptNothing
  BY <1>4, <1>1 DEF AcceptNothing, Held, Counted
<1>5. CASE Admit
  BY <1>5, <1>1 DEF Admit, Refuse, Held, Counted
<1>6. CASE Count
  <2>1. hand \in Requests /\ hand \notin Held  BY <1>6, NoneAssumption DEF Count, Held
  <2>2. CASE ~Counted(hand)
    <3>1. Held' = Held  BY <1>6, <2>1, <2>2 DEF Count, Held, Counted
    <3>. QED  BY <1>6, <2>2, <3>1, <1>1 DEF Count
  <2>3. CASE Counted(hand) /\ loop' = "undo"
    <3>1. Held' = Held  BY <1>6, <2>3 DEF Count, Held, Counted
    <3>. QED  BY <1>0, <1>6, <2>3, <3>1 DEF Count
  <2>4. CASE Counted(hand) /\ loop' # "undo"
    <3>1. Held' = Held \cup {hand}  BY <1>6, <2>1, <2>4 DEF Count, Held, Counted
    <3>2. Cardinality(Held') = Cardinality(Held) + 1  BY <1>0, <2>1, <3>1, FS_AddElement
    <3>. QED  BY <1>0, <1>6, <2>4, <3>2 DEF Count
  <2>. QED  BY <2>2, <2>3, <2>4
<1>7. CASE Undo
  <2>1. Held' = Held  BY <1>7 DEF Undo, Refuse, Held, Counted
  <2>. QED  BY <1>0, <1>7, <2>1 DEF Undo, Refuse
<1>8. CASE Signal \/ Tick
  BY <1>8 DEF Signal, Tick, Held, Counted
<1>9. ASSUME NEW q \in Requests, Respond(q) \/ Panic(q) \/ Enqueue(q)
      PROVE  CounterInv'
  <2>1. Held' = Held  BY <1>9 DEF Respond, Panic, Enqueue, Held, Counted, Kinds
  <2>. QED  BY <1>9, <2>1 DEF Respond, Panic, Enqueue, mainVars
<1>10. ASSUME NEW q \in Requests, Release(q)
       PROVE  CounterInv'
  <2>1. CASE Counted(q)
    <3>1. q \in Held /\ Held' = Held \ {q}  BY <1>10, <2>1 DEF Release, Held, Counted
    <3>2. Cardinality(Held') = Cardinality(Held) - 1  BY <1>0, <3>1, FS_RemoveElement
    <3>. QED  BY <1>0, <1>10, <2>1, <3>2 DEF Release, mainVars
  <2>2. CASE ~Counted(q)
    <3>1. Held' = Held  BY <1>10, <2>2 DEF Release, Held, Counted
    <3>. QED  BY <1>10, <2>2, <3>1 DEF Release, mainVars
  <2>. QED  BY <2>1, <2>2
<1>11. ASSUME NEW q \in Requests, StreamEnds(q) \/ JobAges(q)
       PROVE  CounterInv'
  <2>1. UNCHANGED <<in_flight, loop, kind, run>>  BY <1>11 DEF StreamEnds, JobAges, mainVars
  <2>2. Held' = Held  BY <2>1 DEF Held, Counted
  <2>. QED  BY <2>1, <2>2
<1>12. ASSUME NEW w \in Workers, Worker(w)
       PROVE  CounterInv'
  <2>1. UNCHANGED <<in_flight, loop, kind, run>>
    BY <1>12 DEF Worker, claim_next, JobEnds, mainVars
  <2>2. Held' = Held  BY <2>1 DEF Held, Counted
  <2>. QED  BY <2>1, <2>2
<1>13. CASE UNCHANGED vars
  BY <1>13 DEF vars, Held, Counted
<1>. QED
  BY <1>2, <1>3, <1>4, <1>5, <1>6, <1>7, <1>8, <1>9, <1>10, <1>11, <1>12, <1>13
     DEF Next, MainLoop, Handler
----------------------------------------------------------------------------
(* The loop.                                                               *)

\* At the start the loop has nothing in hand and does not drain.
LEMMA LoopInit == Init => HandInv /\ DrainInv
BY DEF Init, HandInv, DrainInv, Up

\* From recv_timeout to the spawn or the refusal the loop has one request in hand, and
\* no thread serves that one yet.
LEMMA HandStep ==
    ASSUME IInv, [Next]_vars
    PROVE  HandInv'
<1>. USE NoneAssumption DEF IInv, TypeOK, HandInv, DrainInv, Up, Counted
<1>1. CASE Check
  BY <1>1 DEF Check, Leave
<1>2. ASSUME NEW q \in Requests, NEW k \in Kinds, Accept(q, k)
      PROVE  HandInv'
  BY <1>2 DEF Accept, Kinds
<1>3. CASE AcceptNothing
  BY <1>3 DEF AcceptNothing
<1>4. CASE Admit
  BY <1>4 DEF Admit, Refuse
<1>5. CASE Count
  BY <1>5 DEF Count
<1>6. CASE Undo
  BY <1>6 DEF Undo, Refuse
<1>7. CASE Signal \/ Tick
  BY <1>7 DEF Signal, Tick
<1>8. ASSUME NEW q \in Requests, Handler(q)
      PROVE  HandInv'
  <2>1. UNCHANGED <<loop, hand, kind>>
    BY <1>8 DEF Handler, Respond, Panic, Release, StreamEnds, Enqueue, mainVars
  <2>2. \A p \in Requests : run[p] = "none" => run'[p] = "none"
    BY <1>8 DEF Handler, Respond, Panic, Release, StreamEnds, Enqueue, mainVars
  <2>. QED  BY <2>1, <2>2
<1>9. ASSUME NEW q \in Requests, JobAges(q)
      PROVE  HandInv'
  BY <1>9 DEF JobAges, mainVars
<1>10. ASSUME NEW w \in Workers, Worker(w)
       PROVE  HandInv'
  BY <1>10 DEF Worker, claim_next, JobEnds, mainVars
<1>11. CASE UNCHANGED vars
  BY <1>11 DEF vars
<1>. QED
  BY <1>1, <1>2, <1>3, <1>4, <1>5, <1>6, <1>7, <1>8, <1>9, <1>10, <1>11 DEF Next, MainLoop

\* After the exit nothing moves, so a clean exit stays one.
LEMMA DrainStep ==
    ASSUME IInv, [Next]_vars
    PROVE  DrainInv'
<1>. USE NoneAssumption DEF IInv, TypeOK, HandInv, DrainInv, Up
<1>1. CASE Check
  BY <1>1 DEF Check, Leave
<1>2. ASSUME NEW q \in Requests, NEW k \in Kinds, Accept(q, k)
      PROVE  DrainInv'
  BY <1>2 DEF Accept
<1>3. CASE AcceptNothing
  BY <1>3 DEF AcceptNothing
<1>4. CASE Admit
  BY <1>4 DEF Admit, Refuse
<1>5. CASE Count
  BY <1>5 DEF Count
<1>6. CASE Undo
  BY <1>6 DEF Undo, Refuse
<1>7. CASE Signal \/ Tick
  BY <1>7 DEF Signal, Tick
<1>8. ASSUME NEW q \in Requests, Handler(q)
      PROVE  DrainInv'
  BY <1>8 DEF Handler, Respond, Panic, Release, StreamEnds, Enqueue, mainVars
<1>9. ASSUME NEW q \in Requests, JobAges(q)
      PROVE  DrainInv'
  BY <1>9 DEF JobAges, mainVars
<1>10. ASSUME NEW w \in Workers, Worker(w)
       PROVE  DrainInv'
  BY <1>10 DEF Worker, claim_next, JobEnds, mainVars
<1>11. CASE UNCHANGED vars
  BY <1>11 DEF vars
<1>. QED
  BY <1>1, <1>2, <1>3, <1>4, <1>5, <1>6, <1>7, <1>8, <1>9, <1>10, <1>11 DEF Next, MainLoop
----------------------------------------------------------------------------
(* The jobs.                                                               *)

\* At the start there is no job.
LEMMA JobInit == Init => JobInv /\ JobsInOnePlace
BY NoneAssumption DEF Init, JobInv, JobsInOnePlace

\* What a step that is not about jobs leaves as it was.
LEMMA JobFrame ==
    ASSUME IInv, [Next]_vars,
           ~ \E q \in Requests : Enqueue(q) \/ JobAges(q),
           ~ \E w \in Workers : Worker(w)
    PROVE  /\ UNCHANGED jobVars
           /\ \A q \in Requests : run'[q] \in {"none", "running"} => run[q] \in {"none", "running"}
<1>. USE DEF IInv, TypeOK, HandInv
<1>1. CASE MainLoop
  BY <1>1 DEF MainLoop, Check, Leave, AcceptNothing, Admit, Refuse, Count, Undo, Accept, jobVars
<1>2. CASE Signal \/ Tick \/ UNCHANGED vars
  BY <1>2 DEF Signal, Tick, vars, jobVars
<1>3. ASSUME NEW q \in Requests, Respond(q) \/ Panic(q) \/ Release(q) \/ StreamEnds(q)
      PROVE  /\ UNCHANGED jobVars
             /\ \A p \in Requests : run'[p] \in {"none", "running"} => run[p] \in {"none", "running"}
  BY <1>3 DEF Respond, Panic, Release, StreamEnds, jobVars
<1>. QED  BY <1>1, <1>2, <1>3 DEF Next, Handler

\* enqueue, claim_next, complete and fail keep queue, records and workers in step.
LEMMA JobStep ==
    ASSUME IInv, [Next]_vars
    PROVE  JobInv' /\ JobsInOnePlace'
<1>. USE NoneAssumption DEF IInv, TypeOK, JobInv, JobsInOnePlace
<1>1. ASSUME NEW q \in Requests, Enqueue(q)
      PROVE  JobInv' /\ JobsInOnePlace'
  <2>1. status[q] = "unknown" /\ status' \in [Requests -> {"unknown", "pending", "running", "forgotten"} \cup Ended]
    BY <1>1 DEF Enqueue, enqueue
  <2>2. \A j \in Requests :
          status'[j] = IF j = q THEN "pending" ELSE IF j \in old THEN "forgotten" ELSE status[j]
    BY <1>1 DEF Enqueue, enqueue, Swept
  <2>3. /\ DOMAIN queue = 1..Len(queue) /\ DOMAIN queue' = 1..(Len(queue) + 1)
        /\ \A i \in 1..Len(queue) : queue'[i] = queue[i]
        /\ queue'[Len(queue) + 1] = q
        /\ Len(queue) \in Nat
    BY <1>1 DEF Enqueue, enqueue
  <2>4. old' = {} /\ claimed' = claimed /\ run' = [run EXCEPT ![q] = "enqueued"]
    BY <1>1 DEF Enqueue, enqueue
  <2>5. JobInv'
    BY <2>1, <2>2, <2>4 DEF Ended
  <2>6. ASSUME NEW j \in Requests
        PROVE  (status'[j] = "pending") <=> \E i \in DOMAIN queue' : queue'[i] = j
    BY <2>1, <2>2, <2>3 DEF Ended
  <2>7. ASSUME NEW j \in Requests
        PROVE  (status'[j] = "running") <=> \E w \in Workers : claimed'[w] = j
    BY <2>1, <2>2, <2>4 DEF Ended
  <2>8. \A i, k \in DOMAIN queue' : queue'[i] = queue'[k] => i = k
    BY <2>1, <2>3
  <2>. QED  BY <2>4, <2>5, <2>6, <2>7, <2>8
<1>2. ASSUME NEW w \in Workers, claim_next(w)
      PROVE  JobInv' /\ JobsInOnePlace'
  <2>. DEFINE h == Head(queue)
  <2>1. /\ Len(queue) \in Nat /\ Len(queue) > 0
        /\ DOMAIN queue = 1..Len(queue) /\ DOMAIN queue' = 1..(Len(queue) - 1)
        /\ \A i \in 1..(Len(queue) - 1) : queue'[i] = queue[i + 1]
        /\ h = queue[1] /\ h \in Requests
    BY <1>2 DEF claim_next
  <2>2. /\ status' = [status EXCEPT ![h] = "running"]
        /\ claimed' = [claimed EXCEPT ![w] = h]
        /\ claimed[w] = None /\ old' = old /\ run' = run
    BY <1>2 DEF claim_next
  <2>3. status[h] = "pending"
    BY <2>1
  <2>4. ASSUME NEW i \in DOMAIN queue'
        PROVE  queue'[i] # h
    <3>1. i + 1 \in DOMAIN queue /\ 1 \in DOMAIN queue /\ i + 1 # 1  BY <2>1
    <3>2. queue[i + 1] # queue[1]  BY <3>1
    <3>. QED  BY <2>1, <3>2
  <2>5. \A v \in Workers : claimed[v] # h
    BY <2>1, <2>3
  <2>6. JobInv'
    BY <2>2, <2>3 DEF Ended
  <2>7. ASSUME NEW j \in Requests
        PROVE  (status'[j] = "pending") <=> \E i \in DOMAIN queue' : queue'[i] = j
    <3>1. CASE j = h  BY <2>1, <2>2, <2>4, <3>1
    <3>2. CASE j # h
      <4>1. status'[j] = status[j]  BY <2>2, <3>2
      <4>2. ASSUME NEW i \in DOMAIN queue, queue[i] = j
            PROVE  i - 1 \in DOMAIN queue' /\ queue'[i - 1] = j
        BY <2>1, <3>2, <4>2
      <4>3. ASSUME NEW i \in DOMAIN queue', queue'[i] = j
            PROVE  i + 1 \in DOMAIN queue /\ queue[i + 1] = j
        BY <2>1, <4>3
      <4>. QED  BY <4>1, <4>2, <4>3
    <3>. QED  BY <3>1, <3>2
  <2>8. ASSUME NEW j \in Requests
        PROVE  (status'[j] = "running") <=> \E v \in Workers : claimed'[v] = j
    BY <2>1, <2>2
  <2>9. ASSUME NEW i \in DOMAIN queue', NEW k \in DOMAIN queue', queue'[i] = queue'[k]
        PROVE  i = k
    <3>1. i + 1 \in DOMAIN queue /\ k + 1 \in DOMAIN queue /\ queue[i + 1] = queue[k + 1]
      BY <2>1, <2>9
    <3>2. i + 1 = k + 1  BY <3>1
    <3>. QED  BY <2>1, <3>2
  <2>10. \A u, v \in Workers : claimed'[u] = claimed'[v] /\ claimed'[u] # None => u = v
    BY <2>2, <2>5
  <2>. QED  BY <2>6, <2>7, <2>8, <2>9, <2>10
<1>3. ASSUME NEW w \in Workers, NEW outcome \in Ended, JobEnds(w, outcome)
      PROVE  JobInv' /\ JobsInOnePlace'
  <2>. DEFINE j == claimed[w]
  <2>1. j \in Requests /\ status[j] = "running"
    BY <1>3 DEF JobEnds
  <2>2. /\ status' = [status EXCEPT ![j] = outcome]
        /\ claimed' = [claimed EXCEPT ![w] = None]
        /\ queue' = queue /\ old' = old /\ run' = run
    BY <1>3 DEF JobEnds
  <2>. QED  BY <2>1, <2>2 DEF Ended
<1>4. ASSUME NEW q \in Requests, JobAges(q)
      PROVE  JobInv' /\ JobsInOnePlace'
  BY <1>4 DEF JobAges
<1>5. CASE ~(\E q \in Requests : Enqueue(q) \/ JobAges(q)) /\ ~(\E w \in Workers : Worker(w))
  <2>1. UNCHANGED jobVars /\ \A q \in Requests :
          run'[q] \in {"none", "running"} => run[q] \in {"none", "running"}
    BY <1>5, JobFrame
  <2>. QED  BY <2>1 DEF jobVars
<1>. QED  BY <1>1, <1>2, <1>3, <1>4, <1>5 DEF Worker
----------------------------------------------------------------------------
(* The types.                                                              *)

\* The initial values have their types.
LEMMA TypeInit == Init => TypeOK
<1>. SUFFICES ASSUME Init PROVE TypeOK  OBVIOUS
<1>1. queue \in Seq(Requests)  BY DEF Init
<1>2. elapsed \in 0..DrainTimeout /\ in_flight \in Nat  BY LimitsAssumption DEF Init
<1>3. status \in [Requests -> {"unknown", "pending", "running", "forgotten"} \cup Ended]
  BY DEF Init
<1>. QED  BY <1>1, <1>2, <1>3 DEF Init, TypeOK

\* What the main loop assigns has its type; it never touches a job.
LEMMA LoopTypes ==
    ASSUME IInv, MainLoop
    PROVE  /\ started' \in BOOLEAN
           /\ loop' \in {"check", "accept", "admit", "count", "undo", "left"}
           /\ hand' \in Requests \cup {None}
           /\ exited' \in {"no", "clean", "timeout"}
           /\ kind' \in [Requests -> Kinds \cup {"new"}]
           /\ run' \in [Requests -> {"none", "running", "enqueued", "returned", "panicked", "over"}]
           /\ reply' \in [Requests -> {"none", "draining", "saturated", "streaming", "done", "dropped"}]
           /\ UNCHANGED <<draining, elapsed, jobVars>>
<1>. USE DEF IInv, TypeOK, HandInv, DrainInv, Up
<1>1. CASE Check
  BY <1>1 DEF Check, Leave
<1>2. ASSUME NEW q \in Requests, NEW k \in Kinds, Accept(q, k)
      PROVE  hand' \in Requests \cup {None} /\ kind' \in [Requests -> Kinds \cup {"new"}]
  BY <1>2 DEF Accept
<1>3. CASE \E q \in Requests, k \in Kinds : Accept(q, k)
  BY <1>2, <1>3 DEF Accept
<1>4. CASE AcceptNothing
  BY <1>4 DEF AcceptNothing
<1>5. CASE Admit
  BY <1>5 DEF Admit, Refuse
<1>6. CASE Count
  BY <1>6 DEF Count
<1>7. CASE Undo
  BY <1>7 DEF Undo, Refuse
<1>. QED  BY <1>1, <1>3, <1>4, <1>5, <1>6, <1>7 DEF MainLoop

\* Every step keeps the types: in_flight is decremented only where CounterInv says that
\* it is positive.
LEMMA TypeStep ==
    ASSUME IInv, [Next]_vars
    PROVE  TypeOK'
<1>1. in_flight' \in Nat
  <2>1. IsFiniteSet(Held)'
    <3>1. (Held \subseteq Requests)'  BY DEF Held
    <3>. QED  BY <3>1, RequestsAssumption, FS_Subset
  <2>2. Cardinality(Held)' \in Nat  BY <2>1, FS_CardinalityType
  <2>. QED  BY <2>2, CounterStep DEF CounterInv
<1>2. CASE MainLoop
  <2>1. /\ started' \in BOOLEAN
        /\ loop' \in {"check", "accept", "admit", "count", "undo", "left"}
        /\ hand' \in Requests \cup {None}
        /\ exited' \in {"no", "clean", "timeout"}
        /\ kind' \in [Requests -> Kinds \cup {"new"}]
        /\ run' \in [Requests -> {"none", "running", "enqueued", "returned", "panicked", "over"}]
        /\ reply' \in [Requests -> {"none", "draining", "saturated", "streaming", "done", "dropped"}]
        /\ UNCHANGED <<draining, elapsed, jobVars>>
    BY <1>2, LoopTypes
  <2>. QED  BY <1>1, <2>1 DEF IInv, TypeOK, jobVars
<1>3. CASE Signal
  BY <1>1, <1>3 DEF Signal, IInv, TypeOK, jobVars
<1>4. CASE Tick
  <2>1. elapsed' \in 0..DrainTimeout
    BY <1>4, LimitsAssumption DEF Tick, IInv, TypeOK
  <2>. QED  BY <1>1, <1>4, <2>1 DEF Tick, IInv, TypeOK, jobVars
<1>5. ASSUME NEW q \in Requests, Handler(q)
      PROVE  TypeOK'
  <2>1. CASE Enqueue(q)
    <3>1. status' \in [Requests -> {"unknown", "pending", "running", "forgotten"} \cup Ended]
      BY <2>1 DEF IInv, TypeOK, Enqueue, enqueue
    <3>2. queue' \in Seq(Requests)
      BY <2>1 DEF IInv, TypeOK, Enqueue, enqueue
    <3>. QED  BY <1>1, <2>1, <3>1, <3>2 DEF IInv, TypeOK, Enqueue, enqueue, mainVars
  <2>2. CASE Respond(q) \/ Panic(q) \/ Release(q) \/ StreamEnds(q)
    BY <1>1, <2>2 DEF Respond, Panic, Release, StreamEnds, mainVars, jobVars, IInv, TypeOK
  <2>. QED  BY <1>5, <2>1, <2>2 DEF Handler
<1>6. ASSUME NEW q \in Requests, JobAges(q)
      PROVE  TypeOK'
  BY <1>1, <1>6 DEF JobAges, mainVars, IInv, TypeOK
<1>7. ASSUME NEW w \in Workers, claim_next(w)
      PROVE  TypeOK'
  <2>1. Head(queue) \in Requests /\ queue' \in Seq(Requests)
    BY <1>7 DEF claim_next, IInv, TypeOK
  <2>. QED  BY <1>1, <1>7, <2>1 DEF claim_next, mainVars, IInv, TypeOK
<1>8. ASSUME NEW w \in Workers, NEW outcome \in Ended, JobEnds(w, outcome)
      PROVE  TypeOK'
  BY <1>1, <1>8 DEF JobEnds, mainVars, IInv, TypeOK
<1>9. CASE UNCHANGED vars
  BY <1>9 DEF vars, IInv, TypeOK
<1>. QED
  BY <1>2, <1>3, <1>4, <1>5, <1>6, <1>7, <1>8, <1>9 DEF Next, Worker
----------------------------------------------------------------------------
(* The theorems.                                                           *)

\* IInv holds in every state of the process.
THEOREM Invariance == Spec => []IInv
<1>1. Init => IInv
  BY TypeInit, CounterInit, LoopInit, JobInit DEF IInv
<1>2. IInv /\ [Next]_vars => IInv'
  BY TypeStep, CounterStep, HandStep, DrainStep, JobStep DEF IInv
<1>. QED  BY <1>1, <1>2, PTL DEF Spec

\* Every variable keeps its type; in particular in_flight, which the code keeps in
\* an unsigned word, never goes below zero.
THEOREM TypeCorrect == Spec => []TypeOK
<1>1. IInv => TypeOK  BY DEF IInv
<1>. QED  BY <1>1, Invariance, PTL

\* in_flight is the number of counted requests in the hands of a thread, a panicked
\* one included, and the one about to be refused.
THEOREM CounterCorrect == Spec => []InFlightAccounted
<1>1. IInv => InFlightAccounted
  <2>. SUFFICES ASSUME IInv PROVE InFlightAccounted  OBVIOUS
  <2>1. Held = {q \in Requests : Busy(q) \/ (run[q] = "panicked" /\ Counted(q))}
    BY DEF Held, Busy
  <2>. QED  BY <2>1 DEF IInv, CounterInv, InFlightAccounted
<1>. QED  BY <1>1, Invariance, PTL

\* A process that says its drain was complete cut no request it had admitted.
THEOREM CleanExit == Spec => []CleanExitCutsNothing
<1>1. IInv => CleanExitCutsNothing
  <2>. SUFFICES ASSUME IInv, exited = "clean", NEW q \in Requests, Busy(q) PROVE FALSE
    BY DEF CleanExitCutsNothing
  <2>1. Cardinality(Held) = 0
    BY HeldFinite DEF IInv, DrainInv, CounterInv
  <2>2. q \notin Held
    BY <2>1, HeldFinite, FS_EmptySet
  <2>. QED  BY <2>2 DEF Held, Busy
<1>. QED  BY <1>1, Invariance, PTL

\* While it drains the process starts no thread but for the probes.
THEOREM DrainAdmitsProbesOnly == Spec => WorkOnlyShrinks
<1>. DEFINE Shrinks == started => \A q \in Requests :
                          run[q] = "none" /\ run'[q] = "running" => kind[q] \in Exempt
<1>1. IInv /\ [Next]_vars => [Shrinks]_vars
  <2>. SUFFICES ASSUME IInv, Next, started, NEW q \in Requests,
                       run[q] = "none", run'[q] = "running"
                PROVE  kind[q] \in Exempt
    OBVIOUS
  <2>. USE DEF IInv, TypeOK, HandInv, DrainInv
  <2>1. CASE MainLoop
    BY <2>1 DEF MainLoop, Check, Leave, AcceptNothing, Admit, Refuse, Count, Undo, Accept
  <2>2. CASE Signal \/ Tick
    BY <2>2 DEF Signal, Tick
  <2>3. ASSUME NEW p \in Requests, Handler(p) \/ JobAges(p)
        PROVE  FALSE
    BY <2>3 DEF Handler, Respond, Panic, Release, StreamEnds, Enqueue, JobAges
  <2>4. ASSUME NEW w \in Workers, Worker(w)
        PROVE  FALSE
    BY <2>4 DEF Worker, claim_next, JobEnds
  <2>. QED  BY <2>1, <2>2, <2>3, <2>4 DEF Next
<1>. QED  BY <1>1, Invariance, PTL DEF Spec, WorkOnlyShrinks

\* A job is queued once or run by one worker, never both and never neither.
THEOREM JobsStayInOnePlace == Spec => []JobsInOnePlace
<1>1. IInv => JobsInOnePlace  BY DEF IInv
<1>. QED  BY <1>1, Invariance, PTL

\* Every step of the process is a step of what `@background` promises of its jobs,
\* or none of their business; in particular no job runs twice and no outcome changes.
THEOREM PromiseKept == Spec => JobsKeepPromise
<1>. DEFINE shown == [j \in Requests |-> IF Up THEN status[j] ELSE "gone"]
<1>1. Init => Promise!Init
  BY DEF Init, Promise!Init, Up
<1>2. IInv /\ [Next]_vars => [Promise!Next]_shown
  <2>. SUFFICES ASSUME IInv, [Next]_vars PROVE [Promise!Next]_shown  OBVIOUS
  <2>. USE DEF IInv, TypeOK
  <2>1. ASSUME exited' = exited, status' = status
        PROVE  UNCHANGED shown
    BY <2>1 DEF Up
  <2>2. ASSUME Up, ~Up'
        PROVE  [Promise!Next]_shown
    <3>1. shown' = [j \in Requests |-> "gone"]  BY <2>2
    <3>2. CASE \E j \in Requests : shown[j] # "gone"
      BY <3>1, <3>2 DEF Promise!Next, Promise!ProcessExits
    <3>3. CASE ~ \E j \in Requests : shown[j] # "gone"
      BY <3>1, <3>3
    <3>. QED  BY <3>2, <3>3
  <2>3. ASSUME Up, Up', NEW q \in Requests, Enqueue(q)
        PROVE  Promise!Accept(q)
    <3>. DEFINE dropped == old \ {q}
    <3>1. status[q] = "unknown"
      BY <2>3 DEF Enqueue, JobInv
    <3>2. old \subseteq {j \in Requests : status[j] \in Ended}
      BY DEF JobInv
    <3>3. \A j \in Requests :
            status'[j] = IF j = q THEN "pending" ELSE IF j \in old THEN "forgotten" ELSE status[j]
      BY <2>3 DEF Enqueue, enqueue, Swept
    <3>4. shown' = [j \in Requests |-> IF j = q THEN "pending"
                                       ELSE IF j \in old THEN "forgotten" ELSE shown[j]]
      BY <2>3, <3>3
    <3>5. old \in SUBSET {j \in Requests : shown[j] \in Promise!Ended}
      BY <2>3, <3>2 DEF Promise!Ended, Ended
    <3>6. shown[q] = "unknown"
      BY <2>3, <3>1
    <3>. QED  BY <3>4, <3>5, <3>6 DEF Promise!Accept
  <2>4. ASSUME Up, Up', NEW w \in Workers, claim_next(w)
        PROVE  \E j \in Requests : Promise!Start(j)
    <3>. DEFINE h == Head(queue)
    <3>1. h \in Requests /\ status[h] = "pending"
      <4>1. 1 \in DOMAIN queue /\ h = queue[1] /\ h \in Requests  BY <2>4 DEF claim_next
      <4>. QED  BY <4>1 DEF JobsInOnePlace
    <3>2. status' = [status EXCEPT ![h] = "running"]
      BY <2>4 DEF claim_next
    <3>3. shown[h] = "pending" /\ shown' = [shown EXCEPT ![h] = "running"]
      BY <2>4, <3>1, <3>2
    <3>. QED  BY <3>1, <3>3 DEF Promise!Start, Promise!Move
  <2>5. ASSUME Up, Up', NEW w \in Workers, NEW outcome \in Ended, JobEnds(w, outcome)
        PROVE  \E j \in Requests : Promise!End(j)
    <3>. DEFINE j == claimed[w]
    <3>1. j \in Requests /\ status[j] = "running"
      BY <2>5 DEF JobEnds, JobsInOnePlace
    <3>2. status' = [status EXCEPT ![j] = outcome]
      BY <2>5 DEF JobEnds
    <3>3. shown[j] = "running" /\ shown' = [shown EXCEPT ![j] = outcome]
      BY <2>5, <3>1, <3>2
    <3>. QED  BY <3>1, <3>3 DEF Promise!End, Promise!Move, Promise!Ended, Ended
  <2>6. CASE MainLoop
    <3>1. CASE exited' = exited
      <4>1. status' = status
        BY <2>6 DEF MainLoop, Check, Leave, AcceptNothing, Admit, Refuse, Count, Undo, Accept, jobVars
      <4>. QED  BY <3>1, <4>1, <2>1
    <3>2. CASE exited' # exited
      <4>1. Up /\ ~Up'
        BY <2>6, <3>2
           DEF MainLoop, Check, Leave, AcceptNothing, Admit, Refuse, Count, Undo, Accept, Up
      <4>. QED  BY <4>1, <2>2
    <3>. QED  BY <3>1, <3>2
  <2>7. CASE Signal \/ Tick \/ UNCHANGED vars
    BY <2>1, <2>7 DEF Signal, Tick, vars, jobVars
  <2>8. ASSUME NEW q \in Requests, Respond(q) \/ Panic(q) \/ Release(q) \/ StreamEnds(q) \/ JobAges(q)
        PROVE  UNCHANGED shown
    BY <2>1, <2>8 DEF Respond, Panic, Release, StreamEnds, JobAges, mainVars, jobVars
  <2>9. ASSUME NEW q \in Requests, Enqueue(q)
        PROVE  Promise!Next
    <3>1. Up /\ Up'  BY <2>9 DEF Enqueue, mainVars, Up
    <3>. QED  BY <2>3, <2>9, <3>1 DEF Promise!Next
  <2>10. ASSUME NEW w \in Workers, Worker(w)
         PROVE  Promise!Next
    <3>1. Up /\ Up'  BY <2>10 DEF Worker, claim_next, JobEnds, mainVars, Up
    <3>. QED  BY <2>4, <2>5, <2>10, <3>1 DEF Promise!Next, Worker
  <2>. QED  BY <2>6, <2>7, <2>8, <2>9, <2>10 DEF Next, Handler
<1>. QED  BY <1>1, <1>2, Invariance, PTL DEF Spec, JobsKeepPromise, Promise!Spec
=============================================================================
