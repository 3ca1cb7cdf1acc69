-------------------------- MODULE ServerLifecycle --------------------------
(***************************************************************************)
(* The life of one `linkc serve` process (runtime/server.rs): the main     *)
(* loop that admits requests, the thread of each request, the workers of   *)
(* `@background` (runtime/background.rs), and the graceful drain after     *)
(* SIGTERM, up to the exit that ends every other thread.                   *)
(*                                                                         *)
(* A request is abstracted to its kind.  A background request enqueues one *)
(* job, so the job bears the name of the request.                          *)
(***************************************************************************)
EXTENDS Integers, Sequences, FiniteSets

CONSTANTS
    Requests,        \* requests, and the jobs they enqueue
    Workers,         \* BACKGROUND_WORKERS
    None,            \* no request, no job
    MaxConcurrency,  \* --max-concurrency, 0 without the flag
    DrainTimeout     \* --drain-timeout

ASSUME NoneAssumption == None \notin Requests
ASSUME RequestsAssumption == IsFiniteSet(Requests)
ASSUME LimitsAssumption == MaxConcurrency \in Nat /\ DrainTimeout \in Nat

VARIABLES
    \* main loop
    draining,   \* the flag the signal handler sets
    started,    \* is drain_started Some?
    elapsed,    \* time since then
    in_flight,  \* requests in flight
    loop,       \* the next step of the loop
    hand,       \* the request spawn_handler! is about
    exited,     \* "no", or why the loop was left: "clean" or "timeout"
    \* request threads
    kind,       \* what each request asks for, "new" before it arrives
    run,        \* where its thread is
    reply,      \* what the client got
    \* background jobs
    status,     \* BackgroundJobStore::jobs
    queue,      \* BackgroundJobStore::queue
    old,        \* ended jobs whose record is past ENTRY_TTL
    claimed     \* the job a worker is running

mainVars == <<draining, started, elapsed, loop, hand, exited>>
jobVars  == <<status, queue, old, claimed>>
vars == <<draining, started, elapsed, in_flight, loop, hand, exited,
          kind, run, reply, status, queue, old, claimed>>

Kinds   == {"live", "probe", "rpc", "stream", "background"}
Exempt  == {"live", "probe"}   \* still served while draining
Ended   == {"done", "failed"}
Counted(q) == kind[q] # "live"
Up == exited = "no"

Init ==
    /\ draining = FALSE
    /\ started = FALSE
    /\ elapsed = 0
    /\ in_flight = 0
    /\ loop = "check"
    /\ hand = None
    /\ exited = "no"
    /\ kind = [q \in Requests |-> "new"]
    /\ run = [q \in Requests |-> "none"]
    /\ reply = [q \in Requests |-> "none"]
    /\ status = [j \in Requests |-> "unknown"]
    /\ queue = <<>>
    /\ old = {}
    /\ claimed = [w \in Workers |-> None]
----------------------------------------------------------------------------
(* The main loop: check the drain, wait for a request, admit it.           *)

Leave(why) ==
    /\ exited' = why
    /\ loop' = "left"
    /\ UNCHANGED <<draining, elapsed, hand, in_flight, kind, run, reply, jobVars>>

\* Mutant: the loop is left as soon as it sees the signal.
CheckLeavesAtOnce ==
    /\ Up /\ loop = "check"
    /\ started' = draining
    /\ IF draining
       THEN Leave("clean")
       ELSE /\ loop' = "accept"
            /\ UNCHANGED <<draining, elapsed, hand, exited, in_flight, kind, run, reply, jobVars>>

\* Mutant: the drain waits for the requests in flight, however long it takes.
CheckWithoutTimeout ==
    /\ Up /\ loop = "check"
    /\ started' = draining
    /\ IF draining /\ in_flight = 0
       THEN Leave("clean")
       ELSE /\ loop' = "accept"
            /\ UNCHANGED <<draining, elapsed, hand, exited, in_flight, kind, run, reply, jobVars>>

Check ==
    /\ Up /\ loop = "check"
    /\ started' = draining
    /\ IF draining /\ in_flight = 0 THEN Leave("clean")
       ELSE IF draining /\ elapsed >= DrainTimeout THEN Leave("timeout")
       ELSE /\ loop' = "accept"
            /\ UNCHANGED <<draining, elapsed, hand, exited, in_flight, kind, run, reply, jobVars>>

Accept(q, k) ==
    /\ Up /\ loop = "accept" /\ kind[q] = "new"
    /\ kind' = [kind EXCEPT ![q] = k]
    /\ hand' = q
    /\ loop' = "admit"
    /\ UNCHANGED <<draining, started, elapsed, exited, in_flight, run, reply, jobVars>>

\* recv_timeout brings nothing, or an error.
AcceptNothing ==
    /\ Up /\ loop = "accept"
    /\ loop' = "check"
    /\ UNCHANGED <<draining, started, elapsed, hand, exited, in_flight, kind, run, reply, jobVars>>

\* The request in hand is answered 503 without a thread.
Refuse(why) ==
    /\ reply' = [reply EXCEPT ![hand] = why]
    /\ hand' = None
    /\ loop' = "check"
    /\ UNCHANGED <<draining, started, elapsed, exited, kind, run, jobVars>>

\* Mutant: new work is admitted while the process drains.
AdmitAlways ==
    /\ Up /\ loop = "admit"
    /\ loop' = "count"
    /\ UNCHANGED <<draining, started, elapsed, hand, exited, in_flight, kind, run, reply, jobVars>>

Admit ==
    /\ Up /\ loop = "admit"
    /\ IF draining /\ kind[hand] \notin Exempt
       THEN Refuse("draining") /\ UNCHANGED in_flight
       ELSE /\ loop' = "count"
            /\ UNCHANGED <<draining, started, elapsed, hand, exited, in_flight, kind, run,
                           reply, jobVars>>

\* fetch_add, compare with the limit, spawn the thread.
Count ==
    LET full == MaxConcurrency > 0 /\ in_flight >= MaxConcurrency IN
    /\ Up /\ loop = "count"
    /\ in_flight' = IF Counted(hand) THEN in_flight + 1 ELSE in_flight
    /\ IF Counted(hand) /\ full
       THEN loop' = "undo" /\ UNCHANGED <<hand, run>>
       ELSE /\ run' = [run EXCEPT ![hand] = "running"]
            /\ hand' = None
            /\ loop' = "check"
    /\ UNCHANGED <<draining, started, elapsed, exited, kind, reply, jobVars>>

Undo ==
    /\ Up /\ loop = "undo"
    /\ in_flight' = in_flight - 1
    /\ Refuse("saturated")

Signal ==
    /\ Up /\ ~draining
    /\ draining' = TRUE
    /\ UNCHANGED <<started, elapsed, in_flight, loop, hand, exited, kind, run, reply, jobVars>>

Tick ==
    /\ Up /\ started /\ elapsed < DrainTimeout
    /\ elapsed' = elapsed + 1
    /\ UNCHANGED <<draining, started, in_flight, loop, hand, exited, kind, run, reply, jobVars>>
----------------------------------------------------------------------------
(* The thread of a request: handle_request, then give the slot back.       *)

Respond(q) ==
    /\ Up
    /\ run[q] = (IF kind[q] = "background" THEN "enqueued" ELSE "running")
    /\ run' = [run EXCEPT ![q] = "returned"]
    /\ reply' = [reply EXCEPT ![q] = IF kind[q] = "stream" THEN "streaming" ELSE "done"]
    /\ UNCHANGED <<mainVars, in_flight, kind, jobVars>>

\* A panic ends the thread: nobody catches it and nobody gives the slot back.
Panic(q) ==
    /\ Up /\ run[q] = "running" /\ kind[q] \in {"rpc", "stream"}
    /\ run' = [run EXCEPT ![q] = "panicked"]
    /\ reply' = [reply EXCEPT ![q] = "dropped"]
    /\ UNCHANGED <<mainVars, in_flight, kind, jobVars>>

\* Mutant: the slot is given back whether or not the request was counted.
ReleaseAlways(q) ==
    /\ Up /\ run[q] = "returned"
    /\ run' = [run EXCEPT ![q] = "over"]
    /\ in_flight' = in_flight - 1
    /\ UNCHANGED <<mainVars, kind, reply, jobVars>>

Release(q) ==
    /\ Up /\ run[q] = "returned"
    /\ run' = [run EXCEPT ![q] = "over"]
    /\ in_flight' = IF Counted(q) THEN in_flight - 1 ELSE in_flight
    /\ UNCHANGED <<mainVars, kind, reply, jobVars>>

\* The writer thread of a stream outlives the request that opened it.
StreamEnds(q) ==
    /\ Up /\ reply[q] = "streaming"
    /\ reply' = [reply EXCEPT ![q] = "done"]
    /\ UNCHANGED <<mainVars, in_flight, kind, run, jobVars>>
----------------------------------------------------------------------------
(* Background jobs.                                                        *)

\* Mutant: the sweep looks at the age of a job and not at whether it ended.
SweepAnyAge(j) == status[j] # "unknown"

Swept(j) == j \in old

enqueue(q) ==
    /\ status' = [j \in Requests |-> IF j = q THEN "pending"
                                     ELSE IF Swept(j) THEN "forgotten" ELSE status[j]]
    /\ queue' = Append(queue, q)
    /\ old' = {}
    /\ UNCHANGED claimed

Enqueue(q) ==
    /\ Up /\ run[q] = "running" /\ kind[q] = "background"
    /\ enqueue(q)
    /\ run' = [run EXCEPT ![q] = "enqueued"]
    /\ UNCHANGED <<mainVars, in_flight, kind, reply>>

\* Mutant: a worker looks at the head of the queue and leaves it there.
ClaimWithoutPop(w) ==
    /\ Up /\ claimed[w] = None /\ queue # <<>>
    /\ claimed' = [claimed EXCEPT ![w] = Head(queue)]
    /\ status' = [status EXCEPT ![Head(queue)] = "running"]
    /\ UNCHANGED <<mainVars, in_flight, kind, run, reply, queue, old>>

claim_next(w) ==
    /\ Up /\ claimed[w] = None /\ queue # <<>>
    /\ claimed' = [claimed EXCEPT ![w] = Head(queue)]
    /\ status' = [status EXCEPT ![Head(queue)] = "running"]
    /\ queue' = Tail(queue)
    /\ UNCHANGED <<mainVars, in_flight, kind, run, reply, old>>

\* Mutant: the panic of a body is caught and the job is not failed.
JobEndsUnrecorded(w, outcome) ==
    /\ Up /\ claimed[w] # None
    /\ status' = IF outcome = "failed" THEN status ELSE [status EXCEPT ![claimed[w]] = outcome]
    /\ claimed' = [claimed EXCEPT ![w] = None]
    /\ UNCHANGED <<mainVars, in_flight, kind, run, reply, queue, old>>

\* The body returns; an error, a panic or corrupt arguments fail the job.
JobEnds(w, outcome) ==
    /\ Up /\ claimed[w] # None
    /\ status' = [status EXCEPT ![claimed[w]] = outcome]
    /\ claimed' = [claimed EXCEPT ![w] = None]
    /\ UNCHANGED <<mainVars, in_flight, kind, run, reply, queue, old>>

\* A day goes by since a job ended.
JobAges(j) ==
    /\ Up /\ status[j] \in Ended /\ j \notin old
    /\ old' = old \cup {j}
    /\ UNCHANGED <<mainVars, in_flight, kind, run, reply, status, queue, claimed>>
----------------------------------------------------------------------------
MainLoop ==
    \/ Check \/ AcceptNothing \/ Admit \/ Count \/ Undo
    \/ \E q \in Requests, k \in Kinds : Accept(q, k)

Handler(q) == Respond(q) \/ Panic(q) \/ Release(q) \/ StreamEnds(q) \/ Enqueue(q)

Worker(w) == claim_next(w) \/ \E outcome \in Ended : JobEnds(w, outcome)

Next ==
    \/ MainLoop \/ Signal \/ Tick
    \/ \E q \in Requests : Handler(q) \/ JobAges(q)
    \/ \E w \in Workers : Worker(w)

Spec == Init /\ [][Next]_vars

(* The loop and the clock go on; a worker claims what it finds, and the    *)
(* body of a job ends (it spends a step budget and its calls time out).    *)
(* A handler need not end.                                                 *)
FairSpec ==
    /\ Spec
    /\ WF_vars(MainLoop) /\ WF_vars(Tick)
    /\ \A w \in Workers : WF_vars(Worker(w))
----------------------------------------------------------------------------
(* Properties.                                                             *)

Busy(q) == Counted(q) /\ run[q] \in {"running", "enqueued", "returned"}

TypeOK ==
    /\ draining \in BOOLEAN /\ started \in BOOLEAN
    /\ elapsed \in 0..DrainTimeout
    /\ in_flight \in Nat
    /\ loop \in {"check", "accept", "admit", "count", "undo", "left"}
    /\ hand \in Requests \cup {None}
    /\ exited \in {"no", "clean", "timeout"}
    /\ kind \in [Requests -> Kinds \cup {"new"}]
    /\ run \in [Requests -> {"none", "running", "enqueued", "returned", "panicked", "over"}]
    /\ reply \in [Requests -> {"none", "draining", "saturated", "streaming", "done", "dropped"}]
    /\ status \in [Requests -> {"unknown", "pending", "running", "forgotten"} \cup Ended]
    /\ queue \in Seq(Requests)
    /\ old \in SUBSET Requests
    /\ claimed \in [Workers -> Requests \cup {None}]

\* in_flight is what it is read for: the counted requests that are being served,
\* those whose thread panicked, and the one that is about to be refused.  The
\* decrement without an increment that GRAMMAR.md 3.282 tells of breaks this.
InFlightAccounted ==
    in_flight = Cardinality({q \in Requests : Busy(q) \/ (run[q] = "panicked" /\ Counted(q))})
                + (IF loop = "undo" THEN 1 ELSE 0)

\* "drenado completo": every request admitted before the exit was served to its
\* end, its slot included; only /live, streams and jobs are cut.
CleanExitCutsNothing == exited = "clean" => \A q \in Requests : ~Busy(q)

\* Once the loop has noticed the signal the work it waits for only shrinks: nothing
\* but liveness and readiness probes starts any more.
WorkOnlyShrinks ==
    [][started => \A q \in Requests :
          run[q] = "none" /\ run'[q] = "running" => kind[q] \in Exempt]_vars

\* The queue holds exactly the pending jobs, each once, and a job is running
\* exactly while one worker has it.
JobsInOnePlace ==
    /\ \A j \in Requests :
        /\ (status[j] = "pending") <=> (\E i \in DOMAIN queue : queue[i] = j)
        /\ (status[j] = "running") <=> (\E w \in Workers : claimed[w] = j)
    /\ \A i, k \in DOMAIN queue : queue[i] = queue[k] => i = k
    /\ \A v, w \in Workers : claimed[v] = claimed[w] /\ claimed[v] # None => v = w

Promise == INSTANCE JobPromise WITH
    Jobs <- Requests,
    job  <- [j \in Requests |-> IF Up THEN status[j] ELSE "gone"]

\* The store, its workers and the exit implement what `@background` promises.
JobsKeepPromise == Promise!Spec

\* After the signal the process exits, whatever its handlers, streams and jobs do.
DrainEnds == draining ~> ~Up

\* An accepted job ends, done or failed, unless the process exits first.
JobsEnd == \A j \in Requests : (status[j] = "pending") ~> (status[j] \in Ended \/ ~Up)
=============================================================================
