----------------------------- MODULE RateLimit -----------------------------
(***************************************************************************)
(* @rate_limit: the bucket of one client and rpc, as the in-memory limiter  *)
(* of each instance (compiler/src/rate_limit.rs) and as the row all         *)
(* instances share (runtime/db.rs), over a sequence of requests.            *)
(*                                                                          *)
(* Tokens are counted in 1/window parts, so that one unit of time refills   *)
(* count of them and a request costs window.  The question has the spec and *)
(* how far the clock of each instance is ahead; the answer has the buckets  *)
(* and the log of the requests, in the order in which they reached theirs:  *)
(*   at     the time of that,                                               *)
(*   on     the instance,                                                   *)
(*   up     whether the shared row can be written,                          *)
(*   late   how long before at the row's clock was read: now_ms is taken    *)
(*          before the statement waits for its connection and the row,      *)
(*   sweep  whether this check is the one that sweeps.                      *)
(***************************************************************************)
EXTENDS Questions, Integers, Sequences, FiniteSets

CONSTANTS
    Instances,   \* servers behind one balancer
    MaxIdle,     \* SWEEP_MAX_IDLE
    MaxLate      \* the longest wait between now_ms and the row

ASSUME RateAssumption ==
    /\ MaxIdle \in Nat /\ MaxLate \in Nat
    /\ None \notin [tokens : Nat, seen : Int]

Specs    == [count : Nat \ {0}, window : Nat \ {0}]
Requests == [at : Nat, on : Instances, up : BOOLEAN, late : 0..MaxLate, sweep : BOOLEAN]

SmallerOf(a, b) == IF a < b THEN a ELSE b
LargerOf(a, b)  == IF a < b THEN b ELSE a

Refilled(b, spec, now) ==
    SmallerOf(b.tokens + LargerOf(0, now - b.seen) * spec.count, spec.count * spec.window)

\* Mutant: the refill is not capped at the capacity.
CheckUncapped(b, spec, now, sweep) ==
    LET full == IF b = None THEN spec.count * spec.window
                ELSE b.tokens + LargerOf(0, now - b.seen) * spec.count
        ok   == full >= spec.window
    IN [ok |-> ok, bucket |-> [tokens |-> IF ok THEN full - spec.window ELSE full, seen |-> now]]

(* RateLimiter::check: the answer and the bucket it leaves.  A bucket that  *)
(* another check swept is one that this check would have swept.             *)
check(b, spec, now, sweep) ==
    LET gone == b = None \/ (sweep /\ b.seen < now - MaxIdle)
        full == IF gone THEN spec.count * spec.window ELSE Refilled(b, spec, now)
        ok   == full >= spec.window
    IN [ok |-> ok, bucket |-> [tokens |-> IF ok THEN full - spec.window ELSE full, seen |-> now]]

(* check_rate_limit_distributed: the row is written only when it admits.   *)
check_rate_limit_distributed(b, spec, now) ==
    LET full == IF b = None THEN spec.count * spec.window ELSE Refilled(b, spec, now)
        ok   == full >= spec.window
    IN [ok |-> ok, bucket |-> IF ok THEN [tokens |-> full - spec.window, seen |-> now] ELSE b]

Fresh == [row |-> None, own |-> [i \in Instances |-> None], log |-> <<>>, through |-> {}]

\* What the bucket of a request takes for the time.  Own buckets are locked when they read it.
Clock(q, r) == r.at + q.skew[r.on] - (IF r.up THEN r.late ELSE 0)

(* The gate of handle_request: the shared row, or the instance's own bucket *)
(* when the row cannot be written.  through has the requests let through.   *)
Gate(q, s, r) ==
    LET c == IF r.up THEN check_rate_limit_distributed(s.row, q.spec, Clock(q, r))
             ELSE check(s.own[r.on], q.spec, Clock(q, r), r.sweep)
    IN [row |-> IF r.up THEN c.bucket ELSE s.row,
        own |-> IF r.up THEN s.own ELSE [s.own EXCEPT ![r.on] = c.bucket],
        log |-> Append(s.log, r),
        through |-> s.through \cup (IF c.ok THEN {Len(s.log) + 1} ELSE {})]

Served == IF answer = None THEN Fresh ELSE answer
Log == Served.log

Request(r) ==
    /\ Asked("rate")
    /\ \A n \in DOMAIN Log : Log[n].at <= r.at
    /\ answer' = Gate(question, Served, r)
    /\ UNCHANGED question

AskRate ==
    /\ Asked("rate") /\ answer = None
    /\ question.spec \in Specs
    /\ question.ahead \in Nat /\ question.skew \in [Instances -> 0..question.ahead]

RateSpec == AskRate /\ [][\E r \in Requests : Request(r)]_<<question, answer>>
----------------------------------------------------------------------------
\* The requests one bucket answers: the shared row, or the own bucket of instance i.
OfRow    == {n \in DOMAIN Log : Log[n].up}
OfOwn(i) == {n \in DOMAIN Log : ~Log[n].up /\ Log[n].on = i}

\* Those of a bucket that it let through, from the i-th request to the j-th.
Through(bucket, i, j) == {n \in bucket \cap Served.through : i <= n /\ n <= j}

\* Those of them whose clock is ahead of more than the clock of the one before.
Lead(n) == Clock(question, Log[n]) - Log[n].at
Handovers(some) ==
    {n \in some : \E k \in some : k < n /\ Lead(k) < Lead(n) /\ \A m \in some : m <= k \/ n <= m}

\* How far apart two clocks can be when a bucket takes the time from them.
Spread == question.ahead + MaxLate

\* In no span does a bucket let through more than its capacity and what the span refills.
Bounded(bucket) ==
    \A i, j \in bucket \cap Served.through :
        LET through == Through(bucket, i, j)
            span == Log[j].at - Log[i].at + Cardinality(Handovers(through)) * Spread
        IN i <= j => Cardinality(through) * question.spec.window
                        <= question.spec.count * question.spec.window + span * question.spec.count

\* A request that comes a whole window after the last one is let through.
IdleServed(bucket, slack) ==
    \A n \in bucket :
        (\A k \in bucket : k < n => Log[n].at - Log[k].at >= question.spec.window + slack)
            => n \in Served.through

\* A bucket that is forgotten sooner than its window refills it.
Forgotten(bucket) == question.spec.window > MaxIdle /\ \E n \in bucket : Log[n].sweep

(* A client gets no more calls through than the limit says in any span of   *)
(* time, and gets one through after a quiet window: the row the instances   *)
(* share, and each instance while it cannot be written.  A request whose    *)
(* clock is ahead gives the row its advance as refill whenever it takes     *)
(* over from one whose clock is not, or whose now_ms was read long before   *)
(* the row; and a bucket is forgotten after MaxIdle, so a longer window is  *)
(* not bounded once the sweep runs.                                         *)
LimitHonoured ==
    Answered("rate") =>
        /\ Bounded(OfRow) /\ IdleServed(OfRow, Spread)
        /\ \A i \in Instances :
              IdleServed(OfOwn(i), 0) /\ (Bounded(OfOwn(i)) \/ Forgotten(OfOwn(i)))
=============================================================================
