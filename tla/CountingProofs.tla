--------------------------- MODULE CountingProofs ---------------------------
(***************************************************************************)
(* Theorems about what the runtime counts and computes: the failed logins   *)
(* and the rate limiter, for any sequence of calls and requests, any        *)
(* windows and any clocks; the operations on numbers, for every width,      *)
(* every scale and all operands.                                            *)
(***************************************************************************)
EXTENDS FailedLogins, RateLimit, Numbers, FiniteSetTheorems, SequenceTheorems, WellFoundedInduction, TLAPS

\* A set of naturals that is not empty has a least element.
LEMMA Least ==
    ASSUME NEW S \in SUBSET Nat, S # {}
    PROVE \E x \in S : \A y \in S : x <= y
<1>. DEFINE Less == {s \in Nat \X Nat : s[1] < s[2]}
<1>1. IsWellFoundedOn(Less, Nat)  BY NatLessThanWellFounded, Zenon DEF OpToRel
<1>2. \A x, y \in Nat : <<y, x>> \in Less <=> y < x  OBVIOUS
<1>. HIDE DEF Less
<1>3. \E x \in S : \A y \in S : <<y, x>> \notin Less  BY <1>1, WFMin, Zenon
<1>4. \E x \in S : \A y \in S : ~(y < x)  BY <1>2, <1>3, S \subseteq Nat, Zenon
<1>. QED  BY <1>4

LEMMA CountTo ==
    ASSUME NEW n \in Nat
    PROVE IsFiniteSet(1..n) /\ Cardinality(1..n) = n
BY FS_Interval
-----------------------------------------------------------------------------
(* Failed logins                                                            *)

\* The attempts that no reset came after.
Pending(log) == {k \in DOMAIN log : log[k].op = "record" /\ \A r \in k..Len(log) : log[r].op # "reset"}

Back(log, k) == log[k].at - log[k].window

\* An attempt reads the clock after all that had the mutex before it.
Sorted(log) == \A k, n \in DOMAIN log : k < n /\ log[n].op = "record" => log[k].at <= log[n].at

\* The i-th instant of the queue is that of the call of[i]; an attempt without one was
\* older than the window of a later count.
Queued(times, log, of) ==
    /\ of \in [DOMAIN times -> Pending(log)]
    /\ \A i, j \in DOMAIN times : i < j => of[i] < of[j]
    /\ \A i \in DOMAIN times : times[i] = log[of[i]].at
    /\ \A k \in Pending(log) :
          \/ \E i \in DOMAIN times : of[i] = k
          \/ \E c \in k..Len(log) : log[c].op = "count" /\ log[k].at < Back(log, c)

\* FailureCountExact of an answer.
CountExact(count, log) ==
    LET n == Len(log)
        failures == {k \in Pending(log) : log[k].at >= Back(log, n)}
        further  == {k \in 1..n : /\ \A r \in k..n : log[r].op # "reset"
                                  /\ log[k].op = "count" /\ Back(log, k) > Back(log, n)}
    IN n > 0 /\ log[n].op = "count" =>
          /\ count <= Cardinality(failures)
          /\ further = {} => count = Cardinality(failures)

LoginInv(times, count, log) ==
    /\ times \in Seq(Nat) /\ log \in Seq(LoginCalls)
    /\ Sorted(log)
    /\ \E of : Queued(times, log, of)
    /\ CountExact(count, log)

\* The queue is in the order of the clock.
LEMMA QueueSorted ==
    ASSUME NEW times \in Seq(Nat), NEW log \in Seq(LoginCalls), Sorted(log), NEW of, Queued(times, log, of)
    PROVE \A i, j \in DOMAIN times : i < j => times[i] <= times[j]
BY DEF Sorted, Queued, Pending

\* What pruning keeps is the end of the queue from the first instant inside the window.
LEMMA PrunedProperties ==
    ASSUME NEW times \in Seq(Nat), \A i, j \in DOMAIN times : i < j => times[i] <= times[j], NEW c \in LoginCalls
    PROVE \E p \in 1..Len(times) + 1 :
             /\ Pruned(times, c) = SubSeq(times, p, Len(times))
             /\ \A i \in DOMAIN times : i >= p <=> c.at - times[i] <= c.window
<1>. DEFINE inside == {i \in DOMAIN times : c.at - times[i] <= c.window}
            gone == {i \in DOMAIN times : \A k \in inside : i < k}
<1>1. DOMAIN times = 1..Len(times) /\ Len(times) \in Nat  OBVIOUS
<1>. DEFINE from(n) == SubSeq(times, n + 1, Len(times))
<1>4. Pruned(times, c) = from(Cardinality(gone))  BY Zenon DEF Pruned
<1>2. CASE inside = {}
  <2>1. gone = 1..Len(times)  BY <1>1, <1>2
  <2>2. Cardinality(gone) = Len(times)
    <3>1. Cardinality(1..Len(times)) = Len(times)  BY <1>1, FS_Interval
    <3>. HIDE DEF gone
    <3>. QED  BY <2>1, <3>1
  <2>3. Pruned(times, c) = from(Len(times))  BY <1>4, <2>2, Zenon
  <2>4. \A i \in DOMAIN times : ~(i >= Len(times) + 1) /\ ~(c.at - times[i] <= c.window)  BY <1>1, <1>2
  <2>. QED  BY <1>1, <2>3, <2>4
<1>3. CASE inside # {}
  <2>1. PICK x \in inside : \A y \in inside : x <= y
    <3>1. inside \in SUBSET Nat  BY <1>1
    <3>. HIDE DEF inside
    <3>. QED  BY <1>3, <3>1, Least, Zenon
  <2>2. gone = 1..(x - 1)  BY <1>1, <2>1
  <2>3. Cardinality(gone) = x - 1
    <3>. HIDE DEF gone
    <3>. QED  BY <1>1, <2>1, <2>2, FS_Interval
  <2>4. Pruned(times, c) = SubSeq(times, x, Len(times))
    <3>1. (x - 1) + 1 = x  BY <1>1, <2>1
    <3>. HIDE DEF gone
    <3>. QED  BY <1>4, <2>3, <3>1
  <2>5. \A i \in DOMAIN times : i >= x <=> c.at - times[i] <= c.window
    <3>. SUFFICES ASSUME NEW i \in DOMAIN times PROVE i >= x <=> i \in inside  OBVIOUS
    <3>1. x <= i => times[x] <= times[i]  BY <1>1, <2>1
    <3>2. c.at \in Nat /\ c.window \in Nat /\ times[i] \in Nat /\ times[x] \in Nat  BY <1>1, <2>1 DEF LoginCalls
    <3>. QED  BY <1>1, <2>1, <3>1, <3>2
  <2>. QED  BY <1>1, <2>1, <2>4, <2>5
<1>. QED  BY <1>2, <1>3

\* What a call adds to the log, and what it leaves pending.
Logged(log, c, more) ==
    /\ more \in Seq(LoginCalls) /\ Sorted(more)
    /\ Len(more) = Len(log) + 1 /\ more[Len(log) + 1] = c
    /\ \A k \in DOMAIN log : k \in DOMAIN more /\ k \in 1..Len(log) /\ more[k] = log[k]
    /\ Pending(log) \subseteq DOMAIN log
    /\ Pending(more) = IF c.op = "reset" THEN {}
                       ELSE Pending(log) \cup IF c.op = "record" THEN {Len(log) + 1} ELSE {}

LEMMA LoggedCall ==
    ASSUME NEW log \in Seq(LoginCalls), NEW c \in LoginCalls, NEW more, more = Append(log, c), Sorted(log),
           c.op = "record" => \A n \in DOMAIN log : log[n].at <= c.at
    PROVE Logged(log, c, more)
<1>1. /\ Len(log) \in Nat /\ DOMAIN log = 1..Len(log)
      /\ Len(more) = Len(log) + 1 /\ more[Len(log) + 1] = c /\ more \in Seq(LoginCalls)
      /\ DOMAIN more = 1..Len(log) + 1
      /\ \A k \in DOMAIN log : more[k] = log[k]
  BY AppendProperties
<1>2. Sorted(more)  BY <1>1 DEF Sorted
<1>3. Pending(log) \subseteq DOMAIN log  BY DEF Pending
<1>. SUFFICES Pending(more) = IF c.op = "reset" THEN {}
                          ELSE Pending(log) \cup IF c.op = "record" THEN {Len(log) + 1} ELSE {}
  BY <1>1, <1>2, <1>3 DEF Logged
<1>4. CASE c.op = "reset"
  <2>1. \A k \in DOMAIN more : Len(log) + 1 \in k..Len(more)  BY <1>1
  <2>. QED  BY <1>1, <1>2, <1>3, <1>4, <2>1 DEF Pending
<1>5. CASE c.op # "reset"
  <2>1. ASSUME NEW k \in DOMAIN log PROVE k \in Pending(more) <=> k \in Pending(log)
    <3>1. k..Len(more) = k..Len(log) \cup {Len(log) + 1} /\ k..Len(log) \subseteq DOMAIN log  BY <1>1
    <3>. QED  BY <1>1, <1>5, <3>1 DEF Pending
  <2>2. Len(log) + 1 \in Pending(more) <=> c.op = "record"
    <3>1. (Len(log) + 1)..Len(more) = {Len(log) + 1}  BY <1>1
    <3>. QED  BY <1>1, <1>5, <3>1 DEF Pending
  <2>3. Pending(more) \subseteq DOMAIN log \cup {Len(log) + 1}  BY <1>1 DEF Pending
  <2>. QED  BY <1>1, <1>2, <1>3, <1>5, <2>1, <2>2, <2>3
<1>. QED  BY <1>4, <1>5

\* A count that took an attempt stays in the log.
LEMMA LaterCount ==
    ASSUME NEW log \in Seq(LoginCalls), NEW c, NEW more, Logged(log, c, more), NEW k \in Pending(log),
           \E d \in k..Len(log) : log[d].op = "count" /\ log[k].at < Back(log, d)
    PROVE \E d \in k..Len(log) : d \in k..Len(more) /\ more[d].op = "count" /\ more[k].at < Back(more, d)
<1>1. PICK d \in k..Len(log) : log[d].op = "count" /\ log[k].at < Back(log, d)  OBVIOUS
<1>2. k \in DOMAIN log /\ d \in DOMAIN log /\ d \in k..Len(more)  BY DEF Logged
<1>. QED  BY <1>1, <1>2 DEF Logged, Back

\* A new attempt goes to the end of the queue.
LEMMA RecordStep ==
    ASSUME NEW times, NEW count, NEW log, LoginInv(times, count, log), NEW c \in LoginCalls, c.op = "record",
           \A k \in DOMAIN log : log[k].at <= c.at
    PROVE LoginInv(record_failed_login(times, c), count, Append(log, c))
<1>. DEFINE more == Append(log, c)
            then == record_failed_login(times, c)
            n == Len(log) + 1
            e == Len(times) + 1
<1>1. /\ times \in Seq(Nat) /\ Len(times) \in Nat /\ DOMAIN times = 1..Len(times) /\ e \in Nat
      /\ log \in Seq(LoginCalls) /\ Len(log) \in Nat /\ DOMAIN log = 1..Len(log) /\ n \in Nat
      /\ c.at \in Nat /\ Sorted(log)
  BY DEF LoginInv, LoginCalls
<1>2. Logged(log, c, more)  BY <1>1, LoggedCall
<1>3. /\ then \in Seq(Nat) /\ DOMAIN then = DOMAIN times \cup {e} /\ then[e] = c.at
      /\ \A i \in DOMAIN times : then[i] = times[i]
  BY <1>1, AppendProperties DEF record_failed_login
<1>. HIDE DEF more, then
<1>4. more \in Seq(LoginCalls) /\ Sorted(more) /\ CountExact(count, more)
  BY <1>1, <1>2 DEF CountExact, Logged
<1>5. \E of : Queued(then, more, of)
  <2>1. PICK of : Queued(times, log, of)  BY DEF LoginInv
  <2>. DEFINE to == [i \in DOMAIN then |-> IF i = e THEN n ELSE of[i]]
  <2>2. /\ \A i \in DOMAIN times : to[i] = of[i] /\ of[i] \in 1..Len(log) /\ of[i] \in Pending(log)
        /\ to[e] = n
    BY <1>1, <1>2, <1>3, <2>1 DEF Queued, Logged
  <2>3. to \in [DOMAIN then -> Pending(more)]
    <3>1. n \in Pending(more) /\ \A k \in Pending(log) : k \in Pending(more)  BY <1>2 DEF Logged
    <3>. QED  BY <1>3, <2>2, <3>1
  <2>. HIDE DEF to
  <2>4. \A i, j \in DOMAIN then : i < j => to[i] < to[j]
    <3>. SUFFICES ASSUME NEW i \in DOMAIN then, NEW j \in DOMAIN then, i < j PROVE to[i] < to[j]  OBVIOUS
    <3>1. i \in DOMAIN times  BY <1>1, <1>3
    <3>2. CASE j \in DOMAIN times  BY <2>1, <2>2, <3>1, <3>2 DEF Queued
    <3>3. CASE j = e  BY <1>1, <2>2, <3>1, <3>3
    <3>. QED  BY <1>3, <3>2, <3>3
  <2>5. \A i \in DOMAIN then : then[i] = more[to[i]].at
    <3>1. \A i \in DOMAIN times : times[i] = log[of[i]].at /\ more[of[i]] = log[of[i]]
      BY <1>1, <1>2, <2>1, <2>2 DEF Queued, Logged
    <3>2. then[e] = more[to[e]].at  BY <1>2, <1>3, <2>2 DEF Logged
    <3>. QED  BY <1>3, <2>2, <3>1, <3>2
  <2>6. ASSUME NEW k \in Pending(more)
        PROVE \/ \E i \in DOMAIN then : to[i] = k
              \/ \E d \in k..Len(more) : more[d].op = "count" /\ more[k].at < Back(more, d)
    <3>1. CASE k = n  BY <1>3, <2>2, <3>1
    <3>2. CASE k \in Pending(log)
      <4>1. CASE \E i \in DOMAIN times : of[i] = k  BY <1>3, <2>2, <4>1
      <4>2. CASE \E d \in k..Len(log) : log[d].op = "count" /\ log[k].at < Back(log, d)
        BY <1>1, <1>2, <3>2, <4>2, LaterCount
      <4>. QED  BY <2>1, <3>2, <4>1, <4>2 DEF Queued
    <3>. QED  BY <1>2, <3>1, <3>2 DEF Logged
  <2>. QED  BY <2>3, <2>4, <2>5, <2>6 DEF Queued
<1>. QED  BY <1>3, <1>4, <1>5 DEF LoginInv, more, then

\* A reset leaves nothing pending.
LEMMA ResetStep ==
    ASSUME NEW times, NEW count, NEW log, LoginInv(times, count, log), NEW c \in LoginCalls, c.op = "reset"
    PROVE LoginInv(reset_failed_logins(times, c), count, Append(log, c))
<1>. DEFINE more == Append(log, c)
<1>1. Logged(log, c, more)
  <2>1. log \in Seq(LoginCalls) /\ Sorted(log)  BY DEF LoginInv
  <2>. QED  BY <2>1, LoggedCall
<1>2. <<>> \in Seq(Nat) /\ DOMAIN <<>> = {}  OBVIOUS
<1>. HIDE DEF more
<1>3. more \in Seq(LoginCalls) /\ Sorted(more) /\ Pending(more) = {}  BY <1>1 DEF Logged
<1>4. CountExact(count, more)
  <2>1. Len(more) = Len(log) + 1 /\ more[Len(log) + 1].op = "reset"  BY <1>1 DEF Logged
  <2>. QED  BY <2>1 DEF CountExact
<1>5. Queued(<<>>, more, <<>>)  BY <1>2, <1>3 DEF Queued
<1>. QED  BY <1>2, <1>3, <1>4, <1>5 DEF LoginInv, more, reset_failed_logins

\* A count takes the queue up to the first attempt inside its window, and answers how
\* many are left: the attempts inside the window, but for those an earlier count took.
LEMMA CountStep ==
    ASSUME NEW times, NEW count, NEW log, LoginInv(times, count, log), NEW c \in LoginCalls, c.op = "count"
    PROVE LoginInv(Pruned(times, c), failed_login_count(times, c), Append(log, c))
<1>. DEFINE more == Append(log, c)
            kept == Pruned(times, c)
            n == Len(log) + 1
<1>1. /\ times \in Seq(Nat) /\ Len(times) \in Nat /\ DOMAIN times = 1..Len(times)
      /\ log \in Seq(LoginCalls) /\ Len(log) \in Nat /\ DOMAIN log = 1..Len(log) /\ n \in Nat
      /\ c.at \in Nat /\ c.window \in Nat /\ Sorted(log)
  BY DEF LoginInv, LoginCalls
<1>2. Logged(log, c, more)  BY <1>1, LoggedCall
<1>3. PICK of : Queued(times, log, of)  BY DEF LoginInv
<1>4. PICK p \in 1..Len(times) + 1 :
         /\ kept = SubSeq(times, p, Len(times))
         /\ \A i \in DOMAIN times : i >= p <=> c.at - times[i] <= c.window
  BY <1>1, <1>3, QueueSorted, PrunedProperties
<1>5. /\ kept \in Seq(Nat) /\ Len(kept) = Len(times) - p + 1 /\ DOMAIN kept = 1..Len(times) - p + 1
      /\ \A i \in DOMAIN kept : kept[i] = times[i + p - 1] /\ i + p - 1 \in DOMAIN times /\ i + p - 1 >= p
  <2>1. \A i \in p..Len(times) : times[i] \in Nat  BY <1>1, <1>4
  <2>2. /\ SubSeq(times, p, Len(times)) \in Seq(Nat)
        /\ Len(SubSeq(times, p, Len(times))) = IF p <= Len(times) THEN Len(times) - p + 1 ELSE 0
        /\ \A i \in 1..Len(times) - p + 1 : SubSeq(times, p, Len(times))[i] = times[p + i - 1]
    BY <1>1, <1>4, <2>1, SubSeqProperties
  <2>3. kept \in Seq(Nat) /\ Len(kept) = Len(times) - p + 1
        /\ \A i \in 1..Len(times) - p + 1 : kept[i] = times[p + i - 1]
    BY <1>1, <1>4, <2>2
  <2>. HIDE DEF kept
  <2>4. DOMAIN kept = 1..Len(times) - p + 1  BY <2>3
  <2>5. \A i \in 1..Len(times) - p + 1 : i + p - 1 \in DOMAIN times /\ i + p - 1 >= p /\ p + i - 1 = i + p - 1
    BY <1>1, <1>4
  <2>. QED  BY <2>3, <2>4, <2>5
<1>. HIDE DEF kept, more
<1>. DEFINE to == [i \in DOMAIN kept |-> of[i + p - 1]]
<1>6. \A i \in DOMAIN times : of[i] \in Pending(log) /\ of[i] \in 1..Len(log) /\ of[i] \in Pending(more)
  BY <1>1, <1>2, <1>3 DEF Queued, Logged
<1>7. /\ to \in [DOMAIN kept -> Pending(more)]
      /\ \A i, j \in DOMAIN kept : i < j => to[i] < to[j]
      /\ \A i \in DOMAIN kept : kept[i] = more[to[i]].at
  <2>1. to \in [DOMAIN kept -> Pending(more)]  BY <1>5, <1>6
  <2>2. \A i, j \in DOMAIN kept : i < j => to[i] < to[j]
    <3>. SUFFICES ASSUME NEW i \in DOMAIN kept, NEW j \in DOMAIN kept, i < j PROVE to[i] < to[j]  OBVIOUS
    <3>1. i + p - 1 < j + p - 1 /\ i + p - 1 \in DOMAIN times /\ j + p - 1 \in DOMAIN times  BY <1>4, <1>5
    <3>. QED  BY <1>3, <3>1 DEF Queued
  <2>3. ASSUME NEW i \in DOMAIN kept PROVE kept[i] = more[to[i]].at
    <3>1. i + p - 1 \in DOMAIN times /\ kept[i] = times[i + p - 1] /\ to[i] = of[i + p - 1]  BY <1>5
    <3>2. times[i + p - 1] = log[of[i + p - 1]].at  BY <1>3, <3>1 DEF Queued
    <3>3. more[of[i + p - 1]] = log[of[i + p - 1]]  BY <1>1, <1>2, <1>6, <3>1 DEF Logged
    <3>. QED  BY <3>1, <3>2, <3>3
  <2>. QED  BY <2>1, <2>2, <2>3
<1>8. /\ Len(more) = n /\ more[n] = c /\ Pending(more) = Pending(log) /\ Pending(log) \subseteq DOMAIN log
      /\ \A k \in DOMAIN log : more[k] = log[k] /\ k \in k..n /\ n \in k..n
      /\ Back(more, n) = c.at - c.window
  BY <1>1, <1>2 DEF Logged, Back
<1>. DEFINE failures == {k \in Pending(more) : more[k].at >= c.at - c.window}
<1>9. ASSUME NEW k \in Pending(more), ~\E i \in DOMAIN kept : to[i] = k
      PROVE \/ k \notin failures
            \/ \E d \in k..Len(log) : more[d].op = "count" /\ more[k].at < Back(more, d)
  <2>1. CASE \E i \in DOMAIN times : of[i] = k
    <3>1. PICK i \in DOMAIN times : of[i] = k  BY <2>1
    <3>2. i < p
      <4>1. SUFFICES ASSUME i >= p PROVE FALSE  BY <1>1, <1>4
      <4>2. i \in Int /\ i <= Len(times) /\ p \in Int /\ DOMAIN kept = 1..Len(times) - p + 1
        BY <1>1, <1>4, <1>5
      <4>3. ASSUME NEW m \in Int, NEW o \in Int, NEW l \in Int, o <= m, m <= l
            PROVE m - o + 1 \in 1..l - o + 1 /\ (m - o + 1) + o - 1 = m
        BY <4>3
      <4>4. p <= i /\ i <= Len(times) /\ Len(times) \in Int /\ i \in Int /\ p \in Int  BY <1>1, <4>1, <4>2
      <4>5. i - p + 1 \in 1..Len(times) - p + 1 /\ (i - p + 1) + p - 1 = i
        <5>. HIDE DEF kept, more
        <5>. QED  BY <4>3, <4>4
      <4>. QED  BY <1>9, <3>1, <4>2, <4>5
    <3>3. ~(c.at - times[i] <= c.window) /\ times[i] \in Nat  BY <1>1, <1>4, <3>2
    <3>4. times[i] = more[k].at  BY <1>3, <1>6, <1>8, <3>1 DEF Queued
    <3>. QED  BY <1>1, <3>3, <3>4
  <2>2. CASE \E d \in k..Len(log) : log[d].op = "count" /\ log[k].at < Back(log, d)
    <3>1. PICK d \in k..Len(log) : log[d].op = "count" /\ log[k].at < Back(log, d)  BY <2>2
    <3>2. k \in DOMAIN log /\ d \in DOMAIN log  BY <1>1, <1>8, <3>1
    <3>. QED  BY <1>8, <3>1, <3>2 DEF Back
  <2>. QED  BY <1>3, <1>8, <2>1, <2>2 DEF Queued
<1>10. Queued(kept, more, to)
  <2>1. ASSUME NEW k \in Pending(more), ~\E i \in DOMAIN kept : to[i] = k
        PROVE \E d \in k..Len(more) : more[d].op = "count" /\ more[k].at < Back(more, d)
    <3>1. k \in DOMAIN log /\ k \in Nat  BY <1>1, <1>8
    <3>2. CASE k \notin failures
      <4>1. log[k] \in LoginCalls  BY <1>1, <3>1
      <4>2. more[k].at < Back(more, n)  BY <1>1, <1>8, <3>1, <3>2, <4>1 DEF LoginCalls
      <4>. QED  BY <1>8, <3>1, <4>2
    <3>3. CASE \E d \in k..Len(log) : more[d].op = "count" /\ more[k].at < Back(more, d)
      <4>1. k..Len(log) \subseteq k..Len(more)  BY <1>1, <1>8, <3>1
      <4>. QED  BY <3>3, <4>1
    <3>. QED  BY <1>9, <2>1, <3>2, <3>3
  <2>. HIDE DEF to
  <2>. QED  BY <1>7, <2>1 DEF Queued
<1>11. CountExact(failed_login_count(times, c), more)
  <2>1. IsFiniteSet(failures)
    <3>1. failures \in SUBSET (1..Len(log))  BY <1>1, <1>8
    <3>2. IsFiniteSet(1..Len(log))  BY <1>1, FS_Interval
    <3>. QED  BY <3>1, <3>2, FS_Subset
  <2>2. to \in Injection(1..Len(kept), failures)
    <3>1. \A i \in DOMAIN kept : to[i] \in failures
      <4>. SUFFICES ASSUME NEW i \in DOMAIN kept PROVE to[i] \in failures  OBVIOUS
      <4>1. c.at - times[i + p - 1] <= c.window /\ kept[i] = times[i + p - 1]  BY <1>4, <1>5
      <4>2. kept[i] \in Nat  BY <1>5
      <4>3. more[to[i]].at = kept[i] /\ to[i] \in Pending(more)  BY <1>7
      <4>. HIDE DEF to
      <4>. QED  BY <1>1, <4>1, <4>2, <4>3
    <3>2. \A i, j \in DOMAIN kept : to[i] = to[j] => i = j
      <4>1. \A k \in Pending(more) : k \in Nat  BY <1>1, <1>8
      <4>2. \A i \in DOMAIN kept : i \in Nat  BY <1>5
      <4>. HIDE DEF to
      <4>. QED  BY <1>7, <4>1, <4>2
    <3>3. DOMAIN kept = 1..Len(kept) /\ DOMAIN to = DOMAIN kept  BY <1>5
    <3>4. to \in [DOMAIN kept -> failures]  BY <3>1
    <3>. HIDE DEF to, failures
    <3>. QED  BY <3>2, <3>3, <3>4 DEF Injection, IsInjective
  <2>3. /\ Cardinality(1..Len(kept)) = Len(kept)
        /\ Cardinality(1..Len(kept)) <= Cardinality(failures)
        /\ to \in Surjection(1..Len(kept), failures) => Cardinality(1..Len(kept)) = Cardinality(failures)
    <3>1. Len(kept) \in Nat  BY <1>5
    <3>. HIDE DEF to, failures
    <3>2. Cardinality(1..Len(kept)) = Len(kept)  BY <3>1, CountTo
    <3>. QED  BY <2>1, <2>2, <3>2, FS_Injection
  <2>. DEFINE further == {k \in 1..n : /\ \A r \in k..n : more[r].op # "reset"
                                       /\ more[k].op = "count" /\ Back(more, k) > Back(more, n)}
  <2>4. ASSUME further = {} PROVE to \in Surjection(1..Len(kept), failures)
    <3>1. ASSUME NEW k \in failures PROVE \E i \in DOMAIN kept : to[i] = k
      <4>1. SUFFICES ASSUME ~\E i \in DOMAIN kept : to[i] = k PROVE FALSE  OBVIOUS
      <4>2. PICK d \in k..Len(log) : more[d].op = "count" /\ more[k].at < Back(more, d)  BY <1>9, <4>1
      <4>3. k \in 1..Len(log) /\ d \in 1..Len(log) /\ d \in 1..n  BY <1>1, <1>8, <4>2
      <4>4. \A r \in d..n : more[r].op # "reset"
        <5>1. \A r \in k..Len(more) : more[r].op # "reset"  BY DEF Pending
        <5>. QED  BY <1>8, <4>2, <4>3, <5>1
      <4>5. Back(more, d) \in Int /\ more[k].at \in Nat
        <5>1. log[k] \in LoginCalls /\ log[d] \in LoginCalls  BY <1>1, <4>3
        <5>2. more[k] = log[k] /\ more[d] = log[d]  BY <1>1, <1>8, <4>3
        <5>. QED  BY <5>1, <5>2 DEF Back, LoginCalls
      <4>6. Back(more, d) > Back(more, n)  BY <1>1, <1>8, <4>2, <4>5
      <4>. QED  BY <2>4, <4>2, <4>3, <4>4, <4>6
    <3>2. DOMAIN kept = 1..Len(kept)  BY <1>5
    <3>3. to \in [1..Len(kept) -> failures]  BY <2>2 DEF Injection
    <3>. HIDE DEF to, failures
    <3>. QED  BY <3>1, <3>2, <3>3 DEF Surjection
  <2>5. failures = {k \in Pending(more) : more[k].at >= Back(more, n)}  BY <1>8
  <2>6. failed_login_count(times, c) = Len(kept)  BY DEF failed_login_count, kept
  <2>. HIDE DEF to, failures, further
  <2>7. /\ failed_login_count(times, c) <= Cardinality(failures)
        /\ further = {} => failed_login_count(times, c) = Cardinality(failures)
    BY <2>3, <2>4, <2>6
  <2>. QED  BY <1>8, <2>5, <2>7 DEF CountExact, further
<1>. QED  BY <1>2, <1>5, <1>10, <1>11 DEF LoginInv, Logged, more, kept
-----------------------------------------------------------------------------
\* FailureCountExact, for any calls in any number, and any windows.
THEOREM CountCorrect == LoginSpec => []FailureCountExact
<1>. DEFINE Inv == LoginInv(Attempts.times, Attempts.count, Attempts.log)
<1>1. LoginInv(NoFailures.times, NoFailures.count, NoFailures.log)
  <2>1. Queued(<<>>, <<>>, <<>>)  BY DEF Queued, Pending
  <2>. QED  BY <2>1 DEF LoginInv, NoFailures, Sorted, CountExact
<1>2. Asked("login") /\ answer = None => Inv  BY <1>1 DEF Attempts
<1>3. ASSUME Inv, [\E c \in LoginCalls : Call(c)]_<<question, answer>> PROVE Inv'
  <2>1. CASE UNCHANGED <<question, answer>>  BY <1>3, <2>1 DEF Attempts
  <2>2. CASE answer' = None  BY <1>1, <2>2 DEF Attempts
  <2>3. ASSUME NEW c \in LoginCalls, Call(c), answer' # None PROVE Inv'
    <3>. DEFINE s == Attempts
    <3>1. Attempts' = answer'  BY <2>3 DEF Attempts
    <3>2. CASE c.op = "record"
      <4>1. LoginInv(record_failed_login(s.times, c), s.count, Append(s.log, c))
        BY <1>3, <2>3, <3>2, RecordStep DEF Call, Done
      <4>. QED  BY <2>3, <3>1, <3>2, <4>1 DEF Call, Done
    <3>3. CASE c.op = "reset"
      <4>1. LoginInv(reset_failed_logins(s.times, c), s.count, Append(s.log, c))
        BY <1>3, <3>3, ResetStep
      <4>. QED  BY <2>3, <3>1, <3>3, <4>1 DEF Call, Done
    <3>4. CASE c.op = "count"
      <4>1. LoginInv(Pruned(s.times, c), failed_login_count(s.times, c), Append(s.log, c))
        BY <1>3, <3>4, CountStep
      <4>. QED  BY <2>3, <3>1, <3>4, <4>1 DEF Call, Done
    <3>. QED  BY <3>2, <3>3, <3>4 DEF LoginCalls
  <2>. QED  BY <1>3, <2>1, <2>2, <2>3
<1>4. Inv => FailureCountExact
  <2>. SUFFICES ASSUME Inv PROVE FailureCountExact  OBVIOUS
  <2>1. CountExact(Attempts.count, Done) /\ Done \in Seq(LoginCalls)  BY DEF LoginInv, Done
  <2>. DEFINE n == Len(Done)
              since == {k \in 1..n : \A r \in k..n : Done[r].op # "reset"}
  <2>2. {k \in since : Done[k].op = "record" /\ Done[k].at >= Done[n].at - Done[n].window}
           = {k \in Pending(Done) : Done[k].at >= Back(Done, n)}
    BY <2>1 DEF Pending, Back
  <2>3. {k \in since : Done[k].op = "count" /\ Done[k].at - Done[k].window > Done[n].at - Done[n].window}
           = {k \in 1..n : /\ \A r \in k..n : Done[r].op # "reset"
                            /\ Done[k].op = "count" /\ Back(Done, k) > Back(Done, n)}
    BY DEF Back
  <2>. QED  BY <2>1, <2>2, <2>3 DEF FailureCountExact, CountExact
<1>. QED  BY <1>2, <1>3, <1>4, PTL DEF LoginSpec
-----------------------------------------------------------------------------
(* Rate limits                                                              *)

Buckets == [tokens : Nat, seen : Int]

IsRate(q) ==
    /\ q.spec \in Specs
    /\ q.ahead \in Nat /\ q.skew \in [Instances -> 0..q.ahead]

LeadOf(q, log, n) == Clock(q, log[n]) - log[n].at
HandoversOf(q, log, some) ==
    {n \in some : \E k \in some : k < n /\ LeadOf(q, log, k) < LeadOf(q, log, n) /\ \A m \in some : m <= k \/ n <= m}

\* What the requests let through from the i-th on have cost is what the bucket
\* could hold and what was refilled until now, but for what it still holds.
Room(q, log, S, tokens, now) ==
    \A i \in S :
        LET T == {n \in S : i <= n}
        IN Cardinality(T) * q.spec.window + tokens
              <= q.spec.count * q.spec.window
                 + (now - log[i].at + Cardinality(HandoversOf(q, log, T)) * (q.ahead + MaxLate)) * q.spec.count

\* Bounded, of the requests S that a bucket let through.
BoundedOf(q, log, S) ==
    \A i, j \in S :
        LET T == {n \in S : i <= n /\ n <= j}
            span == log[j].at - log[i].at + Cardinality(HandoversOf(q, log, T)) * (q.ahead + MaxLate)
        IN i <= j => Cardinality(T) * q.spec.window <= q.spec.count * q.spec.window + span * q.spec.count

\* A clock is never further ahead of another than Spread.
LEMMA LeadProperties ==
    ASSUME NEW q, IsRate(q), NEW r \in Requests
    PROVE /\ Clock(q, r) \in Int
          /\ Clock(q, r) - r.at <= q.ahead /\ -MaxLate <= Clock(q, r) - r.at
          /\ ~r.up => Clock(q, r) - r.at = q.skew[r.on]
<1>1. r.at \in Nat /\ r.on \in Instances /\ r.up \in BOOLEAN /\ r.late \in 0..MaxLate  BY DEF Requests
<1>2. q.skew[r.on] \in 0..q.ahead /\ q.ahead \in Nat /\ MaxLate \in Nat  BY <1>1, RateAssumption DEF IsRate
<1>. QED  BY <1>1, <1>2 DEF Clock

\* More time refills more.
LEMMA Times ==
    ASSUME NEW x \in Int, NEW y \in Int, NEW c \in Nat, x <= y
    PROVE x * c <= y * c /\ x * c \in Int
OBVIOUS

\* The handovers among requests to which a later one is added.
LEMMA HandoversAdd ==
    ASSUME NEW q, NEW log, NEW T \in SUBSET Nat, NEW n \in Nat, \A k \in T : k < n, IsFiniteSet(T)
    PROVE LET H == HandoversOf(q, log, T)  more == HandoversOf(q, log, T \cup {n})
          IN /\ Cardinality(H) \in Nat /\ Cardinality(more) \in Nat
             /\ Cardinality(H) <= Cardinality(more)
             /\ (\E m \in T : (\A k \in T : k <= m) /\ LeadOf(q, log, m) < LeadOf(q, log, n))
                   => Cardinality(H) + 1 <= Cardinality(more)
<1>. DEFINE H == HandoversOf(q, log, T)
            more == HandoversOf(q, log, T \cup {n})
<1>1. H \subseteq more
  <2>1. \A k \in T : k \in Nat /\ k <= n  OBVIOUS
  <2>. QED  BY <2>1 DEF HandoversOf
<1>2. H \subseteq T /\ more \subseteq T \cup {n}  BY DEF HandoversOf
<1>3. IsFiniteSet(more)
  <2>1. IsFiniteSet(T \cup {n})  BY FS_AddElement
  <2>. HIDE DEF more
  <2>. QED  BY <1>2, <2>1, FS_Subset
<1>4. n \notin T  OBVIOUS
<1>5. ASSUME NEW m \in T, \A k \in T : k <= m, LeadOf(q, log, m) < LeadOf(q, log, n) PROVE n \in more
  <2>1. m \in T \cup {n} /\ m < n /\ \A k \in T \cup {n} : k <= m \/ n <= k  BY <1>5
  <2>. QED  BY <1>5, <2>1 DEF HandoversOf
<1>. HIDE DEF H, more
<1>6. Cardinality(H) \in Nat /\ Cardinality(more) \in Nat /\ Cardinality(H) <= Cardinality(more) /\ IsFiniteSet(H)
  BY <1>1, <1>3, FS_Subset, FS_CardinalityType
<1>7. n \in more => Cardinality(H) + 1 <= Cardinality(more)
  <2>1. Cardinality(H \cup {n}) = Cardinality(H) + 1  BY <1>2, <1>4, <1>6, FS_AddElement
  <2>2. n \in more => H \cup {n} \subseteq more  BY <1>1
  <2>. QED  BY <1>3, <2>1, <2>2, FS_Subset
<1>. QED  BY <1>5, <1>6, <1>7 DEF H, more

\* What a set of requests says of a log is only about those requests.
LEMMA SameLog ==
    ASSUME NEW q, NEW log, NEW more, NEW S, \A n \in S : more[n] = log[n]
    PROVE /\ \A T \in SUBSET S : HandoversOf(q, more, T) = HandoversOf(q, log, T)
          /\ \A tokens, now : Room(q, log, S, tokens, now) <=> Room(q, more, S, tokens, now)
          /\ BoundedOf(q, log, S) <=> BoundedOf(q, more, S)
<1>1. ASSUME NEW T \in SUBSET S PROVE HandoversOf(q, more, T) = HandoversOf(q, log, T)
  <2>1. \A n \in T : LeadOf(q, more, n) = LeadOf(q, log, n)  BY DEF LeadOf
  <2>. QED  BY <2>1 DEF HandoversOf
<1>2. \A i \in S : {n \in S : i <= n} \in SUBSET S  OBVIOUS
<1>3. \A i, j \in S : {n \in S : i <= n /\ n <= j} \in SUBSET S  OBVIOUS
<1>4. \A tokens, now : Room(q, log, S, tokens, now) <=> Room(q, more, S, tokens, now)
  BY <1>1, <1>2 DEF Room
<1>5. BoundedOf(q, log, S) <=> BoundedOf(q, more, S)  BY <1>1, <1>3 DEF BoundedOf
<1>. QED  BY <1>1, <1>4, <1>5

\* One more request that a bucket lets through: it held full tokens, no more than its
\* capacity, nor than what it held before and was refilled since.
Full(q, log, S, n, tokens, now, full) ==
    /\ full \in q.spec.window..q.spec.count * q.spec.window
    /\ S # {} =>
          \/ full <= tokens + (log[n].at - now) * q.spec.count
          \/ /\ full <= tokens + (log[n].at - now + q.ahead + MaxLate) * q.spec.count
             /\ \E m \in S : (\A k \in S : k <= m) /\ LeadOf(q, log, m) < LeadOf(q, log, n)

LEMMA AdmitOne ==
    ASSUME NEW c \in Nat \ {0}, NEW w \in Nat \ {0}, NEW p \in Nat, NEW cap \in Int,
           NEW x \in Nat, NEW h \in Nat, NEW g \in Nat, h <= g,
           NEW tokens \in Nat, NEW full \in Nat, NEW d \in Int, NEW e \in Int,
           x * w + tokens <= cap + (d + h * p) * c,
           \/ full <= tokens + e * c
           \/ full <= tokens + (e + p) * c /\ h + 1 <= g
    PROVE (x + 1) * w + (full - w) <= cap + (e + d + g * p) * c
<1>1. (x + 1) * w + (full - w) = x * w + full  OBVIOUS
<1>2. h * p <= g * p /\ h * p \in Int /\ g * p \in Int  BY Times
<1>3. CASE full <= tokens + e * c
  <2>1. x * w + full <= cap + (d + h * p) * c + e * c  BY <1>2, <1>3
  <2>2. (d + h * p) * c + e * c = (e + d + h * p) * c  BY <1>2
  <2>3. (e + d + h * p) * c <= (e + d + g * p) * c  BY <1>2, Times
  <2>. QED  BY <1>1, <1>2, <2>1, <2>2, <2>3
<1>4. CASE full <= tokens + (e + p) * c /\ h + 1 <= g
  <2>1. x * w + full <= cap + (d + h * p) * c + (e + p) * c  BY <1>2, <1>4
  <2>2. (d + h * p) * c + (e + p) * c = (e + d + (h + 1) * p) * c  BY <1>2
  <2>3. (h + 1) * p <= g * p /\ (h + 1) * p \in Int  BY <1>4, Times
  <2>4. (e + d + (h + 1) * p) * c <= (e + d + g * p) * c  BY <1>2, <2>3, Times
  <2>. QED  BY <1>1, <1>2, <2>1, <2>2, <2>3, <2>4
<1>. QED  BY <1>3, <1>4

LEMMA Admit ==
    ASSUME NEW q, IsRate(q), NEW log, NEW S \in SUBSET Nat, IsFiniteSet(S), NEW n \in Nat, \A k \in S : k < n,
           \A k \in S \cup {n} : log[k].at \in Nat,
           NEW tokens \in Nat, NEW now \in Int, NEW full, Full(q, log, S, n, tokens, now, full),
           Room(q, log, S, tokens, now), BoundedOf(q, log, S)
    PROVE /\ Room(q, log, S \cup {n}, full - q.spec.window, log[n].at)
          /\ BoundedOf(q, log, S \cup {n})
<1>0. \A j \in S : ~(n <= j)  OBVIOUS
<1>. DEFINE c == q.spec.count
            w == q.spec.window
            p == q.ahead + MaxLate
            more == S \cup {n}
            from(s, i) == {k \in s : i <= k}
            upto(s, i, j) == {k \in s : i <= k /\ k <= j}
            hand(s) == HandoversOf(q, log, s)
<1>1. c \in Nat \ {0} /\ w \in Nat \ {0} /\ p \in Nat /\ c * w \in Nat
  BY RateAssumption DEF IsRate, Specs
<1>2. full \in Nat /\ w <= full /\ full <= c * w  BY <1>1 DEF Full
<1>3. ASSUME NEW i \in S
      PROVE Cardinality(from(more, i)) * w + (full - w)
               <= c * w + (log[n].at - log[i].at + Cardinality(hand(from(more, i))) * p) * c
  <2>. DEFINE T == from(S, i)
  <2>0. i \in Nat /\ i <= i /\ \A k \in S : k \in Nat  BY <1>3
  <2>1. T \in SUBSET Nat /\ T \subseteq S /\ i \in T /\ i \in Nat  BY <1>3, <2>0
  <2>2. IsFiniteSet(T) /\ Cardinality(T) \in Nat
    <3>. HIDE DEF T
    <3>. QED  BY <2>1, FS_Subset, FS_CardinalityType
  <2>3. from(more, i) = T \cup {n} /\ n \notin T  BY <1>3
  <2>4. \A m \in S : (\A k \in S : k <= m) => m \in T /\ \A k \in T : k <= m  BY <2>1
  <2>5. Cardinality(T) * w + tokens <= c * w + (now - log[i].at + Cardinality(hand(T)) * p) * c
    BY <1>3 DEF Room
  <2>. HIDE DEF T
  <2>6. Cardinality(T \cup {n}) = Cardinality(T) + 1  BY <2>2, <2>3, FS_AddElement
  <2>7. /\ Cardinality(hand(T)) \in Nat /\ Cardinality(hand(T \cup {n})) \in Nat
        /\ Cardinality(hand(T)) <= Cardinality(hand(T \cup {n}))
        /\ (\E m \in T : (\A k \in T : k <= m) /\ LeadOf(q, log, m) < LeadOf(q, log, n))
              => Cardinality(hand(T)) + 1 <= Cardinality(hand(T \cup {n}))
    <3>1. \A k \in T : k < n  BY <2>1
    <3>. QED  BY <2>1, <2>2, <3>1, HandoversAdd
  <2>8. \/ full <= tokens + (log[n].at - now) * c
        \/ /\ full <= tokens + (log[n].at - now + p) * c
           /\ Cardinality(hand(T)) + 1 <= Cardinality(hand(T \cup {n}))
    <3>1. CASE full <= tokens + (log[n].at - now) * c  BY <3>1
    <3>2. CASE /\ full <= tokens + (log[n].at - now + q.ahead + MaxLate) * c
               /\ \E m \in S : (\A k \in S : k <= m) /\ LeadOf(q, log, m) < LeadOf(q, log, n)
      <4>1. \E m \in T : (\A k \in T : k <= m) /\ LeadOf(q, log, m) < LeadOf(q, log, n)  BY <2>4, <3>2
      <4>2. log[n].at - now + q.ahead + MaxLate = log[n].at - now + p  BY RateAssumption DEF IsRate
      <4>. QED  BY <2>7, <3>2, <4>1, <4>2
    <3>. QED  BY <1>3, <3>1, <3>2 DEF Full
  <2>. DEFINE x == Cardinality(T)
              h == Cardinality(hand(T))
              g == Cardinality(hand(T \cup {n}))
              d == now - log[i].at
              e == log[n].at - now
  <2>9. x \in Nat /\ h \in Nat /\ g \in Nat /\ h <= g /\ d \in Int /\ e \in Int /\ e + d = log[n].at - log[i].at
    BY <1>3, <2>2, <2>7
  <2>10. x * w + tokens <= c * w + (d + h * p) * c  BY <2>5
  <2>11. full <= tokens + e * c \/ (full <= tokens + (e + p) * c /\ h + 1 <= g)  BY <2>8
  <2>. HIDE DEF x, h, g, d, e, c, w, p
  <2>12. c * w \in Int  BY <1>1
  <2>13. (x + 1) * w + (full - w) <= c * w + (e + d + g * p) * c
    BY <1>1, <1>2, <2>9, <2>10, <2>11, <2>12, AdmitOne
  <2>. QED  BY <2>3, <2>6, <2>9, <2>13 DEF x, g
<1>4. from(more, n) = {n}
  <2>1. n <= n /\ \A k \in S : ~(n <= k)  OBVIOUS
  <2>. QED  BY <2>1
<1>5. Cardinality({n}) = 1 /\ Cardinality(hand({n})) \in Nat
  <2>1. hand({n}) \in SUBSET {n}  BY DEF HandoversOf
  <2>. QED  BY <2>1, FS_Singleton, FS_Subset, FS_CardinalityType
<1>6. Room(q, log, more, full - w, log[n].at)
  <2>1. Cardinality(from(more, n)) * w + (full - w)
           <= c * w + (log[n].at - log[n].at + Cardinality(hand(from(more, n))) * p) * c
    <3>. DEFINE g == Cardinality(hand({n}))
    <3>1. 0 <= g * p /\ g * p \in Int  BY <1>1, <1>5
    <3>2. log[n].at - log[n].at = 0  OBVIOUS
    <3>. DEFINE z == (0 + g * p) * c
    <3>3. 0 <= z /\ z \in Int
      <4>. HIDE DEF g, c, p
      <4>. QED  BY <1>1, <3>1
    <3>4. 1 * w + (full - w) <= c * w + z
      <4>. HIDE DEF z, c
      <4>. QED  BY <1>1, <1>2, <3>3
    <3>. QED  BY <1>4, <1>5, <3>2, <3>4
  <2>. QED  BY <1>3, <2>1 DEF Room
<1>7. BoundedOf(q, log, more)
  <2>1. ASSUME NEW i \in more, NEW j \in more, i <= j
        PROVE Cardinality(upto(more, i, j)) * w
                 <= c * w + (log[j].at - log[i].at + Cardinality(hand(upto(more, i, j))) * p) * c
    <3>1. CASE j = n
      <4>0. \A k \in more : k <= n  OBVIOUS
      <4>1. upto(more, i, n) = from(more, i)  BY <2>1, <4>0
      <4>2. Cardinality(from(more, i)) * w + (full - w)
               <= c * w + (log[n].at - log[i].at + Cardinality(hand(from(more, i))) * p) * c
        BY <1>6, <2>1 DEF Room
      <4>3. /\ Cardinality(from(more, i)) \in Nat /\ Cardinality(hand(from(more, i))) \in Nat
            /\ log[i].at \in Nat /\ log[n].at \in Nat
        <5>1. IsFiniteSet(more)  BY FS_AddElement
        <5>2. from(more, i) \in SUBSET more /\ hand(from(more, i)) \in SUBSET more  BY DEF HandoversOf
        <5>3. log[i].at \in Nat /\ log[n].at \in Nat  BY <2>1
        <5>. HIDE DEF more, from, hand
        <5>4. IsFiniteSet(from(more, i)) /\ IsFiniteSet(hand(from(more, i)))  BY <5>1, <5>2, FS_Subset
        <5>. QED  BY <5>3, <5>4, FS_CardinalityType
      <4>. DEFINE x == Cardinality(from(more, i))
                  z == (log[n].at - log[i].at + Cardinality(hand(from(more, i))) * p) * c
      <4>4. x * w \in Int /\ z \in Int  BY <1>1, <4>3
      <4>5. x * w + (full - w) <= c * w + z => x * w <= c * w + z
        <5>. HIDE DEF x, z, c, w
        <5>. QED  BY <1>1, <1>2, <4>4
      <4>. QED  BY <3>1, <4>1, <4>2, <4>5
    <3>2. CASE j \in S
      <4>1. i \in S  BY <1>0, <2>1, <3>2
      <4>2. upto(more, i, j) = upto(S, i, j)  BY <1>0, <3>2
      <4>. QED  BY <2>1, <3>2, <4>1, <4>2 DEF BoundedOf
    <3>. QED  BY <2>1, <3>1, <3>2
  <2>. QED  BY <2>1 DEF BoundedOf
<1>. QED  BY <1>6, <1>7

\* A bucket that lets nobody through keeps what it refilled.
LEMMA Keep ==
    ASSUME NEW q, IsRate(q), NEW log, NEW S \in SUBSET Nat, IsFiniteSet(S), \A k \in S : log[k].at \in Nat,
           NEW tokens \in Nat, NEW now \in Int, NEW full \in Nat, NEW at \in Nat,
           full <= tokens + (at - now) * q.spec.count,
           Room(q, log, S, tokens, now)
    PROVE Room(q, log, S, full, at)
<1>. DEFINE c == q.spec.count
            w == q.spec.window
            p == q.ahead + MaxLate
<1>1. c \in Nat /\ w \in Nat /\ p \in Nat /\ c * w \in Nat  BY RateAssumption DEF IsRate, Specs
<1>2. ASSUME NEW i \in S
      PROVE LET T == {n \in S : i <= n}
            IN Cardinality(T) * w + full <= c * w + (at - log[i].at + Cardinality(HandoversOf(q, log, T)) * p) * c
  <2>. DEFINE T == {n \in S : i <= n}
              x == Cardinality(T)
              h == Cardinality(HandoversOf(q, log, T))
              d == now - log[i].at
              e == at - now
  <2>1. x \in Nat /\ h \in Nat
    <3>1. T \in SUBSET S /\ HandoversOf(q, log, T) \in SUBSET S  BY DEF HandoversOf
    <3>. HIDE DEF T
    <3>. QED  BY <3>1, FS_Subset, FS_CardinalityType
  <2>2. x * w + tokens <= c * w + (d + h * p) * c  BY <1>2 DEF Room
  <2>3. d \in Int /\ e \in Int /\ at - log[i].at = e + d /\ full <= tokens + e * c  BY <1>2
  <2>4. x * w + full <= c * w + (e + d + h * p) * c
    <3>. HIDE DEF x, h, d, e, c, w, p
    <3>1. x * w \in Int /\ h * p \in Int /\ c * w \in Int  BY <1>1, <2>1
    <3>2. (d + h * p) * c + e * c = (e + d + h * p) * c  BY <1>1, <2>3, <3>1
    <3>3. x * w + full <= c * w + (d + h * p) * c + e * c
      <4>1. (d + h * p) * c \in Int /\ e * c \in Int  BY <1>1, <2>3, <3>1
      <4>. QED  BY <2>2, <2>3, <3>1, <4>1
    <3>4. (d + h * p) * c \in Int /\ e * c \in Int /\ (e + d + h * p) * c \in Int  BY <1>1, <2>3, <3>1
    <3>. QED  BY <3>1, <3>2, <3>3, <3>4
  <2>. QED  BY <2>3, <2>4
<1>. QED  BY <1>2 DEF Room

\* What a bucket holds after its refill; after a whole window it is full.
LEMMA RefilledProperties ==
    ASSUME NEW spec \in Specs, NEW b \in Buckets, NEW now \in Int
    PROVE LET full == Refilled(b, spec, now)
          IN /\ full \in Nat /\ full <= spec.count * spec.window
             /\ full <= b.tokens + LargerOf(0, now - b.seen) * spec.count
             /\ now - b.seen >= spec.window => full = spec.count * spec.window
<1>. DEFINE c == spec.count
            w == spec.window
            z == LargerOf(0, now - b.seen)
<1>1. c \in Nat /\ w \in Nat /\ w > 0 /\ b.tokens \in Nat /\ b.seen \in Int  BY DEF Specs, Buckets
<1>2. z \in Nat /\ (now - b.seen >= w => w <= z)  BY <1>1 DEF LargerOf
<1>3. z * c \in Nat /\ c * w \in Nat /\ c * w = w * c /\ (w <= z => w * c <= z * c)
  <2>. HIDE DEF c, w, z
  <2>. QED  BY <1>1, <1>2, Times
<1>4. Refilled(b, spec, now) = SmallerOf(b.tokens + z * c, c * w)  BY DEF Refilled
<1>. HIDE DEF z, c, w
<1>5. \A x, y \in Nat : SmallerOf(x, y) \in Nat /\ SmallerOf(x, y) <= x /\ SmallerOf(x, y) <= y /\ (y <= x => SmallerOf(x, y) = y)
  BY DEF SmallerOf
<1>6. b.tokens + z * c \in Nat /\ (w <= z => c * w <= b.tokens + z * c)  BY <1>1, <1>3
<1>7. /\ Refilled(b, spec, now) \in Nat /\ Refilled(b, spec, now) <= c * w
      /\ Refilled(b, spec, now) <= b.tokens + z * c
      /\ now - b.seen >= w => Refilled(b, spec, now) = c * w
  BY <1>2, <1>3, <1>4, <1>5, <1>6
<1>. QED  BY <1>7 DEF z, c, w
-----------------------------------------------------------------------------
\* IdleServed, of a bucket.
IdleOf(q, log, through, bucket, slack) ==
    \A n \in bucket :
        (\A k \in bucket : k < n => log[n].at - log[k].at >= q.spec.window + slack) => n \in through

RowOf(log)    == {n \in DOMAIN log : log[n].up}
OwnOf(log, i) == {n \in DOMAIN log : ~log[n].up /\ log[n].on = i}
Forgot(q, log, bucket) == q.spec.window > MaxIdle /\ \E n \in bucket : log[n].sweep

\* The row is as the last request it let through left it.
RowInv(q, row, log, through) ==
    LET S == RowOf(log) \cap through IN
    /\ IdleOf(q, log, through, RowOf(log), q.ahead + MaxLate)
    /\ BoundedOf(q, log, S)
    /\ S = {} => row = None
    /\ S # {} => /\ row \in Buckets /\ row # None
                 /\ \E m \in S : /\ \A k \in S : k <= m
                                 /\ row.seen = Clock(q, log[m])
                                 /\ Room(q, log, S, row.tokens, log[m].at)

\* An own bucket is as the last request left it, let through or not.
OwnInv(q, i, own, log, through) ==
    LET B == OwnOf(log, i)  S == B \cap through IN
    /\ IdleOf(q, log, through, B, 0)
    /\ Forgot(q, log, B) \/ BoundedOf(q, log, S)
    /\ B = {} => own = None
    /\ B # {} => /\ own \in Buckets /\ own # None
                 /\ \E m \in B : /\ \A k \in B : k <= m
                                 /\ own.seen = Clock(q, log[m])
                                 /\ Forgot(q, log, B) \/ Room(q, log, S, own.tokens, log[m].at)

RateInv(q, s) ==
    /\ IsRate(q)
    /\ s.log \in Seq(Requests) /\ \A k, n \in DOMAIN s.log : k <= n => s.log[k].at <= s.log[n].at
    /\ s.through \subseteq DOMAIN s.log
    /\ s.own = [i \in Instances |-> s.own[i]]
    /\ RowInv(q, s.row, s.log, s.through)
    /\ \A i \in Instances : OwnInv(q, i, s.own[i], s.log, s.through)

\* The log more is log and the request r, the n-th.
OneMore(log, r, more, n) ==
    /\ n = Len(log) + 1 /\ n \in Nat /\ more \in Seq(Requests) /\ more[n] = r /\ r \in Requests
    /\ DOMAIN log \subseteq Nat /\ \A k \in DOMAIN log : k < n /\ more[k] = log[k] /\ log[k] \in Requests
    /\ DOMAIN more = DOMAIN log \cup {n}
    /\ \A k \in DOMAIN log : log[k].at <= r.at
    /\ IsFiniteSet(DOMAIN log)

LEMMA IdleMore ==
    ASSUME NEW q, NEW log, NEW r, NEW more, NEW n, OneMore(log, r, more, n), NEW through, NEW after,
           through \subseteq after, NEW slack,
           NEW B \in SUBSET DOMAIN log, IdleOf(q, log, through, B, slack)
    PROVE /\ IdleOf(q, more, after, B, slack)
          /\ \/ n \in after
             \/ ~\A k \in B : r.at - log[k].at >= q.spec.window + slack
             => IdleOf(q, more, after, B \cup {n}, slack)
<1>1. \A k \in B : more[k] = log[k] /\ k < n /\ ~(n < k)  BY DEF OneMore
<1>2. IdleOf(q, more, after, B, slack)  BY <1>1 DEF IdleOf
<1>3. ASSUME n \in after \/ ~\A k \in B : r.at - log[k].at >= q.spec.window + slack
      PROVE IdleOf(q, more, after, B \cup {n}, slack)
  <2>1. ASSUME NEW j \in B, \A k \in B \cup {n} : k < j => more[j].at - more[k].at >= q.spec.window + slack
        PROVE j \in after
    BY <1>2, <2>1 DEF IdleOf
  <2>2. ASSUME \A k \in B \cup {n} : k < n => more[n].at - more[k].at >= q.spec.window + slack
        PROVE n \in after
    BY <1>1, <1>3, <2>2 DEF OneMore
  <2>. QED  BY <2>1, <2>2 DEF IdleOf
<1>. QED  BY <1>2, <1>3

\* A request at the shared row.
LEMMA RowStep ==
    ASSUME NEW q, IsRate(q), NEW log, NEW r, NEW more, NEW n, OneMore(log, r, more, n), r.up,
           NEW through \in SUBSET DOMAIN log, NEW row, RowInv(q, row, log, through),
           NEW c, c = check_rate_limit_distributed(row, q.spec, Clock(q, r)),
           NEW after, after = through \cup (IF c.ok THEN {n} ELSE {})
    PROVE RowInv(q, c.bucket, more, after)
<1>. DEFINE w == q.spec.window
            cap == q.spec.count * q.spec.window
            p == q.ahead + MaxLate
            now == Clock(q, r)
            full == IF row = None THEN cap ELSE Refilled(row, q.spec, now)
            S == RowOf(log) \cap through
            A == RowOf(more) \cap after
<1>1. /\ q.spec \in Specs /\ q.spec.count \in Nat \ {0} /\ w \in Nat \ {0} /\ p \in Nat
      /\ cap \in Nat /\ w <= cap
  <2>1. q.spec.count \in Nat \ {0} /\ w \in Nat \ {0} /\ p \in Nat  BY RateAssumption DEF IsRate, Specs
  <2>2. 1 * w <= q.spec.count * w  BY <2>1, Times
  <2>. QED  BY <2>1, <2>2 DEF IsRate
<1>2. now \in Int /\ r.at \in Nat  BY LeadProperties DEF OneMore, Requests
<1>3. /\ c.ok <=> full >= w
      /\ c.bucket = IF c.ok THEN [tokens |-> full - w, seen |-> now] ELSE row
  BY DEF check_rate_limit_distributed
<1>4. /\ RowOf(more) = RowOf(log) \cup {n} /\ n \notin DOMAIN log /\ n \in Nat
      /\ RowOf(log) \in SUBSET DOMAIN log /\ S \in SUBSET DOMAIN log /\ S \in SUBSET Nat
      /\ IsFiniteSet(S) /\ \A k \in S : k < n /\ k \in RowOf(log)
      /\ \A k \in S \cup {n} : more[k].at \in Nat
  <2>1. RowOf(more) = RowOf(log) \cup {n}  BY DEF RowOf, OneMore
  <2>2. RowOf(log) \in SUBSET DOMAIN log /\ S \in SUBSET DOMAIN log  BY DEF RowOf
  <2>3. \A k \in DOMAIN log : k < n /\ k \in Nat /\ more[k] \in Requests  BY DEF OneMore
  <2>4. n \in Nat /\ more[n] \in Requests /\ n \notin DOMAIN log  BY <2>3 DEF OneMore
  <2>5. \A k \in S \cup {n} : more[k].at \in Nat  BY <2>2, <2>3, <2>4 DEF Requests
  <2>6. IsFiniteSet(S)  BY <2>2, FS_Subset DEF OneMore
  <2>. QED  BY <2>1, <2>2, <2>3, <2>4, <2>5, <2>6
<1>5. A = IF c.ok THEN S \cup {n} ELSE S  BY <1>4
<1>6. full \in Nat /\ full <= cap
  <2>1. CASE row = None  BY <1>1, <2>1
  <2>2. CASE row # None
    <3>1. row \in Buckets  BY <2>2 DEF RowInv
    <3>. QED  BY <1>1, <1>2, <2>2, <3>1, RefilledProperties
  <2>. QED  BY <2>1, <2>2
<1>. HIDE DEF full, cap, w, p, now, S, A
<1>7. ASSUME S # {}
      PROVE \E m \in S : /\ \A k \in S : k <= m
                         /\ row \in Buckets /\ row # None /\ row.seen = Clock(q, log[m]) /\ more[m] = log[m]
                         /\ Room(q, more, S, row.tokens, more[m].at)
                         /\ c.ok => Full(q, more, S, n, row.tokens, more[m].at, full)
                         /\ r.at - log[m].at >= w + p => full = cap
  <2>1. PICK m \in S : /\ \A k \in S : k <= m
                       /\ row \in Buckets /\ row # None /\ row.seen = Clock(q, log[m])
                       /\ Room(q, log, S, row.tokens, log[m].at)
    BY <1>7 DEF RowInv, S
  <2>2. m \in DOMAIN log /\ log[m] \in Requests /\ more[m] = log[m] /\ r \in Requests /\ more[n] = r
        /\ log[m].at <= r.at /\ log[m].at \in Nat /\ log[m].up
    BY <1>4, <2>1 DEF OneMore, Requests, RowOf
  <2>3. Room(q, more, S, row.tokens, more[m].at)
    <3>1. \A k \in S : more[k] = log[k]  BY <1>4 DEF OneMore
    <3>. QED  BY <2>1, <2>2, <3>1, SameLog
  <2>4. /\ full <= row.tokens + LargerOf(0, now - row.seen) * q.spec.count
        /\ now - row.seen >= w => full = cap
        /\ row.tokens \in Nat
    BY <1>1, <1>2, <2>1, RefilledProperties DEF full, cap, w, Buckets
  <2>. DEFINE l == Clock(q, log[m]) - log[m].at
              k == Clock(q, r) - r.at
  <2>5. l \in Int /\ k \in Int /\ k - l <= p /\ -p <= k - l /\ now - row.seen = r.at - log[m].at + (k - l)
    <3>1. /\ Clock(q, log[m]) \in Int /\ l <= q.ahead /\ -MaxLate <= l
          /\ Clock(q, r) \in Int /\ k <= q.ahead /\ -MaxLate <= k
      BY <2>2, LeadProperties
    <3>. QED  BY <1>2, <2>1, <2>2, <3>1, RateAssumption DEF p, now, IsRate
  <2>6. r.at - log[m].at >= w + p => full = cap  BY <1>1, <1>2, <2>2, <2>4, <2>5
  <2>7. ASSUME c.ok PROVE Full(q, more, S, n, row.tokens, more[m].at, full)
    <3>1. full \in w..cap  BY <1>1, <1>3, <1>6, <2>7
    <3>2. CASE l < k
      <4>1. LargerOf(0, now - row.seen) <= r.at - log[m].at + p /\ LargerOf(0, now - row.seen) \in Int
            /\ r.at - log[m].at + p \in Int
        BY <1>1, <1>2, <2>2, <2>5 DEF LargerOf
      <4>2. LargerOf(0, now - row.seen) * q.spec.count <= (r.at - log[m].at + p) * q.spec.count
        BY <1>1, <4>1, Times
      <4>3. full <= row.tokens + (r.at - log[m].at + p) * q.spec.count
        <5>1. LargerOf(0, now - row.seen) * q.spec.count \in Int /\ (r.at - log[m].at + p) * q.spec.count \in Int
          BY <1>1, <4>1, Times
        <5>. QED  BY <1>6, <2>4, <4>2, <5>1
      <4>4. LeadOf(q, more, m) < LeadOf(q, more, n)  BY <2>2, <3>2 DEF LeadOf
      <4>5. r.at - log[m].at + p = r.at - log[m].at + q.ahead + MaxLate  BY <1>2, <2>2, RateAssumption DEF p, IsRate
      <4>. QED  BY <2>1, <2>2, <3>1, <4>3, <4>4, <4>5 DEF Full, w, cap
    <3>3. CASE ~(l < k)
      <4>1. LargerOf(0, now - row.seen) <= r.at - log[m].at /\ LargerOf(0, now - row.seen) \in Int
            /\ r.at - log[m].at \in Int
        BY <1>1, <1>2, <2>2, <2>5, <3>3 DEF LargerOf
      <4>2. /\ LargerOf(0, now - row.seen) * q.spec.count <= (r.at - log[m].at) * q.spec.count
            /\ LargerOf(0, now - row.seen) * q.spec.count \in Int /\ (r.at - log[m].at) * q.spec.count \in Int
        BY <1>1, <4>1, Times
      <4>3. full <= row.tokens + (r.at - log[m].at) * q.spec.count  BY <1>6, <2>4, <4>2
      <4>. QED  BY <2>2, <3>1, <4>3 DEF Full, w, cap
    <3>. QED  BY <3>2, <3>3
  <2>. QED  BY <2>1, <2>2, <2>3, <2>6, <2>7
<1>8. BoundedOf(q, more, S)
  <2>1. \A k \in S : more[k] = log[k]  BY <1>4 DEF OneMore
  <2>. QED  BY <2>1, SameLog DEF RowInv, S
<1>9. IdleOf(q, more, after, RowOf(more), p)
  <2>1. IdleOf(q, log, through, RowOf(log), p)  BY DEF RowInv, p
  <2>2. n \in after \/ ~\A k \in RowOf(log) : r.at - log[k].at >= q.spec.window + p
    <3>. SUFFICES ASSUME \A k \in RowOf(log) : r.at - log[k].at >= w + p PROVE c.ok  BY DEF w
    <3>1. CASE S = {}  BY <1>1, <1>3, <3>1 DEF RowInv, S, full
    <3>2. CASE S # {}  BY <1>1, <1>3, <1>4, <1>7, <3>2
    <3>. QED  BY <3>1, <3>2
  <2>3. through \subseteq after /\ RowOf(log) \in SUBSET DOMAIN log  BY <1>4
  <2>4. IdleOf(q, more, after, RowOf(log) \cup {n}, p)  BY <2>1, <2>2, <2>3, IdleMore
  <2>. QED  BY <1>4, <2>4
<1>10. CASE ~c.ok
  <2>1. c.bucket = row /\ A = S  BY <1>3, <1>5, <1>10
  <2>2. S = {} => row = None  BY DEF RowInv, S
  <2>. QED  BY <1>7, <1>8, <1>9, <2>1, <2>2 DEF RowInv, A, p
<1>11. CASE c.ok
  <2>1. A = S \cup {n} /\ c.bucket = [tokens |-> full - w, seen |-> now]  BY <1>3, <1>5, <1>11
  <2>2. full - w \in Nat  BY <1>1, <1>3, <1>6, <1>11
  <2>3. c.bucket \in Buckets /\ c.bucket # None /\ c.bucket.tokens = full - w /\ c.bucket.seen = now
    BY <1>2, <2>1, <2>2, RateAssumption DEF Buckets
  <2>4. Room(q, more, A, full - w, more[n].at) /\ BoundedOf(q, more, A)
    <3>1. CASE S = {}
      <4>0. PICK z \in Nat : z \in Int  OBVIOUS
      <4>1. Full(q, more, S, n, z, z, full)  BY <1>1, <1>3, <1>6, <1>11, <3>1 DEF Full, w, cap
      <4>2. Room(q, more, S, z, z)  BY <3>1 DEF Room
      <4>. QED  BY <1>4, <1>8, <2>1, <4>0, <4>1, <4>2, Admit DEF w
    <3>2. CASE S # {}
      <4>1. PICK m \in S : /\ row \in Buckets /\ more[m] = log[m]
                           /\ Room(q, more, S, row.tokens, more[m].at)
                           /\ Full(q, more, S, n, row.tokens, more[m].at, full)
        BY <1>7, <1>11, <3>2
      <4>2. row.tokens \in Nat /\ more[m].at \in Int  BY <1>4, <4>1 DEF Buckets
      <4>. QED  BY <1>4, <1>8, <2>1, <4>1, <4>2, Admit DEF w
    <3>. QED  BY <3>1, <3>2
  <2>5. n \in A /\ (\A k \in A : k <= n) /\ now = Clock(q, more[n])  BY <1>4, <2>1 DEF OneMore, now
  <2>. QED  BY <1>9, <2>3, <2>4, <2>5 DEF RowInv, A, p
<1>. QED  BY <1>10, <1>11

\* A request at the own bucket of its instance.
LEMMA OwnStep ==
    ASSUME NEW q, IsRate(q), NEW log, NEW r, NEW more, NEW n, OneMore(log, r, more, n), ~r.up,
           NEW through \in SUBSET DOMAIN log, NEW own, OwnInv(q, r.on, own, log, through),
           NEW c, c = check(own, q.spec, Clock(q, r), r.sweep),
           NEW after, after = through \cup (IF c.ok THEN {n} ELSE {})
    PROVE OwnInv(q, r.on, c.bucket, more, after)
<1>. DEFINE w == q.spec.window
            cap == q.spec.count * q.spec.window
            now == Clock(q, r)
            gone == own = None \/ (r.sweep /\ own.seen < now - MaxIdle)
            full == IF gone THEN cap ELSE Refilled(own, q.spec, now)
            B == OwnOf(log, r.on)
            A == OwnOf(more, r.on)
            S == B \cap through
            T == A \cap after
            forgot == Forgot(q, more, A)
<1>1. /\ q.spec \in Specs /\ q.spec.count \in Nat \ {0} /\ w \in Nat \ {0}
      /\ cap \in Nat /\ w <= cap
  <2>1. q.spec.count \in Nat \ {0} /\ w \in Nat \ {0}  BY DEF IsRate, Specs
  <2>2. 1 * w <= q.spec.count * w  BY <2>1, Times
  <2>. QED  BY <2>1, <2>2 DEF IsRate
<1>2. now \in Int /\ r.at \in Nat  BY LeadProperties DEF OneMore, Requests
<1>3. /\ c.ok <=> full >= w
      /\ c.bucket = [tokens |-> IF c.ok THEN full - w ELSE full, seen |-> now]
  BY DEF check
<1>4. /\ A = B \cup {n} /\ n \notin DOMAIN log /\ n \in Nat
      /\ B \in SUBSET DOMAIN log /\ S \in SUBSET DOMAIN log /\ S \in SUBSET Nat
      /\ IsFiniteSet(S) /\ \A k \in B : k < n
      /\ \A k \in S \cup {n} : more[k].at \in Nat
  <2>1. A = B \cup {n}  BY DEF OwnOf, OneMore
  <2>2. B \in SUBSET DOMAIN log /\ S \in SUBSET DOMAIN log  BY DEF OwnOf
  <2>3. \A k \in DOMAIN log : k < n /\ k \in Nat /\ more[k] \in Requests  BY DEF OneMore
  <2>4. n \in Nat /\ more[n] \in Requests /\ n \notin DOMAIN log  BY <2>3 DEF OneMore
  <2>5. \A k \in S \cup {n} : more[k].at \in Nat  BY <2>2, <2>3, <2>4 DEF Requests
  <2>6. IsFiniteSet(S)  BY <2>2, FS_Subset DEF OneMore
  <2>. QED  BY <2>1, <2>2, <2>3, <2>4, <2>5, <2>6
<1>5. T = IF c.ok THEN S \cup {n} ELSE S  BY <1>4
<1>6. full \in Nat /\ full <= cap
  <2>1. CASE gone  BY <1>1, <2>1
  <2>2. CASE ~gone
    <3>1. own \in Buckets  BY <2>2 DEF OwnInv
    <3>. QED  BY <1>1, <1>2, <2>2, <3>1, RefilledProperties
  <2>. QED  BY <2>1, <2>2
<1>. HIDE DEF full, gone, cap, w, now, B, A, S, T, forgot
<1>7. ASSUME B # {}
      PROVE \E m \in B : /\ \A k \in B : k <= m
                         /\ own.tokens \in Nat /\ more[m].at \in Nat
                         /\ r.at - log[m].at >= w => full = cap
                         /\ ~forgot => /\ full <= own.tokens + (r.at - more[m].at) * q.spec.count
                                       /\ Room(q, more, S, own.tokens, more[m].at)
  <2>1. PICK m \in B : /\ \A k \in B : k <= m
                       /\ own \in Buckets /\ own # None /\ own.seen = Clock(q, log[m])
                       /\ Forgot(q, log, B) \/ Room(q, log, S, own.tokens, log[m].at)
    BY <1>7 DEF OwnInv, B, S
  <2>2. /\ m \in DOMAIN log /\ log[m] \in Requests /\ more[m] = log[m] /\ r \in Requests /\ more[n] = r
        /\ log[m].at <= r.at /\ log[m].at \in Nat /\ ~log[m].up /\ log[m].on = r.on
    BY <2>1 DEF OneMore, Requests, OwnOf, B
  <2>3. now - own.seen = r.at - log[m].at /\ own.seen \in Int /\ own.tokens \in Nat
    <3>1. /\ Clock(q, log[m]) \in Int /\ Clock(q, log[m]) - log[m].at = q.skew[r.on]
          /\ Clock(q, r) \in Int /\ Clock(q, r) - r.at = q.skew[r.on]
      BY <2>2, LeadProperties
    <3>. QED  BY <1>2, <2>1, <2>2, <3>1 DEF now, Buckets
  <2>. DEFINE refilled == Refilled(own, q.spec, now)
  <2>4. /\ refilled <= own.tokens + (r.at - log[m].at) * q.spec.count
        /\ r.at - log[m].at >= w => refilled = cap
    <3>1. LargerOf(0, now - own.seen) = r.at - log[m].at  BY <1>2, <2>2, <2>3 DEF LargerOf
    <3>2. /\ refilled <= own.tokens + LargerOf(0, now - own.seen) * q.spec.count
          /\ now - own.seen >= w => refilled = cap
      BY <1>1, <1>2, <2>1, RefilledProperties DEF cap, w
    <3>. HIDE DEF refilled
    <3>. QED  BY <2>3, <3>1, <3>2
  <2>5. full = IF gone THEN cap ELSE refilled  BY DEF full
  <2>6. gone => r.sweep /\ r.at - log[m].at > MaxIdle
    BY <1>2, <2>1, <2>2, <2>3, RateAssumption DEF gone
  <2>. HIDE DEF refilled
  <2>7. Forgot(q, log, B) => forgot
    <3>1. \A k \in B : more[k] = log[k]  BY <1>4 DEF OneMore
    <3>. QED  BY <1>4, <3>1 DEF Forgot, forgot
  <2>8. ASSUME ~forgot PROVE gone => r.at - log[m].at >= w
    <3>1. r.sweep => w <= MaxIdle  BY <1>1, <1>4, <2>2, <2>8, RateAssumption DEF forgot, Forgot, w
    <3>. QED  BY <1>1, <1>2, <2>2, <2>6, <3>1, RateAssumption
  <2>9. ASSUME ~forgot PROVE Room(q, more, S, own.tokens, more[m].at)
    <3>1. \A k \in S : more[k] = log[k]  BY <1>4 DEF OneMore
    <3>2. Room(q, log, S, own.tokens, log[m].at)  BY <2>1, <2>7, <2>9
    <3>. QED  BY <2>2, <3>1, <3>2, SameLog
  <2>. QED  BY <2>1, <2>2, <2>3, <2>4, <2>5, <2>8, <2>9
<1>8. ASSUME ~forgot PROVE BoundedOf(q, more, S)
  <2>1. \A k \in S \cup B : more[k] = log[k]  BY <1>4 DEF OneMore
  <2>2. ~Forgot(q, log, B)  BY <1>4, <1>8, <2>1 DEF Forgot, forgot
  <2>. QED  BY <2>1, <2>2, SameLog DEF OwnInv, B, S
<1>9. IdleOf(q, more, after, A, 0)
  <2>1. IdleOf(q, log, through, B, 0)  BY DEF OwnInv, B
  <2>2. n \in after \/ ~\A k \in B : r.at - log[k].at >= q.spec.window + 0
    <3>. SUFFICES ASSUME \A k \in B : r.at - log[k].at >= w PROVE c.ok  BY <1>1 DEF w
    <3>1. CASE B = {}  BY <1>1, <1>3, <3>1 DEF OwnInv, B, full, gone
    <3>2. CASE B # {}  BY <1>1, <1>3, <1>7, <3>2
    <3>. QED  BY <3>1, <3>2
  <2>3. through \subseteq after /\ B \in SUBSET DOMAIN log  BY <1>4
  <2>4. IdleOf(q, more, after, B \cup {n}, 0)  BY <2>1, <2>2, <2>3, IdleMore
  <2>. QED  BY <1>4, <2>4
<1>10. ASSUME ~forgot PROVE BoundedOf(q, more, T) /\ Room(q, more, T, c.bucket.tokens, more[n].at)
  <2>1. c.bucket.tokens = IF c.ok THEN full - w ELSE full  BY <1>3
  <2>2. more[n].at = r.at  BY DEF OneMore
  <2>3. CASE ~c.ok
    <3>1. B # {}  BY <1>1, <1>3, <2>3 DEF OwnInv, B, full, gone
    <3>2. PICK m \in B : /\ own.tokens \in Nat /\ more[m].at \in Nat
                         /\ full <= own.tokens + (r.at - more[m].at) * q.spec.count
                         /\ Room(q, more, S, own.tokens, more[m].at)
      BY <1>7, <1>10, <3>1
    <3>3. more[m].at \in Int  BY <3>2
    <3>. DEFINE t == more[m].at
    <3>4. \A k \in S : more[k].at \in Nat  BY <1>4
    <3>5. t \in Int /\ full <= own.tokens + (r.at - t) * q.spec.count /\ Room(q, more, S, own.tokens, t)
      BY <3>2, <3>3
    <3>. HIDE DEF t
    <3>6. Room(q, more, S, full, r.at)  BY <1>2, <1>4, <1>6, <3>2, <3>4, <3>5, Keep
    <3>. QED  BY <1>5, <1>8, <1>10, <2>1, <2>2, <2>3, <3>6
  <2>4. CASE c.ok
    <3>0. full \in w..cap  BY <1>1, <1>3, <1>6, <2>4
    <3>1. \E z \in Nat, t \in Nat : t \in Int /\ Full(q, more, S, n, z, t, full) /\ Room(q, more, S, z, t)
      <4>1. CASE S = {}
        <5>0. PICK z \in Nat : z \in Int  OBVIOUS
        <5>1. Full(q, more, S, n, z, z, full)  BY <3>0, <4>1 DEF Full, w, cap
        <5>2. Room(q, more, S, z, z)  BY <4>1 DEF Room
        <5>. QED  BY <5>0, <5>1, <5>2
      <4>2. CASE S # {}
        <5>1. PICK m \in B : /\ own.tokens \in Nat /\ more[m].at \in Nat
                             /\ full <= own.tokens + (r.at - more[m].at) * q.spec.count
                             /\ Room(q, more, S, own.tokens, more[m].at)
          BY <1>7, <1>10, <4>2 DEF S
        <5>2. Full(q, more, S, n, own.tokens, more[m].at, full)  BY <2>2, <3>0, <5>1 DEF Full, w, cap
        <5>3. more[m].at \in Int  BY <5>1
        <5>. QED  BY <5>1, <5>2, <5>3
      <4>. QED  BY <4>1, <4>2
    <3>2. \A k \in S : k < n  BY <1>4 DEF S
    <3>3. Room(q, more, S \cup {n}, full - q.spec.window, more[n].at) /\ BoundedOf(q, more, S \cup {n})
      BY <1>4, <1>8, <1>10, <3>1, <3>2, Admit
    <3>. QED  BY <1>5, <2>1, <2>4, <3>3 DEF w
  <2>. QED  BY <2>3, <2>4
<1>11. /\ c.bucket \in Buckets /\ c.bucket # None /\ c.bucket.seen = Clock(q, more[n])
       /\ n \in A /\ \A k \in A : k <= n
  <2>1. (IF c.ok THEN full - w ELSE full) \in Nat  BY <1>1, <1>3, <1>6
  <2>2. c.bucket \in Buckets /\ c.bucket.seen = now  BY <1>2, <1>3, <2>1 DEF Buckets
  <2>. QED  BY <1>4, <2>2, RateAssumption DEF Buckets, OneMore, now
<1>. QED  BY <1>9, <1>10, <1>11 DEF OwnInv, A, T, forgot

\* A request is nothing to the buckets that do not answer it.
LEMMA RowKept ==
    ASSUME NEW q, NEW log, NEW r, NEW more, NEW n, OneMore(log, r, more, n), ~r.up,
           NEW through \in SUBSET DOMAIN log, NEW row, RowInv(q, row, log, through),
           NEW after, after = through \cup {n} \/ after = through
    PROVE RowInv(q, row, more, after)
<1>. DEFINE B == RowOf(log)
            S == B \cap through
<1>1. /\ RowOf(more) = B /\ B \in SUBSET DOMAIN log /\ S = RowOf(more) \cap after /\ through \subseteq after
      /\ \A k \in S : more[k] = log[k]
  <2>1. RowOf(more) = B /\ B \in SUBSET DOMAIN log /\ n \notin B  BY DEF RowOf, OneMore
  <2>2. \A k \in B : more[k] = log[k]  BY <2>1 DEF OneMore
  <2>. QED  BY <2>1, <2>2
<1>2. IdleOf(q, more, after, B, q.ahead + MaxLate)  BY <1>1, IdleMore DEF RowInv
<1>3. BoundedOf(q, more, S)  BY <1>1, SameLog DEF RowInv
<1>4. ASSUME S # {}
      PROVE /\ row \in Buckets /\ row # None
            /\ \E m \in S : /\ \A k \in S : k <= m
                            /\ row.seen = Clock(q, more[m])
                            /\ Room(q, more, S, row.tokens, more[m].at)
  <2>1. PICK m \in S : /\ \A k \in S : k <= m
                       /\ row.seen = Clock(q, log[m])
                       /\ Room(q, log, S, row.tokens, log[m].at)
    BY <1>4 DEF RowInv
  <2>2. Room(q, more, S, row.tokens, log[m].at)  BY <1>1, <2>1, SameLog
  <2>. QED  BY <1>1, <1>4, <2>1, <2>2 DEF RowInv
<1>5. S = {} => row = None  BY DEF RowInv
<1>. QED  BY <1>1, <1>2, <1>3, <1>4, <1>5 DEF RowInv

LEMMA OwnKept ==
    ASSUME NEW q, NEW log, NEW r, NEW more, NEW n, OneMore(log, r, more, n),
           NEW i, r.up \/ r.on # i,
           NEW through \in SUBSET DOMAIN log, NEW own, OwnInv(q, i, own, log, through),
           NEW after, after = through \cup {n} \/ after = through
    PROVE OwnInv(q, i, own, more, after)
<1>. DEFINE B == OwnOf(log, i)
            S == B \cap through
<1>1. /\ OwnOf(more, i) = B /\ B \in SUBSET DOMAIN log /\ S = B \cap after /\ through \subseteq after
      /\ \A k \in B : more[k] = log[k]
  <2>1. OwnOf(more, i) = B /\ B \in SUBSET DOMAIN log /\ n \notin B  BY DEF OwnOf, OneMore
  <2>2. \A k \in B : more[k] = log[k]  BY <2>1 DEF OneMore
  <2>. QED  BY <2>1, <2>2
<1>2. IdleOf(q, more, after, B, 0)  BY <1>1, IdleMore DEF OwnInv
<1>3. BoundedOf(q, log, S) => BoundedOf(q, more, S)  BY <1>1, SameLog
<1>4. Forgot(q, log, B) <=> Forgot(q, more, B)  BY <1>1 DEF Forgot
<1>5. ASSUME B # {}
      PROVE /\ own \in Buckets /\ own # None
            /\ \E m \in B : /\ \A k \in B : k <= m
                            /\ own.seen = Clock(q, more[m])
                            /\ Forgot(q, more, B) \/ Room(q, more, S, own.tokens, more[m].at)
  <2>1. PICK m \in B : /\ \A k \in B : k <= m
                       /\ own.seen = Clock(q, log[m])
                       /\ Forgot(q, log, B) \/ Room(q, log, S, own.tokens, log[m].at)
    BY <1>5 DEF OwnInv
  <2>2. Room(q, log, S, own.tokens, log[m].at) => Room(q, more, S, own.tokens, log[m].at)
    <3>1. \A k \in S : more[k] = log[k]  BY <1>1
    <3>. QED  BY <3>1, SameLog
  <2>. QED  BY <1>1, <1>4, <1>5, <2>1, <2>2 DEF OwnInv
<1>6. Forgot(q, more, B) \/ BoundedOf(q, more, S)  BY <1>3, <1>4 DEF OwnInv
<1>7. B = {} => own = None  BY DEF OwnInv
<1>. QED  BY <1>1, <1>2, <1>5, <1>6, <1>7 DEF OwnInv

\* A request that comes after those of the log is the next of it.
LEMMA LoggedRequest ==
    ASSUME NEW log \in Seq(Requests), NEW r \in Requests, \A k \in DOMAIN log : log[k].at <= r.at
    PROVE OneMore(log, r, Append(log, r), Len(log) + 1)
<1>. DEFINE more == Append(log, r)
<1>1. /\ Len(log) \in Nat /\ DOMAIN log = 1..Len(log) /\ more \in Seq(Requests) /\ Len(more) = Len(log) + 1
      /\ more[Len(log) + 1] = r /\ \A k \in 1..Len(log) : more[k] = log[k] /\ log[k] \in Requests
  OBVIOUS
<1>2. DOMAIN more = DOMAIN log \cup {Len(log) + 1}
  <2>1. DOMAIN more = 1..Len(more)  BY <1>1
  <2>. HIDE DEF more
  <2>. QED  BY <1>1, <2>1
<1>3. IsFiniteSet(DOMAIN log)  BY <1>1, CountTo
<1>. HIDE DEF more
<1>4. OneMore(log, r, more, Len(log) + 1)  BY <1>1, <1>2, <1>3 DEF OneMore
<1>. QED  BY <1>4 DEF more

LEMMA FreshInv ==
    ASSUME NEW q, IsRate(q)
    PROVE RateInv(q, Fresh)
<1>1. /\ Fresh.row = None /\ Fresh.log = <<>> /\ Fresh.through = {}
      /\ Fresh.own = [i \in Instances |-> None] /\ \A i \in Instances : Fresh.own[i] = None
  BY DEF Fresh
<1>2. RowOf(<<>>) = {} /\ \A i : OwnOf(<<>>, i) = {}  BY DEF RowOf, OwnOf
<1>3. RowInv(q, None, <<>>, {})  BY <1>2 DEF RowInv, IdleOf, BoundedOf
<1>4. \A i \in Instances : OwnInv(q, i, None, <<>>, {})  BY <1>2 DEF OwnInv, IdleOf, BoundedOf
<1>5. Fresh.own = [i \in Instances |-> Fresh.own[i]]  BY <1>1
<1>. QED  BY <1>1, <1>3, <1>4, <1>5 DEF RateInv

LEMMA GateInv ==
    ASSUME NEW q, NEW s, RateInv(q, s), NEW r \in Requests, \A k \in DOMAIN s.log : s.log[k].at <= r.at
    PROVE RateInv(q, Gate(q, s, r))
<1>. DEFINE t == Gate(q, s, r)
            n == Len(s.log) + 1
            c == IF r.up THEN check_rate_limit_distributed(s.row, q.spec, Clock(q, r))
                 ELSE check(s.own[r.on], q.spec, Clock(q, r), r.sweep)
            after == s.through \cup (IF c.ok THEN {n} ELSE {})
<1>1. /\ t.row = (IF r.up THEN c.bucket ELSE s.row)
      /\ t.own = (IF r.up THEN s.own ELSE [s.own EXCEPT ![r.on] = c.bucket])
      /\ t.log = Append(s.log, r) /\ t.through = after
  BY DEF Gate
<1>2. OneMore(s.log, r, t.log, n) /\ IsRate(q) /\ s.through \in SUBSET DOMAIN s.log
  BY <1>1, LoggedRequest DEF RateInv
<1>3. /\ RowInv(q, s.row, s.log, s.through) /\ \A i \in Instances : OwnInv(q, i, s.own[i], s.log, s.through)
      /\ s.own = [i \in Instances |-> s.own[i]]
  BY DEF RateInv
<1>4. r.on \in Instances /\ r.up \in BOOLEAN  BY DEF Requests
<1>. HIDE DEF n, t
<1>5. RowInv(q, t.row, t.log, t.through)
  <2>1. CASE r.up
    <3>1. c = check_rate_limit_distributed(s.row, q.spec, Clock(q, r)) /\ t.row = c.bucket  BY <1>1, <2>1
    <3>2. t.through = s.through \cup (IF c.ok THEN {n} ELSE {})  BY <1>1
    <3>. HIDE DEF c
    <3>3. RowInv(q, c.bucket, t.log, t.through)
      <4>. DEFINE row == s.row
                  log == s.log
                  thr == s.through
                  more == t.log
                  aft == t.through
      <4>1. OneMore(log, r, more, n) /\ IsRate(q) /\ thr \in SUBSET DOMAIN log  BY <1>2
      <4>2. RowInv(q, row, log, thr)  BY <1>3
      <4>3. c = check_rate_limit_distributed(row, q.spec, Clock(q, r))  BY <3>1
      <4>4. aft = thr \cup (IF c.ok THEN {n} ELSE {})  BY <3>2
      <4>. HIDE DEF row, log, thr, more, aft
      <4>5. RowInv(q, c.bucket, more, aft)  BY <2>1, <4>1, <4>2, <4>3, <4>4, RowStep
      <4>. QED  BY <4>5 DEF more, aft
    <3>. QED  BY <3>1, <3>3
  <2>2. CASE ~r.up
    <3>1. t.row = s.row /\ (t.through = s.through \cup {n} \/ t.through = s.through)  BY <1>1, <2>2
    <3>. HIDE DEF c
    <3>2. RowInv(q, s.row, t.log, t.through)  BY <1>2, <1>3, <2>2, <3>1, RowKept
    <3>. QED  BY <3>1, <3>2
  <2>. QED  BY <2>1, <2>2
<1>6. ASSUME NEW i \in Instances PROVE OwnInv(q, i, t.own[i], t.log, t.through)
  <2>1. CASE r.up \/ r.on # i
    <3>1. t.through = s.through \cup {n} \/ t.through = s.through  BY <1>1
    <3>2. t.own[i] = s.own[i]  BY <1>1, <1>3, <2>1
    <3>. QED  BY <1>2, <1>3, <2>1, <3>1, <3>2, OwnKept
  <2>2. CASE ~r.up /\ r.on = i
    <3>1. c = check(s.own[r.on], q.spec, Clock(q, r), r.sweep) /\ t.own[i] = c.bucket  BY <1>1, <1>3, <1>4, <2>2
    <3>2. t.through = s.through \cup (IF c.ok THEN {n} ELSE {}) /\ OwnInv(q, r.on, s.own[r.on], s.log, s.through)
      BY <1>1, <1>3, <1>4
    <3>. HIDE DEF c
    <3>3. OwnInv(q, r.on, c.bucket, t.log, t.through)  BY <1>2, <2>2, <3>1, <3>2, OwnStep
    <3>. QED  BY <2>2, <3>1, <3>3
  <2>. QED  BY <2>1, <2>2
<1>7. t.log \in Seq(Requests) /\ \A k, j \in DOMAIN t.log : k <= j => t.log[k].at <= t.log[j].at
  <2>1. \A k \in DOMAIN s.log : \A j \in DOMAIN s.log : k <= j => s.log[k].at <= s.log[j].at  BY DEF RateInv
  <2>2. r.at <= r.at /\ \A k \in DOMAIN s.log : k \in Nat /\ ~(n <= k)  BY <1>2 DEF OneMore, Requests
  <2>. QED  BY <1>2, <2>1, <2>2 DEF OneMore
<1>8. t.through \subseteq DOMAIN t.log  BY <1>1, <1>2 DEF OneMore
<1>9. t.own = [i \in Instances |-> t.own[i]]
  <2>. HIDE DEF c
  <2>. QED  BY <1>1, <1>3
<1>. QED  BY <1>2, <1>5, <1>6, <1>7, <1>8, <1>9 DEF RateInv, t

\* The invariant of the calls: the buckets are as the requests of the log left them.
RateIInv == Asked("rate") /\ RateInv(question, Served)

LEMMA RateHonoured == RateIInv => LimitHonoured
<1>. SUFFICES ASSUME RateIInv, Answered("rate") PROVE LimitHonoured  BY DEF LimitHonoured
<1>. USE DEF Log
<1>1. RateInv(question, Served)  BY DEF RateIInv
<1>2. OfRow = RowOf(Log) /\ \A i : OfOwn(i) = OwnOf(Log, i)  BY DEF OfRow, OfOwn, RowOf, OwnOf
<1>3. \A B, slack : IdleServed(B, slack) <=> IdleOf(question, Log, Served.through, B, slack)
  BY DEF IdleServed, IdleOf
<1>4. \A some : Handovers(some) = HandoversOf(question, Log, some)
  BY DEF Handovers, HandoversOf, Lead, LeadOf
<1>5. ASSUME NEW B, BoundedOf(question, Log, B \cap Served.through) PROVE Bounded(B)
  BY <1>4, <1>5 DEF Bounded, BoundedOf, Through, Spread
<1>6. \A B : Forgotten(B) <=> Forgot(question, Log, B)  BY DEF Forgotten, Forgot
<1>7. Bounded(OfRow) /\ IdleServed(OfRow, Spread)
  BY <1>1, <1>2, <1>3, <1>5 DEF RateInv, RowInv, Spread
<1>8. ASSUME NEW i \in Instances
      PROVE IdleServed(OfOwn(i), 0) /\ (Bounded(OfOwn(i)) \/ Forgotten(OfOwn(i)))
  BY <1>1, <1>2, <1>3, <1>5, <1>6 DEF RateInv, OwnInv
<1>. QED  BY <1>7, <1>8 DEF LimitHonoured

(* For any number of requests, any number of servers, any limit, any        *)
(* distance of their clocks and any wait between now_ms and the row, a      *)
(* bucket lets through no more than LimitHonoured says of it, and what it   *)
(* says must be let through.                                                *)
THEOREM LimitCorrect == RateSpec => []LimitHonoured
<1>1. AskRate => RateIInv
  <2>. SUFFICES ASSUME AskRate PROVE RateIInv  OBVIOUS
  <2>1. Asked("rate") /\ IsRate(question) /\ Served = Fresh  BY DEF AskRate, IsRate, Served
  <2>. QED  BY <2>1, FreshInv DEF RateIInv
<1>2. RateIInv /\ [\E r \in Requests : Request(r)]_<<question, answer>> => RateIInv'
  <2>. SUFFICES ASSUME RateIInv, [\E r \in Requests : Request(r)]_<<question, answer>> PROVE RateIInv'  OBVIOUS
  <2>1. ASSUME NEW r \in Requests, Request(r) PROVE RateIInv'
    <3>1. RateInv(question, Gate(question, Served, r))  BY <2>1, GateInv DEF Request, RateIInv, Log
    <3>2. RateInv(question, Fresh)  BY FreshInv DEF RateIInv, RateInv
    <3>3. question' = question /\ (Served' = Gate(question, Served, r) \/ Served' = Fresh)
      BY <2>1 DEF Request, Served
    <3>. QED  BY <3>1, <3>2, <3>3 DEF RateIInv, Asked
  <2>2. CASE UNCHANGED <<question, answer>>  BY <2>2 DEF RateIInv, Served, Asked
  <2>. QED  BY <2>1, <2>2
<1>. QED  BY <1>1, <1>2, RateHonoured, PTL DEF RateSpec
-----------------------------------------------------------------------------
(* Numbers                                                                  *)

LEMMA DivMod ==
    ASSUME NEW n \in Nat, NEW d \in Nat \ {0}
    PROVE /\ n \div d \in Nat /\ n % d \in Nat /\ n % d < d
          /\ n = (n \div d) * d + (n % d)
<1>1. n \div d \in Nat /\ n % d \in 0..d - 1  OBVIOUS
<1>2. n = (n \div d) * d + (n % d)  OBVIOUS
<1>. QED  BY <1>1, <1>2

LEMMA Product ==
    ASSUME NEW x \in Nat, NEW y \in Nat, NEW z \in Nat, x <= y
    PROVE x * z <= y * z /\ x * z \in Nat /\ y * z \in Nat
OBVIOUS

\* A number is its sign times its magnitude.
LEMMA Signed ==
    ASSUME NEW a \in Int
    PROVE /\ Arith!Magnitude(a) \in Nat /\ Abs(a) = Arith!Magnitude(a)
          /\ \/ a >= 0 /\ Arith!Sign(a) = 1 /\ a = Arith!Magnitude(a)
             \/ a < 0 /\ Arith!Sign(a) = -1 /\ a = -Arith!Magnitude(a)
BY DEF Arith!Magnitude, Arith!Sign, Abs

Apart(n, d) == (n < 0) # (d < 0)

\* What the division by d of n leaves, in magnitudes.
Divides(n, d, q, r) ==
    \E whole \in Nat, left \in Nat :
        /\ left < Abs(d) /\ Abs(n) = whole * Abs(d) + left /\ left = Abs(n) % Abs(d)
        /\ r = (IF n < 0 THEN -left ELSE left)
        /\ q = (IF Apart(n, d) THEN -whole ELSE whole)

LEMMA Division ==
    ASSUME NEW n \in Int, NEW d \in Int \ {0}
    PROVE Divides(n, d, Arith!Quotient(n, d), Arith!Remainder(n, d))
<1>. DEFINE whole == Abs(n) \div Abs(d)
            left == Abs(n) % Abs(d)
<1>1. Abs(n) \in Nat /\ Abs(d) \in Nat \ {0}  BY DEF Abs
<1>2. whole \in Nat /\ left \in Nat /\ left < Abs(d) /\ Abs(n) = whole * Abs(d) + left  BY <1>1, DivMod
<1>3. /\ Arith!Quotient(n, d) = Arith!Sign(n) * Arith!Sign(d) * whole
      /\ Arith!Remainder(n, d) = Arith!Sign(n) * left
  BY Signed DEF Arith!Quotient, Arith!Remainder
<1>. HIDE DEF whole
<1>4. /\ Arith!Sign(n) = IF n < 0 THEN -1 ELSE 1
      /\ Arith!Sign(d) = IF d < 0 THEN -1 ELSE 1
  BY DEF Arith!Sign
<1>5. Arith!Quotient(n, d) = (IF Apart(n, d) THEN -whole ELSE whole)  BY <1>2, <1>3, <1>4 DEF Apart
<1>6. Arith!Remainder(n, d) = (IF n < 0 THEN -left ELSE left)  BY <1>2, <1>3, <1>4
<1>. QED  BY <1>2, <1>5, <1>6 DEF Divides

\* A quotient fits when both operands do, but for the least number by -1; by more than 1
\* it leaves room for the rounding.
LEMMA QuotientFits ==
    ASSUME NEW max \in Nat \ {0}, NEW n \in Width(max), NEW d \in Int \ {0}, NEW q, NEW r, Divides(n, d, q, r)
    PROVE /\ q \in Int /\ r \in Int
          /\ ~(d = -1 /\ n = -max - 1) => Fits(max, q)
          /\ (r # 0 /\ max >= 2) => Fits(max, q - 1) /\ Fits(max, q + 1)
<1>1. PICK whole \in Nat, left \in Nat :
         /\ left < Abs(d) /\ Abs(n) = whole * Abs(d) + left
         /\ r = (IF n < 0 THEN -left ELSE left)
         /\ q = (IF Apart(n, d) THEN -whole ELSE whole)
  BY DEF Divides
<1>2. n \in Int /\ Abs(n) \in Nat /\ Abs(n) <= max + 1 /\ Abs(d) \in Nat \ {0}  BY DEF Width, Abs
<1>3. q \in Int /\ r \in Int  BY <1>1
<1>4. CASE Abs(d) = 1
  <2>1. Abs(n) = whole /\ r = 0  BY <1>1, <1>2, <1>4
  <2>2. q = n \/ (q = -n /\ d = -1)  BY <1>1, <1>2, <1>4, <2>1 DEF Abs, Apart, Apart
  <2>. QED  BY <1>3, <2>1, <2>2 DEF Width, Fits
<1>5. CASE Abs(d) # 1
  <2>1. 2 * whole <= whole * Abs(d) /\ whole * Abs(d) \in Nat
    <3>1. 2 <= Abs(d)  BY <1>2, <1>5
    <3>2. 2 * whole <= Abs(d) * whole /\ Abs(d) * whole \in Nat  BY <1>2, <3>1, Product
    <3>3. Abs(d) * whole = whole * Abs(d)  BY <1>2
    <3>. QED  BY <3>2, <3>3
  <2>2. 2 * whole + left <= max + 1  BY <1>1, <1>2, <2>1
  <2>3. -whole <= q /\ q <= whole /\ (r # 0 => 1 <= left)  BY <1>1
  <2>. QED  BY <1>3, <2>2, <2>3 DEF Fits
<1>. QED  BY <1>4, <1>5

\* What a division gives, and what it leaves.
LEMMA Divided ==
    ASSUME NEW n \in Int, NEW d \in Int \ {0}, NEW q, NEW r, Divides(n, d, q, r)
    PROVE /\ q \in Int /\ r \in Int /\ q * d \in Int /\ n = q * d + r
          /\ Abs(r) < Abs(d) /\ Abs(r) = Abs(n) % Abs(d) /\ (r = 0 \/ (r < 0) = (n < 0))
          /\ Abs(q * d) + Abs(r) = Abs(n)
          /\ (q * d < 0 => n < 0) /\ (q * d > 0 => n > 0)
          /\ Truncated(q, n, d)
<1>1. PICK whole \in Nat, left \in Nat :
         /\ left < Abs(d) /\ Abs(n) = whole * Abs(d) + left /\ left = Abs(n) % Abs(d)
         /\ r = (IF n < 0 THEN -left ELSE left)
         /\ q = (IF Apart(n, d) THEN -whole ELSE whole)
  BY DEF Divides
<1>2. q \in Int /\ whole * Abs(d) \in Nat /\ q * d = (IF n < 0 THEN -(whole * Abs(d)) ELSE whole * Abs(d))
  <2>1. q \in Int /\ Abs(d) \in Nat /\ whole * Abs(d) \in Nat
    <3>1. q \in Int /\ Abs(d) \in Nat  BY <1>1 DEF Abs
    <3>. QED  BY <3>1, Product
  <2>2. CASE n < 0 /\ d < 0
    <3>1. q = whole /\ d = -Abs(d)  BY <1>1, <2>2 DEF Abs, Apart
    <3>2. q * d = -(whole * Abs(d))  BY <2>1, <3>1
    <3>. QED  BY <2>1, <2>2, <3>2
  <2>3. CASE n < 0 /\ ~(d < 0)
    <3>1. q = -whole /\ d = Abs(d)  BY <1>1, <2>3 DEF Abs, Apart
    <3>2. q * d = -(whole * Abs(d))  BY <2>1, <3>1
    <3>. QED  BY <2>1, <2>3, <3>2
  <2>4. CASE ~(n < 0) /\ d < 0
    <3>1. q = -whole /\ d = -Abs(d)  BY <1>1, <2>4 DEF Abs, Apart
    <3>2. q * d = whole * Abs(d)  BY <2>1, <3>1
    <3>. QED  BY <2>1, <2>4, <3>2
  <2>5. CASE ~(n < 0) /\ ~(d < 0)
    <3>1. q = whole /\ d = Abs(d)  BY <1>1, <2>5 DEF Abs, Apart
    <3>2. q * d = whole * Abs(d)  BY <2>1, <3>1
    <3>. QED  BY <2>1, <2>5, <3>2
  <2>. QED  BY <2>1, <2>2, <2>3, <2>4, <2>5
<1>3. r \in Int /\ Abs(r) = left /\ (r = 0 \/ (r < 0) = (n < 0))  BY <1>1 DEF Abs
<1>. DEFINE p == whole * Abs(d)
            back == q * d
<1>4. p \in Nat /\ back = (IF n < 0 THEN -p ELSE p) /\ Abs(n) = p + left  BY <1>1, <1>2
<1>. HIDE DEF p, back
<1>5. back \in Int /\ n = back + r /\ Abs(back) + Abs(r) = Abs(n) /\ (back < 0 => n < 0) /\ (back > 0 => n > 0)
  BY <1>1, <1>3, <1>4 DEF Abs
<1>6. Abs(back) <= Abs(n) /\ Abs(n - back) = Abs(r)  BY <1>3, <1>5 DEF Abs
<1>7. q = 0 \/ (q < 0) = ((n < 0) # (d < 0))  BY <1>1 DEF Apart
<1>8. Abs(r) < Abs(d) /\ Abs(r) = Abs(n) % Abs(d)  BY <1>1, <1>3
<1>. QED  BY <1>2, <1>3, <1>5, <1>6, <1>7, <1>8 DEF back, Truncated

LEMMA IntCorrect ==
    ASSUME NEW op \in {"+", "-", "*", "/", "%"}, NEW a \in Width(MaxInt), NEW b \in Width(MaxInt)
    PROVE IntExact(op, a, b, Arith!checked(op, MaxInt, a, b))
<1>. DEFINE r == Arith!checked(op, MaxInt, a, b)
<1>0. a \in Int /\ b \in Int  BY NumbersAssumption DEF Width
<1>1. CASE op = "+"  BY <1>0, <1>1 DEF IntExact, ExactOrError, Sum, Fits, Arith!checked, Arith!Within
<1>2. CASE op = "-"  BY <1>0, <1>2 DEF IntExact, ExactOrError, Sum, Fits, Arith!checked, Arith!Within
<1>3. CASE op = "*"  BY <1>0, <1>3 DEF IntExact, ExactOrError, Fits, Arith!checked, Arith!Within
<1>4. CASE op \in {"/", "%"} /\ (b = 0 \/ (b = -1 /\ a = -MaxInt - 1))
  <2>1. r = None  BY <1>4 DEF Arith!checked
  <2>. QED  BY <1>4, <2>1 DEF IntExact
<1>5. CASE op \in {"/", "%"} /\ ~(b = 0 \/ (b = -1 /\ a = -MaxInt - 1))
  <2>. DEFINE q == Arith!Quotient(a, b)
              rest == Arith!Remainder(a, b)
  <2>1. Divides(a, b, q, rest)  BY <1>0, <1>5, Division
  <2>2. q \in Int /\ rest \in Int /\ Fits(MaxInt, q)  BY <1>0, <1>5, <2>1, NumbersAssumption, QuotientFits
  <2>3. /\ Truncated(q, a, b) /\ Abs(rest) < Abs(b) /\ (rest = 0 \/ (rest < 0) = (a < 0)) /\ q * b + rest = a
    BY <1>0, <1>5, <2>1, Divided
  <2>4. op = "/" => r = q  BY <1>5, <2>2 DEF Arith!checked, Arith!Within, Fits
  <2>5. op = "%" => r = rest  BY <1>5 DEF Arith!checked
  <2>. HIDE DEF r, q, rest
  <2>6. q \in Width(MaxInt)  BY <2>2, NumbersAssumption DEF Fits, Width
  <2>7. Left(rest, a, b)  BY <2>3, <2>6 DEF Left
  <2>8. op = "/" => IntExact(op, a, b, r)  BY <1>5, <2>3, <2>4 DEF IntExact
  <2>9. op = "%" => IntExact(op, a, b, r)  BY <1>5, <2>5, <2>7 DEF IntExact
  <2>. QED  BY <1>5, <2>8, <2>9 DEF r
<1>. QED  BY <1>1, <1>2, <1>3, <1>4, <1>5
-----------------------------------------------------------------------------
\* The quotient is the nearest, or the next one away from zero is.
LEMMA Rounding ==
    ASSUME NEW n \in Int, NEW d \in Int \ {0}, NEW q, NEW r, Divides(n, d, q, r),
           NEW s \in {-1, 1}, s = IF Apart(n, d) THEN -1 ELSE 1
    PROVE /\ (r = 0 \/ 2 * Abs(r) < Abs(d)) => Nearest(q, n, d)
          /\ (r # 0 /\ Abs(d) <= 2 * Abs(r)) => Nearest(q + s, n, d)
<1>. DEFINE p == q * d
            up == (q + s) * d
<1>1. /\ q \in Int /\ r \in Int /\ p \in Int /\ n = p + r
      /\ Abs(r) < Abs(d) /\ (r = 0 \/ (r < 0) = (n < 0)) /\ Abs(p) + Abs(r) = Abs(n)
      /\ (p < 0 => n < 0) /\ (p > 0 => n > 0)
  BY Divided
<1>2. up = p + s * d  BY <1>1
<1>3. s * d = IF n < 0 THEN -Abs(d) ELSE Abs(d)  BY DEF Abs, Apart
<1>. HIDE DEF p, up
<1>4. ASSUME r = 0 \/ 2 * Abs(r) < Abs(d) PROVE Nearest(q, n, d)
  <2>1. 2 * Abs(p - n) < Abs(d)  BY <1>1, <1>4 DEF Abs
  <2>. QED  BY <2>1 DEF Nearest, p
<1>5. ASSUME r # 0, Abs(d) <= 2 * Abs(r) PROVE Nearest(q + s, n, d)
  <2>1. Abs(up - n) = Abs(d) - Abs(r) /\ Abs(up) = Abs(p) + Abs(d)
    BY <1>1, <1>2, <1>3, <1>5 DEF Abs
  <2>2. 2 * Abs(up - n) <= Abs(d) /\ Abs(up) > Abs(n)
    <3>1. Abs(d) \in Nat /\ Abs(r) \in Nat /\ Abs(p) \in Nat /\ Abs(n) \in Nat  BY <1>1 DEF Abs
    <3>. QED  BY <1>1, <1>5, <2>1, <3>1
  <2>3. Abs(up - n) \in Int /\ Abs(d) \in Int  BY <1>1, <1>2, <1>3 DEF Abs
  <2>. QED  BY <2>2, <2>3 DEF Nearest, up
<1>. QED  BY <1>4, <1>5

\* div_round rounds, unless something on the way does not fit.
LEMMA RoundCorrect ==
    ASSUME NEW n \in Width(MaxWide), NEW d \in Width(MaxWide) \ {0}
    PROVE LET r == Arith!div_round(n, d)
          IN \/ r \in Int /\ Nearest(r, n, d)
             \/ r = None /\ (d = -MaxWide - 1 \/ (d = -1 /\ n = -MaxWide - 1) \/ 2 * (Abs(n) % Abs(d)) > MaxWide)
<1>. DEFINE res == Arith!div_round(n, d)
            q == Arith!Quotient(n, d)
            rest == Arith!Remainder(n, d)
            s == Arith!Sign(n) * Arith!Sign(d)
            double == Arith!checked("*", MaxWide, Arith!Magnitude(rest), 2)
            whole == Arith!checked("/", MaxWide, n, d)
<1>0. n \in Int /\ d \in Int \ {0} /\ MaxWide \in Nat \ {0} /\ MaxWide >= 2 /\ None \notin Int
  BY NumbersAssumption DEF Width
<1>1. Divides(n, d, q, rest)  BY <1>0, Division
<1>2. s = (IF Apart(n, d) THEN -1 ELSE 1) /\ s \in {-1, 1}  BY <1>0 DEF Arith!Sign, Apart
<1>3. /\ q \in Int /\ rest \in Int
      /\ ~(d = -1 /\ n = -MaxWide - 1) => Fits(MaxWide, q)
      /\ rest # 0 => Fits(MaxWide, q - 1) /\ Fits(MaxWide, q + 1)
  BY <1>0, <1>1, QuotientFits
<1>4. Abs(rest) = Abs(n) % Abs(d) /\ Abs(rest) \in Nat /\ Abs(d) \in Nat
  <2>1. Abs(rest) = Abs(n) % Abs(d)  BY <1>0, <1>1, Divided
  <2>. HIDE DEF q, rest
  <2>2. Abs(rest) \in Nat /\ Abs(d) \in Nat  BY <1>0, <1>3 DEF Abs
  <2>. QED  BY <2>1, <2>2
<1>5. /\ (rest = 0 \/ 2 * Abs(rest) < Abs(d)) => Nearest(q, n, d)
      /\ (rest # 0 /\ Abs(d) <= 2 * Abs(rest)) => Nearest(q + s, n, d)
  BY <1>0, <1>1, <1>2, Rounding
<1>6. whole = IF d = -1 /\ n = -MaxWide - 1 THEN None ELSE q
  BY <1>0, <1>3 DEF Arith!checked, Arith!Within, Fits
<1>7. double = IF 2 * Abs(rest) <= MaxWide THEN 2 * Abs(rest) ELSE None
  BY <1>0, <1>3, <1>4, Signed DEF Arith!checked, Arith!Within
<1>8. Arith!Within(MaxWide, Arith!Magnitude(d)) = IF d = -MaxWide - 1 THEN None ELSE Abs(d)
  BY <1>0, Signed DEF Arith!Within, Abs, Width
<1>9. Arith!Magnitude(d) = Abs(d)  BY <1>0, Signed
<1>10. rest # 0 => Arith!Within(MaxWide, q + s) = q + s  BY <1>0, <1>2, <1>3 DEF Arith!Within, Fits
<1>11. res = IF d = 0 \/ whole = None THEN None
             ELSE IF rest = 0 THEN q
             ELSE IF double = None \/ Arith!Within(MaxWide, Arith!Magnitude(d)) = None THEN None
             ELSE IF double < Arith!Magnitude(d) THEN q
             ELSE Arith!Within(MaxWide, q + s)
  BY DEF Arith!div_round
<1>. HIDE DEF res, q, rest, s, double, whole
<1>12. CASE d = -1 /\ n = -MaxWide - 1  BY <1>6, <1>11, <1>12 DEF res
<1>13. CASE ~(d = -1 /\ n = -MaxWide - 1) /\ rest = 0
  <2>1. res = q  BY <1>0, <1>3, <1>6, <1>11, <1>13
  <2>. QED  BY <1>3, <1>5, <1>13, <2>1 DEF res
<1>14. CASE ~(d = -1 /\ n = -MaxWide - 1) /\ rest # 0
  <2>1. whole # None /\ d # 0  BY <1>0, <1>3, <1>6, <1>14
  <2>2. CASE 2 * Abs(rest) > MaxWide \/ d = -MaxWide - 1
    <3>1. double = None \/ Arith!Within(MaxWide, Arith!Magnitude(d)) = None  BY <1>0, <1>4, <1>7, <1>8, <2>2
    <3>2. res = None  BY <1>11, <1>14, <2>1, <3>1
    <3>. QED  BY <1>4, <2>2, <3>2 DEF res
  <2>3. CASE ~(2 * Abs(rest) > MaxWide \/ d = -MaxWide - 1)
    <3>1. double = 2 * Abs(rest) /\ double # None /\ Arith!Within(MaxWide, Arith!Magnitude(d)) # None
      BY <1>0, <1>4, <1>7, <1>8, <2>3
    <3>2. res = IF 2 * Abs(rest) < Abs(d) THEN q ELSE q + s
      BY <1>9, <1>10, <1>11, <1>14, <2>1, <3>1
    <3>3. 2 * Abs(rest) < Abs(d) \/ Abs(d) <= 2 * Abs(rest)  BY <1>4
    <3>. QED  BY <1>2, <1>3, <1>5, <1>14, <3>2, <3>3 DEF res
  <2>. QED  BY <2>2, <2>3
<1>. QED  BY <1>12, <1>13, <1>14

LEMMA DecimalCorrect ==
    ASSUME NEW op \in {"+", "-", "*", "/"}, NEW a \in Width(MaxWide), NEW b \in Width(MaxWide)
    PROVE DecimalExact(op, a, b, Arith!decimal(op, a, b))
<1>0. /\ a \in Int /\ b \in Int /\ Scale \in Int /\ Scale \in Nat \ {0} /\ 2 * Scale <= MaxWide
      /\ MaxWide \in Nat \ {0} /\ None \notin Int
  BY NumbersAssumption DEF Width
<1>1. ASSUME NEW x \in Int, NEW y \in Int
      PROVE /\ x * y \in Int
            /\ Arith!checked("*", MaxWide, x, y) = IF Fits(MaxWide, x * y) THEN x * y ELSE None
            /\ Fits(MaxWide, x * y) => x * y \in Width(MaxWide) /\ x * y # None
  BY <1>0 DEF Arith!checked, Arith!Within, Fits, Width
<1>2. CASE op = "+"
  BY <1>0, <1>2 DEF DecimalExact, ExactOrError, Sum, Fits, Arith!decimal, Arith!checked, Arith!Within
<1>3. CASE op = "-"
  BY <1>0, <1>3 DEF DecimalExact, ExactOrError, Sum, Fits, Arith!decimal, Arith!checked, Arith!Within
<1>4. CASE op = "*"
  <2>. DEFINE n == a * b
  <2>1. CASE ~Fits(MaxWide, n)
    <3>1. Arith!decimal(op, a, b) = None  BY <1>0, <1>1, <1>4, <2>1 DEF Arith!decimal
    <3>. QED  BY <1>4, <2>1, <3>1 DEF DecimalExact
  <2>2. CASE Fits(MaxWide, n)
    <3>1. Arith!decimal(op, a, b) = Arith!div_round(n, Scale)  BY <1>0, <1>1, <1>4, <2>2 DEF Arith!decimal
    <3>2. n \in Width(MaxWide) /\ n \in Int /\ Scale \in Width(MaxWide) \ {0}
      <4>1. n \in Width(MaxWide) /\ n \in Int  BY <1>0, <1>1, <2>2
      <4>2. Scale \in Width(MaxWide) \ {0}  BY <1>0 DEF Width
      <4>. QED  BY <4>1, <4>2
    <3>. HIDE DEF n
    <3>3. Scale # -MaxWide - 1 /\ Scale # -1 /\ ~(2 * (Abs(n) % Abs(Scale)) > MaxWide)
      <4>1. Abs(n) \in Nat /\ Abs(Scale) = Scale  BY <1>0, <3>2 DEF Abs
      <4>2. Abs(n) % Abs(Scale) \in Nat /\ Abs(n) % Abs(Scale) < Scale  BY <1>0, <4>1, DivMod
      <4>. QED  BY <1>0, <4>2
    <3>4. Nearest(Arith!div_round(n, Scale), n, Scale)  BY <3>2, <3>3, RoundCorrect
    <3>. QED  BY <1>4, <2>2, <3>1, <3>4 DEF DecimalExact, n
  <2>. QED  BY <2>1, <2>2
<1>5. CASE op = "/"
  <2>. DEFINE n == a * Scale
              r == Arith!decimal(op, a, b)
  <2>1. CASE b = 0 \/ ~Fits(MaxWide, n)
    <3>1. r = None  BY <1>0, <1>1, <1>5, <2>1 DEF Arith!decimal
    <3>. QED  BY <1>5, <2>1, <3>1 DEF DecimalExact, NoQuotient
  <2>2. CASE ~(b = 0 \/ ~Fits(MaxWide, n))
    <3>1. r = Arith!div_round(n, b)  BY <1>0, <1>1, <1>5, <2>2 DEF Arith!decimal
    <3>2. n \in Width(MaxWide) /\ n \in Int /\ b \in Width(MaxWide) \ {0}  
      <4>1. n \in Width(MaxWide) /\ n \in Int  BY <1>0, <1>1, <2>2
      <4>2. b \in Width(MaxWide) \ {0}  BY <2>2
      <4>. QED  BY <4>1, <4>2
    <3>. HIDE DEF n, r
    <3>3. \/ r \in Int /\ Nearest(r, n, b)
          \/ r = None /\ (b = -MaxWide - 1 \/ (b = -1 /\ n = -MaxWide - 1) \/ 2 * (Abs(n) % Abs(b)) > MaxWide)
      BY <3>1, <3>2, RoundCorrect
    <3>4. ASSUME b = -1, n = -MaxWide - 1, NEW q \in Width(MaxWide) PROVE ~Nearest(q, n, b)
      <4>1. q \in Int /\ q <= MaxWide  BY <1>0 DEF Width
      <4>2. Abs(b) = 1 /\ q * b = -q
        <5>1. b = -1  BY <3>4
        <5>2. Abs(b) = -b  BY <1>0, <5>1 DEF Abs
        <5>3. q * (-1) = -q  BY <4>1
        <5>. QED  BY <5>1, <5>2, <5>3
      <4>3. Abs(-q - n) \in Nat /\ Abs(-q - n) >= 1  BY <1>0, <3>4, <4>1 DEF Abs
      <4>. QED  BY <4>1, <4>2, <4>3 DEF Nearest
    <3>5. r = None => NoQuotient(a, b)  BY <1>0, <3>3, <3>4 DEF NoQuotient, n
    <3>6. r # None => b # 0 /\ Nearest(r, n, b)  BY <2>2, <3>3
    <3>. QED  BY <1>5, <3>5, <3>6 DEF DecimalExact, n, r
  <2>. QED  BY <2>1, <2>2
<1>. QED  BY <1>2, <1>3, <1>4, <1>5

(* For every width and every scale, every operation gives for all operands  *)
(* what NumbersExact says of it.                                            *)
THEOREM NumbersCorrect == NumberSpec => []NumbersExact
<1>. DEFINE Inv == AskNumber /\ NumbersExact
<1>1. AskNumber /\ answer = None => Inv  BY DEF NumbersExact, Answered
<1>2. Inv /\ [AnswerNumber]_<<question, answer>> => Inv'
  <2>. SUFFICES ASSUME Inv, [AnswerNumber]_<<question, answer>> PROVE Inv'  OBVIOUS
  <2>1. CASE AnswerNumber
    <3>1. question' = question /\ AskNumber'  BY <2>1 DEF AnswerNumber, AskNumber
    <3>2. CASE question.kind = "Int"
      <4>1. question.op \in {"+", "-", "*", "/", "%"} /\ question.a \in Width(MaxInt)  BY <3>2 DEF AskNumber
      <4>2. answer' = [b \in Width(MaxInt) |-> Arith!checked(question.op, MaxInt, question.a, b)]
        BY <2>1, <3>2 DEF AnswerNumber
      <4>3. \A b \in Width(MaxInt) : IntExact(question.op, question.a, b, answer'[b])  BY <4>1, <4>2, IntCorrect
      <4>4. DOMAIN answer' = Width(MaxInt)  BY <4>2
      <4>. QED  BY <3>1, <3>2, <4>3, <4>4 DEF NumbersExact
    <3>3. CASE question.kind # "Int"
      <4>1. question.op \in {"+", "-", "*", "/"} /\ question.a \in Width(MaxWide)  BY <3>3 DEF AskNumber
      <4>2. answer' = [b \in Width(MaxWide) |-> Arith!decimal(question.op, question.a, b)]
        BY <2>1, <3>3 DEF AnswerNumber
      <4>3. \A b \in Width(MaxWide) : DecimalExact(question.op, question.a, b, answer'[b])
        BY <4>1, <4>2, DecimalCorrect
      <4>4. DOMAIN answer' = Width(MaxWide)  BY <4>2
      <4>. QED  BY <3>1, <3>3, <4>3, <4>4 DEF NumbersExact
    <3>. QED  BY <3>2, <3>3
  <2>2. CASE UNCHANGED <<question, answer>>  BY <2>2 DEF AskNumber, NumbersExact, Answered
  <2>. QED  BY <2>1, <2>2
<1>. QED  BY <1>1, <1>2, PTL DEF NumberSpec
=============================================================================
