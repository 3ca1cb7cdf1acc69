---------------------------- MODULE FailedLogins ----------------------------
(***************************************************************************)
(* The failed logins of one identifier (compiler/src/runtime/session.rs):   *)
(* a queue of instants that counting prunes from the front, by the window   *)
(* of the caller.  The answer has the queue, and the log of the calls in    *)
(* the order in which they had the mutex:                                   *)
(*   op      "record", "count" or "reset",                                  *)
(*   at      the instant the call took for now: a count reads it before it  *)
(*           waits for the mutex, a record when it has it,                  *)
(*   window  of a count,                                                    *)
(*   count   what a count was answered.                                     *)
(***************************************************************************)
EXTENDS Questions, Integers, Sequences, FiniteSets

LoginCalls == [op : {"record", "count", "reset"}, at : Nat, window : Nat]

NoFailures == [times |-> <<>>, count |-> 0, log |-> <<>>]

record_failed_login(times, c) == Append(times, c.at)

\* Mutant: an attempt exactly as old as the window no longer counts.
PrunedAtWindow(times, c) ==
    LET inside == {i \in DOMAIN times : c.at - times[i] < c.window}
        gone == {i \in DOMAIN times : \A k \in inside : i < k}
    IN SubSeq(times, Cardinality(gone) + 1, Len(times))

\* pop_front as long as the front is older than the window.
Pruned(times, c) ==
    LET inside == {i \in DOMAIN times : c.at - times[i] <= c.window}
        gone == {i \in DOMAIN times : \A k \in inside : i < k}
    IN SubSeq(times, Cardinality(gone) + 1, Len(times))

failed_login_count(times, c) == Len(Pruned(times, c))

reset_failed_logins(times, c) == <<>>

Attempts == IF answer = None THEN NoFailures ELSE answer
Done == Attempts.log

\* record reads the clock under the mutex; a count may come with an older reading.
Call(c) ==
    /\ Asked("login")
    /\ c.op = "record" => \A n \in DOMAIN Done : Done[n].at <= c.at
    /\ answer' = [times |-> CASE c.op = "record" -> record_failed_login(Attempts.times, c)
                             [] c.op = "count"  -> Pruned(Attempts.times, c)
                             [] c.op = "reset"  -> reset_failed_logins(Attempts.times, c),
                  count |-> IF c.op = "count" THEN failed_login_count(Attempts.times, c) ELSE Attempts.count,
                  log   |-> Append(Done, c)]
    /\ UNCHANGED question

LoginSpec == Asked("login") /\ answer = None /\ [][\E c \in LoginCalls : Call(c)]_<<question, answer>>
----------------------------------------------------------------------------
(* The count a lockout asks for is the failures since the last reset that   *)
(* are inside its window, the one at its edge included, as long as no call  *)
(* since then looked back less far: one with a shorter window, or with the  *)
(* same one and a later reading of the clock.  After such a call it may     *)
(* only be too low, never too high.                                         *)
FailureCountExact ==
    LET n == Len(Done) IN
    Answered("login") /\ n > 0 /\ Done[n].op = "count" =>
        LET since    == {k \in 1..n : \A r \in k..n : Done[r].op # "reset"}
            back(k)  == Done[k].at - Done[k].window
            failures == {k \in since : Done[k].op = "record" /\ Done[k].at >= back(n)}
            further  == {k \in since : Done[k].op = "count" /\ back(k) > back(n)}
        IN /\ Attempts.count <= Cardinality(failures)
           /\ further = {} => Attempts.count = Cardinality(failures)
=============================================================================
