------------------------ MODULE IdempotentDispatch ------------------------
(***************************************************************************)
(* The dispatch of an rpc that is `@idempotent`, `@cache`d or both: the    *)
(* part of handle_request (runtime/server.rs) between the gates and the    *)
(* answer, with the two stores it shares between request threads.          *)
(*                                                                         *)
(*   idempotency.rs   reserve, complete, release of one (service, rpc)     *)
(*   cache.rs         get, put, clear of the same rpc                      *)
(*                                                                         *)
(* A request runs the rpc at most once, so the request itself names the    *)
(* response it computed.  What is reserved is compared by the text of the  *)
(* HTTP body (its hash), what is cached by the arguments: those are read   *)
(* from the body of a call of /Service/rpc, and from path and query of a   *)
(* call of the `@route` of the rpc, whatever its body (resolve_route).     *)
(* Time is kept as the age of what is stored; sweeping only removes what   *)
(* `reserve` and `get` already treat as absent, so it is not a step.       *)
(***************************************************************************)
EXTENDS Naturals

CONSTANTS
    Requests,    \* requests, each handled by a thread of its own
    Keys,        \* values of the Idempotency-Key header
    Calls,       \* what is called: [address : {"rpc", "route"}, body, args]
    None,        \* no key, no request
    Cached,      \* does the rpc have `@cache`?
    EntryTtl,    \* ENTRY_TTL
    StaleAfter,  \* IN_FLIGHT_STALE_AFTER
    CacheTtl     \* the ttl of `@cache`

ASSUME NoneAssumption == None \notin Requests \cup Keys
ASSUME CallsAssumption ==
    /\ \A c \in Calls : c.address \in {"rpc", "route"}
    /\ \A c, d \in Calls :
         c.address = "rpc" /\ d.address = "rpc" /\ c.body = d.body => c.args = d.args
ASSUME CachedAssumption == Cached \in BOOLEAN
ASSUME TimesAssumption ==
    /\ EntryTtl \in Nat /\ StaleAfter \in Nat /\ CacheTtl \in Nat \ {0}
    /\ StaleAfter < EntryTtl

VARIABLES
    entries,  \* IdempotencyStore::entries
    cache,    \* CacheStore::entries
    pc,       \* the next step of a request
    key,      \* its Idempotency-Key, None without the header
    call,     \* what it calls
    result,   \* how the rpc's own body ended: "none", "ok" or "error"
    reply,    \* what the client got
    held,     \* history: time since the request was told Reserved
    age,      \* history: time since its body succeeded
    slow      \* history: keys some request held for longer than StaleAfter

vars == <<entries, cache, pc, key, call, result, reply, held, age, slow>>

Args == {c.args : c \in Calls}

Later  == EntryTtl + 1          \* ages are counted up to here
Ages   == 0..Later
Grow(a) == IF a < Later THEN a + 1 ELSE a

Absent == [state |-> "absent", by |-> None, age |-> 0]
Entry  == [state : {"absent", "inflight", "done"}, by : Requests \cup {None}, age : Ages]
Uncached == [by |-> None, age |-> 0]
NoReply == [kind |-> "none", from |-> None]

TypeOK ==
    /\ entries \in [Keys -> Entry]
    /\ \A k \in Keys : entries[k].state = "absent" <=> entries[k].by = None
    /\ cache \in [Args -> [by : Requests \cup {None}, age : Ages]]
    /\ pc \in [Requests -> {"start", "reserve", "cache", "body", "record", "put", "done"}]
    /\ key \in [Requests -> Keys \cup {None}]
    /\ call \in [Requests -> Calls]
    /\ result \in [Requests -> {"none", "ok", "error"}]
    /\ reply \in [Requests -> [kind : {"none", "fresh", "replayed", "cached", "failed",
                                       "conflict", "inflight", "panicked"},
                               from : Requests \cup {None}]]
    /\ held \in [Requests -> Ages]
    /\ age \in [Requests -> Ages]
    /\ slow \in SUBSET Keys

Init ==
    /\ entries = [k \in Keys |-> Absent]
    /\ cache = [a \in Args |-> Uncached]
    /\ pc = [q \in Requests |-> "start"]
    /\ key = [q \in Requests |-> None]
    /\ call \in [Requests -> Calls]
    /\ result = [q \in Requests |-> "none"]
    /\ reply = [q \in Requests |-> NoReply]
    /\ held = [q \in Requests |-> 0]
    /\ age = [q \in Requests |-> 0]
    /\ slow = {}

Answer(q, kind, from) ==
    /\ reply' = [reply EXCEPT ![q] = [kind |-> kind, from |-> from]]
    /\ pc' = [pc EXCEPT ![q] = "done"]
----------------------------------------------------------------------------
Arrive(q, k) ==
    /\ pc[q] = "start"
    /\ key' = [key EXCEPT ![q] = k]
    /\ pc' = [pc EXCEPT ![q] = IF k = None THEN "cache" ELSE "reserve"]
    /\ UNCHANGED <<entries, cache, call, result, reply, held, age, slow>>

\* Mutant: an entry in flight is reclaimed whatever its age.
ReclaimEarly(e) ==
    \/ e.state \in {"absent", "inflight"}
    \/ e.state = "done" /\ e.age > EntryTtl

\* Mutant: an answered entry lives no longer than one in flight.
ReclaimAnswered(e) == e.state = "absent" \/ e.age > StaleAfter

\* Nothing stored, or what is stored expired.
Reclaim(e) ==
    \/ e.state = "absent"
    \/ e.state = "done" /\ e.age > EntryTtl
    \/ e.state = "inflight" /\ e.age > StaleAfter

\* Mutant: the stored hash is only compared while the entry is in flight.
ReserveIgnoresHash(q) ==
    LET e == entries[key[q]] IN
    /\ pc[q] = "reserve"
    /\ \/ /\ Reclaim(e)
          /\ entries' = [entries EXCEPT ![key[q]] = [state |-> "inflight", by |-> q, age |-> 0]]
          /\ pc' = [pc EXCEPT ![q] = "cache"]
          /\ UNCHANGED reply
       \/ /\ ~Reclaim(e) /\ e.state = "done"
          /\ Answer(q, "replayed", e.by)
          /\ UNCHANGED entries
       \/ /\ ~Reclaim(e) /\ e.state = "inflight"
          /\ Answer(q, "inflight", None)
          /\ UNCHANGED entries
    /\ UNCHANGED <<cache, key, call, result, held, age, slow>>

\* reserve and the answers handle_request gives to what it returns.
Reserve(q) ==
    LET e == entries[key[q]]
        sameHash == call[e.by].body = call[q].body
    IN
    /\ pc[q] = "reserve"
    /\ \/ /\ Reclaim(e)
          /\ entries' = [entries EXCEPT ![key[q]] = [state |-> "inflight", by |-> q, age |-> 0]]
          /\ pc' = [pc EXCEPT ![q] = "cache"]
          /\ UNCHANGED reply
       \/ /\ ~Reclaim(e) /\ ~sameHash
          /\ Answer(q, "conflict", None)
          /\ UNCHANGED entries
       \/ /\ ~Reclaim(e) /\ sameHash /\ e.state = "done"
          /\ Answer(q, "replayed", e.by)
          /\ UNCHANGED entries
       \/ /\ ~Reclaim(e) /\ sameHash /\ e.state = "inflight"
          /\ Answer(q, "inflight", None)
          /\ UNCHANGED entries
    /\ UNCHANGED <<cache, key, call, result, held, age, slow>>

\* A hit answers at once: nothing is done about the reservation.
CacheLookup(q) ==
    LET c == cache[call[q].args]
        hit == Cached /\ c.by # None /\ c.age < CacheTtl
    IN
    /\ pc[q] = "cache"
    /\ IF hit
       THEN Answer(q, "cached", c.by)
       ELSE pc' = [pc EXCEPT ![q] = "body"] /\ UNCHANGED reply
    /\ UNCHANGED <<entries, cache, key, call, result, held, age, slow>>

BodyEnds(q, outcome) ==
    /\ pc[q] = "body"
    /\ result' = [result EXCEPT ![q] = outcome]
    /\ pc' = [pc EXCEPT ![q] = "record"]
    /\ age' = [age EXCEPT ![q] = 0]
    /\ UNCHANGED <<entries, cache, key, call, reply, held, slow>>

\* Nobody catches a panic of the body: the thread and the connection go away.
BodyPanics(q) ==
    /\ pc[q] = "body"
    /\ Answer(q, "panicked", None)
    /\ UNCHANGED <<entries, cache, key, call, result, held, age, slow>>

\* `cache.clear()`, called by some body.
ClearCache ==
    /\ \E q \in Requests : pc[q] = "body"
    /\ cache' = [a \in Args |-> Uncached]
    /\ UNCHANGED <<entries, pc, key, call, result, reply, held, age, slow>>

\* Mutant: only a success is recorded, an error leaves the reservation alone.
RecordWithoutRelease(q) ==
    /\ pc[q] = "record"
    /\ entries' = IF key[q] # None /\ result[q] = "ok"
                  THEN [entries EXCEPT ![key[q]] = [state |-> "done", by |-> q, age |-> 0]]
                  ELSE entries
    /\ pc' = [pc EXCEPT ![q] = "put"]
    /\ UNCHANGED <<cache, key, call, result, reply, held, age, slow>>

\* complete after a 2xx, release after anything else: neither looks at who
\* holds the key by now.
Record(q) ==
    /\ pc[q] = "record"
    /\ entries' = IF key[q] = None THEN entries
                  ELSE [entries EXCEPT ![key[q]] =
                          IF result[q] = "ok" THEN [state |-> "done", by |-> q, age |-> 0]
                                              ELSE Absent]
    /\ pc' = [pc EXCEPT ![q] = "put"]
    /\ UNCHANGED <<cache, key, call, result, reply, held, age, slow>>

CachePut(q) ==
    /\ pc[q] = "put"
    /\ cache' = IF Cached /\ result[q] = "ok"
                THEN [cache EXCEPT ![call[q].args] = [by |-> q, age |-> 0]]
                ELSE cache
    /\ IF result[q] = "ok" THEN Answer(q, "fresh", q) ELSE Answer(q, "failed", None)
    /\ UNCHANGED <<entries, key, call, result, held, age, slow>>

\* A request between its Reserved and its complete or release.
Holds(q) == key[q] # None /\ pc[q] \in {"cache", "body", "record"}

\* What is stored grows older.
Older(e) == IF e.by = None THEN e ELSE [e EXCEPT !.age = Grow(@)]

Tick ==
    /\ entries' = [k \in Keys |-> Older(entries[k])]
    /\ cache' = [a \in Args |-> Older(cache[a])]
    /\ held' = [q \in Requests |-> IF Holds(q) THEN Grow(held[q]) ELSE 0]
    /\ age' = [q \in Requests |-> IF result[q] = "ok" THEN Grow(age[q]) ELSE age[q]]
    /\ slow' = slow \cup {key[q] : q \in {p \in Requests : Holds(p) /\ Grow(held[p]) > StaleAfter}}
    /\ UNCHANGED <<pc, key, call, result, reply>>

Next ==
    \/ \E q \in Requests :
        \/ \E k \in Keys \cup {None} : Arrive(q, k)
        \/ Reserve(q) \/ CacheLookup(q) \/ BodyPanics(q) \/ Record(q) \/ CachePut(q)
        \/ \E outcome \in {"ok", "error"} : BodyEnds(q, outcome)
    \/ ClearCache
    \/ Tick

Spec == Init /\ [][Next]_vars
----------------------------------------------------------------------------
(* Properties.                                                             *)

\* Two requests never run under the same key at a time (idempotency.rs, reserve:
\* "dos hilos concurrentes nunca pueden ver los dos Reserved"), unless one of the
\* requests with that key was in flight for longer than IN_FLIGHT_STALE_AFTER.
OneHolder ==
    \A p, q \in Requests :
        p # q /\ Holds(p) /\ Holds(q) /\ key[p] = key[q] => key[p] \in slow

\* The operation behind a key succeeds at most once within ENTRY_TTL, again unless
\* a request with that key was slow: what `@idempotent` is for.
AtMostOneSuccess ==
    \A p, q \in Requests :
        /\ p # q /\ key[p] = key[q] /\ key[p] # None
        /\ result[p] = "ok" /\ result[q] = "ok"
        /\ age[p] <= EntryTtl /\ age[q] <= EntryTtl
        => key[p] \in slow

\* The hash is of the body alone, which says nothing of what a route was called with.
Unhashed(p, q) == call[p].body = call[q].body /\ "route" \in {call[p].address, call[q].address}

\* The stored reply of q is that of a success for the same arguments; a replayed one is
\* that of the same key, and for the same arguments unless the hash leaves them out.
Faithful(q) ==
    LET p == reply[q].from IN
    /\ p \in Requests /\ result[p] = "ok"
    /\ reply[q].kind = "cached" => call[p].args = call[q].args
    /\ reply[q].kind = "replayed" =>
         key[p] = key[q] /\ (call[p].args = call[q].args \/ Unhashed(p, q))

\* What is replayed or served from the cache is the response of a success for the same
\* arguments, and a replay belongs to the same key: a key that is used again for another
\* operation is a Conflict (idempotency.rs, Lookup::Conflict), unless one of the two calls
\* came by the `@route` of the rpc with the same body, which is all that reserve compares.
RepliesFaithful == \A q \in Requests : reply[q].kind \in {"replayed", "cached"} => Faithful(q)

Orphaned(k) == entries[k].state = "inflight" /\ ~Holds(entries[k].by)

\* A key stays reserved after its request is over only when the body panicked or
\* when the answer came from the cache.
OrphansExplained ==
    \A k \in Keys : Orphaned(k) => reply[entries[k].by].kind \in {"panicked", "cached"}

\* Whoever is told Reserved calls complete or release when it ends (idempotency.rs,
\* Lookup::Reserved: "sea cual sea el resultado"); a panic is the documented exception.
ReservedIsReleased ==
    \A k \in Keys : Orphaned(k) => reply[entries[k].by].kind = "panicked"
=============================================================================
