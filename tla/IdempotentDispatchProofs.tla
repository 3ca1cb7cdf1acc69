---------------------- MODULE IdempotentDispatchProofs ----------------------
(***************************************************************************)
(* Theorems about IdempotentDispatch, for any requests, keys, calls and    *)
(* times.  The key of a request that was never slow is reserved by it, and *)
(* only by it, for as long as it holds the key and is recorded afterwards: *)
(* reserve looks only at the age of an entry, so all properties come down  *)
(* to that age being the time the owner has held the key.                  *)
(***************************************************************************)
EXTENDS IdempotentDispatch, TLAPS

\* What the place of a request in handle_request tells of it.
StageInv ==
    \A q \in Requests :
        /\ pc[q] \in {"start", "reserve", "cache", "body"} => result[q] = "none"
        /\ pc[q] \in {"start", "reserve"} => held[q] = 0
        /\ pc[q] = "reserve" => key[q] # None
        /\ reply[q].kind # "none" => pc[q] = "done"

\* Whose entry it is, and that the owner releases it or says why not.
Owned(k, q) ==
    /\ q \in Requests /\ key[q] = k /\ pc[q] \notin {"start", "reserve"}
    /\ entries[k].state = "done" => result[q] = "ok"
    /\ entries[k].state = "inflight" => Holds(q) \/ reply[q].kind \in {"panicked", "cached"}
OwnerInv == \A k \in Keys : entries[k].state # "absent" => Owned(k, entries[k].by)

\* While nobody with the key was slow, the entry says who holds it and for how long.
HolderInv ==
    \A q \in Requests : Holds(q) /\ key[q] \notin slow =>
        /\ entries[key[q]] = [state |-> "inflight", by |-> q, age |-> held[q]]
        /\ held[q] <= StaleAfter

\* ... and, after a success, who succeeded; the entry is not older than the success.
SuccessInv ==
    \A q \in Requests :
        /\ result[q] = "ok" /\ pc[q] \in {"put", "done"}
        /\ key[q] # None /\ key[q] \notin slow /\ age[q] <= EntryTtl
        => LET e == entries[key[q]] IN e.state = "done" /\ e.by = q /\ e.age <= age[q]

CacheInv ==
    \A a \in Args : cache[a].by # None => result[cache[a].by] = "ok" /\ call[cache[a].by].args = a

IInv == TypeOK /\ StageInv /\ OwnerInv /\ HolderInv /\ SuccessInv /\ CacheInv /\ RepliesFaithful
----------------------------------------------------------------------------
\* At the start nothing is stored and no request has come.
LEMMA InitIInv == Init => IInv
<1>. SUFFICES ASSUME Init PROVE IInv  OBVIOUS
<1>. USE TimesAssumption, NoneAssumption DEF Init, Absent, Uncached, NoReply
<1>1. TypeOK  BY DEF TypeOK, Entry, Ages, Later
<1>2. StageInv /\ OwnerInv /\ CacheInv  BY DEF StageInv, OwnerInv, CacheInv
<1>3. HolderInv /\ SuccessInv  BY DEF HolderInv, SuccessInv, Holds
<1>4. RepliesFaithful  BY DEF RepliesFaithful
<1>. QED  BY <1>1, <1>2, <1>3, <1>4 DEF IInv

----------------------------------------------------------------------------
\* The arguments of a request are those of a call.
LEMMA CalledWith == ASSUME TypeOK, NEW q \in Requests PROVE call[q] \in Calls /\ call[q].args \in Args
BY DEF TypeOK, Args

\* Every step keeps the types.
LEMMA TypeStep == ASSUME IInv, [Next]_vars PROVE TypeOK'
<1>. USE TimesAssumption, NoneAssumption DEF IInv, TypeOK, Entry, Ages, Later, StageInv
<1>1. ASSUME NEW q \in Requests, NEW k \in Keys \cup {None}, Arrive(q, k) PROVE TypeOK'
  BY <1>1 DEF Arrive
<1>2. ASSUME NEW q \in Requests, Reserve(q) PROVE TypeOK'
  <2>1. key[q] \in Keys /\ entries[key[q]].by \in Requests \cup {None}
    BY <1>2 DEF Reserve
  <2>2. entries' \in [Keys -> Entry] /\ \A k \in Keys : entries'[k].state = "absent" <=> entries'[k].by = None
    <3>1. CASE entries' = entries
      BY <3>1
    <3>2. CASE entries' = [entries EXCEPT ![key[q]] = [state |-> "inflight", by |-> q, age |-> 0]]
      BY <2>1, <3>2
    <3>. QED  BY <1>2, <3>1, <3>2 DEF Reserve
  <2>3. reply' \in [Requests -> [kind : {"none", "fresh", "replayed", "cached", "failed",
                                         "conflict", "inflight", "panicked"},
                                 from : Requests \cup {None}]]
    BY <1>2, <2>1 DEF Reserve, Answer
  <2>4. pc' \in [Requests -> {"start", "reserve", "cache", "body", "record", "put", "done"}]
    BY <1>2 DEF Reserve, Answer
  <2>. QED  BY <1>2, <2>2, <2>3, <2>4 DEF Reserve
<1>3. ASSUME NEW q \in Requests, CacheLookup(q) PROVE TypeOK'
  <2>1. cache[call[q].args].by \in Requests \cup {None}
    BY CalledWith
  <2>2. reply' \in [Requests -> [kind : {"none", "fresh", "replayed", "cached", "failed",
                                         "conflict", "inflight", "panicked"},
                                 from : Requests \cup {None}]]
    BY <1>3, <2>1 DEF CacheLookup, Answer
  <2>3. pc' \in [Requests -> {"start", "reserve", "cache", "body", "record", "put", "done"}]
    BY <1>3 DEF CacheLookup, Answer
  <2>. QED  BY <1>3, <2>2, <2>3 DEF CacheLookup
<1>4. ASSUME NEW q \in Requests, NEW outcome \in {"ok", "error"}, BodyEnds(q, outcome) PROVE TypeOK'
  BY <1>4 DEF BodyEnds
<1>5. ASSUME NEW q \in Requests, BodyPanics(q) PROVE TypeOK'
  BY <1>5 DEF BodyPanics, Answer
<1>6. ASSUME NEW q \in Requests, Record(q) PROVE TypeOK'
  BY <1>6 DEF Record, Absent
<1>7. ASSUME NEW q \in Requests, CachePut(q) PROVE TypeOK'
  <2>1. reply' \in [Requests -> [kind : {"none", "fresh", "replayed", "cached", "failed",
                                         "conflict", "inflight", "panicked"},
                                 from : Requests \cup {None}]]
    BY <1>7 DEF CachePut, Answer
  <2>2. cache' \in [Args -> [by : Requests \cup {None}, age : Ages]]
    <3>1. call[q].args \in Args /\ [by |-> q, age |-> 0] \in [by : Requests \cup {None}, age : Ages]
      BY CalledWith
    <3>2. cache' \in {cache, [cache EXCEPT ![call[q].args] = [by |-> q, age |-> 0]]}
      BY <1>7 DEF CachePut
    <3>3. cache \in [Args -> [by : Requests \cup {None}, age : Ages]]
      OBVIOUS
    <3>. HIDE DEF Ages, TypeOK, IInv
    <3>. QED  BY <3>1, <3>2, <3>3
  <2>3. pc' \in [Requests -> {"start", "reserve", "cache", "body", "record", "put", "done"}]
    BY <1>7 DEF CachePut, Answer
  <2>. QED  BY <1>7, <2>1, <2>2, <2>3 DEF CachePut
<1>8. CASE ClearCache
  BY <1>8 DEF ClearCache, Uncached
<1>9. CASE Tick
  <2>0. \A a \in Ages : Grow(a) \in Ages
    BY DEF Grow
  <2>1. entries' \in [Keys -> Entry] /\ \A k \in Keys : entries'[k].state = "absent" <=> entries'[k].by = None
    <3>. SUFFICES ASSUME NEW k \in Keys
                  PROVE  entries'[k] \in Entry /\ (entries'[k].state = "absent" <=> entries'[k].by = None)
      BY <1>9 DEF Tick
    <3>1. entries'[k] \in {entries[k], [entries[k] EXCEPT !.age = Grow(entries[k].age)]}
      BY <1>9 DEF Tick, Older
    <3>2. Grow(entries[k].age) \in Ages
      BY <2>0
    <3>. HIDE DEF Ages
    <3>. QED  BY <3>1, <3>2
  <2>2. cache' \in [Args -> [by : Requests \cup {None}, age : Ages]]
    <3>. HIDE DEF Ages
    <3>. QED  BY <1>9, <2>0 DEF Tick, Older
  <2>3. held' \in [Requests -> Ages] /\ age' \in [Requests -> Ages]
    <3>1. 0 \in Ages
      OBVIOUS
    <3>. HIDE DEF Ages
    <3>. QED  BY <1>9, <2>0, <3>1 DEF Tick
  <2>4. slow' \in SUBSET Keys
    BY <1>9 DEF Tick, Holds
  <2>. QED  BY <1>9, <2>1, <2>2, <2>3, <2>4 DEF Tick
<1>10. CASE UNCHANGED vars
  BY <1>10 DEF vars
<1>. QED  BY <1>1, <1>2, <1>3, <1>4, <1>5, <1>6, <1>7, <1>8, <1>9, <1>10 DEF Next

\* The stages follow handle_request.
LEMMA StageStep == ASSUME IInv, [Next]_vars PROVE StageInv'
<1>. USE TimesAssumption, NoneAssumption DEF IInv, TypeOK, Entry, Ages, Later, StageInv
<1>1. ASSUME NEW q \in Requests, NEW k \in Keys \cup {None}, Arrive(q, k) PROVE StageInv'
  BY <1>1 DEF Arrive
<1>2. ASSUME NEW q \in Requests, Reserve(q) PROVE StageInv'
  BY <1>2 DEF Reserve, Reclaim, Absent, Answer
<1>3. ASSUME NEW q \in Requests, CacheLookup(q) PROVE StageInv'
  BY <1>3 DEF CacheLookup, Answer
<1>4. ASSUME NEW q \in Requests, NEW outcome \in {"ok", "error"}, BodyEnds(q, outcome) PROVE StageInv'
  BY <1>4 DEF BodyEnds
<1>5. ASSUME NEW q \in Requests, BodyPanics(q) PROVE StageInv'
  BY <1>5 DEF BodyPanics, Answer
<1>6. ASSUME NEW q \in Requests, Record(q) PROVE StageInv'
  BY <1>6 DEF Record, Absent
<1>7. ASSUME NEW q \in Requests, CachePut(q) PROVE StageInv'
  BY <1>7 DEF CachePut, Answer
<1>8. CASE ClearCache
  BY <1>8 DEF ClearCache, Uncached
<1>9. CASE Tick
  BY <1>9 DEF Tick, Grow, Holds
<1>10. CASE UNCHANGED vars
  BY <1>10 DEF vars
<1>. QED  BY <1>1, <1>2, <1>3, <1>4, <1>5, <1>6, <1>7, <1>8, <1>9, <1>10 DEF Next

\* complete and release end the reservation of the request that calls them.
LEMMA OwnerStep == ASSUME IInv, [Next]_vars PROVE OwnerInv'
<1>. USE TimesAssumption, NoneAssumption DEF IInv, TypeOK, Entry, Ages, Later, StageInv, OwnerInv, Owned, Holds
<1>1. ASSUME NEW q \in Requests, NEW k \in Keys \cup {None}, Arrive(q, k) PROVE OwnerInv'
  BY <1>1 DEF Arrive
<1>2. ASSUME NEW q \in Requests, Reserve(q) PROVE OwnerInv'
  <2>1. key[q] \in Keys /\ key' = key /\ result' = result /\ pc[q] = "reserve"
    BY <1>2 DEF Reserve
  <2>2. pc'[q] \in {"cache", "done"} /\ \A r \in Requests \ {q} : pc'[r] = pc[r] /\ reply'[r] = reply[r]
    BY <1>2 DEF Reserve, Answer
  <2>3. ASSUME NEW k \in Keys, NEW r \in Requests, r = entries[k].by, entries[k].state # "absent",
               entries'[k] = entries[k]
        PROVE  Owned(k, r)'
    <3>1. Owned(k, r)
      BY <2>3
    <3>2. r # q
      BY <2>1, <3>1
    <3>. QED  BY <2>1, <2>2, <2>3, <3>1, <3>2
  <2>4. ASSUME entries' = entries PROVE OwnerInv'
    <3>. SUFFICES ASSUME NEW k \in Keys, entries[k].state # "absent" PROVE Owned(k, entries[k].by)'
      BY <2>4
    <3>1. entries[k].by \in Requests
      OBVIOUS
    <3>. QED  BY <2>3, <2>4, <3>1
  <2>5. ASSUME entries' = [entries EXCEPT ![key[q]] = [state |-> "inflight", by |-> q, age |-> 0]],
               pc' = [pc EXCEPT ![q] = "cache"]
        PROVE  OwnerInv'
    <3>. SUFFICES ASSUME NEW k \in Keys, entries'[k].state # "absent" PROVE Owned(k, entries[k].by)'
      OBVIOUS
    <3>1. CASE k = key[q]
      <4>1. entries'[k] = [state |-> "inflight", by |-> q, age |-> 0]
        BY <2>1, <2>5, <3>1
      <4>2. key'[q] = k /\ pc'[q] = "cache" /\ key'[q] # None
        BY <2>1, <2>5, <3>1
      <4>. QED  BY <4>1, <4>2
    <3>2. CASE k # key[q]
      <4>1. entries'[k] = entries[k]
        BY <2>1, <2>5, <3>2
      <4>2. entries[k].by \in Requests
        BY <4>1
      <4>. QED  BY <2>3, <4>1, <4>2
    <3>. QED  BY <3>1, <3>2
  <2>. QED  BY <1>2, <2>4, <2>5 DEF Reserve
<1>3. ASSUME NEW q \in Requests, CacheLookup(q) PROVE OwnerInv'
  BY <1>3 DEF CacheLookup, Answer
<1>4. ASSUME NEW q \in Requests, NEW outcome \in {"ok", "error"}, BodyEnds(q, outcome) PROVE OwnerInv'
  BY <1>4 DEF BodyEnds
<1>5. ASSUME NEW q \in Requests, BodyPanics(q) PROVE OwnerInv'
  BY <1>5 DEF BodyPanics, Answer
<1>6. ASSUME NEW q \in Requests, Record(q) PROVE OwnerInv'
  BY <1>6 DEF Record, Absent
<1>7. ASSUME NEW q \in Requests, CachePut(q) PROVE OwnerInv'
  BY <1>7 DEF CachePut, Answer
<1>8. CASE ClearCache
  BY <1>8 DEF ClearCache, Uncached
<1>9. CASE Tick
  <2>1. pc' = pc /\ key' = key /\ result' = result /\ reply' = reply
    BY <1>9 DEF Tick
  <2>2. \A k \in Keys : entries'[k].state = entries[k].state /\ entries'[k].by = entries[k].by
    BY <1>9 DEF Tick, Older
  <2>. QED  BY <2>1, <2>2
<1>10. CASE UNCHANGED vars
  BY <1>10 DEF vars
<1>. QED  BY <1>1, <1>2, <1>3, <1>4, <1>5, <1>6, <1>7, <1>8, <1>9, <1>10 DEF Next

\* reserve leaves an entry alone that is no older than StaleAfter.
LEMMA HolderStep == ASSUME IInv, [Next]_vars PROVE HolderInv'
<1>. USE TimesAssumption, NoneAssumption DEF IInv, TypeOK, Entry, Ages, Later, StageInv, HolderInv, Holds
<1>1. ASSUME NEW q \in Requests, NEW k \in Keys \cup {None}, Arrive(q, k) PROVE HolderInv'
  BY <1>1 DEF Arrive
<1>2. ASSUME NEW q \in Requests, Reserve(q) PROVE HolderInv'
  BY <1>2 DEF Reserve, Reclaim, Absent, Answer
<1>3. ASSUME NEW q \in Requests, CacheLookup(q) PROVE HolderInv'
  BY <1>3 DEF CacheLookup, Answer
<1>4. ASSUME NEW q \in Requests, NEW outcome \in {"ok", "error"}, BodyEnds(q, outcome) PROVE HolderInv'
  BY <1>4 DEF BodyEnds
<1>5. ASSUME NEW q \in Requests, BodyPanics(q) PROVE HolderInv'
  BY <1>5 DEF BodyPanics, Answer
<1>6. ASSUME NEW q \in Requests, Record(q) PROVE HolderInv'
  <2>. SUFFICES ASSUME NEW p \in Requests, Holds(p)', key'[p] \notin slow'
                PROVE  /\ entries'[key'[p]] = [state |-> "inflight", by |-> p, age |-> held'[p]]
                       /\ held'[p] <= StaleAfter
    OBVIOUS
  <2>1. key' = key /\ slow' = slow /\ held' = held /\ p # q /\ Holds(p) /\ key[p] \in Keys
    BY <1>6 DEF Record
  <2>2. entries[key[p]] = [state |-> "inflight", by |-> p, age |-> held[p]] /\ held[p] <= StaleAfter
    BY <2>1
  <2>3. key[q] # key[p]
    <3>. SUFFICES ASSUME key[q] = key[p] PROVE FALSE  OBVIOUS
    <3>1. Holds(q) /\ key[q] \notin slow
      BY <1>6, <2>1 DEF Record
    <3>2. entries[key[q]] = [state |-> "inflight", by |-> q, age |-> held[q]]
      BY <3>1
    <3>. QED  BY <2>1, <2>2, <3>2
  <2>4. entries'[key[p]] = entries[key[p]]
    BY <1>6, <2>1, <2>3 DEF Record
  <2>. QED  BY <2>1, <2>2, <2>4
<1>7. ASSUME NEW q \in Requests, CachePut(q) PROVE HolderInv'
  BY <1>7 DEF CachePut, Answer
<1>8. CASE ClearCache
  BY <1>8 DEF ClearCache, Uncached
<1>9. CASE Tick
  <2>. SUFFICES ASSUME NEW p \in Requests, Holds(p)', key'[p] \notin slow'
                PROVE  /\ entries'[key'[p]] = [state |-> "inflight", by |-> p, age |-> held'[p]]
                       /\ held'[p] <= StaleAfter
    OBVIOUS
  <2>1. key' = key /\ pc' = pc /\ Holds(p) /\ key[p] \in Keys
    BY <1>9 DEF Tick
  <2>2. key[p] \notin slow /\ ~(Grow(held[p]) > StaleAfter)
    BY <1>9, <2>1 DEF Tick
  <2>3. held'[p] = Grow(held[p]) /\ held[p] \in Ages
    BY <1>9, <2>1 DEF Tick
  <2>4. entries[key[p]] = [state |-> "inflight", by |-> p, age |-> held[p]]
    BY <2>1, <2>2
  <2>5. entries'[key[p]] = [entries[key[p]] EXCEPT !.age = Grow(@)]
    BY <1>9, <2>1, <2>4 DEF Tick, Older
  <2>6. entries'[key[p]] = [state |-> "inflight", by |-> p, age |-> Grow(held[p])]
    BY <2>4, <2>5
  <2>7. held'[p] <= StaleAfter
    BY <2>2, <2>3 DEF Grow
  <2>. QED  BY <2>1, <2>3, <2>6, <2>7
<1>10. CASE UNCHANGED vars
  BY <1>10 DEF vars
<1>. QED  BY <1>1, <1>2, <1>3, <1>4, <1>5, <1>6, <1>7, <1>8, <1>9, <1>10 DEF Next

\* ... and a recorded success until EntryTtl.
LEMMA SuccessStep == ASSUME IInv, [Next]_vars PROVE SuccessInv'
<1>. USE TimesAssumption, NoneAssumption DEF IInv, TypeOK, Entry, Ages, Later, StageInv, HolderInv, SuccessInv, Holds
<1>1. ASSUME NEW q \in Requests, NEW k \in Keys \cup {None}, Arrive(q, k) PROVE SuccessInv'
  BY <1>1 DEF Arrive
<1>2. ASSUME NEW q \in Requests, Reserve(q) PROVE SuccessInv'
  BY <1>2 DEF Reserve, Reclaim, Absent, Answer
<1>3. ASSUME NEW q \in Requests, CacheLookup(q) PROVE SuccessInv'
  BY <1>3 DEF CacheLookup, Answer
<1>4. ASSUME NEW q \in Requests, NEW outcome \in {"ok", "error"}, BodyEnds(q, outcome) PROVE SuccessInv'
  BY <1>4 DEF BodyEnds
<1>5. ASSUME NEW q \in Requests, BodyPanics(q) PROVE SuccessInv'
  BY <1>5 DEF BodyPanics, Answer
<1>6. ASSUME NEW q \in Requests, Record(q) PROVE SuccessInv'
  <2>. SUFFICES ASSUME NEW p \in Requests, result'[p] = "ok", pc'[p] \in {"put", "done"},
                       key'[p] # None, key'[p] \notin slow', age'[p] <= EntryTtl
                PROVE  entries'[key'[p]].state = "done" /\ entries'[key'[p]].by = p
                       /\ entries'[key'[p]].age <= age'[p]
    OBVIOUS
  <2>1. result' = result /\ key' = key /\ slow' = slow /\ age' = age /\ key[p] \in Keys
    BY <1>6 DEF Record
  <2>2. CASE p = q
    <3>1. entries' = [entries EXCEPT ![key[q]] = [state |-> "done", by |-> q, age |-> 0]]
      BY <1>6, <2>1, <2>2 DEF Record
    <3>. QED  BY <2>1, <2>2, <3>1
  <2>3. CASE p # q
    <3>1. pc[p] \in {"put", "done"}
      BY <1>6, <2>3 DEF Record
    <3>2. entries[key[p]].state = "done" /\ entries[key[p]].by = p /\ entries[key[p]].age <= age[p]
      BY <2>1, <3>1
    <3>3. key[q] # key[p]
      <4>. SUFFICES ASSUME key[q] = key[p] PROVE FALSE  OBVIOUS
      <4>1. Holds(q) /\ key[q] \notin slow
        BY <1>6, <2>1 DEF Record
      <4>2. entries[key[q]] = [state |-> "inflight", by |-> q, age |-> held[q]]
        BY <4>1
      <4>. QED  BY <3>2, <4>2
    <3>4. entries'[key[p]] = entries[key[p]]
      BY <1>6, <2>1, <3>3 DEF Record
    <3>. QED  BY <2>1, <3>2, <3>4
  <2>. QED  BY <2>2, <2>3
<1>7. ASSUME NEW q \in Requests, CachePut(q) PROVE SuccessInv'
  BY <1>7 DEF CachePut, Answer
<1>8. CASE ClearCache
  BY <1>8 DEF ClearCache, Uncached
<1>9. CASE Tick
  BY <1>9 DEF Tick, Older, Grow, Later, Ages
<1>10. CASE UNCHANGED vars
  BY <1>10 DEF vars
<1>. QED  BY <1>1, <1>2, <1>3, <1>4, <1>5, <1>6, <1>7, <1>8, <1>9, <1>10 DEF Next

\* Only a success is cached, for its own arguments.
LEMMA CacheStep == ASSUME IInv, [Next]_vars PROVE CacheInv'
<1>. USE TimesAssumption, NoneAssumption DEF IInv, TypeOK, Entry, Ages, Later, StageInv, CacheInv
<1>1. ASSUME NEW q \in Requests, NEW k \in Keys \cup {None}, Arrive(q, k) PROVE CacheInv'
  BY <1>1 DEF Arrive
<1>2. ASSUME NEW q \in Requests, Reserve(q) PROVE CacheInv'
  BY <1>2 DEF Reserve, Reclaim, Absent, Answer
<1>3. ASSUME NEW q \in Requests, CacheLookup(q) PROVE CacheInv'
  BY <1>3 DEF CacheLookup, Answer
<1>4. ASSUME NEW q \in Requests, NEW outcome \in {"ok", "error"}, BodyEnds(q, outcome) PROVE CacheInv'
  BY <1>4 DEF BodyEnds
<1>5. ASSUME NEW q \in Requests, BodyPanics(q) PROVE CacheInv'
  BY <1>5 DEF BodyPanics, Answer
<1>6. ASSUME NEW q \in Requests, Record(q) PROVE CacheInv'
  BY <1>6 DEF Record, Absent
<1>7. ASSUME NEW q \in Requests, CachePut(q) PROVE CacheInv'
  BY <1>7 DEF CachePut, Answer
<1>8. CASE ClearCache
  BY <1>8 DEF ClearCache, Uncached
<1>9. CASE Tick
  BY <1>9 DEF Tick, Older, Grow, Later, Ages
<1>10. CASE UNCHANGED vars
  BY <1>10 DEF vars
<1>. QED  BY <1>1, <1>2, <1>3, <1>4, <1>5, <1>6, <1>7, <1>8, <1>9, <1>10 DEF Next

\* A reply that was given stays as good as it was.
LEMMA ReplyKept ==
    ASSUME RepliesFaithful, NEW p \in Requests, reply[p].kind \in {"replayed", "cached"},
           reply'[p] = reply[p], call' = call, key'[p] = key[p],
           \A r \in Requests : result[r] = "ok" => result'[r] = "ok" /\ key'[r] = key[r]
    PROVE  Faithful(p)'
BY DEF RepliesFaithful, Faithful, Unhashed

\* What is replayed or served is the success it was stored for.
LEMMA ReplyStep == ASSUME IInv, [Next]_vars PROVE RepliesFaithful'
<1>. SUFFICES ASSUME NEW p \in Requests, reply'[p].kind \in {"replayed", "cached"} PROVE Faithful(p)'
  BY DEF RepliesFaithful
<1>. USE DEF IInv, TypeOK
<1>1. call' = call
  BY DEF Next, vars, Arrive, Reserve, CacheLookup, BodyEnds, BodyPanics, ClearCache, Record, CachePut, Tick
<1>2. ASSUME NEW r \in Requests, result[r] = "ok" \/ reply[r].kind # "none"
      PROVE  key'[r] = key[r] /\ (result[r] = "ok" => result'[r] = "ok")
  BY <1>2 DEF Next, vars, StageInv, Arrive, Reserve, CacheLookup, BodyEnds, BodyPanics, ClearCache,
              Record, CachePut, Tick
<1>3. CASE reply'[p] = reply[p]
  BY <1>1, <1>2, <1>3, ReplyKept
<1>4. CASE reply'[p] # reply[p]
  <2>1. Reserve(p) \/ CacheLookup(p)
    <3>1. reply' # reply
      BY <1>4
    <3>2. PICK q \in Requests : Reserve(q) \/ CacheLookup(q) \/ BodyPanics(q) \/ CachePut(q)
      BY <3>1 DEF Next, vars, Arrive, BodyEnds, ClearCache, Record, Tick
    <3>3. q = p
      BY <1>4, <3>2 DEF Answer, Reserve, CacheLookup, BodyPanics, CachePut
    <3>4. ~BodyPanics(p) /\ ~CachePut(p)
      BY DEF Answer, BodyPanics, CachePut
    <3>. QED  BY <3>2, <3>3, <3>4
  <2>2. CASE Reserve(p)
    <3>. DEFINE e == entries[key[p]]
    <3>1. e.state = "done" /\ reply'[p] = [kind |-> "replayed", from |-> e.by] /\ key' = key /\ result' = result
          /\ call[e.by].body = call[p].body
      BY <1>4, <2>2 DEF Reserve, Answer
    <3>2. key[p] \in Keys
      BY <2>2, NoneAssumption DEF Reserve, StageInv
    <3>3. e.by \in Requests /\ key[e.by] = key[p] /\ result[e.by] = "ok"
      BY <3>1, <3>2 DEF OwnerInv, Owned
    <3>4. call[e.by].args = call[p].args \/ Unhashed(e.by, p)
      BY <3>1, <3>3, CallsAssumption DEF Unhashed
    <3>. QED  BY <1>1, <3>1, <3>3, <3>4 DEF Faithful, Unhashed
  <2>3. CASE CacheLookup(p)
    <3>. DEFINE c == cache[call[p].args]
    <3>1. c.by # None /\ reply'[p] = [kind |-> "cached", from |-> c.by] /\ result' = result
      BY <1>4, <2>3 DEF CacheLookup, Answer
    <3>2. c.by \in Requests /\ result[c.by] = "ok" /\ call[c.by].args = call[p].args
      BY <3>1, CalledWith DEF CacheInv
    <3>. QED  BY <1>1, <3>1, <3>2 DEF Faithful
  <2>. QED  BY <2>1, <2>2, <2>3
<1>. QED  BY <1>3, <1>4
----------------------------------------------------------------------------
(* The theorems.                                                           *)

\* An entry, its owner and the time it was held agree (reserve, complete, release).
THEOREM Invariance == Spec => []IInv
<1>1. IInv /\ [Next]_vars => IInv'
  BY TypeStep, StageStep, OwnerStep, HolderStep, SuccessStep, CacheStep, ReplyStep DEF IInv
<1>. QED  BY InitIInv, <1>1, PTL DEF Spec

\* Every variable keeps its type.
THEOREM TypeCorrect == Spec => []TypeOK
<1>1. IInv => TypeOK  BY DEF IInv
<1>. QED  BY Invariance, <1>1, PTL

\* Two threads never both hold a key that nobody was slow with (idempotency.rs, reserve).
THEOREM HolderUnique == Spec => []OneHolder
<1>1. ASSUME IInv PROVE OneHolder
  <2>. SUFFICES ASSUME NEW p \in Requests, NEW q \in Requests, p # q, Holds(p), Holds(q),
                       key[p] = key[q], key[p] \notin slow
                PROVE  FALSE
    BY DEF OneHolder
  <2>1. entries[key[p]] = [state |-> "inflight", by |-> p, age |-> held[p]]
    BY <1>1 DEF IInv, HolderInv
  <2>2. entries[key[p]] = [state |-> "inflight", by |-> q, age |-> held[q]]
    BY <1>1 DEF IInv, HolderInv
  <2>. QED  BY <2>1, <2>2
<1>. QED  BY Invariance, <1>1, PTL

\* The operation behind a key succeeds once within ENTRY_TTL, unless somebody was slow.
THEOREM SuccessUnique == Spec => []AtMostOneSuccess
<1>1. ASSUME IInv PROVE AtMostOneSuccess
  <2>. SUFFICES ASSUME NEW p \in Requests, NEW q \in Requests, p # q, key[p] = key[q], key[p] # None,
                       result[p] = "ok", result[q] = "ok", age[p] <= EntryTtl, age[q] <= EntryTtl,
                       key[p] \notin slow
                PROVE  FALSE
    BY DEF AtMostOneSuccess
  <2>1. \A r \in {p, q} : pc[r] \in {"record", "put", "done"}
    BY <1>1 DEF IInv, TypeOK, StageInv
  <2>2. \A r \in {p, q} : entries[key[p]].by = r
    <3>. SUFFICES ASSUME NEW r \in {p, q} PROVE entries[key[p]].by = r  OBVIOUS
    <3>0. key[r] = key[p] /\ key[r] # None /\ key[r] \notin slow /\ result[r] = "ok" /\ age[r] <= EntryTtl
      OBVIOUS
    <3>1. CASE pc[r] = "record"
      <4>1. entries[key[r]] = [state |-> "inflight", by |-> r, age |-> held[r]]
        BY <1>1, <3>0, <3>1 DEF IInv, HolderInv, Holds
      <4>. QED  BY <3>0, <4>1
    <3>2. CASE pc[r] \in {"put", "done"}
      BY <1>1, <3>0, <3>2 DEF IInv, SuccessInv
    <3>. QED  BY <2>1, <3>1, <3>2
  <2>. QED  BY <2>2
<1>. QED  BY Invariance, <1>1, PTL

\* A reply that was stored is the success of a request with the same arguments (and key);
\* but for a call by the `@route`, whose arguments the hash of the body leaves out.
THEOREM RepliesCorrect == Spec => []RepliesFaithful
<1>1. IInv => RepliesFaithful  BY DEF IInv
<1>. QED  BY Invariance, <1>1, PTL

\* A reservation outlives its request only after a panic or an answer from the cache.
THEOREM OrphansCorrect == Spec => []OrphansExplained
<1>1. IInv => OrphansExplained  BY DEF IInv, OwnerInv, Owned, OrphansExplained, Orphaned
<1>. QED  BY Invariance, <1>1, PTL
=============================================================================
