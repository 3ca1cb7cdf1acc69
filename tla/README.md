# c-script in TLA+

`linkc` compiles the language c-script and, with `linkc serve`, runs a program as
an HTTP server: one process, one thread per request, a SQLite or PostgreSQL
database, live `stream`s over its collections, background jobs, schedules, MCP
sessions, a cache and idempotency keys. This directory specifies the parts of it
where threads, failures and time meet, and the algorithms whose answers the rest
relies on; it checks them with TLC on small instances, and proves the most
important results for every instance with TLAPS.

Everything is read from `src/compiler/src`; a comment at the head of each module
names the functions it models, and `PROJECT.json` gives the lines of every
definition.

## 1. Inventory

| component | state | operations | hard part | what makes it correct |
|---|---|---|---|---|
| live streams and transactions (`runtime/db.rs`, `runtime/mod.rs`) | rows, `subscribers`, `transaction_pending_publishes` | insert, applyPatch, increment, delete, upsert, transaction, publish, subscribe | one publication queue for the whole process; write, re-read and publish are separate steps of a request | no committed row is lost to a stream, no uncommitted row reaches one, sections are atomic, nothing hangs |
| SQLite pool (`runtime/store.rs`) | a re-entrant mutex around the writer, reader connections | `with_exclusive`, `execute`, `with_reader` | transactions and upserts hold the lock across several statements | sections exclude each other and are always left |
| PostgreSQL pool (`runtime/store.rs`) | `idle`, `total_conns`, their mutexes, a condition variable | `acquire`, `release`, `with_client`, `with_exclusive` | lock order, failed reconnects, lost wakeups, timeouts | no slot lost or counted twice, nobody sleeps beside a connection, no deadlock |
| idempotent and cached dispatch (`idempotency.rs`, `cache.rs`, `runtime/server.rs`) | entries by key, cached replies | `reserve`, `complete`, `release`, `get`, `put`, `clear` | concurrent retries, slow holders, early returns, panics | one execution per key, faithful replays, reservations given back |
| server lifecycle (`runtime/server.rs`, `main.rs`) | `in_flight`, `draining`, `drain_started` | accept, admit, refuse, respond, drain, exit | counter updates against the drain; panics | the counter is exact, a clean exit cuts nothing, the drain ends |
| background jobs (`runtime/background.rs`, `runtime/server.rs`) | `jobs`, `queue` | `enqueue`, `claim_next`, `complete`, `fail`, sweep | several workers, panics, expiry | a job runs at most once and its outcome does not change |
| remote changes (`runtime/db.rs`, `triggers.rs`) | `pending_notify_retries`, LISTEN/NOTIFY, the channel of the listener | notify, retry, re-read, deliver | lost, late, repeated and reordered notifications between instances | other instances converge to the last version, and hear of it once |
| MCP (`runtime/mcp.rs`, `runtime/server.rs`) | MCP sessions, `connections`, `pending` samples | initialize, GET and DELETE /mcp, sample, answer | reconnects, late answers, timeouts | an answer reaches its question, a reconnect is not undone, a session has the user of its bearer |
| sessions and failed logins (`runtime/session.rs`) | logins, revoked tokens, attempts by identifier | create, verify, revoke, count | callers with different windows share one queue | the count is the attempts within the window |
| rate limiter (`rate_limit.rs`, `runtime/server.rs`) | token buckets, a row all instances share | `check`, sweep, fall back | idle buckets, clocks of several instances, an unreachable store | no more than the limit per window |
| scheduler (`cron.rs`, `runtime/server.rs`) | one thread per task | parse, `next_run_after`, sleep | calendar, OR of the day fields, horizon of the search | the next run is the first minute that matches |
| routing (`route.rs`, `checker.rs`, `runtime/server.rs`) | the route table | `matches`, `specificity`, `resolve_route`, conflict check | catch-alls, the `/Service/rpc` addresses | the most specific route answers, whatever the order of declarations |
| columns and JSON (`runtime/db.rs`, `runtime/mod.rs`) | column plan of a collection | `write_param`, `decode_column_cell`, JSON both ways | null against absent, unions, numbers JSON has no form for | what is written is what is read |
| predicates (`runtime/db.rs`, `runtime/mod.rs`) | none | recognition, SQL, `findWhere`, `countWhere`, `updateWhere`, `deleteWhere` | two evaluators of one predicate: SQL and the interpreter | they select, write, count and announce the same rows |
| type checker and interpreter (`checker.rs`, `runtime/mod.rs`) | scopes, cells | expressions, blocks, closures, methods, `match`, arithmetic | the interpreter trusts the checker | an accepted body never meets a value of another kind |
| program loading (`modules.rs`) | visited and visiting files | `visit`, imported names | cycles, diamonds | each file once, dependencies first |
| metrics, value helpers (`metrics.rs`, `encryption.rs`, `timestamp.rs`, ...) | counters | record, format, hash | none that runs concurrently | outside this development |
| generated client and schemas (`codegen`) | none | `is...`, `revive...`, `client.ts`, Zod, OpenAPI | five renderings of one type; bigint inside unions; hidden fields | the caller of the client sees the value the rpc returned |
| front end (`lexer.rs`, `parser.rs`) | tokens, a place in them, errors | `tokenize`, `parse`, `synchronize` | precedence, struct literals before blocks, comments and doc lines, resuming after an error | a program that is written is the program that is read; an error costs one item |
| formatter (`fmt.rs`) | the line being printed, the last token | `format_source` | tokens that fuse, comments put back from the gaps | formatting changes no token and loses no comment, and formatting again changes nothing |
| other emitters, tools, command line | a syntax tree | passes over a file | none that runs concurrently | outside this development |
| inference engine (`compiler/inference`) | | | | vendored from another repository |

How they interact. The main loop (`serve`) admits a request and spawns its thread.
The thread runs `handle_request`: route, rate limit, gates, then `reserve`, then the
cache, then the interpreter, which calls `Db`; `Db` takes a connection for each
statement, or keeps one pinned through `with_exclusive`. A write publishes to the
channels of the subscribers and NOTIFYs the other instances, whose listener threads
hand what they hear to their main loops. Each live stream and each MCP connection
has a thread that reads one channel. `@background` puts a job into a queue that
worker threads poll; `@cron` has a thread per task that asks `next_run_after` and
sleeps. Nothing is shared between these parts but what the table names, which is
why they are specified one module each; the modules of the server and of its jobs
are one state machine, because the exit of the process ends both.

## 2. Modules

| module | models |
|---|---|
| `LiveStreams` | a committed write on its way to the subscribers of its collection |
| `RemoteChanges` | the same write on its way to the other instances |
| `PostgresPool` | `acquire` and `release` at the granularity of their locks |
| `IdempotentDispatch` | `@idempotent` and `@cache` around one rpc |
| `ServerLifecycle` | admission, drain, exit and background jobs of one process |
| `JobPromise` | what `@background` promises; `ServerLifecycle` implements it |
| `Mcp` | logins, MCP sessions, connections and `mcp.sample` |
| `Matching`, `Columns` | types, values and patterns; their columns and JSON |
| `Client` | a reply from the server's JSON to the caller of the generated client; its schemas |
| `Questions` | the question an algorithm is asked and its answer |
| `RateLimit`, `FailedLogins`, `Imports`, `Routes`, `Numbers` | a step of the answer is one request, one call, one import; of `Routes` all paths, of `Numbers` one operation |
| `Arithmetic`, `Methods`, `Typing` | checked numbers; the methods of the built-in types; what the checker accepts and what the interpreter does with it |
| `Pushdown` | predicates: recognised, turned into SQL, evaluated; writes by predicate |
| `Cron` | the schedule of `@cron`, the calendar, and the question when a task runs next |
| `Lexer`, `Parser`, `Formatter` | tokens, syntax trees and recovery from errors, `linkc fmt` |
| `MCAlgorithms` | asks the algorithms every question of a bounded set; `MCSyntax` has the sources and trees it asks about |
| `LiveStreamsProofs`, `ServerLifecycleProofs`, `PostgresPoolProofs`, `IdempotentDispatchProofs`, `McpProofs`, `RemoteChangesProofs`, `CountingProofs`, `ProgramProofs` | theorems |
| other `MC...` | the instances TLC checks |

**LiveStreams.** A row is the version of its last write. A thread has a program
counter between the calls that other threads can come between: write, re-read,
publish, deliver for `insert`, `applyPatch` and `increment`; read, DELETE, publish,
deliver for `delete`. `mode` is the exclusive section it is in (`upsert` or a
transaction), `conn` the connection it holds for it. A transaction is BEGIN, the
opening of the queue, its body, COMMIT or ROLLBACK, and `take()` or drop of the
queue, each a step. The language has no way to catch an error, so an operation that
fails inside a transaction leaves it only the ROLLBACK (`failed`). A stream registers
its sender, takes its snapshot, and consumes its channel; `deliver_local` drops a
sender whose channel is full or closed. `Connections` has one element for SQLite and
several for a PostgreSQL pool; `SeparateReaders` says whether reads have connections
of their own (SQLite on a file) or use the writer (`:memory:`). `confirmed`, `wrote`,
`lostReread` and `lostRollback` are history. SQLite's WAL snapshots and PostgreSQL's
READ COMMITTED are assumed: a statement sees what is committed plus its own
transaction, and a row that another open transaction wrote cannot be written
(`Visible`, `RowFree`).

**RemoteChanges.** One row, whose changes are numbered in commit order; an event is
the number it announces. A request thread commits, delivers locally, sends a NOTIFY
and queues it when that fails; a writer that is no instance (psql) is only announced
by its trigger. A listener thread has a `wire` from PostgreSQL, which loses what is
sent while it is disconnected, and a bounded channel to its main loop, which delivers,
re-reads the row of a trigger, and flushes the retry queue once the channel is empty.
`lost`, `late` and `again` record for each instance the changes for which the code
has a reason not to announce them, to announce them behind a newer one, or to
announce them twice.

**PostgresPool.** `idleLock` and `totalLock` are the two mutexes of `acquire`;
`totalLock` is explicit only where a thread keeps it while it waits for the other.
The wait on the condition variable can end by notification or timeout, a woken
thread competes with newcomers, the server may close any connection at any time and
any attempt to connect may fail.

**IdempotentDispatch.** One rpc, its idempotency store and its cache; a request is
`reserve`, cache lookup, body, `complete`/`release`, cache put. `Calls` are the ways to
call the rpc: by its own address, with the arguments in the body, or by its `@route`,
with the arguments in path and query and any body. `reserve` compares bodies (their
hash), the cache is keyed by arguments. Time is the age of what is stored. The sweeps only remove what `reserve` and `get` already treat as
absent, so they are not a step. The history variable `slow` records the keys some
request held for longer than `IN_FLIGHT_STALE_AFTER`: the code gives such a key to a
retry on purpose, and the properties say so.

**ServerLifecycle.** The main loop reads the flag, waits for a request, refuses it or
counts it (`fetch_add`, comparison and undo are separate steps) and spawns its
thread. A handler answers, or panics (as `with_exclusive` does when the PostgreSQL
pool times out) and never gives its slot back. A stream ends its request at once and
goes on in a writer thread. A background request enqueues a job with the sweep of
`enqueue`; workers claim and end jobs. The exit stops everything.

**Mcp.** A session is its jti; whether its token verifies is its state. `initialize`
reads the role of the bearer and, in a second read, its user, and signs both. A
`tools/call` passes the gate, verifies its token again for the context of the thread,
and its body may ask the client back: find the sender of the session, register the
id, `try_send`, wait or time out, and clean up. A correlated response takes its id
under the lock and sends after unlocking. `GET /mcp` registers the sender of a
connection in the map and its thread removes the entry of the session when it ends.
`newest` and `cut` are history: which connection came last, and which ones the end of
another one unregistered.

**Matching, Columns.** Types and values are records of a few kinds. `Matching` has the
checker's questions (which patterns a type allows, what counts as covered, which union
members can be told apart) and the interpreter's (does this value match this pattern,
which arm runs). `Columns` has the column a field gets, the parameter a value is
written as, the JSON inside a JSON column, and the way back.

**Client.** What the emitted TypeScript does, not its text: `strip_hidden_json` on the
server, then `revive` and `is_check` in the order `client.ts` calls them, with `BigInt`,
`Object.entries` and the spread of JavaScript as they convert; `stringify` for an
argument; and whether the Zod and OpenAPI schemas admit a JSON.

**Arithmetic, Methods, Typing.** `Arithmetic` is `checked_*` on `Int` and the scaled
product and rounded quotient of `Decimal` with an intermediate of bounded width.
`Methods` has, for `List`, `Map`, `String`, the integers, `Timestamp` and optionals, the
signature the checker gives each method and what `call_method` does with it; here a
string is the sequence of its characters. `Typing` has a small syntax, `TypeOf`, which
is `synth_expr` when nothing is expected and `check_expr` otherwise, with the scope each
statement leaves, and `Eval`/`Run` over cells that closures share. An evaluation ends
"ok", "fails" (an error any program may meet), or "wrong" (an error the checker exists
to rule out).

**Pushdown.** A predicate is recognised as `AND`/`OR` of column comparisons, with the
clauses for deleted rows and the tenant appended; SQL is evaluated in three-valued
logic with the LIKE of each backend; what is not recognised is evaluated row by row.
`deleteWhere` and `updateWhere` are whole, with their fallbacks.

**RateLimit, FailedLogins.** Two specifications of their own, for any number of calls.
`Request` is the gate of `handle_request`: the shared row while it can be written,
otherwise the bucket of the instance, with its sweep. `Clock` is what the bucket takes
for the time: for its own bucket an instance reads it under the lock, but
`check_rate_limit_distributed` reads `now_ms` (`db.rs:3234`) before the statement waits
for a connection and the row, so a request can reach the row with a reading from before
the one that came last. `Call` is one call on the queue of an identifier: `record`
reads the clock under the mutex, `failed_login_count` before it (`session.rs:249`).
`Refilled` counts tokens in parts of one window, so that no rounding is modelled.

**Imports.** The walk of `load_program_full`. The recursion of `visit` is the stack of its
calls that have not returned, each with the import it has come to; `done` and `merged` are
the variables of that name, a file of `merged` standing for its items. `LoadImport` is one
turn of the loop over the imports: the target is read, the names are looked up, then
visited; `LoadMerged` is what `visit` does behind the loop. A file that cannot be found,
read or parsed is one that is not `readable`, and every `?` of the walk ends it (`failed`).

**Routes.** What the checker refuses, the table (`Place` is where the stable sort by
specificity puts a route), and what `resolve_route` answers for every path.

**Cron.** An expression, which is read or refused, and the instant its next run is
searched from: the fields as sets of values, civil dates from days, and the minutes the
search would stop at. What it should find is told the other way round, from the years,
months and days of the calendar to instants.

**Lexer, Parser, Formatter.** A source is a sequence of letters, where a letter is a
character or a piece of a word that is never taken apart. `Lexer` is `tokenize`, with the
version pragma, comments, doc lines and the nesting of html literals. `Parser` is the
recursive descent of `parser.rs`: a method is an operator on the tokens and a place, and
a production that only eats and parses in order is a list of parts. `Formatter` is
`format_source`, one operator per thing it does before and after a token.

**MCAlgorithms.** A behaviour is one question and its answer, and an invariant compares
the answer with a definition of what is promised that does not use the algorithm.

## 3. Runs

| run | instance | question and result |
|---|---|---|
| `LiveStreams` | 2 threads, 1 stream, 1 row, 2 writes, buffer 1, 1 connection, fair | SQLite: nothing lost, no phantom, sections exclude each other; every request ends, every event reaches its client or the stream ends |
| `LiveStreamsRollback` | 2 writes | finding: a rollback loses events of other requests |
| `LiveStreamsPool` | 2 connections | finding: a transaction is refused because another request has one open |
| `IdempotentDispatch` | 3 requests, 1 key, 2 values by address and by route, cached | one holder, one success, faithful replies, no unexplained reservation |
| `IdempotentDispatchCacheHit` | the same | finding: a cache hit keeps the key reserved |
| `PostgresPool` | 3 threads, 2 connections, nesting 2 | slots accounted, waiters woken, stuck only in the lock cycle |
| `PostgresPoolCycle` | 2 threads, 1 connection | finding: the lock cycle is reachable |
| `ServerLifecycle` | 3 requests, 2 workers, limit 1, timeout 1, fair | counter, clean exit, drain, jobs; refinement of `JobPromise` |
| `RemoteChanges` | 2 instances, 2 threads, 2 changes, 2 failures, buffer 1, retry queue 1, fair | converged, heard once, settles |
| `Mcp` | 1 login, 3 sessions, 2 calls, 2 connections, 2 responses, buffer 1 | correlation, delivery, connections, identity |
| `Algorithms` | the question sets below | fifteen comparisons with reference definitions |
| `ClientHidden` | the same questions | finding: the client refuses a reply with a hidden field |

Why the bounds are enough. The hazards of `LiveStreams` need two requests and one
observer: one thread writes while the other begins, commits, rolls back or upserts,
and a stream registers or fills its channel meanwhile; two writes are one inside a
transaction and one outside, or two on the same row, and a buffer of one is full
after one event. The safety of this run is proved without its bounds. Three requests for one key are a holder, a
retry that reclaims and a third that meets what the two left; two values, each by the
address of the rpc or by its route with an empty body, are calls that agree in body,
in arguments, in both or in neither. Three threads on two
connections leave somebody waiting beside two that release. Three requests with a
limit of one are one in flight, one saturated and one background job, next to two
workers. Two changes from two instances, a failed NOTIFY and a failed retry are what
it takes for a retry to overtake or to be dropped; a broken listener is one more
failure. In `Mcp` two calls compete for a buffer of one, a second connection replaces
the first, and two responses race for one id; the constraint `Bounded` lets `s1`
connect and call, `s2` only answer, and lets logins and the signing of `s3` happen
without traffic, because all they share with it is whether a token verifies (the
proofs have no such bound). Every bound that is not a parameter of the program is a
constant with a comment (`MaxWrites`, `MaxDepth`, `Later`, `MaxChanges`,
`MaxFailures`); the proofs have none of them but `MaxWrites` and `MaxDepth`, which are
arbitrary there.

The questions of `Algorithms`: every list of two or three arms with and without a guard
over twenty matched types, against every value that can flow into them by assignment;
every three routes of up to three segments on every path of up to three; every value
of fifty field types, optional or not, written and read; up to four requests (`MaxRequests`)
on two instances with clocks apart, readings of the clock from one unit before (`MaxLate`),
an unreachable store and a sweep; up to five calls (`MaxCalls`) on the queue of attempts at
any of the instants up to `MaxTime`, in any order for a count, with two windows; every three files with up to two imports each, cycles and diamonds among them, with one that
declares no name or (when one file imports nothing) one that cannot be read; cron expressions of
every kind of field at four instants (the end of 1999, a leap day, the last leap day
before 2100, an ordinary day) on the real calendar with a day of two hours of two
minutes, the runs of the next ten years (`YearsAhead`) told; predicates of up to two connectives over a table with one row of every
combination of the values they look at, on both backends, with deletion marks, tenants
and two kinds of id (those about a textual id with one connective); the writes by predicate on tables of two rows; all pairs of 3-bit
integers and of 6-bit decimals of scale 4; the methods of strings on every text of up
to three letters with every part of up to two, and those of lists on every list of up
to four keys or nulls; and the bodies the checker accepts among one-operation
expressions combined, variables that are assigned, shadowed, captured and looped over,
closures, returning blocks, and calls of every modelled method on every kind of receiver,
each run on eighteen argument tuples; and every value of some 260 reply types,
most of them unions of a member with an Int64 and one without. Sources to format are all
pairs and many triples of tokens with blanks, line breaks and comments of each kind in
between (17 698); trees to write and parse are those of some 3 900 programs, with an
operator of every level beside one of each other level, an expression of every kind where
a brace may follow, and patterns, types, statements and items of every kind; and items are
broken off after each of their tokens, with another item behind. `MaxErrors` is the limit
of the parser (100), small enough to be met by a few broken imports; `MaxPad` and
`MaxRepeat` are the limits of the code (a million characters, ten million bytes), small
enough here to be met.

Deadlock checking is off because a behaviour may really come to an end: the writes
or requests of the instance are used up, the question is answered, or the process has
exited. That nobody is left waiting is a property of its own (`RequestsEnd`,
`NeverStuck`, `DrainEnds`, `Settles`).

Fairness. `LiveStreams`: a thread that can take its next step takes it; a body of a
transaction ends, because the interpreter gives every request a step budget; and a
thread that waits for a connection that is free again and again gets it (strong
fairness), because parking_lot's fair unlock hands a contended mutex over. No request
has to start, no SELECT has to fail and no client has to hang up. `ServerLifecycle`:
the main loop (its `recv_timeout` returns at least every 200 ms), the clock and the
workers go on; no handler and no stream has to end. `RemoteChanges`: request threads
run, a listener reconnects (it sleeps 5 s and tries again) and receives, and the main
loop ticks; nothing has to be written and nothing has to fail.

Each property of a passing run has a mutant in `PROJECT.json`: a plausible bug in the
modelled code (an unbounded channel, a queue not opened, a slot given back twice, a
sweep that ignores the state of a job) under which TLC finds the property violated.

## 4. Findings

1. `rollback_transaction` drops the queue of the process, and with it events of
   committed writes of other requests (`LiveStreamsRollback`).
2. With a PostgreSQL pool `begin_transaction` refuses a transaction as nested because
   another request has one open: its flag is one for the process, the section pins only
   one connection of the pool (`LiveStreamsPool`).
3. A cache hit answers after `reserve` and never gives the key back
   (`IdempotentDispatchCacheHit`).
4. `acquire` takes its mutexes in both orders (`PostgresPoolCycle`).
5. The validator and the reviver of a named struct ask for its `@hidden` fields, which
   the server takes out of the JSON: the generated client throws on every reply of such
   a type, though `GRAMMAR.md` 3.232 says the revivers leave the field out; the filter is
   in a branch that no named type reaches (`ClientHidden`).

The properties of the passing runs are stated with the known exceptions made explicit,
so that they say: nothing else goes wrong. Besides the five above these are:

- `InFlightAccounted`: a request thread that panics keeps its slot of `in_flight`
  (`server.rs:1057`).
- `RepliesFaithful`: `handle_request` hashes the body alone (`server.rs:1990`), and a call by
  the `@route` of the rpc has its arguments in path and query (`build_route_args`,
  `server.rs:2411`), which the checker lets an `@idempotent` rpc have
  (`checker.rs:2604`). The same key with another path is answered with the reply of the
  other operation, where `idempotency.rs:46-49` and `GRAMMAR.md` 3.140 want a key that is
  reused for a different operation to be a conflict.
- `ConnectionsAccounted`: the end of an old MCP connection removes the entry of the
  session, the connection that replaced it included (`server.rs:3223`).
- `IdentityCopied`: a bearer that ends between the two reads of `handle_initialize`
  leaves a session with a role and no user.
- `Converged`: a retry queue that is full loses its oldest entry, a retry that fails
  goes behind newer entries, and the queue may then exceed
  `MAX_PENDING_NOTIFY_RETRIES`, where the comments of `db.rs` (1536-1538, 4328-4332)
  promise a bound and the order of arrival; threads may publish in another order than
  they committed.
- `HeardOnce`: a row that a trigger announced is read again, so one version may be
  delivered twice; so may a NOTIFY that failed after PostgreSQL took it.
- `RouteIsMostSpecific`: a declared route such as `/:a/:b` (or one with a catch-all
  behind a parameter) takes the `/Service/rpc` address of a service, while a full
  catch-all does not.
- `MatchSound`: a nested pattern that can refuse a field counts
  as covering its variant, so the error that `mod.rs:1156` calls impossible is
  possible; a record that came by subtyping may carry something else under an optional
  key; two `Result`s, or a `Map` and a struct, are accepted as distinguishable members
  (`GRAMMAR.md:843`). An `Int` literal never matches an `Int64`.
- `StoredIsReadBack`: a NaN inside a JSON column makes its row unreadable, and a union
  whose members have one JSON form reads back as the first that fits.
- `LimitHonoured`: a store that comes and goes, and buckets swept after an hour although
  the window is longer, let more through; so does, each time, a request that takes over
  the row from one whose clock was behind: of another instance, or `now_ms` read earlier.
- `FailureCountExact`: a count with a short window forgets attempts that a longer
  window still wants, and so does one with the same window for one that read the clock
  before it.
- `NextRunIsFirst`: a task of the 29 February is stopped when the next leap day is eight
  years away, across 2100 (`cron.rs:159`, which calls such a schedule impossible, where
  `GRAMMAR.md` 3.289 says it occurs every four years). Only the text `*` is
  unrestricted: `*/n` counts as a restriction in the OR of the two day fields.
- `PredicatesAgree`: in SQL a null is neither different from a value
  nor in or out of a list, so rows are missed that the interpreter selects; SQLite's
  LIKE ignores the case of ASCII; `deleteWhere` takes no id but a number and the
  row-by-row `updateWhere` no text; a single UPDATE announces nothing and is undone as
  a whole by one `@unique` clash, where the row-by-row way skips the row; an empty patch
  counts the rows on one way and none on the other.
- `NumbersExact`: a quotient of decimals is an error when an intermediate does not fit,
  although the quotient would.
- `AcceptedRuns`: a record by subtyping, as in `MatchSound`, and a method name that is
  also a field of the value (`mod.rs:936-955`), which is called instead.
- `ClientReads`: `BigInt` and `Object.entries` convert more than an Int64 or a map, so the
  client takes a `true` of `Int64 | Bool` for `1n`, and a 5 of `Map<String, Int64> | Int`
  for `{}`: the first member of the union that can be made of the reply wins. A NaN is
  null in JSON, which a `Float` refuses.
- `SchemasAdmit`: `openapi.json` says that an `Int64` is an integer, where the reply has a
  string.
- `MethodsAgree`: `truncate` gives the whole suffix when the suffix is longer than the
  limit, where its comment (`mod.rs:4222-4225`) says the result never exceeds it. What
  the property does not speak of: `take` with a negative number takes everything
  (`mod.rs:3778`), and `diffMillis` subtracts unchecked (`mod.rs:4254`): the model has
  the wrap of a release build, a debug build panics.
- `FormatKeepsProgram`: a float with an integral value is printed as an integer
  (`1.0` becomes `1`), a tuple access in a tuple access as one number (`t.0 .1` becomes
  `t.0.1`), two `?` of a type as `??`, and so are `! =`, `. .` and the word beside
  `transaction` or an html literal, which no program has. The version pragma is lost,
  and with it its check: the comment at `fmt.rs:387` says that a gap holds only blanks
  outside comments. A comment behind `;`, `{` or `}` moves to a line of its own, where
  `fmt.rs:344` says it is not moved.
- `ParsesBack`: where an item breaks off behind `{`, `,` or `.`, the keyword of the next
  is taken for the name of a field and that item is lost, though the comment at
  `parser.rs:240` says these keywords appear nowhere else. `at_item_start` is not the
  condition `parse_item` dispatches on, as its comment (`parser.rs:222`) says it is: it
  lacks `ai {` and the `@` of an annotated type, so the parser runs past an `ai` block
  that follows a broken item. Not written by the printer of
  the trees, because the grammar of the code has no way to read them: an anonymous struct
  without its own braces whose first field is a keyword, and a map or an anonymous
  struct as the body of an arm, whose brace starts a block.

`return` ends the innermost block only, which the documentation says (`GRAMMAR.md`
3.15) and `Run` models.

## 5. Proofs

**ServerLifecycleProofs**, for any finite set of requests, any workers, limit and
timeout: `TypeCorrect`, `CounterCorrect`, `CleanExit`, `DrainAdmitsProbesOnly`,
`JobsStayInOnePlace` and `PromiseKept`. `InFlightAccounted` is not inductive alone:
the undo of a refused admission is only right if the request in hand was counted and
never started, so `IInv` adds what the main loop has in hand (`HandInv`), when the
loop may be left (`DrainInv`), the counter as the cardinality of the held requests
(`CounterInv`), that a job exists only once its request enqueued it (`JobInv`), and
that a job is in one place (`JobsInOnePlace`). Each action has its step for each
part it can disturb; cardinalities change by adding or removing one request.
`PromiseKept` maps each step to a step of `JobPromise` or a stutter under the mapping
stated in `ServerLifecycle`.

**LiveStreamsProofs**, for any threads, streams, rows and number of writes.
`TypeCorrect` needs no assumption on the connections. The others assume
`SingleWriter`: all elements of `Connections` are equal, as with SQLite; without it
`SectionsHold` is false: a transaction is refused (finding 2), and what an `upsert`
found can be stale when it writes. The argument is
the one the comments of `mod.rs` make: the lock of the connection orders everything
else.

- `HoldInv`: a thread in an exclusive section holds the connection, only one does,
  and the queue is open exactly while some transaction is past its BEGIN. From it
  follow `BeginNotRefused` and `UpsertIsAtomic`, together `SectionsCorrect`.
- `DirtyInv` and `PhantomInv`: uncommitted versions are only in the rows, the hands
  and the queued events of their own transaction; outside one, what a thread has at
  hand is committed. From them follows `NothingPhantom`.
- `RowInv`: a version is in one row, so a re-read finds what was written or something
  newer of the same row. `QueueInv`: every write of an open transaction is about to
  be queued, queued under its name, or its re-read failed. With these, each version
  that a step leaves in a row is announced, and each announcement survives each step:
  `NothingGoesMissing`.

**PostgresPoolProofs**, for any finite set of threads, any pool size and nesting:
`TypeCorrect`, `SlotsCorrect` and `WaitersCorrect`. The count of slots only changes
rightly if a thread that changes it holds the mutex it should, so `LockInv` says where
the owner of each mutex stands; the rest is the cardinality of the threads that hold a
slot, and of those awake, which each step changes by one thread at most.
`StuckCorrect` is `StuckOnlyInCycle` with what blocks a thread said outright (`WantsIdle`,
`WantsTotal`) instead of with ENABLED, which the provers do not handle; TLC agrees on the
run's instance that the two are the same, and `StuckIsStill` proves that a thread that is
`Stuck` takes no step. The argument (`WaitsEnd`) follows the waits: who waits for `idle`
waits for its owner, and an owner that is itself stuck waits for `total`, whose owner is
stuck only on `idle`. `CycleIsForever` is what makes the finding a deadlock
and not a delay.

**IdempotentDispatchProofs**, for any requests, keys, calls and lifetimes:
`HolderUnique`, `SuccessUnique`, `RepliesCorrect`, `OrphansCorrect` and `TypeCorrect`.
What makes it work is time: while a key is not in `slow`, the age of its reservation is
the time its one holder has held it (`HolderInv`), so `reserve` hands it on only when it
is slow. `HolderInv`, `OwnerInv` (whose entry it is, and why it is still there), `SuccessInv` (a success is recorded, or expired, or its key
was slow) and `CacheInv` (what is cached was computed for those arguments) are inductive with
`StageInv` (what each stage of a request implies about its outcome). `RepliesCorrect`
assumes of the calls that those by the address of the rpc have their arguments in the
body (`CallsAssumption`), and nothing of those by a route.

**McpProofs**, for any logins, sessions, calls, connections and responses, and without
the bounds of the run: `CorrelationCorrect`, `DeliveryCorrect`, `ConnectionsCorrect`,
`IdentityCorrect` and `TypeCorrect`. Sessions, connections, and the correlation of
samples touch different variables, so the invariant has a part for each (`SessionInv`,
`ConnectionInv`; `CallInv`, `PostInv`, `TakenInv`) and the frame lemmas carry a part over
the steps of the others. The heart is `TakenInv`: while a sample is in progress its id is
in the table or exactly one response has taken it.

**RemoteChangesProofs**, for any instances, threads, number of changes and failures, and
sizes of the two queues: `HeardOnceCorrect`, `ConvergedCorrect` and `TypeCorrect`.
Neither property is inductive: both are about what was delivered, and what decides it is
what is still on its way. `IInv` therefore follows an announcement from the thread of its
writer through the retry queue, the flush in hand, the `wire` and the channel to what the
subscribers heard.

- `SourceInv` and `MessageInv`: a change has one thread, then one place in the queue of
  the instance that made it; a message names an existing change and who made it, and
  the channel of an instance only has what `parse_remote_notification` lets through.
- `OnceInv`: unless an instance may be told twice (`again`), a change is in one place on
  its way to it: with its writer, on the wire, in the channel, or heard. It gives
  `HeardOnce`.
- `OrderInv`: an older change that is still on its way and not known to be late has the
  last one behind it, or the last one is given up, still with its writer, or was this
  instance's own and is delivered already (so that what comes now is recorded as late).
- `ArrivalInv`: the last change is given up, on its way, about to be delivered after a
  re-read, or what was heard last. With nothing on its way it is `Converged`. `CargoInv`
  carries it over the re-read: while a trigger announces the last change, the row is there.

Each step of the system moves an announcement by one place (`WireSteps`, `ChanSteps`,
`ReadSteps`, `HeardSteps`, `SourceSteps`), and the invariants are kept by these lemmas
rather than by the actions one by one.

**CountingProofs**, on limits, for any sequence of requests and calls, any limits and windows, any
number of instances, any distance of their clocks and any wait of a reading:
`LimitCorrect` and `CountCorrect`.

- A bucket has no memory of who it let through, so `LimitHonoured` is not inductive.
  `Room` says what it has instead: from each request it let through, what those since
  then have cost, plus the tokens the bucket holds, is at most the capacity and what the
  time since then refills, with one advance of `Spread` for every handover to a clock
  that is further ahead. `Admit` keeps it when a request takes tokens, `Keep` when one is
  refused. The shared row is as its last *admitted* request left it, because a refused
  one does not write (`RowInv`); the bucket of an instance as its last request did
  (`OwnInv`), unless a window longer than the sweep was forgotten. Why a bucket idle for
  `MaxIdle` may be removed is `RefilledProperties`: after a window it is full anyway.
- For `FailureCountExact` the invariant is where the queue comes from: each instant in it
  is that of an attempt (`Queued`), in order, and an attempt since the last reset that is
  missing was older than the window of a count since then. `PrunedProperties` (what
  `pop_front` leaves) needs the least index inside the window, from the well-founded
  order of the naturals (`Least`).

**CountingProofs**, on numbers, for every width of the two integers, every scale and all
operands: `NumbersCorrect`. `Division` gives quotient and rest in magnitudes; `QuotientFits` is
why nothing but the least number by -1 overflows, and why the step away from zero always
fits; `Rounding` that the quotient or the next number away from zero is the nearest. The
proof needs twice the scale to fit the wider integer, which `NumbersAssumption` states
and `DECIMAL_SCALE` (10 000, in an `i128`) meets. It found the `CASE` of `checked`
ambiguous where a division has no result, so that only the order in which TLC takes the
arms made it right; the arms are now disjoint.

**ProgramProofs**, for any files that import each other in any way, and any texts, rpcs,
paths, services and routes, and any cron expression, instant, minutes, hours and days:
`LoadCorrect`, `RouteCorrect` and `RunCorrect`.

- `LoadedOnce` speaks of the files the program reaches. There is no induction over paths of
  imports here, so `Reached` is the least set that is closed under import, and the two
  directions are two ways to use it: what the walk enters is in every closed set
  (`ReachedOn`), and what it has done at the end is closed, so it contains `Program`
  (`ReachedLeast`). The invariant of the walk (`Walk`): the files of the stack are
  distinct and each is reached from those below it (`Path`), which is why a file that is
  met again imports itself; the imports a call is past are done, but for the one the call
  above it is about (`Past`); what is done is in `merged` once and after its imports
  (`Ordered`), and a set so ordered has no cycle. `VisitKeeps` is shared by the
  entry and by an import.
- `Place` is a permutation by counting (`PlaceOrders`), so the table has every route and
  is sorted. `MatchesOverlap` is the heart: two patterns that match one path can overlap,
  whatever catch-alls they have, so two routes of an accepted program that match a path
  differ in specificity (`NoTie`), and the first of the sorted table is the best of them. Two
  full catch-alls are equally specific, so a program has one at most (`FullCatchall`).
- `NextRunIsFirst` needs that `civil_from_days` is the calendar. Its year starts in March,
  so that the leap day is the last: `YearOfEra` says its division finds the year of an era
  of 400, `MarchMonths` that its fifths of 153 days find the month, `Civil` that the date it
  gives has that day, and `OneDate` that no other date has. Then a minute is a candidate of
  the search exactly when the expression names it and it is within four years
  (`CandidateIsDue`, `DueIsCandidate`), and the least candidate is the first run. That four
  years suffice is `FourYearsDo`: a date other than the leap day comes again next year, a
  weekday in the first week of the month of the next year, and the leap day within four
  years unless a century leaves it out (`LeapDayAhead`). The search may reach into the fifth
  year from that of the question, so `CronAssumption` asks that five or more are told.

Constants are assumed to be what the modules' ASSUMEs say (`None` is no connection,
bounds are naturals), which TLC evaluates in every run. The type invariants of
`LiveStreams`, `PostgresPool`, `IdempotentDispatch`, `ServerLifecycle`, `Mcp` and
`RemoteChanges` are proved, and so not repeated as properties of the runs.

Model-checked only: the liveness properties (`RequestsEnd`, `StreamsDrain`, `DrainEnds`,
`JobsEnd`, `Settles`), which the prover does not handle; and the algorithms other than
the six above (`LoadCorrect` says what a walk that has ended has done; that it ends is
not stated). They walk trees, types, texts or sources by recursive operators
(`MatchSound`, `MethodsAgree`, `StoredIsReadBack`, `ClientReads`, `SchemasAdmit`,
`PredicatesAgree`, `AcceptedRuns`, `FormatKeepsProgram`, `ParsesBack`), and what such an operator computes for every input
is out of reach of the installed provers.

## 6. Not modelled

- Bulk inserts, relations, audit and version tables of `Db`; several collections
  (channels of different collections share nothing). `updateWhere` and `deleteWhere` are
  modelled without the interleavings of other requests.
- What `@autoUpdate` adds to the patch of `updateWhere`.
- An `upsert` inside a `transaction { }` re-enters the section its thread already has:
  in the model it is one of the writes of the body.
- The order of the events of one instance in `LiveStreams`, whose properties are about
  which versions arrive; the order is what `Converged` in `RemoteChanges` is about.
- How old a cached reply may be: `@cache` puts it after the rpc ran, so an invalidation
  in between is overwritten (`server.rs:2098`). How often a thread that is woken for a
  pool connection may lose it to a newcomer (`store.rs:172`).
- The sleeping threads of the scheduler: one rpc at a time, whose errors are logged. Steps
  of a cron field so large that the sum of a `u32` wraps.
- JWT signatures, cookies, static files, the upstream proxy, TLS, parsing of HTTP, encoding
  of JSON-RPC: sequential code about bytes.
- Strings: a text is a short sequence of letters, each one byte wide, so that the
  difference between characters and bytes does not show; `trim`, case, HTML, slugs,
  `lines`, regular expressions, `toString`, and what `join` writes of an item that is no
  string. `Float` methods. Validators, encryption of columns, vectors, bytes, generics.
- Of the generated client: generics, `Patch`, tuples, vectors, maps keyed by `Int`, field
  validators, the range check of a bigint, and how `fetch` fails.
- Of the front end: annotations, the expressions inside html literals (their tokens are
  read, to find where they end), `\u` escapes, numbers beyond their range.
- Linter, language server, the emitters of the contract's text, hooks,
  SQL, WASM and documentation, the command line: passes over one text whose correctness is
  that of the text they write. About half of the source lines of the repository are tests inside
  these files and the emitters, which is why the modelled share of all lines is small.
- The inference engine: vendored, and changed only in its own repository.

## 7. Plan

1. `LiveStreams` as an implementation of an abstract feed that shows every committed
   version to every subscriber, and of a serial execution of transactions for one
   connection.
2. The data behind a cached reply, to say how old a reply may be beside its ttl.
