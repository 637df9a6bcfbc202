# Verification of brazier

TLA+ models of [brazier](../src/README.md) (the repository lightlib), a C++ web
framework on Boost.Asio and Beast: HTTP, HTTPS and WebSocket servers, a router,
an HTTP and a mail client, a PostgreSQL layer with migrations and active records,
Redis clients, configuration, logging, file storage and cryptography. The models are translated from
the source under `src/brazier`; `PROJECT.json` maps every definition to its lines.

* `tlc -config X.cfg M` checks a run (table below); `tlapm XProofs.tla` checks the
  proofs of one of the eight modules whose name ends in `Proofs`.
* Lower-level definitions named like a slip (`LimitOffByOne`, `KeyDropped`, ...)
  stand in a block "Variants" of each module. Nothing uses them: each is a
  plausible bug, put in place of one definition to see that a property notices.

## 1. Inventory

| Component | State | Operations | What is hard | What makes it correct |
|---|---|---|---|---|
| HTTPS server (`HttpsServer*.cpp`) | flags, `connection_count_`, one `io_context` and thread per core, work guards, acceptors | `run`, `stop`, accept loops, `release_connection` | every thread touches the counter; `stop()` races accepts, the last connection and the stats thread | limit respected, counter exact, nobody stranded, `stop()` returns |
| HTTPS connection (`HttpsServerConnection.cpp`) | coroutine, three timers, handler queue | handshake, read, handle, write, shutdown | a cancelled timer's handler may already be queued | no wait without bound, every connection ends |
| TLS reload (`HttpsServerTLS.cpp`) | `tls_` (no lock), `ssl_ctx_` (lock) | `reloadTls()`, `reloadTls(new_tls)` | overlapping reloads, files renewed in two steps | the context in place is always usable |
| Ticket keys (`TicketKeyStore.cpp`) | ring of keys per server, contexts attached to it | `attach`, `handle`, `rotate_now` | ages at the boundary, purge only at rotation, contexts replaced by reload | tickets resume for the key's lifetime, only on their server |
| HTTP server and connection (`Server.cpp`) | as above with one shared `io_context`, no strand | `run`, `stop`, accept, idle timer | timer handler on another thread | shutdown completes, bounded service after a time-out |
| WebSockets (`WebSocket*.cpp`) | sessions under shared ownership, manager's vector, handlers | accept, upgrade, send, close, register, remove, broadcast, stop | lifetime of sessions, handler priorities | roster exact, one precedence of handlers, no traffic ends the process |
| HTTP client (`HttpClient.cpp`) | one timer, `timed_out`, socket | resolve, connect, write, read | time-out together with completion, torn TLS connections | ends, returns only whole responses |
| Mail client (`SmtpClient.cpp`) | the dialogue with the server | `send` | no time-outs, lost answers, replies of several lines | the result says whether the mail was taken |
| HTTPS limits (`HttpsServerConfig.cpp`) | three numbers | `load_limits_from_config` | width of `int`, zero, clamps | documented values, memory budget kept |
| Database (`Database.cpp`) | connection, `in_transaction_` | execute, transaction, savepoints, rollback, commit, queries | server and flag diverge after failures, lost answers | statements permanent in order, commit tells the truth |
| Migrations (`MigrationManager.*`) | table of migrations, cache | `migrate`, `migrateAll`, `rollback` | crash between statements, refused commit | whole and recorded, or neither; in order |
| Models (`Model.hpp`, `Collection.hpp`) | objects, rows | create, fill, save, saveMany, find, update, deletes | reads and writes use different connections, half-done batches | one row per object, saves touch their own row |
| Redis (`Queue.cpp`, `Cache.cpp`) | a static context each | push, pop, set, get, del, expire | broken connection, lost replies, retries | accepted jobs survive, in order; cache explainable |
| Configuration (`ConfigManager.cpp`) | flat map, JSON file | load, save, set, setNested, remove, clear | conversion between two shapes, failing disk | saved is reloadable |
| Logger (`Logger.cpp`) | log, old log, counter, mutex | log, rotate, init, shutdown | signals, crash during rotation | recent lines kept |
| Files (`FileDriver.cpp`) | directory, files, open streams | put, get, copy, move, delete, async | check-then-act on several threads | whole files unless raced |
| Cryptography (`RSA.cpp`, `AES.cpp`, `Hash.cpp`, two functions of `HttpsServerTLS.cpp`) | OpenSSL objects during a call | encrypt, decrypt, sign, verify, hash, load | an error path per call | every object freed exactly once |
| Routing (`Router/*`) | two route tables | register, match, `WS_` macros | overlapping patterns | handlers are where their targets arrive |

Interaction: the servers hand requests to the router; an HTTPS server owns one
ticket store that every context built by a reload is attached to; a WebSocket
connection takes its handlers from `WebSocketRouter` and registers with
`WebSocketManager`; migrations and models go through `Database`; nearly everything
logs. Not modelled parts are listed in section 8 and in `PROJECT.json`.

## 2. Modules

| Module | Models | State and actions |
|---|---|---|
| `HttpsServer` | life cycle, admission, drain | `runPc`, `stopPc`, `accPc` are program counters of the threads between atomic operations; `count` is `connection_count_`. One action per atomic operation of `run`, `stop`, `accept_loop`, `accept_and_dispatch`, `release_connection` |
| `Gate` | | abstract: a gate with a limit; `HttpsServer` is shown to implement it |
| `HttpsConfig` | `load_limits_from_config`, `get_fd_limit` | `machine` and `setting` are the inputs, `limits` the members; one step |
| `HttpsConnection` | `handle_connection` | `queue` is the handler queue of the context, `armed` the timers that run; one action per resumption of the coroutine and per timer |
| `TlsReload` | both `reloadTls` | `tls` and `ctx` are the members, `pc` the place of each reloading thread; an action renews one file; the key pair is read from `tls_` in one step, and compared whichever way it came |
| `TicketKeyStore` | the class and the OpenSSL callback | `keys[s]` is `keys_`, time is discrete; every member function holds `mtx_`, so each is one action |
| `HttpServer`, `HttpConnection` | `Server` | as for HTTPS; the idle handler interleaves with the coroutine |
| `WebSocketServer` | server, sessions, manager | `pc` per connection, `handlers`, `sessions` (the vector), `ops` (spawned coroutines holding a reference), `terminated` |
| `HttpClient` | one request | `stage`, `op` (operation and its queued result), `armed`, `queued` |
| `SmtpClient` | one `send` | `stage` and `step` are the place in the dialogue, `wire` the reply line under way; the server is external |
| `Connection` | `Database` as operators | an operation is the set of its outcomes: returned or threw, the connection after it, what became permanent; PostgreSQL's rules are external |
| `Database`, `Migrations`, `Model` | callers of `Connection` | a caller with any sequence of calls; the `MigrationManager` statement by statement with crashes, beside another process; objects, batches and the table |
| `TransactionalStore` | | abstract: what a caller of `Database` may rely on; `Database` is shown to implement it |
| `Cryptography` | functions that hold OpenSSL objects | a function is a table of steps: what each needs, yields and gives back, what its error path frees, and whether an exception may leave that path before |
| `Redis` | `Queue`, `Cache` | contexts with a sticky error, the server's list and store, what callers were told |
| `ConfigManager` | the class | `config` the flat map, `file` the JSON document; keys are sequences of parts, the order of the unordered map is any order, a text is known by what `json::parse` makes of it and a value by the text `toString` makes of it |
| `Logger` | the class | steps of `log` and `rotateLogs` under the mutex; signals and ends of the process between them |
| `FileDriver` | the class and its async forms (`Storage` is the same code) | tasks as sequences of POSIX calls; a copy reads its source in two parts |
| `Routing` | `Router`, `WebSocketRouter`, macros | tables as sequences; a path is the sequence of its pieces |
| `HttpStack` | `HttpServer`, `HttpConnection`, `HttpsConnection`, `HttpClient`, `SmtpClient`, `HttpsConfig` together | their variables and `subject` |
| `Persistence` | `Database`, `Migrations`, `Model` together | their variables and `subject` |
| `Services` | `ConfigManager`, `Logger`, `Redis`, `FileDriver`, `Routing`, `Cryptography` together | their variables and `subject` |
| `*Proofs` | | the theorems of section 5; each extends the module it is named after, `ModelProofs` extends `PersistenceProofs` |
| `MC*` | | instances for TLC |

Composition. `Database`, `Migrations` and `Model` are built on `Connection`.
`HttpStack`, `Persistence` and `Services` hold several components that read none of
each other's state. A variable `subject`, chosen at the start, says which one takes
all the steps: interleaving independent components would multiply states and show
nothing new. They leave every constant open; `MCHttp`, `MCDatabase` and
`MCServices` give the values.

## 3. Runs

| Run | Bounds | Shows |
|---|---|---|
| `ticket_ring` | 2 stores, 3 contexts, interval 1, lifetime 2, time 4, 4 keys | rings sorted and bounded (`NewestFirst`, `BoundedRing`), `TicketsResume`, `Isolation`, `SealedByFreshKey` |
| `https_admission` | 2 contexts with SO_REUSEPORT, 3 clients, 1 slot, `stop()` at any moment | `AdmittedWithinLimit`, `NoStranded`, refinement `AdmissionIsGate` |
| `https_shutdown` | 2 contexts, one acceptor, 3 clients, 1 slot, `stop()` at any moment, also while `run()` is starting | `PromptDrain`, `ShutdownCompletes` |
| `http` | server: 2 workers, 3 clients, `stop()` at any moment; connections: 3 requests, 2 idle handlers in flight or a queue of 5; one request; one mail; limits with an `int` of ten bits | `ShutdownCompletes`; `OneLateRequest`, `ConnectionEnds`; `WholeResponse`, `RequestEnds`; `ResultTellsTruth`, `SendEnds`; `MemoryBudgetKept` |
| `tls_reload` | 2 reloading threads, 2 file versions | `NeverBroken`, `ConfigMatchesContext` |
| `ws_sessions` | 2 connections, a bounded number of spawned operations | `Roster`, `HandlerPrecedence`, `DiesOnlyBy`, `CountCoversFrames` |
| `database` | 4 statements; 2 migrations of 2 statements, 3 calls, 2 processes; 2 objects, 2 fields, 2 keys, batches of up to 2, 5 calls | refinement `ImplementsStore`, `CommitTellsTruth`; `WholeOrNothing`, `InOrder`; `OneRowPerObject`, `OwnRowOnly`, `BatchWholeOrUpdates` |
| `services` | see `MCServices` | `SavedIsReloadable`; `RecentLinesKept`, `ClosedOnlyByExit`; `InOrderNoExtraCopies`, `CacheHoldsLastWrite`; `WholeUnlessRaced`; `FirstRouteWins`; `ObjectsComeHome` |
| `https_late_accept` | 2 contexts, 2 clients | *violation* of `GracefulDrain` |
| `migrations_skip` | as above, COMMIT may be refused | *violation* of `InOrder` |
| `deletions_told` | 2 objects, 1 field, 4 calls | *violation* of `DeletionsTold` |
| `connections_limit` | an `int` of ten bits | *violation* of `ConnectionsAsDocumented` |

Why the bounds are enough. Races here are between two actors, or between two and
`stop()`: two contexts, two reloaders, two tasks, and one client more than there
are slots, reach each of them. A timer can be stale once per phase, so three
requests and two handlers in flight contain a stale handler, its successor and a
request after both. The ring needs a lifetime of more than one interval and time
for a key to expire after two rotations. A migration of two statements has an
inside; a chain of two has an order. Five calls on models hold begin, save,
rollback, save, and find, change, save on two objects of one row. A mail is one
dialogue of eight replies, each of which may have any number of lines. The limits
are computed with an `int` of ten bits and a megabyte of 400 bytes, which keep the
order of all the bounds in the code; the inputs lie on both sides of each of them.
The functions of `Cryptography` are finite.

Refinement. `Gate` promises that at most `max_connections_` connections are inside
and that a connection is refused only while as many are inside or being refused. A
connection is inside from the `fetch_add` that let it pass to the `fetch_sub` of its
guard; a slot that leaked, or was given back twice, would show as a refusal, or an
entry, that the gate forbids. `TransactionalStore` promises that the statements of
a transaction become permanent together, in order and once, or not at all;
`conn.work` maps to the open transaction.

Each module states the shape of its state as `TypeOK`; the run `ticket_ring`
checks it where a proof rests on it.

Deadlock is checked where the system has an end (`Finished` stutters there); the
runs `database`, `services`, `ws_sessions` and the violations may simply stop,
when bounds or clients run out.

## 4. Fairness

* `HttpsServer`, `HttpServer`: weak fairness of the steps of `run()`, of `stop()`
  with the end of its `wait_for`, of the stats thread and of the contexts' or
  workers' threads. No connection has to end and no client has to come: `stop()`
  returns without their help, after its ten seconds. Nobody has to call `stop()`.
  Threads are scheduled by the operating system, and none blocks on a step that
  is enabled here. The one exception is `stats_mutex_`, which the stats thread of
  `HttpsServer` takes again and again: `stop()` gets it with strong fairness,
  because it is free for the ten seconds of every wait.
* `HttpsConnection`: the context's thread runs queued handlers, armed timers
  expire, the application's handler returns, and an operation on a closed socket
  completes. Nothing is assumed of the peer.
* `HttpClient`: resolution ends (it has no timeout of its own), timers expire,
  handlers run; nothing is assumed of the peer.
* `SmtpClient`: the client goes on, and a server that keeps the connection sends
  the last line of a reply at some time (strong fairness, since it may send any
  number of lines before). The client has no time-out, so without an answer, or
  the end of the connection, it would wait for ever.

## 5. Proofs

The theorems hold for every value of the constants that satisfies the assumptions
named in the modules. Each rests on an inductive invariant; none of the
properties is inductive alone, and what had to be added is the argument for it.

| Module | Theorems | Any |
|---|---|---|
| `TicketKeyStoreProofs` | `Invariance`, `TypeCorrect`, `SortedRing`, `Resumption`, `ServerIsolation`, `FreshSealing`, `RingBounded` | stores, contexts, interval and lifetime |
| `HttpsServerProofs` | `Invariance`, `TypeCorrect`, `LimitKept`, `NobodyStranded`, `DrainIsPrompt`, `ImplementsGate` | contexts, clients, limit, one acceptor or one each |
| `TlsReloadProofs` | `Invariance`, `TypeCorrect`, `ContextNeverBroken`, `RollbackComplete` | reloading threads, versions, configurations |
| `WebSocketServerProofs` | `Invariance`, `TypeCorrect`, `RosterKept`, `PrecedenceKept`, `TrafficNeverKills`, `CountExact` | connections, operations in flight, handlers of the manager |
| `HttpStackProofs` | `LateRequests`, `ResponsesWhole`, `SendResult`, `BudgetKept` | requests, handlers in flight, widths and limits |
| `PersistenceProofs` | `CommitIsTrue`, `IsStore`, `MigrationsInOrder`, `MigrationsWhole` | statements, migrations, calls |
| `ModelProofs` | `RecordsTyped`, `RowsPerObject`, `SaveWritesOwnRow`, `BatchIsWhole` | objects, fields, values, keys, batches, calls |
| `ServicesProofs` | `CacheExplained`, `JobsInOrder`, `NoUseAfterClose`, `LinesKept`, `FilesWhole`, `RoutesKept`, `SettingsReload` | jobs, keys, threads, `maxLines`, tasks, paths, routes, settings |

**Ticket keys.** Assumed: the interval is positive and not longer than the
lifetime, `NoStore` is no store. `RingInv`: a ring is strictly ordered by name and
weakly by age, its keys were made in the past under names already given out, and
no name is in two rings. `TicketInv`: a key with the name of a ticket is in the
ring of the ticket's server and is as old as the ticket says, and it *is* in the
ring while its lifetime lasts. Without the order, the purge, which only looks at
the back of the ring, could drop a young key behind an old one, and without
distinct names another server could hold the name. First keys, scheduled and
forced rotations are treated alike as a `RingStep` (a new key in front, expired
ones gone from the back). `SpaceInv` gives the bound: a key made on schedule is an
interval younger than those behind it and the ring lies within a lifetime of its
front, so the ages of these keys fall into different intervals; a count by an
injection does the rest.

**HTTPS server.** Assumed: at least one context, finitely many clients, a limit
that is a natural number. `Accounting`: `connection_count_` is the number of
connections inside or being refused. It needs `Sockets`, that each accept loop
holds a socket of its own from the accept to the decision. `Threads` says why a
thread may have left its context, which carries `NoStranded`; `Awake` is
`PromptDrain` already from the moment `stop()` has decided to sleep. `ImplementsGate` is the refinement: a
`fetch_add` below the limit is `Gate`'s entry, one at the limit its refusal, and
every other step is one of its steps or a stutter. By `Accounting` a refusal
happens only when the gate allows it.

**TLS reload.** Assumed: the versions are numbered up to a natural number. `Sound`
follows a context through its build: what was checked of it stays true although
other threads write `tls_` in between. `Alone` says what `tls_`, `saved` and
`new_ctx` hold while no two reloads have overlapped.

**WebSockets.** Assumed: finitely many connections, a positive bound on
operations. `Registry`: the manager's vector holds each connection at most once,
and, while the server runs, exactly the registered ones that were not removed. A
connection that ended counts as registered if it has handlers, and `Given` says
which handlers a session has at each place of `handle_websocket`. `Owners`: who may
hold the last reference to a session, which decides whether its destructor can end
the process (`DiesOnlyBy`).

**One connection, one request, one mail, the limits.** `LateIsLast`: after the
time-out `timed_out` stays set and the loop is not entered again. `ClosedIsTold`:
an operation that can still succeed has an open socket, or a handler has told the
coroutine otherwise, so a response is returned only when it is whole (an action
property). `TakenIsKnown`: the server takes the mail with the last reply and no
sooner, and the client writes QUIT only when it has read that reply. `BudgetInv`
holds for any width of `int`, any memory and settings; assumed is that a floor is
below its cap.

**Database and migrations.** `CallerInv`: statements were numbered in order, and
without savepoints and `query()` the client's flag and the server agree on the
transaction. With it each call is a step of `TransactionalStore` or a stutter
(`IsStore`). `ManagerInv`: the connection has nothing open between calls, the
transaction under way contains exactly what the place in the code says, the cache
is the table, each migration in force is a multiple of its statements, and the
part of the chain begun is recorded. Assumed: the chain names every migration once
and a migration has a statement (`ChainAssumption`). `MigrationsInOrder` and
`MigrationsWhole` have the hypothesis `~DeferredErrors`, no COMMIT is refused: the
run `migrations_skip` shows that order is lost otherwise (section 6). Crashes,
lost answers and a second process are included.

**Models.** Assumed: objects are filled with functions from sets of fields to
texts, bounds are numbers (`InputAssumption`). `RecordTyped`: the table, as
committed and as the open transaction leaves it, has only keys that the sequence
has handed out, so an INSERT's key is new. `KeysKept`: a key that `save()` inserted
is still the key of its object, unless an answer was lost; two rows of one object
would be two keys of it, which is `OneRowPerObject`. A rollback takes rows away and
gives no key back. `OwnRowOnly` and `BatchWholeOrUpdates` are action properties of
the table *as the transaction sees it*: what is committed, then the statements of
the open work. `StepKinds` sorts every call by what it does to the two (nothing to
the table, a save's UPDATE or INSERT, a batch, any other write), and the properties
are proved of the kinds. For a batch one shows, by induction over the objects, that
`toUpdate` and `toInsert` are the objects with and without a key in their order,
that the UPDATEs sent as one command leave the last object's value in each column
(`BatchPuts`), and that the INSERT's rows are the keyless objects one by one, under
the next keys of the sequence: `Matches` pairs the places of `toInsert` with those of
the batch, which gives each its own row (`Added`).

**Services.** Assumed: `maxLines` positive, bounds are numbers, paths are
sequences. `CacheInv`: a `get` may return what the cache holds, and nothing where
an expiry is set. `QueueInv`: what entered the list is what was popped followed by
what is there, and a job entered at most as often as it was tried. `LogInv`: one
thread is inside the mutex, the file is open until `exit`, a rotation finds a full
log, and both files together hold the last lines, without a gap. `DropInv`: before a
signal, and while no rotation failed, the file is closed only while a thread is
inside `rotateLogs`, which holds the mutex, so that no line is dropped. `DiskInv`: a
file not spoilt by a race or a failed write is whole, or is being written by exactly
one task. For copies it needs `CopiesInv`: a copy that has taken the first part of its
source, and is not spoilt, holds that of a whole file which nobody has written to
since.
`TableInv`: a handler sits on a route that matches its own path; with
`MatchThrough` (matching a route that matches a path means matching the path) and
`AppendKeeps` (a route added behind the others changes no answer that was given) it gives both
halves of `FirstRouteWins`. The tokens of a path are a loop, written as a recursive
function. The library's induction theorems take an operator, which the provers
cannot instantiate; `SetInduction`, for a set of natural numbers, follows from
the least element of such a set (`Least`) and needs none, and gives what the loop
computes (`LoopExists`, `LoopEnds`, `TokenFacts`).

`SettingsReload` assumes only that keys are sequences of parts and documents finite.
`SettingsInv`: the settings are a finite map over such keys, and after a `save()` that
returned the file, unless it was cut short, is a document that `Holds` them: under
every key that stands alone what its text parses to, and nothing that is under no
key. Its core is a round of `unflattenMap`'s loop (`PutUnder`): the leaves that stay are
those neither above nor below the key, so a key that stands alone is touched only by
its own round, whichever key the unordered map gives next (`UnflattenHolds`). Reading
it back, `flattenJson` keeps the part under a key (`FlattenPart`).

Only model-checked:

* liveness (`ShutdownCompletes` of both servers, `ConnectionEnds`, `RequestEnds`,
  `SendEnds`): the prover handles neither fairness nor `ENABLED`;
* what the runs with a violation show (section 6);
* `ObjectsComeHome`: the tables of steps are finite and have no parameter, so the
  run is exhaustive.


## 6. Disagreements the runs show

* **Late accept** (`https_late_accept`). README: `stop()` "returns after all
  in-flight connections complete". A connection accepted before the acceptor
  closes but counted after `stop()` has found the counter at zero is served, and
  cut when the contexts stop.
* **Skipped migration** (`migrations_skip`). When COMMIT itself is refused the
  migration stays in `executedMigrations`; the next `migrateAll` logs "Migration
  already executed" and applies its successors without it.
* **Deletions** (`deletions_told`). README: `Collection::delete_()` "returns true
  only if all deletions succeeded". `Model::delete_()` throws nothing, so the
  result is true for every non-empty collection.
* **Limit of connections** (`connections_limit`). README: "`max_connections` =
  `RLIMIT_NOFILE × 0.8`". The product by eight is an `int`; with 1073741816 open
  files the result is -6 and every connection is refused.

Further disagreements have no run of their own, since the properties that pass state
what the code does; each is named where the property is defined.

* **Number of sessions** (`Roster`). README 1130 answers "Active sessions" with
  `get_session_count()`. A session leaves the manager's vector only by
  `remove_session`, which its close handler calls, which only its destructor calls,
  which the vector itself puts off (`WebSocketServer.cpp:234`, `249`): sessions whose
  connection has ended stay, and are counted, until the application removes them or the
  server stops.
* **Handler priority** (`HandlerPrecedence`). README 1144-1167: route handlers have
  priority, global ones are called when there are none, close and error call both.
  A handler set by `WebSocketManager::set_global_*` replaces the route's, of every
  kind and also on sessions registered before. The router's global handlers (`WS_G_*`)
  follow the text, but for errors, which only the route's handler gets when it has one.
* **Result of saveMany** (`BatchWholeOrUpdates`). `Model.hpp:316`: "True if all models
  were saved successfully, false otherwise". The UPDATE of an object whose row was rolled
  back or deleted matches nothing and the answer is true, as `save()`'s is
  (`Model.hpp:136-143`); an object that lacks a column of the first one makes
  `getAttribute` throw (`Model.hpp:424`) instead of answering false.
* **All logs are saved** (`RecentLinesKept`). README 348. After a failed `rename` or
  `fopen` in a rotation `logFile` stays null and every later line of the process goes to
  the standard output only.
* **Handlers of a route** (`FirstRouteWins`). README 1148-1161 calls a route's own
  handler. `WS_R` and `WS_MSG` for `/:x/:x`, then both for `/a/:x`, leave the second message
  handler on the first route: `WS_MSG` looks its path up as a target, finds
  `/:x/:x` first and overwrites (`RouterRegisterer.hpp:59-63`); `/a/:x` has none.

## 7. Conditions on the properties

Some properties carry a condition because without it the code does not have them:

* `ShutdownCompletes` (both servers) holds for a `stop()` at any moment, with one
  exception: `run()` stores false into the flag after it has started its threads,
  so the stats thread does not see an earlier `stop()`. Whoever joins that thread
  (`run()` of the HTTPS server, `stop()` of the plain one) waits for ever.
* `NoStranded`: the run has SO_REUSEPORT only; the other case is covered by the
  theorem `NobodyStranded`. With one acceptor, the accepting context deals connections out to
  all of them, also to one whose work guard `stop()` has removed and whose thread
  has left; such a connection is never served. With SO_REUSEPORT it cannot happen.
* `PromptDrain`: unless it was a rejection that took the counter to zero; it does
  so without a notification, and `stop()` sleeps for its ten seconds.
* `ConfigMatchesContext`: no two reloads overlapped; `tls_` is shared without a
  lock. Of overlapping reloads only `NeverBroken` speaks. A torn read of `tls_`, between
  the reads of certificate and key, is folded into one step: the pair that is loaded is
  compared anyhow.
* `CountCoversFrames`: the counter is never decremented for a coroutine that an
  exception ended, in the read of the request or the write of its refusal, in
  `on_connect`, or in the error handler. These stay in it for ever.
* `Roster` lists sessions whose connection has ended, and `HandlerPrecedence` puts the
  manager's handlers first (section 6).
* `ResultTellsTruth`: a failed `send` may have delivered the mail when the answer
  was lost, and a message with a line that is a single dot is cut there.
* `SendEnds`: not with a reply that is a code alone, on which client and server
  wait for each other, and not with empty credentials, whose masking in an error
  message ends only when the memory does.
* `WholeOrNothing`: of a migration that another process executes at the same time
  nothing is claimed; the table has no unique name, so both may apply it, and the
  property would not notice a second application.
* `OwnRowOnly`: a stale object overwrites the columns it has, and the UPDATE of a
  row that is gone changes nothing while `save()` answers true.
* `BatchWholeOrUpdates`: `saveMany` sends its updates first; when a later statement
  fails they stay, and the new objects are inserted all or none. A keyed object whose
  row is gone is skipped, and the answer is true all the same.
* `ObjectsComeHome`: a function that cannot allocate its result string frees
  nothing, nor does `Hash::hash` when a call fails and `Logger::log`, which comes before
  the frees (`Hash.cpp:46`, `63`), throws.
* `CommitTellsTruth`: no savepoints and no `query()`. After a failed `query()`
  the transaction is aborted and COMMIT "succeeds"; a failed `rollback(name)`
  clears the flag of an open transaction.
* `OneRowPerObject`: the object's `save()` never failed (a lost answer may hide a
  row) and `saveMany` did not insert it (it gets no key, so saving it again
  inserts it again).
* `DiesOnlyBy` lists the cases in which `~WebSocketSession` ends the process.
* `InOrderNoExtraCopies`: an error reply passes for success in `push`, so a job
  so refused is not in the queue.
* `SavedIsReloadable`: the settings come back as `json::parse` reads their texts. A
  string literal is no `std::string`, so `set(key, "literal")`, as in
  `config_test.cpp:65`, stores it with its quotes (`ConfigManager.hpp:45-60`), and after
  `save()` and `load()` they are gone; the text of a JSON object comes back as settings
  below the key. A number is a text as `dump` writes it (`1e2` is read back as `100.0`).
  Of keys of which one is a prefix of another (`a` and `a.b`) nothing is said: by
  the order of an unordered map `save()` throws or one of them is lost. No settings at
  all are saved as `null`, which comes back under the empty key; `save()` is then undefined,
  since that key has no part. A write that fails half-way leaves a torn file, which
  `save()` does not notice.
* `RecentLinesKept` is about lines that reached the file. Others are dropped, but only
  after a failed rotation or during `exit`.
* `WholeUnlessRaced`: `put` notices no failed write, two puts mix, and a copy
  whose source is written to between its parts takes some of each; `copy()` does not
  notice either.
* `FirstRouteWins` is about the handlers that routes have now. A macro that finds no
  route drops its handler without notice, and one that finds an earlier route overwrites
  that one's (section 6).

Also seen while modelling, and not a property of a run: README says the TLS
shutdown has 5 s, the code 2 s; old ticket keys leave the ring only when a new
one is generated, so an idle server accepts them beyond 48 hours; `Server` does
not enforce a connection limit; `Model::count`, `max`, `sum` and `paginate` read
an alias that `create` has dropped, and throw; `saveMany` takes the columns of its
INSERT from the first object and drops the other fields of the rest; `ENV` is
initialized at its first use without a lock, by whichever threads come first; `Model::first` and `firstOrCreate`
do not compile when used.

## 8. Not modelled

* What cryptographic functions compute, encodings, random codes, validation,
  cookies, URL parsing: pure functions on bytes and strings.
* The schema builder and the joins and groupings of the query builder: text that
  goes to PostgreSQL unread.
* The S3 driver (declarations only) and the middleware: `AuthMiddleware` does not
  compile, `CorsMiddleware::handle` returns no value for most requests, and no
  server calls the pipeline.
* `StorageManager` (a map filled at start), the remaining settings and TLS commands
  of the HTTPS configuration (copied without a condition), `Engine`, the example.
* Data races without enumerable outcomes: overlapping calls on one Redis context,
  unlocked reads of the configuration, the first use of `ENV`.
* The platform layer but for `has_reuse_port` and `get_fd_limit` of Linux.
* Frames, fragments and pings of WebSockets, which are Beast's.

## 9. Plan

Done, in this order: ticket keys with proofs; HTTPS admission, shutdown and
connection; reload; plain HTTP; WebSockets; client; database, migrations and
models; services; the abstract specifications of admission and of the store, the
mail client, the limits, OpenSSL objects, a second migrating process, and
`stop()` during the start of a server.

Then the proofs: the ticket ring with its bound, admission and its refinement,
reload, WebSockets, the protocols of one connection, the limits, the database with
its refinement, migrations, Redis, the log, files and routes, and at last models with
their batches and the settings with both conversions and any texts and keys.

Every safety property of the runs that pass is proved now, except `ObjectsComeHome`,
which has no parameter. What is left: a model of the query builder's WHERE and JOIN
texts would only be about strings; the liveness properties wait for a prover that
handles fairness.
