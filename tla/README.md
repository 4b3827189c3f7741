# A TLA+ model of vexnor

Vexnor is a SQL framework for TypeScript: queries are tagged templates, compiled per
dialect, executed through a pipeline of authorization hooks and plugins, served to
browsers and to AI agents by hash, and exported as manifests that Go and .NET runtimes
execute. This directory holds TLA+ models of the parts of it that run concurrently, hold
state across awaits, decide who may execute or read what, or do the same thing in three
languages, the TLC runs that check them and the TLAPS proofs of the results that hold for
every instance. Paths below are relative to the repository root.

## Inventory

| Part | State it keeps | Operations | What is hard |
|---|---|---|---|
| `SqlQueryPipeline` (`packages/core/src/execution/sql-query-pipeline.ts`) with `runWithRetry` | `authorizeHooks`, `checkPlugins`, event listeners, `inFlight` | `use`, unsubscribe, `registerAuthorization`, `clear`, `from`, `execute` | loops over live arrays across awaits; configuration while calls are suspended; slots across retries |
| `TimeToLiveRateLimiter` (`.../execution/time-to-live-rate-limiter.ts`) | metrics per query and per query and context key | `init`, `check`, `end`, `clearContextMetrics`, sweep | the counter is incremented and decremented by different events; eviction racing calls in flight |
| `SqlQueryRegistry` (`.../execution/sql-query-registry.ts`) | queries by plugin and hash | `register`, `execute` | asynchronous hashing during registration |
| `SqlQueryHandler` (`.../core/query/sql-query-handler.ts`) | validation of a query shared by its calls | `run`, timeouts, retries | a timeout racing a late answer; retries nested in retries; validation state shared by calls |
| DuckDB instance cache (`plugins/duckdb/src/vexnor-duckdb.ts`) | `instanceCache`: path to pending or open instance with a reference count | `acquireInstance`, `release` | acquiring is asynchronous, releasing is not |
| Transactions (`plugins/*/src/*-transaction.ts`) | a client or a shared connection | begin, callback, commit, rollback, savepoints | failures of commit and rollback; interleaved transactions and savepoints on one connection |
| `LocalDataSession` (`packages/core/src/schema/local-data-session.ts`), its MCP server and tools | `closed`, registered queries, abort listener | `create`, `registerJoin`, `fetchData`, `close` | abort and timeout against calls in flight |
| Introspection (`plugins/*/src/schema/find-tables.ts`, `get-schema.ts`) | none | `getSchema` | pairing the columns of keys and finding the referenced table from catalog views |
| Schema catalog, selection and runtime mappings (`.../schema/schema-catalog.ts`, `schema-selection.ts`, `runtime-schema-mappings.ts`) | what a process holds between reading and saving | `schema select` in both modes, `reconcileSchemaSelection`, `createRuntimeTables` | the database and the document change between one command and the next |
| Local selection store (`.../schema/local-selection-store.ts`) | a JSON file | `load`, `save` | read-modify-write between processes; crash between write and rename |
| Schema graph and join tool (`.../execution/schema-graph.ts`, `.../core/operators/sql-join-by.ts`, `.../schema/local-data-tools.ts`) | FK edges, the tools' `joinByDefaults` | `joinBy`, `joinPath`, `registerJoin`, the fetch tool | search over arbitrary graphs; plans kept by a hash that does not cover them |
| SQL operators and builders (`packages/core/src/core`, `stacks/golang/vexnor/sqlbuilder.go`, `stacks/dotnet/src/Vexnor.Core/Execution/SqlBuilder.cs`) | none | `toSql`, `toManifest`, `Build` | three implementations of the same algorithms, with validation in a fourth place |
| Go runtime (`stacks/golang/vexnor`) | registry, hooks, plugins, rate limiter under a mutex | `Execute`, `RegisterAuthorization`, `Use` | goroutines and panics |
| .NET runtime (`stacks/dotnet/src`) | registry, plugins, rate limiter, persistent DuckDB connection behind a semaphore | `ExecuteAsync`, `OpenAsync`, `Dispose` | disposal against waiters; failed opening; the caller's dictionary |
| CLI, code generation, ORM adapters, schema manifests, telemetry | none or files | | input and output |

### How the parts interact

A query object (`sql`, `selectFrom`, ...) is executed either directly, by
`connection.run(query)` through a `SqlQueryHandler`, or through a registry: `registry.execute(hash,
params)` finds the query, filters its parameters and calls `SqlQueryPipeline.execute`,
which asks authorization hooks, calls `check()` of each plugin, and runs the handler inside
`runWithRetry`; a connection may itself hold a pipeline, and then both retry. Plugins and
the pipeline communicate by events (`initQuery`, `beforeQuery`,
`afterQuery`, `errorQuery`, `endQuery`) on the pipeline, which is an `EventTarget`, and by
exceptions from `check()`. The rate limiter and the audit log are such plugins.

`schema select` introspects the database, lets a user choose tables and columns, and saves the
choice as a profile in a file. `schema mcp` loads a profile, introspects the database again,
reconciles the two, makes runtime tables of what is left and opens a local data session on them: it
owns a connection and a registry of read queries, adds joins planned by the
schema graph, and is used by the MCP server's tools until its client leaves or it is
interrupted. Drivers give connections, transactions and savepoints.

All of this is one JavaScript thread per process: the interleavings are at awaits, and between
processes at file operations. The Go and .NET runtimes execute exported manifests, in which each operator of
a query is a node, with a pipeline of the same design, on goroutines and threads.

### What makes each part correct

- Pipeline: the slot counter is exact; no query of a tagged kind runs without its hooks; no
  query runs without the `check()` of every attached plugin; `init` and `end` pair;
  `clear()` fails closed; every call settles.
- Rate limiter: limits hold although counting precedes checking; counters are exact under
  eviction; its limit bounds what executes.
- DuckDB cache: an instance lives exactly as long as somebody uses it.
- Transactions: thrown means rolled back; committed whole or not at all, and the caller learns which; what a failed
  commit leaves open is committed by nobody; a savepoint that was undone leaves no trace.
- Local session: whatever ends it, it ends once, everything it opened is closed, every
  caller is answered, and its concurrency budget holds.
- Selection: a server exposes only what somebody chose, a review changes only what its user
  touched, a save is atomic and loses no other profile, and a foreign key reaches the runtime tables as it is
  in the database.
- Join tool: shortest paths, an order SQL accepts, and a plan that the fetch can use.
- Handler: one call's parameters do not leak into another's validation, a query is attempted as
  often as its options say, and takes effect again only where a connection was lost.
- Operators: three runtimes emit the same SQL for the same params, a filter means the conjunction of its
  conditions, and what validation lets pass is built whole.
- Manifest pipelines: as the pipeline, although goroutines and threads panic, throw and overtake each other.

## Modules

| Module | Models | State and how it corresponds |
|---|---|---|
| `QueryAdmission` | what `execute()` promises (abstract) | `phase` of each call: new, gating, ready, executing, settled, done |
| `QueryPipeline` | `SqlQueryPipeline`, `runWithRetry` | `checkPlugins`, `authorizeHooks`, `inFlight` are the fields; `pc` is the await a call of `execute()` is suspended at, `cursor` the index of the array iterator of the `for ... of` loop it is in, `attempt` the retry loop's counter; `asked`, `checked`, `owed`, `initBy`, `endBy`, `disturbed` record history for the properties |
| `RateLimiter` | `TimeToLiveRateLimiter` | `qm` and `cm` are the two maps, an absent entry is `NoEntry`; `stage` is how far the plugin has seen a call |
| `LimitedPipeline` | the two composed | EXTENDS `QueryPipeline` and INSTANCEs `RateLimiter`; `stage` of the latter is derived from `pc` and the pending verdict |
| `QueryHandler` | `SqlQueryHandler`: `run`, `runLocal`, validation, timeout, and the pipeline's retries around it | `fieldNames` is the array in the validation objects that all calls of the query share; `outer` and `inner` count the pipeline's and the handler's attempts; `started`, `abandoned`, `lost`, `applied` are the statements the database was sent, that nobody waits for any more, whose connection was lost, and that took effect |
| `DuckDBInstanceCache` | `acquireInstance`, `release`, `createConnection` | `cache` is `instanceCache`, an entry is named by the call that made it; `jobs` is the microtask queue, since acquiring continues in a microtask and closing is synchronous |
| `Transactions` | `transaction()` and `savepoint()` of four drivers | `tpc`, `spc` are the awaits; `mode`, `pending`, `marks`, `durable` are an abstract database session, external to the code; `wrote`, `failed`, `cause`, `thrown` are history; `driver` and `overlap` (whether the callback runs savepoints concurrently) are chosen once |
| `LocalDataSession` | `schemaMcpCommand`, `startLocalDataMcpServer`, `LocalDataSession`, the timeout of `SqlQueryHandler.runLocal` | `command` is the await the command is at, `owned` whether a session's constructor returned, `closing` the state of `closePromise`, `cleaned` whether `cleanupPromise` exists, `fetch` and `slots` the calls and what the session's pipeline counts, `querying` what the database still executes |
| `Introspection` | `getSchema` of four drivers | operators from a database (its tables, views and constraints) to the rows of the catalog views, which are external, and from those to the tables and keys that the code answers |
| `SchemaCatalog` | `createSchemaCatalog`, the two matchers of `--include` and `--exclude`, `reconcileSchemaSelection`, runtime tables | operators on what introspection answered |
| `SchemaSelection` | `schema select` in both modes, `schema mcp` up to its session, `LocalSelectionStore` | EXTENDS the two above; `file` is the document, `process` what each process holds and the file operation it is at, `database` the inspected one; `chosen`, `lost`, `seen` are history |
| `SchemaJoin` | `SchemaGraph`, `registerJoin`, the tools' cache, `SqlJoinBy.write` | `connected`, `queue`, `visited`, `best`, `path` are the locals of `joinBy`/`join`/`joinPath`; `joinByDefaults` is the tools' map; its specification is `JoinSpec` (`JoinInit`, `JoinNext`), beside `SchemaSelection`'s `Spec` in one module of proofs |
| `Templates` | the manifest's nodes and what the runtimes emit | SQL is a sequence of pieces, a bound value is a piece |
| `TsOperators`, `GoSqlBuilder`, `DotNetSqlBuilder` | each runtime's operators: filter, order by, project by, values, set, upsert, limit, windows, joins | operators from a template and params to pieces or an error |
| `CrossRuntime` | the four compared | EXTENDS them; `query` is the template with its params, `next` the position of the build, `ts`, `go`, `plain`, `net` are what TypeScript, Go with params in document order, Go with a plain map, and .NET emitted so far. A template is a sequence of blocks: the query, and the branches of its `when` nodes, which the code nests |
| `SqlClauses`, `FilterMeaning` | what a database makes of a WHERE clause, in three-valued logic, and what a caller means by a filter | neither is code; `FilterMeansConditions` is stated with them. They are apart from `CrossRuntime` because they use RECURSIVE operators, about which nothing can be proved |
| `ManifestPipeline` | `Execute` of the Go runtime and `ExecuteAsync` of the .NET runtime | `runtime` says which; `pc`/`at` are where a call is, `count` the limiter's counter, `hooks`, `len`, `version` the slice or list of hooks and what a loop over it started from, `lacking` the calls whose context has no value for the query's one context param, `dict` what a dictionary or a call's copy has under its name (a call stands for that call's context value) and `bound` what a statement was built with, `gate`, `conn`, `openFailed` the persistent DuckDB connection; `due`, `disturbed`, `ran`, `removed` are history |
| `*_proofs` | theorems about the module of the same name; those about `LimitedPipeline` are in `QueryPipeline_proofs`, those about `SchemaSelection` and `SchemaJoin` in `Schema_proofs`, those about `CrossRuntime` and `ManifestPipeline` in `Runtimes_proofs` | |
| `MC_*` | constants of the runs | |

An action is what the code does between two awaits (in Go and .NET, between two points where another
goroutine or thread can be noticed). Where a callback's outcome is the
host's or a database's (a hook, a limit, a query, `COMMIT`) it is a disjunction or two
actions. `PROJECT.json` lists for every definition the lines it stands for.

`QueryPipeline` has a `Host` constant that names what the program around the pipeline may do:
configure it while calls are under way (`midflight`), call `clear()`, call an unsubscribe
function twice (`stale`). The documentation speaks only of configuring at startup, the code
admits all of these.

## Runs

| Run | Instance | Shows |
|---|---|---|
| `pipeline` | 2 calls (one tagged, one with a custom `shouldRetry` and 2 attempts), 2 check plugins, 1 hook, limit 1, host acting midflight and clearing | `AuthorizationComplete`, `ChecksComplete`: both come before execution; `LifecyclePaired`; `NoExecutionAfterClear`; `EveryCallEnds`; `ImplementsAdmission`: the pipeline refines `QueryAdmission` |
| `limiter` | 5 calls of 2 queries by 2 users, limits 2 and 1, limit hook, time to live 1, one user cleared | `LimitsHold` |
| `limited` | 3 calls of one query by 2 users through pipeline and limiter, another check plugin, a hook, retries | `LimitBoundsExecution`: the limit bounds what executes, retries included; `ImplementsLimiter`: the pipeline drives the limiter as `RateLimiter` assumes |
| `duckdb_cache` | 3 connections to one file, 1 isolated | `NothingStale`, `NoInstanceLeaks`, `CallsSettle` |
| `transactions` | 4 drivers; 2 transactions on one pooled, sequential (duckdb) or shared (sqlite3) connection, 2 savepoints in one of them, one at a time or overlapping | `ThrowRollsBack`; `TransactionsAtomic`: committed whole or not at all, and what SQLite keeps open after a failed `COMMIT` joined by no later call; `FailedSaveUndone`; `CallsSettle` |
| `local_session` | 3 fetches, 2 slots, drivers whose close waits for queries or abandons them | `QueriesBounded`: the budget holds across timeouts; `NothingLeftOpen`; `EveryFetchAnswered`; `AbortEndsCommand` |
| `schema_selection` | an interactive and a non-interactive `schema select` and a `schema mcp` server on one file, 2 profiles, 3 initial documents (one malformed), 7 databases on the four drivers, 1 change of the database, 1 fault (a failing file operation or a killed process) | `ExposedWasChosen`, `UntouchedKept`, `SaveKeepsOthers`, `PrunedWasConfirmed`, `ForeignKeysFaithful` |
| `schema_join` | every graph on 4 tables, up to 3 targets | `ShortestPathChosen`, `JoinTreeOrdered` |
| `cross_runtime` | some 4800 templates with params, in two dialects, built node by node in four ways | `RuntimesAgree`, `FilterMeansConditions`, `ClausesFit`: rows are bound in place, `group by` covers the select list, joins name joined tables; `ValidatedIsBuilt` |
| `manifest_pipeline` | 2 calls of a Go or .NET registry, 2 hooks, one of which is unregistered at any moment, limiter before or after another plugin, limit 1 or 2, shared or separate dictionaries, one with a value of the caller's own under the context's name, a context that may lack the optional value, 2 faults | `InitEndPair`, `LimitHolds`, `EveryHookAllows`, `OwnContext`: a statement has its own call's context value, but where a Go context lacks it or .NET calls share a dictionary; `CommandsHaveConnection`, `EveryCallEnds` |
| `query_handler` | 2 calls of one query, every way to execute it, every `retryable` and `shouldRetry`, 2 attempts inside 3, with or without a timeout | `StatementsBounded`; `EffectsOnlyFromLoss`: a retry after a timeout, a late answer or the database's own error adds no effect; `TimedCallsEnd` |
| `handler_aliases` | 2 calls of one query | a violation of `OnlyOwnAliases`: after a call that selects an alias and orders by it, another call may order by that alias without selecting it, although the comment at `sql-query-handler.ts:276` and the test `sql-query-handler-validate-params.test.ts:41` say that it is refused |

### Bounds

- Pipeline: what can go wrong needs one call suspended in a loop and one other actor; two
  calls at a limit of one are the smallest that contend for a slot, two plugins the
  smallest array whose shift skips one. Each subscription and each hook is made once;
  `MaxAttempts` is 2. The theorems lift all of these bounds for the safety properties they cover.
- Limiter: five calls exceed both limits for one query while another query is in flight; the
  clock stops at 2, past one expiry. The theorems lift these bounds.
- Limited: two calls of one user contend and a third of another user must not be held up; the host
  configures at rest. Lifted by the theorems.
- DuckDB: an entry, its replacement and a third call that meets both are three calls on a path. Lifted by the theorems.
- Transactions: two transactions contend for one connection and each session is used twice, once with what the first left.
  Every transaction and savepoint writes once; a failing statement can be met by any of them.
  Three overlapping savepoints behave worse than two (see below); that instance, with one
  transaction, was explored apart, and the theorems hold for any number.
- Session: three fetches at two slots exhaust the budget once a timeout freed a slot. Lifted by the theorems.
- Selection: one review, one override and one server are the smallest that overlap in pairs and in a chain
  (one saves while another holds what it read, the third loads either). One change of the database puts an object
  between any two of their readings; one fault hits any step. The databases hold what can be
  mixed up: two foreign keys to one table, a key of two columns named in another order, a key referred to without its columns,
  equal names in two schemas, a view, columns equal in camel case. The theorems lift the bounds: any databases that hold to
  `WellFormed`, any documents, commands and faults.
- Joins: four tables contain a path with two intermediates, a diamond and a cycle. All
  graphs and all neighbour orders are enumerated, so no order of keys is favoured; all joins are
  inner and made once, since join types and repeated joins matter only to the tools' cache (see below). Lifted by
  the theorems: any finite set of tables, any number of joins and targets.
- Builders: every operator with the shapes of params its types admit and the slips a caller makes: unknown
  column, missing argument, empty list, null, rows of different keys, nested groups of up to two conditions.
  Three columns are enough for an order to be wrong and one to be left out. `MaxNesting` bounds how deep or-groups nest; the
  code has no bound, a document is always finite. For `RuntimesAgree` the theorem lifts all of these: any templates, blocks, columns and params,
  any `MaxNesting`.
- Manifest pipelines: two calls at a limit of one contend; a loop over two hooks can skip one; two
  faults let a failure happen while another is handled (opening the connection fails, then a plugin does). One dictionary with
  a value of the caller's own and one call whose context may lack the optional value give every combination of the two; a required value
  that is missing only refuses the call. Lifted by the theorems.
- Handler: two attempts inside three tell a sum from a product. Lifted by the theorems.

### Fairness

Each liveness property states what it relies on, and the code itself never waits for anything else.

- Pipeline: weak fairness of the steps of each call: hooks, checks and queries settle, timers fire.
  No fairness of calling or configuring.
- Manifest pipelines: weak fairness of the steps of each call: a plugin, a hook, a driver returns, throws or panics.
- Handler: weak fairness of what the event loop and timers do. Not of the database: `TimedCallsEnd` holds although it may never answer.
- DuckDB: microtasks run, native calls settle. Nothing obliges a host to close.
- Transactions: callbacks and statements settle (weak); the pool serves its queue (strong fairness of `Connect`: a
  waiting call competes with others for the client, and pools hand clients out in order).
- Session: startup, timers and `connection.close()` settle, the last only once the driver
  lets it. Nothing makes a hung query answer, a client leave or a user interrupt: the properties hold without.

## Proofs

The `*_proofs` modules prove, for all values of the constants that satisfy the assumptions in
the modules (finitely many calls, natural limits, plugins and keys of the right type), every safety
property that the passing runs check, except for three of `cross_runtime` (see the end of this section). Nearly all are of one pattern: an
inductive invariant, a step per action, and the property as a consequence.

`QueryPipeline_proofs`:

- `TypeCorrect`, `SlotsCorrect`, `ConcurrencyCorrect` from the inductive invariant `SlotInv ==
  TypeOK /\ SlotsExact /\ ConcurrencyBounded`. `TypeOK` alone is not inductive: that `inFlight - 1` is
  a natural number needs the count. Steps are grouped by what they do to the set of running
  calls (nothing, one more, one less), which the lemmas `IdleStep`, `StartStep` and `FinishStep` state once.
- `AuthorizationCorrect` from `AuthInv`, which says for each await what has been asked: in the
  hook loop, all hooks up to the iterator's index, and that those owed are still in the array;
  after the loop, all of them; once the pipeline is cleared only running calls matter, since no other
  call can start. The argument depends on hooks being appended only, and on the index growing by one.
- `AdmissionCorrect`: every step of the pipeline maps to a step of `QueryAdmission` or to a
  stutter. The mapped `Begin` needs `SlotsExact` to turn the counter's test into the abstract bound.
- `LifecycleCorrect` from `PairInv`: while an undisturbed call is under way the pipeline is not
  cleared, and whoever was told of its beginning is attached still.
- `FailsClosed`: with the hooks and checks emptied, a cleared pipeline still has calls suspended before
  their query; the theorem says that each of their next steps fails.
- `ChecksCorrect` from `CheckInv`: in the check loop, every plugin owed a check is at or after the
  iterator's index. It assumes `PluginsDistinct`, that no plugin object is attached by two `use()` calls: an
  unsubscribe removes the first occurrence of the object, which with two of them may be the other one's.
- `ImplementsLimiterCorrect`: under `AtRest` every step of `LimitedPipeline` maps to a step of `RateLimiter` or to a
  stutter. `LimitedInv` says for each await what the limiter has decided (`VerdictOf`: nothing before the loop reaches it,
  a pending verdict while the loop awaits it, `passed` beyond), that the limiter is in the array exactly while attached and
  once (`LimiterListed`), and that a call under way was told to a limiter exactly if one is attached (`SeenOf`); the last
  is what a host acting midflight breaks.
- `LimitBoundsExecutionCorrect` from `LimitInv`, the limiter's count and bound read through that mapping: a step of the
  composition is a step of the limiter, so the count is exact, and a seen call that executes is `admitted`.

`RateLimiter_proofs`:

- `QueryCountCorrect`, and with it the first half of `LimitsCorrect`, from `QueryInv == TypeOK /\ QueryCountExact /\ QueryBound`,
  where the bound is on calls past the two synchronous limits (`limiting` or `admitted`), not only on
  admitted ones: the limit hook is awaited after the comparison, so the calls that
  wait for it must be within the limit already.
- `ContextCountCorrect` and the second half from the analogous `ContextInv`, for the
  contexts that the host does not clear; that a swept entry has no call in flight is where the count is used.

`DuckDBInstanceCache_proofs`: `TypeCorrect`, `CountCorrect`, `NothingStaleCorrect` and `NoLeakCorrect`
from one invariant `CacheInv == TypeOK /\ LinkInv /\ HoldInv`. `LinkInv` ties calls,
entries and microtasks together: the jobs are disjoint sets of waiting calls whose promise has settled, and a
call that holds an entry holds one of its own path that opened. `HoldInv` is the properties without their
premise that no job is queued: an open instance has a holder or a queued call about to become one, and a
rejected promise in the cache has a queued call about to remove it. Release is stated once for closing
and for a failed `connect()`.

`Transactions_proofs`: `TypeCorrect`, `ThrowRollsBackCorrect`, `TransactionsAtomicCorrect` and `FailedSaveUndoneCorrect`
from `IInv`: types, what modes a session can be in under each driver, who owns a session, and for each
transaction what its session holds (`TxInv`): the writes of the transaction and of its own savepoints only, a
savepoint's mark before its writes, nothing of a savepoint that is gone; what a session still holds after its calls have settled is what SQLite
kept of the last of them (`LeftOpen`), which no step commits (`PendingSurvives`). The proof that it is inductive has
three parts. What a step of one transaction leaves alone and how it leaves its session (`Local`,
`Orderly`); that another transaction which has begun is in another session, so that its invariant is untouched
(`OtherSession`); and the transaction's own session under each statement, where a rollback to a mark
cuts the marks to a prefix (`CutContents`). The theorems assume `DuckDBApart`, that the host does not run two transactions on
one DuckDB connection at a time; for two it is false (see `tx_crossed` below).

`LocalDataSession_proofs`:

- `NothingLeftOpenCorrect` from `CloseInv`, which relates each await of the command to `closing`,
  `cleaned` and `owned`, and `OwnInv`: until a session owns the connection nobody fetches or closes.
- `AbortReleasesCallersCorrect` from `FetchInv`, which uses `CloseInv`: an aborted session is closing, so no
  call starts to wait after the abort.
- `BudgetCorrect` from `BudgetInv`: slots and running queries together never exceed
  `MaxConcurrency`, and until something closes the session each running query still has its slot. The bound on the
  running queries alone is not inductive, since a timeout gives a slot back while its query runs.

`Schema_proofs`, about `SchemaSelection`:

- `ExposedWasChosenCorrect`, `UntouchedKeptCorrect`, `SaveKeepsOthersCorrect`,
  `PrunedWasConfirmedCorrect` from `Inv`: that the document holds what was last chosen for each profile
  (`FileChosen`), and for each process what it may hold at each of its awaits (`Good`). A step that changes one process
  only is treated once (`LocalStep`). The heart is what a process knows of a document it read some steps ago: each
  profile in it is in the file still, or somebody saved that profile since and the process's rename will lose it
  (`ReadBack`). `CatalogObjects` lifts the result over the four drivers: whatever introspection answers, the
  catalog names objects of the database only.
- `ForeignKeysFaithfulCorrect`, a chain of lemmas about the operators from the database to the runtime table, for foreign keys of any number and
  length. The joins of each driver's query find the table that has a foreign key and the one it refers to, and no
  other, since names differ (`TableFound`, `KeyFound`), so its answer has a row for each column of each foreign key (`ForeignKeysFound`,
  `SqliteKeysFound`). Rows grouped by constraint and sorted by ordinal are the key again
  (`InOrderSorts`, `GroupSorted`, `RelationshipsFaithful`); a catalog made of an answer is therefore that of the database (`CatalogFaithful`), and the
  names of columns, which the runtime table replaces by those in camel case, can be turned back
  (`NameRoundTrip`, `TablesFaithful`). `SessionsOK` adds that a server's catalog and tables come from one look at the database, however it
  changes meanwhile. Three hypotheses are in the property itself, each of them where the code does otherwise (see below): SQL Server's keys
  are named in their order, on PostgreSQL and DuckDB constraints' names differ within a schema, and no two columns of a table are equal in
  camel case. What is assumed of the databases is `WellFormed`: what the four systems enforce. A foreign key has columns, as many as
  it refers to, of a key that exists, a view has none, and SQL Server keeps the names of constraints apart.

`Schema_proofs`, about `SchemaJoin`:

- `PlanInvCorrect`: the inductive invariant `PlanInv` of a plan under way, from which the next two follow.
- `ShortestPathChosenCorrect`. Within a search (`Frontier`): the queue holds shortest walks from the source in order of
  length, lengths differing by one at most; a visited table is the end of one of them or has visited neighbours only; and every walk
  no longer than the queue's head ends in a visited table. So the first arrival is shortest (`ArrivalShortest`), and an empty queue means that there is
  no walk (`ExhaustedFrontier`, by `ClosedSet`). Between searches (`Seeking`): `best` is no longer than any walk from the tables searched from so far,
  or is empty because there is none.
- `JoinTreeOrderedCorrect`. A shortest path leaves the tree with its first step, does not return to it and passes no
  table twice, else a part of it would be shorter (`WalkCut`, `PathLeavesTree`). So filtering what is joined already (`Without`) drops exactly the first
  table and no step, each step starts at a table joined before, and leads to the target or to the next step.

Neither needs induction over data: a walk is a sequence, and where an argument along one is needed it takes the smallest place that
breaks a claim (`SmallestNat`).

`Runtimes_proofs`, about `CrossRuntime`:

- `BuildersAgree`: on every portable query the Go builder, given the params in document order, and the .NET builder emit what the TypeScript
  operators emit. There is a lemma for each operator (`SetAgree`, `InsertAgree`, `UpsertAgree`, `FilterAgree`, `OrderAgree`, `JoinByAgree`, `WindowByAgree`
  and so on), each from its clause of `Portable`; `NodeAgree` joins them. Nothing else about the params is used but that they are JSON
  documents. `BuildInv`, the inductive invariant, says that the outputs are equal so far
  if the query is portable.
- `RuntimesAgreeCorrect`, the property the run checks: besides, the Go builder given plain maps, whose keys it visits in an order of its own, emits
  each piece as many times, and refuses what it refuses otherwise. Its invariant `PlainInv` relates the two outputs by `Alike`: both are
  sequences, and there is a bijection between their places that keeps the pieces, a refusal among them (`Rearranged`). A bijection is what composes: `RearrangedConcat`, `RearrangedJoin` (separators
  stay in their places when parts change theirs), `RearrangedEach` (parts that are rearranged themselves). `RearrangedBag` turns it into the equal counts of
  `SameBag`, which by itself would not carry through a concatenation of concatenations.

Two functions of the builders are recursive over data: the texts of or-groups, over the groups nested in a filter, and what the branches of `when` nodes
emit, over blocks. Equality of the builders needs no induction (the same definition of the same function), but `Alike` needs to know that the function which
the definition names by CHOOSE exists. `GroupTexts` shows it from the deepest groups up (a group at level n needs those at level n + 1, `LevelFunction`),
`BlocksDefined` from the last block back (a branch is a later block). Neither uses an induction principle with an operator: both take the smallest place at which a
claim about naturals fails (`SmallestNat`).

What these theorems assume is `CasesAssumption` (params are JSON documents in which or-groups nest at most `MaxNesting` deep, a
node names its param, the columns of a table differ, branches are blocks of their own), `AliasOrderAssumption` (sorting aliases neither drops nor repeats one)
and `MaxNestingAssumption`. TLC evaluates all three for the templates of `cross_runtime`.

`Runtimes_proofs`, about `ManifestPipeline`: `InitEndPairCorrect` from `Told`, which says for each phase which plugins a call has called
`Init` and `End` of; `CountExactCorrect` and `LimitHoldsCorrect` from it and from `Limited`, a bound on the calls that the
limiter admitted, who are among those whose `Init` it counted; `OwnContextCorrect` from `Held`, what params hold
once a call entered: in Go, where callers' maps stay as they are, its own context or what its caller passed; in .NET the context of a
call with the same dictionary; `CommandsHaveConnectionCorrect` from who is at the gate. `HooksAllow` and
`EveryHookAllowsCorrect` from `Asked`: the list has every hook that was not unregistered (`HooksKept`), and a loop nobody removed a hook under
has run those before its place (`LoopOK`); a .NET loop over another version of the list runs no further, a Go loop over an
array shifted under it is what the property excuses. For Go they assume `CodesDistinct`, that no two hooks share their code: unregistering compares
code pointers, so of two closures of one function the wrong one goes, and calls that begin later miss it (see below).

`QueryHandler_proofs`: `TypeCorrect`, `StatementsBoundedCorrect`, `EffectsOnlyFromLossCorrect` and `OwnNamesAcceptedCorrect` (a
call with valid parameters is never refused, whatever other calls have put into the shared validation) from
`IInv == TypeOK /\ NamesKept /\ PerCall`; `BudgetSuffices` is the arithmetic of the two nested counters.

Only model-checked:

- `FilterMeansConditions`: what a clause means to the database is computed by RECURSIVE operators, which the prover does not take.
- `ClausesFit` and `ValidatedIsBuilt`: they are about the second node of the templates of the run, and take the output apart at the
  words `where` and `group by`; of an arbitrary template they are not true, since another node may emit those pieces.
- All liveness properties: the prover has no rule for fairness and ENABLED.

## Further disagreements met while modelling

These were seen while reading or in exploratory runs; no run of the project is kept for them. Where a
property of a module states what the documentation says, it is named: adding it to the run's configuration
shows the counterexample.

### Execution

- Pipeline. `runCheckPlugins` (`sql-query-pipeline.ts:222`) iterates over the live array across awaits: an unsubscribe of a plugin
  whose check is done shifts the array, the next plugin is skipped and the query executes without its gate
  (`EveryPluginChecks`; docs/registry.md:304 "Multiple plugins accumulate and all run on every execution.").
  `init` and `end` do not pair for a plugin attached or detached while a call is
  under way, although docs/registry.md:302 says they always do; a limiter attached midflight
  decrements a count it never made and one detached keeps it, so `LimitBoundsExecution` fails with a host that acts `midflight`. `clear()` sets the object's prototype to a new
  `EventTarget`, so `execute()` no longer exists on a cleared pipeline (comment at `sql-query-pipeline.ts:167`).
  An unsubscribe function called twice removes another subscription of the same plugin (`:99`, `:132`).
  `SqlQueryPipeline.from` copies check plugins only (comment at 177-192).
- Limiter. Clearing a user's context while calls are in flight lets that user exceed
  `maxConcurrentPerContext` (docs/registry.md:327). Calls are counted before they are
  checked, so two calls at a limit with one slot left can both be rejected.
- Handler. A connection inside a pipeline retries within the pipeline's retries, so a query runs up to the
  product of the two policies (`sql-query-types.ts:114` "Total attempts, including the initial execution. Defaults to `1`.").
  A timeout ends the wait, not the statement: with `retryable: true` or a `shouldRetry` that accepts it, the statement can
  take effect twice, as it can after rows that cannot be decoded (docs/queries.md "Abort after this many ms"). The plugins take lost
  connections for retryable, "safe to retry" (`ECONNRESET`, `ETIMEOUT`, `ESOCKET` in `mssql-query-handler.ts:16-18`, `57P01` and `08006` in
  `postgres-query-handler.ts:21-22`), although the statement may have been executed: with a retry policy and otherwise default options an `insert` is
  sent again and can take effect twice. `EffectsOnlyFromLoss` counts them; `retryable: false` rules them out. Remote calls
  have neither timeout nor retries.
- Registry. The comment on `register` says exports that are no queries are skipped with a warning; they throw.
- DuckDB. A call that awaits the cached promise is not counted yet (`vexnor-duckdb.ts:122`) when the last open connection closes: it
  continues with a closed instance and `createConnection` fails (`AcquiredLive`; docs/databases.md:286 "File and MotherDuck
  instances are shared while Vexnor connections are active. Closing the final connection releases the native instance and any file lock.").
  The late `release()` of a replaced entry deletes its successor from the cache, and the
  next connection opens a second instance of the file.
- Transactions. After a caught failed statement PostgreSQL answers `COMMIT` with a rollback and no error, and
  `transaction()`, which ignores the answer (`postgres-transaction.ts:52`), resolves though nothing was committed
  (docs/transactions.md:13). `AllOrNothing` excuses exactly this: on PostgreSQL, a statement failed and the callback returned nevertheless. A
  connection lost with the answer to `COMMIT` leaves a rejected transaction committed, which no client can tell. On DuckDB, between a failed `COMMIT` and the `ROLLBACK` of the catch
  (`duckdb-transaction.ts:10`) another `transaction()` may begin on the connection, and is undone (`tx_crossed`: `TransactionsAtomic` with
  three transactions and `duckdb` in `Shared`; docs/transactions.md:3). A failed `COMMIT`'s error is replaced by that of
  the `ROLLBACK` after it (docs/transactions.md:222). On SQLite a failed `COMMIT` leaves the transaction open on the shared
  connection, where every later `BEGIN` fails (docs/transactions.md:223). That SQLite ends a transaction by itself on some errors (a full disk, a
  failed read) is not modelled.
- Savepoints. Overlapping ones release and roll back each other's marks. On PostgreSQL a savepoint whose own `ROLLBACK TO` fails can
  then be committed: `s1` and `s2` begin, `s1` rolls back and drops the mark of `s2`, `s2` writes, `s3` begins, `s2` throws and its `ROLLBACK TO`
  fails, `s3` rolls back, which makes the transaction healthy with the write of `s2`, and `COMMIT` keeps it. docs/transactions.md:239 says
  "Savepoints roll back to the savepoint and re-throw, keeping the parent transaction healthy for recovery". The model therefore tells
  `undone` (its `ROLLBACK TO` succeeded, the caller sees the callback's error) from `rejected`; what is undone never comes back, what is
  rejected does not when savepoints run one at a time.
- SQLite's close function never closes (`vexnor-sqlite3.ts:159`).

### Schema tools

- Session. After a timeout the error waits for `connection.close()`; with a pool whose `end()` waits for
  checked-out clients a hung query delays it, and an interrupt, for as long as it hangs
  (docs/cli.md:156). A session that cannot be constructed, because limits are invalid (`local-data-session.ts:93`), a column of a key has no
  mapping name or the graph cannot be built (`:75-76`), leaves the connection open: it was opened before (`schema-mcp-command.ts:85`), and
  neither `create`'s `try` (`:106`) nor the command's (`schema-mcp-command.ts:99`) has begun. `NothingLeftOpen` therefore speaks of a
  connection that a session owns (`owned`).
  A rejected close after an interrupt is an unhandled rejection (`local-data-session.ts:75`). A session
  closed by a timeout leaves a server that answers every call with a closed error.
- Selection. docs/ai-integration.md:170 says that "the server fails closed if the selection drifts from the live catalog" (:39 is milder). The code
  drops removed objects, leaves new ones unselected and fails only when nothing is left; the fingerprint is saved and never compared.
  `--save` without a terminal prunes removed objects unasked. Of two overlapping saves the later rename loses what the earlier
  saved, of any profile (`local-selection-store.ts:63`).
- Introspection. PostgreSQL's `find-tables.ts:43-53` joins constraints by name and schema without their table; names are unique per table only, so two
  tables with equally named foreign keys get each other's referenced tables, and a foreign key that is named like another table's
  primary key lists its columns as primary or makes the catalog fail. `:11-16` and `:72-80` answer a table and a view of one name in
  two inspected schemas as both, and `createSchemaCatalog` throws "Duplicate schema object identity". SQL Server's `find-tables.ts:50`
  pairs the columns of two keys by their ordinal in each, so a foreign key that names the key's columns in another order gets wrong pairs.
  SQLite answers no column for `REFERENCES t` without columns (`:45`), `mappingName` throws and `schema mcp` fails; a referenced table in another
  letter case is dropped silently; a `getSchema` that throws leaves the database open.
- Two columns whose names are equal in camel case become one in a runtime table, silently (`runtime-schema-mappings.ts:116`).
- Joins. `join()` puts only the targets into the query's `joinMap` while `joinBy` has every step (`schema-graph.ts:163`): a join through an intermediate
  table is registered and throws "[joinBy] Table ... not found in registry" when it is built (`ReturnedJoinBuilds`; docs/schema-graph.md:26 and :56).
  The hash of a join ignores join types, so a second join of the same tables replaces the
  `joinBy` kept for the first (`ReturnedJoinRuns`; `local-data-tools.ts:130`, docs/ai-integration.md:97). Tables of equal name in
  two schemas share a key of the `joinMap`.

### Manifests and the other runtimes

docs/portable-queries.md:149 promises "identical output". `RuntimesAgree` therefore says for which templates and params (`PortableQuery`) it holds. Outside of them:

- `havingBy` is serialized to an empty text and `groupBy` not at all, so Go and .NET run the query without them.
- An upsert whose rows have the conflict keys only: TypeScript emits `do nothing`, Go and .NET a dangling `do update set`.
- A filter that is an object with an `or` and no list around it (docs/crud.md:173 has the object form for columns, the types of `filterBy` do not admit an `or` in it): TypeScript, and Go with an `OrderedDict`, build the group, the
  validation of .NET refuses it, and Go with a plain map lets it pass (`registry.go:263`) and then drops it (`sqlbuilder.go:424`), so that every row matches.
- A key of `orderBy` that is the alias of an aggregate as well as a column: TypeScript quotes the alias, Go and .NET emit the column.
- Bounds of a window's frame that are neither strings nor numbers, and a column named `*`.
- An unknown column of a filter: TypeScript and .NET throw, Go passes over it. Go's validation guards plain maps; params in an `OrderedDict` are not validated.
  An `or` that is no list: TypeScript (`sql-filter-by.ts:196`) drops it and the columns beside it silently, unless it is null or a string with characters,
  where it throws; so does Go with a plain map (`registry.go:266`, `sqlbuilder.go:482`), always; .NET refuses it.
  .NET does not validate operators of filters in the legacy object form.
- An operator of a filter without its argument: TypeScript binds null (`col = null` matches no row), Go panics, .NET throws.
- Plain Go maps, which docs/golang.md:61-67 uses, reorder `ORDER BY`, `SET` and the join aliases alphabetically.
- All three drop the columns beside an or-list, and combine the columns of one condition in an or-group by `or`.
- docs/crud.md:195-291 and docs/dotnet.md:131 say that an empty `in` means `IS NULL` and an empty `notIn` `IS NOT NULL`; all emit `1=0`, and nothing (after an `and` or `where`).
- Rows of different keys: TypeScript throws, Go and .NET drop values or bind null. A projection given as list: Go and .NET emit `group by` right after the select list.
- A `joinBy` entry without `on` is dropped by TypeScript; a reference to a table that is joined later is refused by TypeScript only; they also differ
  in the treatment of an unknown column in `orderBy`, a null bound of a window's frame, an empty direction and an empty join type.
- .NET puts context values into the caller's dictionary, and throws where an optional one is missing; calls
  that share the dictionary may be built with each other's. Go copies, and skips an optional one that is missing, so the value that the caller passed under its name stays
  and is bound (`registry.go:192`, though `:174-175` says that each context param is replaced by the context's value).
  Go validates before the pipeline, so a refused call is not told to any plugin; .NET validates inside.
- Go. `End` is not called when a hook, a check, the query or an `OnError` panics (`pipeline.go:88` "Init/End ALWAYS pair"); a call's loop over the hooks skips
  one when another is unregistered under it; unregistering compares code pointers (`pipeline.go:48`), so of two closures of one
  function the first registered is removed (`:36` "returns an unregister function that removes it").
- .NET. A persistent connection whose opening failed is kept and handed out unopened (`DuckDBExecutor.cs:54`); the limiter's time to live is never read.

## Not modelled

- `SqlQueryRegistry`: registering the same query twice stores the same entry, and executing one is the
  pipeline's and the handler's, which are modelled.
- Typed construction (`sql-query.ts`, `sql-table.ts`, `sql-select.ts`, the CRUD commands' builders): immutable objects whose
  correctness is TypeScript's type checker's. What they emit when built is modelled in `TsOperators`.
- Quoting, spacing, placeholders' spelling, comments and layout of SQL; the types of columns, their parsing and generated code: questions of characters,
  in which a model checker has no advantage.
- Driver-specific aggregation of rows to JSON and the decoding of rows: a failure to decode is modelled, the decoding is not.
- `checkAuthorization` (a check at startup), `SqlQueryPipeline.from`, and errors of listeners: no later step depends on them.
- Durations and error rates of the limiter, which no decision reads, the audit logs and telemetry.
- Go and .NET: loading of manifests, the startup check of authorization, the limiters' second counter, which is kept per context
  just as the first one is per query and swept only where it is zero, and executors other than .NET's DuckDB executor, which leave connections to their driver's pool.
- Schema manifests, the schema readers of the Go and .NET DuckDB packages, ORM adapters, the HTTP remote client and the CLI
  beyond `schema select` and `schema mcp`: input and output without state.
- Fixtures, examples and the code generated for them, which are a large share of the repository's lines.

The definitions map to about a tenth of the repository's lines. What is left is nearly all of the kinds above.

## Plan

Done: pipeline, limiter and their composition; DuckDB cache; transactions; session; joins; introspection, catalog, selection and its
store; the operators of three runtimes; the Go and .NET pipelines; the handler; proofs of every action property the runs check and of every invariant but the three
above. Left:

1. `JoinsNameJoinedTables` as a theorem: for TypeScript from a bound on the pieces that each operator emits, for the others by `BuildersAgree`.
2. The second counter of the Go and .NET limiters, which are keyed differently (Go by the context's key, .NET by query and key), with several queries.
3. The types of columns from introspection to a runtime table, if they gain conversions that can fail.
4. `SqlQueryRegistry`, if registration comes to replace what it holds.
