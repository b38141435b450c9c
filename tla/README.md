# TLA+ models of VibORM

VibORM is a TypeScript ORM: a client API over a query engine that plans and
writes SQL, drivers that send it to a dozen database packages, a query cache, and
a migration tool. Much of it translates immutable inputs into SQL. What is
stateful and concurrent is modelled here: how calls share a connection, in
transactions that user code enters, nests, forgets to await and times out; how the
write engine reads first and writes later while others write in between; what a
cache may still answer after a mutation; what is left of a migration when two
processes run it or one of them dies; and, as an algorithm, whether the scripts
generated for an edited schema run at all and lead where they should. A process is
one JavaScript event loop; its interleavings are those of its tasks, and every
`await` is a point where anything else may run.

## The system and its parts

| Part | Where (`src/src/`) | State | Operations | Hard about it |
|---|---|---|---|---|
| Savepoint queue | `drivers/savepoint-queue.ts` | array of jobs, head index, processing flag; a timer and an abandoned flag per bounded job | `enqueue`, flush loop, timer | jobs enqueued while the loop is starting, between jobs, or ending; timers racing the start |
| Transaction scope | `drivers/driver.ts` (`TransactionBoundDriver`), `drivers/driver-transaction-base.ts` (`withTransaction`), `drivers/shared/transactions.ts` (`runSavepoint`) | scope queue, active operations, observed nested calls, closed, savepoint-active and rollback-only marks; parent scope | statements, nested transactions, close, drain, commit check | unawaited work, failures nobody handles, timeouts over running work, failing cleanup |
| Driver connection | `drivers/driver-instrumentation.ts`, `driver.ts`, `driver-transaction-base.ts`, `drivers/sqlite3`, `bun-sqlite`, in-memory `libsql` | client, init promise, disconnecting flag, connection queue, lease, poison | connect, query, transaction, disconnect | concurrent first use, disconnect during init, a connection closed behind the shared promise |
| Pooled transactions | `drivers/shared/transaction-options.ts`, `drivers/pg`, `mysql2`, remote `libsql` | the acquisition and its timer, the release error | acquire, BEGIN, callback, COMMIT/ROLLBACK, release | grants that come too late, lifecycle statements whose effect is unknown |
| Provider-managed transactions | `drivers/shared/transactions.ts`, `drivers/postgres`, `pglite`, `bun-sql` | outcome of the callback, number of calls, close attempt | run, drain, judge, clean up | a provider that settles early, calls twice or hides a failure |
| Batch-only drivers | `drivers/d1`, `neon-http`, `planetscale` | none between calls | one atomic batch | nothing locks between planning and the batch |
| Cache | `cache/`, `query-engine/cache-flow.ts` | entries, revalidation flags, eviction timers | cached read, background set, revalidate, invalidate, clear | reads in flight over an invalidation, check-then-set of the flag, prefixes |
| Write engine | `query-engine/write-engine/`, `query-engine/pending-operation.ts`, `client/client.ts` (`$transaction([...])`) | what planning has read; the plan; the retry | locate, compile, guards, write, blame, retry | the table changes between reading and writing; a loser that must start again, once |
| Nested writes | `query-engine/OwnWrite*.ts`, `TargetConstraint.ts`, `ManyToManyStatements.ts`, `write-engine/Relation*Part.ts`, `RecordUpdateCompiler.ts`, `CreateOperation.ts` | the own-write ledger; the probes of one statement plan | refuse, probe, compile, run | sibling mutations planned on one and the same table, and a rival on it |
| Migrations: commands | `migrations/apply`, `reset.ts`, `squash.ts`, `generate`, `context.ts`, `storage` | journal, migration files, down scripts, snapshot, tracking table, advisory lock | generate, apply, down, reset, squash (rollback, push, pull, status) | two deployments, a crash between two files, decisions read before the lock |
| Migrations: generation | `migrations/serializer.ts`, `differ.ts`, `resolver.ts`, `utils.ts`, `generate/down.ts`, `drivers/sqlite` | none; snapshot in, script out | serialize, diff, resolve, sort, invert, recreate tables | the order of drops, renames, keys and tables on each dialect, and backwards |
| SQL builders, adapters, schema, validation, errors, instrumentation, CLI | the rest | none that outlives a call | pure translation, logging, prompts | – |

They fit together like this. The client turns a call into a pending operation;
executing it lets the write engine plan, in a transaction or for a batch, and hands
the statements to the driver. A driver with one connection sends every call
through its connection queue. An interactive transaction takes the lease of that
queue, or a connection of the pool, or is run by the provider; its callback gets a
transaction-bound driver with a queue of its own, and a nested transaction is one
job in its parent's queue. A cached read goes to the cache driver first, a mutation
to the database first and then to the cache. Migrations use the driver like any
other caller.

What makes each part correct:

* queue: one job at a time, first in first out, once each, none lost; a
  bounded wait is bounded and never hits a job that has started;
* scope: a statement takes effect in the scope it was issued on; a transaction
  commits all that its committed callbacks did or nothing; it never commits over
  a failure nobody saw; nothing runs at COMMIT; everything is answered;
* connection: nothing shares a single connection with a transaction; no client is
  lost between initialisation and disconnect; none is used after its close;
* pool: no connection is lost; none is reused in doubt; no transaction begins
  after its caller was told that it would not;
* provider: success means committed; an uncertain client is gone; no failure is
  swallowed;
* cache: what an invalidation removed comes back only by a fill that had its
  answer before; every entry and flag ends by its own timer; no reader waits for a
  revalidation;
* write engine: a call takes effect at one moment or not at all; losing one race is
  not an error; a row reported missing was missing;
* nested writes: what succeeds is what its mutations mean one after the other; what
  is refused contradicts itself, with one exception;
* migration commands: the tracking table tells what the schema has; nothing is done
  twice or out of order; the journal names no missing file; the lock is given back;
* generation: every statement is accepted, the schema becomes the one meant and back
  again, no kept value is lost.

## Modules

| Module | Models | Correspondence |
|---|---|---|
| `SerialJobs` | what a queue promises | abstract; jobs wait, run one at a time in order of arrival, settle or expire |
| `SavepointQueue` | `SavepointQueue` | `queue`, `head`, `processing` are the fields, `timer` and `abandoned` the locals of `enqueue`; `flusher` is the program counter of `flush` |
| `SavepointQueueProofs` | | inductive invariant, exclusion, expiry, refinement of `SerialJobs` |
| `TransactionScope` | `TransactionBoundDriver`, `withTransaction`, `runSavepoint`, the end of `runTransactionLifecycle` | one record of states per statement (`op`) and per scope (`scope`); `line` is the waiting part of `scopeQueue`; `closed`, `rollbackOnly`, `savepointActive` are the fields; `activeOperations` is derived (`ActiveOps`, `ActiveNested`); `observed` is the observation of `RejectionObservedPromise`; `log`, a stack of frames, one per savepoint, and `committed` are the server |
| `TransactionScopeProofs` | | two inductive invariants, and every safety property of scopes, for any tree |
| `DriverConnection` | base driver: `getClient`, `_connect`, `_disconnect`, queue and lease, lifecycle on one connection | `driver` is the kind of driver and its calls (`Drivers` lists those explored); `client`, `initPromise`, `disconnecting`, `lease`, `poisoned` are the fields; `promise` and `provider` are the init promises and the clients behind them |
| `DriverConnectionProofs` | | inductive invariant and every safety property of the connection |
| `PoolTransaction` | `transaction()` of pg and mysql2, `acquireWithMaxWait`, `runWithTransactionTimeout`, `runTransactionLifecycle` | `awaited` and `conn` are the acquisition, `releaseError` the local of that name (`shouldDestroy` in mysql2); `pool` and `session` are external |
| `ProviderManagedTransaction` | `runProviderManagedTransaction`, the catch clause of `runTransaction` | `invoked`, `callback`, `early`, `close` are its locals, `thrown` the error that leaves it |
| `TransactionModesProofs` | | of both: an inductive invariant each, every safety property of the pool, and what success, failure and the closed client mean |
| `CacheDriver` | `_executeCached`, `setInBackground`, `revalidateInBackground`, `_markRevalidating`, `_invalidate`, `MemoryCache`, `withMutationCacheInvalidation` | `entry`, `flag` and `timers` are `store` and `timers` for one key and its revalidating key; `read` and `reval` are where a cached read and its revalidation are, `seen`, `value`, `flagSeen`, `fetched` their locals; `db` is the database's committed version; `wrote`, `purged`, `overtaken` are history |
| `CacheDriverProofs` | | inductive invariant, invalidation and timers for any reads and times to live |
| `TableRows` | one table with a unique field, INSERT, UPDATE and DELETE on it | external: the server |
| `AtomicWrites` | what the write engine promises | abstract; a call succeeds, as `Meaning` says, at one moment, or fails without effect |
| `WriteEngine` | `executeRoutedOperation`, `OperationExecutor`, `UpsertOperation`, `UpdateOperation`, `DeleteOperation`, `race-retry.ts`, `$transaction([...])` | `call` is where a call is, with the plans it has (`Plan`: the arm and the captured row), what it still has to ask of the batch's guards (`suspects`) and its outcome; `table`, `draft`, `lock`, `gap` are the server; `holders` is history. `Ops` is what an operation is reduced to: the keys it selects, creates and moves to, and whether it has conditions |
| `WriteEngineProofs` | | of `WriteEngine`: inductive invariant, the server's constraints, conflicts and missing rows for any workload, and the refinement of `AtomicWrites`; of `NestedWrite`: what the ledger refuses, for any program |
| `RelationMutations` | what the mutations of a relation mean | a reference definition: one mutation after the other on a set of rows |
| `NestedWrite` | the order of the kinds, `OwnWriteLedger`, `OwnWriteSteps`, `RelationLinkPart`, `RelationWritePart`, `RelationSetPart`, `RelationUpsertPart`, `RelationJunctionPart`, `ManyToManyStatements`, `CreateOperation`, `RecordUpdateCompiler` | `request.relation` says whether the children hold the key, required or nullable, a junction table the links, or the parent the key of its one row; `request.fresh` says that the parent is created and not updated; `program` is the relation mutation program; `Reads` and `Writes` are the footprints a kind asserts and appends, `mayAffect` their overlap; `seen` is what the probes of each step returned; `compile` gives guards and writes as the parts do, `compileHeld` for children, `interpretInverseToOneKind` for the one child of a relation to one row, `compileJunction` for links and `compileParentHeldTargets` for a parent; `emitRecord` and `buildTreeFold` are the orders in which the statements may run |
| `Migrations` | `apply`, `down`, `reset`, `squash`, `generate`, `withLock` | `journal`, `files`, `downs`, `snapshot` are the directory, `tracked` and `schema` the database, `holder` the advisory lock; `proc` is the command a process runs and its locals; `Among`, `Applied`, `Replayed` are the filters and folds of the commands over the journal |
| `MigrationsProofs` | | types, files, tracking, order and exclusion for any migrations and processes |
| `SchemaDiff` | `serializeModels`, `diff`, `applyResolutions`, `sortOperations`, `extractForwardReferenceForeignKeys`, `invertOperations`, SQLite's `applyToTable` and table recreation, `withForeignKeysLifted` | pure operators, and the run of the resulting script on a populated database (`tables`) |
| `SchemaDiffProofs` | | `DataKept` for any edit, on the three dialects, and what selecting, pairing and flattening lists keep |
| `Lists` | filtering a sequence | `Among` selects by a set, as a recursive function, since the prover takes no predicate as a parameter |
| `MC*` | | model values, trees of scopes, calls, races, directories and schemas for TLC |

`TransactionScope` and `DriverConnection` use the queue as `SerialJobs`
specifies it (first in first out, one job at a time); `SavepointQueueProofs` shows
that the queue is that. `DriverConnection` and `PoolTransaction` treat the body of
a transaction as one step and one sequence of statements respectively; what
happens inside is `TransactionScope`. `WriteEngine` and `NestedWrite` take a
transaction from these and add what the engine does in it: the one for single rows
with the retry, the other for the many mutations nested in one update or create. `SchemaDiff`
produces a script, `Migrations` treats it as an indivisible body. The definitions
just before an action whose comment names a mistake (`AdmitOpUnchecked`,
`FlushResetKeepsFlag`, ...) are that mistake: each is what a plausible bug would make
of the action, and the property it is paired with in `PROJECT.json` is violated once
it takes the action's place.

## Runs

| Run | Instance | Question |
|---|---|---|
| `queue` | 4 jobs, 2 bounded; jobs may hang | the queue's refinement of `SerialJobs`; does a bounded wait end behind a job that hangs, and does every job settle if all jobs do? |
| `scope` | root, savepoint, savepoint inside it; a statement in each savepoint | every safety property of scopes; does everything end if callbacks do? |
| `scope_timeout` | root and one nested transaction, two statements; callbacks may hang | does a timeout end the transaction? (no) |
| `connection` | one connection: a query, two transactions (one bounded), two disconnects; a pooled driver: two queries, a connect, two disconnects; 3 clients | exclusion, use after close, lost clients; is every call answered? |
| `pool` | 3 transactions, 2 connections; one may give up waiting, a bound and a raw one may time out, one release may throw | leaks, dirty connections; is every transaction answered? |
| `provider` | up to 3 calls of the callback | all of the wrapper |
| `cache` | one key, 3 reads (two with a stale window and a shorter ttl), a mutation on its own and one in a transaction | do invalidations stick, does everything stored expire when it should, is every read answered? |
| `write` | 12 races of 2 to 4 calls for one to three keys, each on PostgreSQL, InnoDB and a batch-only driver | the refinement of `AtomicWrites`; is an error ever wrong; is every call answered? |
| `write_upserts` | two transactions that upsert, two keys, no other writes | do concurrent upserts never fail with a duplicate? (they do) |
| `nested` | every program of one kind and every pair of kinds over a few payloads, three tables, required key, nullable key and junction, transaction and batch, the parent updated or created; of a relation to one row, held by either side, every kind and pair over three more tables when the parent is updated, and every single kind when it is created; eight rivals | does a program do what it says, and is none refused without reason? |
| `migrate` | six directories with two or three processes, one of which may die once | tracking, order, exclusion, files; does every command end? |
| `schema` | thousands of edits of one to three tables on PostgreSQL, MySQL and SQLite | does every script run, up and down, arrive and keep the data? |

### Bounds

Every call is made at most once, so the number of jobs, statements, scopes
and calls is the size of the sets in the configurations. Four jobs put one in
front of, one under and two behind the head of the queue, and leave one for the next
batch. The chain of scopes has a scope with one below and one above it, deeper ones
repeat that step; scopes side by side are covered by the theorems, which hold for any
tree. Two connections and three transactions make the pool run out; one failed
release leaves the three a single connection. `MaxClients` bounds the
initialisations of a run (each needs a disconnect between), `MaxThrows` the failures
of the pool's release, `MaxInvocations` the calls of a provider: three is one more
than the first that is refused. Three reads of a key are two stale hits and the read
that filled it; `MaxAge` stops the counting of ages one unit after every entry has
been due for eviction.

A row of `WriteEngine` is a key and a flag: enough for a row to come, go, change hands
and fail a condition. Four calls are what it takes for an upsert to lose a race, be
retried and lose again. A nested program of two kinds is what it takes for a mutation
to follow another; the kinds at the ends of a longer one meet in a pair of their own.
Rows 1 and 2 may be there and may be children, row 3 is not there, and a rival deletes,
replaces, moves, renames or adds one. The payloads address rows by the id, which
tells two rows apart for the ledger, and by a slug, which does not; a new row spells its
id or leaves it to the database, which numbers such rows from 9 on. A created parent
meets rows of another parent only, since nobody can know its key before it commits; it may
ask for the five kinds that add. A relation to one child is, in a create, the case of one
item.
The workloads of `migrate` pair commands that may meet; a process dies at most once,
since it comes back to a state that it or another reached without dying.
Those of `schema` combine one edit of everything that decides the place of an
operation in the script: a primary key, a unique constraint, an index and a relation
of either kind on one column, beside another column that comes, goes, changes or is
renamed, and tables that come and go in each order of declaration.

### Fairness

The event loop runs its microtasks and timers, and servers answer
(`LoopSpec`, `LoopFairness`, `SystemFairness`). That callbacks, jobs and
initialisations end is an assumption about user code and providers and is kept
apart: as the premise `FunctionsSettle` of `EveryJobSettles`, and in the `FairSpec`
of the other modules. What must hold when they do not end is asked by
`BoundedWaitEnds` and `TimeoutEndsTransaction` without that assumption. A pool serves
its requests in order of arrival, and a connection its statements, which makes
`PoolTransaction`'s fairness strong. In `CacheDriver` time passes, timers fire and the
queries of cached reads are answered; nothing is assumed of revalidations, which may
hang or be cut off with their process. In `WriteEngine` drivers answer, and a server
detects every deadlock, as PostgreSQL and InnoDB do. In `Migrations` a process that
does not die goes on, and one that died is started again; nothing makes one die.
`NestedWrite` and `SchemaDiff` have no liveness property: each of their behaviours is
a fixed number of steps long. User code is never assumed to make a call.
`CHECK_DEADLOCK FALSE` stands wherever every call may have been made and answered.

### Refinements

`SavepointQueue` implements `SerialJobs` (`ImplementsSerialJobs`, checked and proved).
`WriteEngine` implements `AtomicWrites` (`ImplementsAtomicWrites`, checked, and proved
for upserts that create the key they select): the
committed table is the abstract table, and what a caller has been told is derived from
`call`. A call's success must be one step of the abstract specification, so the whole
of a transaction, or of a batch, has to be explainable at its commit; the guards of a
batch and the row locks of a transaction are what make it so. `NestedWrite` is
compared with `RelationMutations` in its final states (`SerialOutcome`).

## What the runs found

* `scope_timeout` (`TimeoutEndsTransaction`): after a timeout `withTransaction` closes the scope and awaits its
  active operations before ROLLBACK. A nested transaction is such an operation until
  its callback settles, and nothing ends that. If it hangs, the outer
  transaction is neither rolled back nor rejected, although
  `docs/content/docs/client/transactions.mdx` says that on expiry it is.
* `write_upserts` (`UpsertsNeverConflict`): an upsert that lost its race is run again,
  but inside `$transaction([...])` the failed INSERT has made the scope
  rollback-only, and a shared batch is not run again at all. The loser fails with a
  duplicate, which `docs/content/docs/client/(update)/upsert.mdx` says does not happen.

### Known gaps

Found while modelling, with TLC, and kept out of the workloads of the passing runs:

* Nested writes (`LosesConnect`, `DeletesConnected`, `KeepsNewcomer`, `DeletesReleased`, `RekeysMember`, `OrderShows`, `ParentRebound` in `MCNestedWrite`). `connect` is a pure adder and
  is asked nothing by the ledger, but its probe reads before, and a batch checks its guard
  before, the first write: after a `delete`, `deleteMany` or renaming `update` or `upsert` of its
  target the link write matches no row and the connect is lost without an error, although
  `RelationLinkPart.ts:196` says that it affects exactly one row per target; so too
  `delete: true` beside a `connect` of the very row. `set` on a
  required key reads the departing children before an `upsert` or `connectOrCreate` ahead of it
  adds one; that child stays, although the comment of `RelationSetPart` promises exactly the targets
  or a rejection. Of a junction, `connect` and a `createMany` that adopts what it would skip
  link the row they had found, renamed or not (a deleted one is a foreign key error);
  `delete` asks the ledger for its row and not for its membership, so `disconnect` and `delete`
  of one row delete it, where in turn the delete would find no member; and in a transaction the
  probes lock the rows and not the links, so another caller may unlink a row while an `update`
  changes its key. `relation-mutation-parser.ts:19` says that one sequence of kinds is used "both to EMIT the
  parts and to DERIVE their legality"; a create on a relation whose children hold the key emits its `create` and
  `createMany` rows before all else (`CreateOperation.ts:1745`), the ledger has them last. It shows where
  the database numbers rows of both, and where an `upsert` renames the row that a
  skipped `createMany` row is a duplicate of. And nothing in a batch keeps the parent at the key that
  was read with it: `delete: true` on a key the parent holds deletes the row it referred to and
  clears whatever it refers to now, and an `upsert` that found none replaces it.
* Of a junction, a `deleteMany` behind a `set` or an `updateMany` is always refused, though all of them
  name rows, and different ones, by ids that tell rows apart: the ledger asks it for the rows and links it
  filters, and those two write rows or links without a bound. `relation-mutation-parser.ts:34` says that every read is ordered
  before every write it could not bound and that a refusal is never an artefact of the order. The workloads of `nested`
  have such payloads, and `RefusedIsContradiction` names the exception.
* Not in the workloads either: two `connectOrCreate` items with one selector and no spelled id (the
  ledger takes them for one, the compiler creates twice, and the second fails as a
  duplicate), and items with equal ids in `create` but different selectors (the second
  updates no row in a batch).
* Programs that would succeed in turn and fail here, because a probe finds too little or
  too much: `connect` of a row that an `upsert` ahead creates; `set` on a required
  key after a `delete` of the child that would depart. `SerialOutcome` allows failures.
* `_transaction` with a `timeout` rolls back and releases the connection under a callback
  that is still running and holds it. The comment of `runWithTransactionTimeout` asks every
  caller to drain the callback first; `withTransaction` does, `_transaction` does not.
* `_markRevalidating` looks the flag up, awaits, and sets it: two stale hits in between both
  revalidate, which the comment of `revalidateInBackground` says the flag prevents.
  `MemoryCache` could decide and set in one turn; a remote store needs a conditional write.
* An upsert that would create its row under another key than it selects (`where` one unique
  value, create with another): nothing keeps the selected key free once it was found so, and
  neither the constraint nor a guard asks again. Beside a create of the selected key both succeed,
  as they could not one after the other in the order of their commits.
* `apply` takes no lock, although `docs/content/docs/migration/drivers/postgresql.mdx`
  says that the lock lets one migration process run at a time; `migrate` shows that the unique name in the tracking table is
  enough for what its properties say. It is not enough beside a `reset` and a
  `generate`, where an effect can stay without a tracking row, nor for a `down` beside
  an `apply` or another `down` or `reset` of the same migrations, which chose what to undo
  before it took the lock and leaves a gap in the applied ones.
* `squash` of a range in the middle re-indexes the later entries without renaming their
  files; it writes no down script, so `down` untracks the squashed migration without
  reverting it; a range of which a part is applied becomes applied as a whole; between the
  tracking table and the journal a crash leaves a row without an entry; two concurrent
  `generate`s overwrite each other's journal.
* Generated scripts: (a) a rename that also changes nullability or default is preceded by its
  own `alterColumn`, which names the new column; (b) after renaming an indexed column the down
  script recreates the old index before it renames back; (c) SQLite's `applyToTable` renames
  columns but not those of indexes and keys, so a later recreation indexes a missing
  column; (d) on MySQL a unique constraint or primary key that alone covers a foreign key
  that stays is dropped too early (errno 1553), as is an index if the table drops a column
  or the index keeps its name; (e) tables dropped parent first, and in SQLite tables
  created child first, fail on the way up or down; (f) a renamed table keeps the old names
  of its keys; (g) a table rename that nobody answers creates an empty table.

## Proofs

All proofs are for any values of the constants that satisfy the named assumptions.
The inductive invariants (`IInv`, or as named below) were model-checked while the proofs
were written and are now only proved.

`SavepointQueueProofs` (assumption: bounded jobs are jobs). `IInv` says which jobs
are in the taken and the waiting part of the array, that the array is in the order of
the enqueue calls, that a running job means an awaiting loop, and how timers,
flags and outcomes agree. Exclusion alone is not inductive: that two jobs do
not run needs that a second flush cannot start, hence the tie between
`processing` and the loop. From it follow `OneAtATime`, `ExpiryOnlyWhileWaiting` and
the refinement, whose FIFO part is `ArrayOrder`.

`TransactionScopeProofs` (assumption: `TreeAssumption`, the scopes form a tree).
`Quiescent` is about scopes past their drain; it is not inductive, because
whether something can start in a scope below depends on the scopes between.
`IInv` adds that calls come through a driver that was given, that a scope is
closed exactly after its callback, and that whatever is queued or under way has
only open scopes above it. The step that matters is `Decide`: an empty set of
active operations leaves no nested job, hence nothing below it either.
`LogInv`, on top of it, is about the contents of `log`, which the model keeps as a stack of frames
so that RELEASE merges and ROLLBACK TO cuts it. The frames are those of scopes nested in
each other (`SavepointsNest`); whatever talks to the server finds its own scope innermost
(`WorkIsInnermost`), since a queue runs one job at a time (`OneJobAtATime`) and a
nested transaction is one job; a failure nobody handled has marked its scope, so that what goes
on to COMMIT or RELEASE is clean (`FailuresMark`, `SuccessIsClean`). As long as the transaction may
still commit, every statement's work is in the frame of the scope into which its own has been
released, or was undone with a scope around it (`LogIsExact`). COMMIT finds one frame, and
`AllOrNothing` follows; so do `InItsOwnScope` and `NoSilentFailure`.

`TransactionModesProofs` has two parts. That of the pool (assumptions: the options name transactions, and `None` is
neither a transaction nor a connection): `PoolIsClean` is about connections that
are back; it needs what holds of those that are out: that what is open on a session
belongs to the connection's holder, and that a holder about to close has either a
clean session or a `releaseError`. The invariants of the run `pool` follow from the
same `IInv`, and so does `ExpiredNeverRuns`, which no run checks any more: a
connection granted too late is clean and belongs to nobody who could begin.

That of the provider (no assumption; it may call the callback any number of times):
`UncertainClientIsGone` and `NoFailureLost` are about the answer; what holds before
it is `ClosedEarly` (a client closed before the verdict is one whose provider settled while the callback
was still running, and that callback is awaited) and `AllCollected` (what is about to be thrown is
all there is to report, the first of it by precedence).

`CacheDriverProofs` (assumption: `CacheAssumption`, the sets and times are what their names
say and every entry is due before ages stop being counted). `InvalidationSticks` is
about what is stored; it needs `FillsAccounted`, which says the same of every answer that is
still to be stored. The step that matters is the query: it is answered with what is
committed, which is never less than what has been invalidated for. `TimersMatch` is
inductive with the types, since an entry's age and its timer move together.

`DriverConnectionProofs` (assumption: `DriverAssumption`, drivers are what `Drivers` says and
only transactions are bounded). `NoUseAfterClose` is not inductive: an init promise
outlives the client it opened, so `StalePromise` says that a promise whose client is
closed is found by nobody (the driver is poisoned, or about to be while the queue
waits), and `ClientHeld` that what the running call holds is the driver's current
client. Both rest on `OneAtATime`, which is about the queue; `TransactionAlone` is its
part for lifecycles. `NoClientLost` holds of every driver, serialized or not: two
initialisations cannot overlap, because the one that is pending is everybody's
(`ClientCurrent`), and a disconnect has closed what it found before it clears the
fields (`DisconnectAlone`). `EndDisconnect` is the step that needs all of it.

`MigrationsProofs` (assumption: `WorkloadsAssumption`, a workload starts with a journal
whose names differ and with its first migrations applied). Each theorem names the
workloads of which the code makes it true; `migrate` has some of each, and mixtures:

* `EntriesHaveFilesHolds`, where nothing is squashed (a squash of a range in the middle
  re-indexes later entries whose files keep their names). `FilesInv` adds what is in
  flight: the journal a `generate` has read, and the entry it is about to write,
  have their files, in a directory from which no file goes.
* `EffectsAreTrackedHolds`, where in addition each migration's changes are its own, and a reset
  runs only where nothing is generated, since it clears tables whose entries it
  has not read. `EffectsInv` ties what each process carries to one assignment of changes to
  names: the bodies read (`BodiesInv`), the scripts a `down` holds (`DownsInv`) and the
  entries a `reset` replays (`ResetInv`). That rows and changes agree is then kept by
  each commit on its own. `NoMigrationTwiceHolds` follows, unless a reset replays changes
  that can be made twice: two applies that both run a migration meet at the unique name.
* `AppliedInOrderHolds`, where migrations are only applied or only rolled back, by any number of
  processes, and at most one generates, under new names. `OrderInv` says that the journal
  only grows, that a list read earlier is a prefix of it, that what an `apply` has still to do
  includes all of its list that is not applied, in order, and that what a `down` has still to
  undo ends with all that came after. An `apply` beside a `down` does break the order.

`WriteEngineProofs` (assumptions: `MarkersAssumption`, the markers are no values;
`WorkloadsAssumption`, tables start unique by key and a row to insert has a primary key that
no other call uses). `WriteInv` has five parts. `CallInv` says where a call is: the plans it has, that
each fits its operation, and that its drafts are its own doing. `ServerInv` says what the
server guarantees between statements: drafts are locked, the table is unique by key as each
transaction sees it (`UniqueViews`) and no two have written one key (`OwnKeys`), the row a plan
captured is locked and still what the arm was chosen for (`Chosen`), and a batch holds nothing while it
plans. The step that matters is COMMIT, where one view becomes everybody's. `LoneInv`
relates a lone call to the history of its key: the history ends with the present; a row
to be inserted is not there; on InnoDB an absence that was read is locked; and the absence
or presence an arm was chosen for was so during the attempt, or the key has changed hands.
`AnswerInv` is what then holds of each outcome. `ConflictOutlivesRetry` needs all of it:
the INSERT of a pinned create arm can only meet a key that has changed hands since its
read, the first failure starts a new attempt, and the second finds another change.
Two versions of these properties were refuted on the way and corrected: a conflict needs two
changes of the key and not three (a batch may lose the premise of its condition
first and its key in the retry, and a transaction may replace a row), and a *filtered* operation
may well find no row while the key keeps its holder.

`ImplementsAtomicWritesHolds` is the refinement, for workloads whose upserts create the key
that they select (`SameKeys`); without that premise it is false, as *Known gaps* tells. `WriteInv` says
what a transaction sees at each moment, not that its operations could run again, all
of them, on the table of that moment. `PathsInv` adds just that: from the committed table a path of tables
leads to the transaction's view, one operation per step, each taking effect on the row that
the call has recorded (`Path`). When another call commits, the path moves to the new table
(`Over`): each of its steps is decided by a row the transaction has locked, by the keys of such rows
or by keys that it has entered, and none of these are anybody else's to change (`KeptBy`, `Owned`), so
the operation does there what it did here (`EffectOver`). At its own COMMIT the path
starts at the committed table and ends at what becomes committed, which is the step of
`AtomicWrites` (`TransactionImplements`). A batch has no path until it is sent; there an
entry whose guards hold has the effect that its plan stands for, and the rest is an induction on the entries
(`BatchInOrder`). The attempt found the model wrong twice, both where it let a server give up too early
what a transaction holds: a key that was entered stays in the unique index until the
transaction ends, though the row has moved on; and an update that changes nothing keeps its row
locked. Each now has a race in `write` that refutes the refinement without it.

For nested writes (assumption: `RequestsAssumption`, a payload asks for something, what it spells has a
value, and a relation to one row has one item of a kind) `RefusedIsContradictionHolds` is the promise of
`relation-mutation-parser.ts:34`, for programs of any length whose rows are told by their ids. The invariant is
simple, since a refusal depends on the program alone: the program is that of the request, and if it was
refused, `Contradicts` holds of it. The work is in `RefusalShows`, in three parts. `FlattenSeqOrder` says what a list of lists flattened
contains and in what order, hence `ProgramSteps`: the kinds of a program come in the order of
`RELATION_MUTATION_KEYS`, and two steps of one kind are items decided one by one. `WritesTell` and `ReadsTell` say that
whatever the ledger records of a kind that reads has an id the step names, so that a conflict is
two steps with one id (`AffectedIsNamed`). And what is recorded of a kind without such a bound comes
after every read, by the order of the kinds (`KeysOrdered`), except where it meets a junction's `deleteMany`. The attempt
refuted the property as it was first stated, which did not have that exception: see *Known gaps*.

`SchemaDiffProofs` (assumption: `WorkloadsAssumption`, the models of a schema differ in name, and so
do the columns of a model). `DataKept`: no edit, no answer of the resolver and no dialect loses a value
of a column that both schemas have or that was renamed, neither up nor down. A
surviving column is at a place before and at a place after, which differ in the table's name or in the
column's, never in both (`TableWay`). `OperationsCarry` says of the whole list of operations
that each either leaves the column alone (`Leaves`) or is the one rename that moves it
(`IsMove`), and that there is one if the places differ: first of what `Diff` and `Resolutions`
put there, then, since both only take and move what is in the list, of sorting and extraction;
`InvertedCarries` has the same of the inverse with the places exchanged. Nothing is
claimed of a statement that the database refuses: the script fails there. One that it
accepts does to the column what its operation says (`OpStep`), where a recreation copies the names
that the old and the new definition share; that the column is among them is
`ReplayKeeps`, for the operations replayed so far know it under the name it has by then. `Tracked` is the
inductive invariant: after n statements the column is where the first n operations have
put it (`Now`), with the data it came with. So the order of the script, which
`EveryScriptRuns` depends on, is irrelevant to the data.

What recursive definitions compute is proved for `Among`, `Pairs`, `Replayed`, `BatchRun` and the like,
which are recursive functions: the library's theorem that < is well-founded gives each
set of naturals a least member (`Least`), hence induction over the members of a set of naturals
(`Induction`), without an operator as a parameter.

Only model-checked: liveness, which the prover does not cover; that nested writes mean their mutations
one after the other (`SerialOutcome`), which compares compiled programs with a meaning that is a fold over
`LAMBDA`, and is false of the payloads in *Known gaps*; of `SchemaDiff`, that every script runs and where it leads, which is false of
the schemas in *Known gaps* and therefore depends on what the workloads leave out; migrations with a
squash, and the mixtures named above, within the workloads of `migrate`.

## Not modelled

* Errors are outcomes: their classes, messages, normalisation and disclosure are not
  modelled, tracing and logging neither.
* The server is external: a statement has its effect at one point, a failed
  lifecycle statement may have had its effect or not. PostgreSQL's refusal of
  statements after an error inside a transaction only removes behaviours. Transactions read
  committed rows, except on InnoDB, whose gap locks are in `WriteEngine`.
* A callback is a sequence of calls. What it awaits is not modelled; that a callback
  can wait for a statement queued behind itself is listed as a hazard.
* A provider that runs the transaction does not call the callback after it has
  settled, and does not wrap the callback's failure in an aggregate that holds
  nothing else.
* A raw transaction awaits its own statements.
* The cache has one key; the calls of `MemoryCache` have their effect when they are made.
* Write engine: `createMany`, `updateMany`, `deleteMany` and the skippable writes of the root;
  the SQL of a step; what a statement returns beyond the row it touched.
* Nested writes: relations of a table to itself, mutations nested deeper than one level, changes of the parent's own key, a key
  that parent and child share, a connect that a create beside it covers, `createMany` rows of which only some spell the key of a junction's
  table, and the retry of a lost race (it is `WriteEngine`'s). The writes of a transaction are
  one step, since a rival that does not touch a locked row commutes with them under read
  committed or makes one of them fail.
* Migrations: rollback, status, pending, push and pull; a lock and its unlock sent through
  different sessions of a pool; files edited by hand (a checksum is the body); a squash that
  dies between the tracking table and the journal.
* Generation: enums, defaults and types beyond "castable or not", partial indexes, a
  relation of a table to itself, nullable relations and referential actions.
* SQL builders, adapters, schema, validation, instrumentation, errors and the command line keep
  nothing between calls and do one thing after the other.

## Plan

Done: the queue, the scopes, connections, pools and providers; the cache for one key; single-row
writes and `$transaction([...])`; nested writes of one level, to relations of every kind, in updates and creates; the migration
commands; script generation; the safety of the queue, scopes, connections, pools, providers
and the cache, of single-row writes and of the migration commands, proved, and so are the
atomicity of single-row writes, what the ledger refuses, and that generated scripts keep the data. Left, in this order:

1. Proofs: where a script leads, for schemas outside *Known gaps*; what a nested program that succeeds means.
2. Two levels in `NestedWrite`, for which the ledger has scopes (`withNestedScope`) and the planner levels.
3. Several cache keys with the prefixes that clear them, and the KV store with its eventual deletes.
4. `push` and `status`, and a squash that may die at every step.
