# AIngram in TLA+

Specifications of the parts of AIngram (`src/aingram/`) whose correctness
depends on the order of steps: the signed entry chain, the extraction queue and
the graph it writes, the governance columns, consolidation, the capture daemon,
the MCP server's access checks, what is done to whole files (schema upgrade,
migration, compaction, export, import), and the path from a Claude Code hook to
a recalled memory. TLC checks each on a small instance (`PROJECT.json`,
"runs"); TLAPS proves every invariant and every action property the runs check,
the refinements and the type invariants for every instance (the `*Proofs`
modules); only liveness rests on TLC alone. Lines are those of the mapped commit; paths without a prefix are
relative to `src/aingram/`.

## Inventory

| component | state it keeps | operations | interacts with | hard behaviour |
|---|---|---|---|---|
| `MemoryStore` (`store.py`, `trust/`) | `SessionManager`: key pair, sequence number, predecessor id (memory only) | `remember`, `recall`, `reference`, `verify`, `consolidate`, `compact`, `export_json`, `import_json` | engine, worker, merger | counters are read before the engine's lock and advanced after it; crash between commit and advance; several threads of one store; imports that raise half way |
| `StorageEngine` (`storage/engine.py`) | SQLite tables, one connection, one `threading.Lock` | `store_entry`, the task queue, `set_governance`, vectors, full text, graph, chains, tokens | everybody | one lock per connection and none across processes; multi-statement operations |
| Schema upgrade and migration (`storage/schema.py`, `storage/migration.py`) | tables, columns, `schema_version`; the v2 tables | `apply_schema`, `migrate_v2_to_v3` | engine, embedder | statements that commit by themselves, swallowed errors, old tables dropped before new rows exist |
| `BackgroundWorker` (`worker.py`) | stop event, threads, `task_queue` rows | `start`, `stop`, `drain`, the three handlers | engine, extractor, graph | claims, errors outside the `try`, follow-up tasks, polling two counters that are read separately |
| Graph (`graph/`) | entities, relationships, mentions | upserts, traversal | worker, `recall`, consolidation | concurrent upserts, a commit per row, bounded traversal of cycles |
| `MemoryMerger` (`consolidation/merger.py`) | none of its own | cluster, summarize, store as a chained entry | session counters, engine | raises between commit and advance; writes back importances read before the model was asked |
| `ContradictionDetector`, decay, `KnowledgeSynthesizer` (`consolidation/`) | none of their own | stamp `valid_to`; rewrite `importance`; write `knowledge_items` | engine, LLM or classifier | long time between read and write; repeated and concurrent runs |
| Governance (`governance/`, `core_tier.py`) | columns `status`, `trust_score`, `valid_to`, `pinned` | `approve`, `deny`, `supersede`, `pin`, `unpin`, backfill | capture drain, detector, `core_memory` | check then write, two-step calls, several writers of one column |
| Capture (`capture/`) | `capture_queue` and `toggle_state` in a second database; drain thread with a counter | routes, `insert`, `dequeue_batch`, `process_batch`, stop and close | memory store, gate | no transaction spans the two databases; shutdown closes the store under the thread; restarts |
| MCP server (`mcp_server.py`, `security/`) | token table, buckets per agent, last refill, last access | six tools behind authentication, role, bounds and rate checks; `create_agent_token`, `revoke_agent_token` | store, engine, command line in another process | order of the checks, revocation between check and use, lazily computed levels, eviction |
| Recall daemon (`recall_daemon/`) | server and port, pid file, last request time | `start`, `stop`, idle monitor, `/recall` | hook, store | idle shutdown against requests, stale pid files, two daemons starting |
| Claude Code hook (`cc_hook/`) | seen file per session | `run`, `append`, cleanup, spawn | recall daemon | read-modify-write of a file by concurrent hooks, killed at any moment |
| Adapters, filters, integrations, viewer, telemetry, embedders, models, read-only commands | little or none | parsing, I/O, numeric kernels, thin calls | the above | text and I/O, not order |

What makes each modelled part correct is stated with its properties below; the
hazards, each at its line, are in `PROJECT.json`.

## Modules

| module | models | used by |
|---|---|---|
| `AgentLog` | abstract: one append-only numbered log per session | `SessionChain` |
| `SessionChain` | `remember()`, the chained write of a merge, restart, `verify()` | `MCSessionChain`, `SessionChainProofs` |
| `ClaimQueue` | abstract: a queue whose claim is one step | `TaskQueue` |
| `TaskQueue` | `task_queue`, the engine lock, worker threads, stop, crash, restart | `MCTaskQueue`, `ParallelDrain`, `TaskQueueProofs` |
| `ParallelDrain` | `drain()` with a pool; EXTENDS `TaskQueue` and reuses its actions | `MCParallelDrain`, `TaskQueueProofs` |
| `Governance` | the four governance columns and all their writers | `MCGovernance`, `GovernanceProofs` |
| `CapturePipeline` | capture queue, drain thread, daemon life cycle | `MCCapturePipeline`, `CapturePipelineProofs` |
| `TokenBuckets` | abstract: levels refilled at every tick, never evicted | `RateLimiter` |
| `RateLimiter` | lazy refill, `retry_after`, eviction | `Access`, `AccessProofs` |
| `Access` | tokens, roles, the middleware and the tools behind it; EXTENDS `RateLimiter` | `MCAccess`, `AccessProofs` |
| `SchemaUpgrade` | `apply_schema()`, its commits and swallowed errors | `Migration` |
| `Migration` | `migrate_v2_to_v3()`; EXTENDS `SchemaUpgrade` | `StoreFile` |
| `StoreFile` | compaction, export, import, and the writers beside them; EXTENDS `Migration` | `MCStoreFile`, `StoreFileProofs` |
| `Graph` | entities, mentions, relationships, the handlers that write them, the traversal | `Consolidation`, `MCGraph` |
| `Knowledge` | chains, knowledge items, synthesis | `Consolidation` |
| `Consolidation` | `consolidate()`: decay, contradictions, merging and synthesis over a graph that is being written; EXTENDS `Graph` and `Knowledge` | `MCConsolidation`, `ConsolidationProofs` |
| `SeenStore` | the seen file and its temporary file | `Recall` |
| `Recall` | hooks, daemons, pid file, port, and `recall()` while entries are denied; EXTENDS `SeenStore` | `MCRecall`, `RecallProofs` |
| `*Proofs` | theorems about the module of that name and the ones it extends; `TaskQueueProofs` about `ParallelDrain`, too | |

Definitions marked `Slip:` are plausible mistakes; `PROJECT.json` pairs each
with the definition it would replace and the property that then fails. No
specification uses them.

### SessionChain

`opens[s]` counts openings of store `s`: every opening has a new key pair, so
`Session(s)` names a session. `seqNum` and `prevId` are the fields of
`SessionManager`; `entries` is `memory_entries`. A call of `remember()` is the
five steps the code takes without a common lock: `BeginRemember` (reads the
sequence number, `store.py:213`), `ReadPrev` (reads the predecessor, computes
the id), `StoreEntry` (the engine's transaction, refused on a duplicate id or
on `UNIQUE(session_id, sequence_num)`), `AdvanceSeq` and `AdvancePrev`
(`SessionManager.advance`), `Enqueue`. A merge (`BeginMerge`) goes through the
same reads and the same transaction and then raises at
`consolidation/merger.py:148`. `Reopen` is a crash at any point or a close,
followed by a new opening. Hashes are injective: an id is the tuple of what is
hashed. `Verify` is `verify()` as an operator: no gap, each entry linked to its
predecessor, and each id equal to the one recomputed from `prev_entry_id`.

### TaskQueue, ParallelDrain

`status` and `kind` are the rows in order of insertion (no caller sets a
priority). `dequeue_task` is `SelectTask` and `ClaimTask`: two statements under
the engine's lock, but for another engine two moments. `RunHandler` chooses
among what a handler can do to the queue; what it writes to the graph is left
out. `DequeueFails`, and the raising branches of `EnqueueLink`, `CompleteTask`
and `FailTask`, follow the exceptions through the code: outside
`_execute_task`'s `try` they end the thread. `mishaps` counts stops, crashes
and failing statements.

`ParallelDrain` adds the caller of `drain()`: it reads `active`, then the
number of pending rows, pauses, and reads both again. `Window` is the time
between claim and `active + 1`. `WindowBounded` assumes this time is shorter
than the pause of one poll interval (`worker.py:158`); without it TLC finds a
`drain()` that returns with work in flight, so the code relies on timing here.

### Governance

Every `set_governance` is one action, and every read before it another:
`pin()` is `ReadForPin`, `CountPinned`, `WritePin`; `deny()` and `supersede()`
are the write and `RevokePin`; a capture is stored by `Capture` and stamped by
`StampCapture`; the detector reads in `Detect` and stamps in `StampVerdict`.
Trust scores are the three values policies tell apart. Of `valid_to` only
whether it is set is kept. `Backfill` runs when no call is under way (it is a
one-off command). `overlapped` is a history variable: an operator began a call
while another was in the middle of one.

### CapturePipeline

`state` and `record` are `capture_queue`; `fresh` the rows in the dedup window;
`spc` and `arrived` a request in the route. `pc`, `batch` and `counter` are the
drain thread, one step per statement of `process_batch`. `Fails` is an
operation that raises; `Refused` one that the already closed store refuses
(`StopDaemon`, then `CloseStore` after at most five seconds, whatever the
thread does). `copies` and `stamped` are the memory database.

### RateLimiter, Access

Time is counted in ticks and a token in fractions, so that floats become
naturals. `Level` is what `_Bucket.try_consume` computes, `Stale` and `Kept`
the eviction; `ImplementsTokenBuckets` maps to buckets that are refilled at
every tick and never forgotten.

`Access` puts the server in front. `Process` is `SecurityMiddleware.process()`:
token, role, size, rate, in this order, each refusal a disjunct of its own.
A call that is let in is kept in `call` until its tool runs, since the command
line (`CreateToken`, `RevokeToken`) is another process. The limiter is keyed by
what `TokenAuthenticator` calls the session, which is the agent's id
(`CallerSession`); `Reference` compares the same value with the session of an
entry. Content is big or not; the other bounds only clamp. `used`, `since` and
`late` are histories: `used` counts from the moment `since`, which
`CountFromNow` may move to any moment, so that `WithinBudget` is about every
interval and not only the one that begins with the server.

### SchemaUpgrade, Migration, StoreFile

Python's `sqlite3` begins a transaction before INSERT, UPDATE and DELETE only,
so each DDL statement before the first of these is committed by itself
(`Settle`). `opener` is the connection that opens the file: the columns it sees,
and whether its transaction has begun. Columns are grouped by the step that adds
them; the two an index needs are kept apart, since a missing one makes
`CreateIndexes` raise. `AddColumns` has the set of ALTERs that met a lock as its
input. `Abandon` is a crash or an error at any step.

`Migration` reads the v2 tables into `mig`, drops them one by one, and stores
the session, each row, and the links with the codes in a last transaction.
`CutOff` may come anywhere. `src` is the file's v3 tables, as sets of names.

`StoreFile` adds the operations on whole files. `compact()` is five steps, one
per commit. `export_json()` is one step per SELECT, since nothing holds them
together. `import_json()` is `ImportCheck` (before the lock) and `ImportBody`:
under the lock its statements are one step, with one outcome for each statement
that may raise (`Remains`) left in `tx`, the open transaction of the connection,
which nothing rolls back. `LocalStores`, `LocalLinks` and `LocalCommits` are the
other writes of that store. `torn`, `cut`, `gap`, `unseen`, `half` and
`quietFail` are histories that say which interruption has happened.

### Graph, Knowledge, Consolidation

In `Graph` every row is a commit of its own: `Upsert`, `Mention`, `Relate`, with
`Abandon` between any two. Tasks are numbers of pending rows; how they are
claimed is `TaskQueue`'s business. `Traverse` is the recursive query of
`traverse_graph()`, one hop at a time; `Distance` defines independently what it
ought to find.

`Knowledge` takes any clustering of the completed chains, keeps those of two
sessions or more, and for each one reads an item (`Match`), asks the language
model, and writes (`WriteItem`), in that order and without a transaction.

`Consolidation` runs decay, contradictions, merging and synthesis for each
store, each part reading importances into `snap` and writing absolute values
later. `Candidates` are the sets of pairs the two caps allow; which one comes out
depends on an order of rows that the model leaves open. `Classifier[c]` is what a
store judges pairs with: nothing, the local classifier (`contradiction_backend`
"deberta"), whose verdict names no text, so that the older entry is superseded
or, of two of one age, the one whose row came first; or a language model ("llm",
or the one `consolidate()` was given), which may name either (`Superseded`, the
index of `_resolve_verdict`). `Dismiss` is a pair that is passed over.
`retired` keeps beside each entry, as history, which of the two had retired it.
`Clusters` is the
assignment of entries to at most one cluster, entities taken by size
(`BySize`). The wording of a verdict or a summary is open; a model that fails is
`SkipCluster`. Meanwhile `Elsewhere` is the extraction worker and the callers
that complete chains. `behind` is the history of rows others have written since.

### SeenStore, Recall

`path` and `tmp` are files; a process keeps writing to the file it has opened
whatever its name becomes, which `to` follows through the renames of others.
The text a hook will write is fixed when it reads (`BeginAppend`).

In `Recall`, `proc[d]` follows a daemon process from `CheckPid` through
`ClaimPid` and the warm-up to `Bind`, `Expire`, `Shutdown` and `Exit`. `Die` is
a crash, a failure to load the store, or `stop`. A pid file left behind holds a
number that no process has (`Dead`) or that another process of the user was
given since (`Foreign`): `GivePid` goes back and forth between the two,
`RemoveStale` is `stop` on such a file, and `is_stale()` tells only the first
one (`CheckPid`). A hook asks whoever listens,
and a refusal or a timeout makes it spawn. `Answer` is the handler and
`recall()` under it: the searches name any entries (`Found`), and what counts is
when their rows are read (`Recallable`). Governance is reduced to whether an
entry is `live`; `lived` is the history of what was live at some moment since
the hook asked.

## Runs

Times are for two TLC workers.

| run | bounds | shows |
|---|---|---|
| `chain_single` | 2 stores with a thread each, 2 contents, 2 openings, 4 entries | one caller per store: every session verifies in every state (`ChainVerifies`) and nothing is refused (`AllWritesAccepted`), crashes included; 788,132 states |
| `chain_shared` | 1 store, 2 threads, given parents, merges from 2 rows on, 2 openings, 3 entries | what survives shared use and failed merges: the tail is a committed row (`TailCommitted`), and the table is an append-only log (`ImplementsLog`); 260,520 states |
| `queue` | 1 engine, 2 workers, 3 tasks, 1 reset, 2 mishaps | `ExclusiveClaim`, `EventuallyFinished`, `EventuallyTaken`, `ImplementsClaimQueue`; 67,522 states |
| `drain` | as `queue` with 2 tasks | `DrainComplete` (nothing is left, and the number returned is right), `DrainReturns`; 119,764 states |
| `governance` | 2 operators, 1 capture, 1 consolidator, 3 entries, cap 1, 1 crash | always: `PinnedTrusted`, `CapOvershoot`, `DecisionsKept`; while operators take turns and nothing crashes: `QuietCoreTier`; 3.0 million states, 120 s |
| `capture` | 1 source, 3 rows, batches of 2, consolidation after 1 record, 1 stop or crash, 1 failure | `StoredOnce`, `DoneMeansGoverned`, `BacklogBounded`, `NoFreshDuplicates`, `EventuallySettled`; 251,392 states |
| `access` | 2 agents, 1 name, 2 entries, a bucket of 1.5 writes and 2 reads, 3 ticks, eviction after 2 | a revocation lets at most one more call through (`RevocationTakesEffect`), from any moment on nobody gets more than a full bucket and its refill (`WithinBudget`), `RetryAfterHonest`, `ImplementsTokenBuckets`; 309 thousand states, 111 s |
| `store_file` | files of version 0, 2, 4, 8 and 9, locks; 2 v2 memories, 1 entry stored beside, 2 in the target | `VersionMeansComplete`, `MigrationWhole`, `CompactionKeeps`, `SessionsWhole`, `QuietExportImports`, `AllOrNothing`, `LocalKept`; 353 thousand states |
| `graph` | 2 workers of which one asks in one call, 2 entries, 3 entities of which two share a name, 2 relationships, 1 requeue | `CountCoversMentions`, `TraversalExact`; 309 thousand states |
| `consolidation` | 2 consolidators, one with the local classifier and one with a language model, 3 entries and a summary about one entity, caps of 1, 3 chains, 2 items, a page of 1 | `Quorum`, `NewestStands`, `QuietFalls`, `QuietSynthesis`; 3.6 million states, 130 s |
| `recall` | 2 hooks, 2 daemons, 2 entries of which one is governed, cap and limit 1, 1 fault, pids given again at any time | `ShownWasLive`, `SeenKept`, `SpawnRecovers`; 1.8 million states, 145 s |
| `chain_merge_broken` | merges from 3 rows on | after a merge, the next `remember()` is refused |

The last one states what the documentation says and the code does not do;
`PROJECT.json` quotes the sentence under "findings". The type invariants
(`TypeOK`, `AccessTypeOK`, ...) and `NoGapAnywhere`, `CountersMatchRows`,
`ClaimedHasWorker` hold in the same instances and may be added to any of the
configurations; the first kind says little that the properties do not, and all
of them are proved.

Why these bounds are enough to matter: two actors suffice for every race here,
because each is between a read and a write of one other actor; three rows allow
a batch, the row after it and a follow-up task; two openings are a session, its
crash and its successor; one failure and one stop may come at any step, and
`queue` and `drain` allow two, so that a failure can hit the handling of the
first. `governance` uses one place in the core tier, so that the cap is reached
with two entries and overshot with three. `access` has one name, so that one
agent at a time holds a token; the other one's bucket and calls are as without
a token, and the capacities are small enough to be used up and refilled, and a
bucket evicted, within the horizon. In `store_file` the source is left alone
once its export is written, since nothing of the target depends on it any more;
a v2 file is compacted and exported only after its migration. `consolidation`
reads one item per page and one row to decay, and takes one pair, so that the
limits of 100, 5000 and 200 are met. In `recall` one
entry changes its status and the other does not, and a seen list of one is
full with the first entry. Two limits no instance meets: with a list of one,
`SeenKept` does not see which of several earlier ids are kept, and with three
entities of which two share a name no distance exceeds the two hops of
`traverse_graph()`; `SeenTheorem` and `TraversalTheorem` are about any cap and
any graph. `SYMMETRY` is used in `governance` only, which checks
no liveness; the operators are interchangeable there.

Deadlock is checked except where the system may stop: the chain
stops when the bound on entries is reached, the queue when every worker thread
has died of a dequeue error (nothing in the code starts it again), a drain when
it has returned, and files, graphs and consolidations when their bounds are used
up.

Fairness. `queue`: each worker's next step (threads are scheduled), the closing
of a stopped engine and the restart of a closed one; no fairness on enqueueing,
stopping or failing. `drain`: each worker and the calling thread. `capture`:
the drain thread, the `finally` block of `run_daemon`, and the restart of a
daemon that is down. `recall`: a daemon process that was started goes on with
its next step, and of the hooks that were refused one spawns; not that a hook asks, that an
idle daemon is found idle, or that anything dies. The other runs check safety
and assume none. `EventuallyTaken`, `DrainReturns`, `EventuallySettled` and
`SpawnRecovers` name the ways out the code has: threads that died, rows that a
daemon had dequeued when it ended, and a pid that another process was given.

### Observed without a run of their own

Entries and queue:

- Two threads that share a store (README.md:266) can both read one tail; the
  second write is refused or `verify()` reports a break. This is why
  `ChainVerifies` is conditional on one caller per store.
- An entry remembered with `parent_ids` (`store.py:217`) is hashed over parents
  that are stored nowhere, and `verify()`, which recomputes the id from
  `prev_entry_id`, reports it as failing.
- Two engines on one file (README.md:267) can claim one task twice: the SELECT of
  `dequeue_task` starts no transaction and the UPDATE names the id alone
  (`storage/engine.py:614`), where the docstring says "Atomically claim".
- After a stop or a crash a row stays `claimed`, so a poller of
  `get_incomplete_task_count` (`storage/engine.py:1773`) waits for ever.
- A contributor can make no reference (`ReferenceTheorem`): the owner check compares an entry's
  session with the agent's id (`security/auth.py:32-38`, `store.py:486-491`), and
  what an agent remembers is stored under the server's session. The unit test
  builds its caller with the store's session (`test_ownership.py:19`).

Governance and consolidation:

- A `pin()` decided before a denial and written after it leaves a denied entry
  pinned (`core_tier.py:60`), and two pins may exceed the cap by one
  (`core_tier.py:24`): `CapOvershoot` is the exact bound.
- The detector supersedes with `set_governance(valid_to=...)` and does not unpin
  (`consolidation/contradiction.py:136`), so a superseded entry may stay in the
  core tier, which `governance/lifecycle.py:3-5` excludes.
- A capture's stamp overwrites a decision made since `remember()` returned
  (`capture/drain.py:125`): the exception in `DecisionsKept`.
- A language model may name the newer of two entries
  (`consolidation/contradiction.py:199`), and runs take the same pairs again
  whether their entries are retired or not: then one run retires one entry of a
  pair, another run or another store the other one, and "recall now" returns
  neither. `NewestStands` says what is left: what the local classifier retired
  has an entry that is no older beside it, and that one may have been retired by
  a model.
- `consolidated` is never set, so the pairs beyond the cap are not "deferred to
  next consolidation run" (`consolidation/contradiction.py:144`): the next run
  takes the same ones, and moves `valid_to` and the importance of the superseded
  ones again.
- Two synthesizers may lose each other's chains, or make two items of one
  chain; with more items than a page holds, one does so alone.

Capture:

- Rows in `processing` when the daemon ends are never read again.
- Duplicates are found by the prompt alone (`capture/queue.py:39`), where the
  comment says "exact duplicate content".
- With two capture sources, SELECT and INSERT of `insert()` interleave and both
  copies are queued.

Files:

- A file of version 4 that has knowledge items cannot be opened: the ALTER with
  `DEFAULT (datetime('now'))` (`storage/schema.py:215`) raises when the table has
  rows, the error is taken for an existing column, and the UPDATE that follows
  finds no `due_at`. The test of the migration inserts its item afterwards.
- An ALTER that meets another process's lock is skipped in the same way; if no
  index needs the column the file is stamped with version 10 without it
  (`VersionMeansComplete` says for which columns).
- A migration that is cut off after its first DROP has lost what it had not yet
  stored; "safe to drop old tables" (`storage/migration.py:69`) holds for
  uninterrupted runs.
- An import that raises leaves its statements in the open transaction, and the
  next write of the store commits them. A merge raises when the two files have an
  entity of the same name and type that the target mentions (`store.py:954`).
- After an import without `merge`, the session of the importing store is gone and
  its next `remember()` fails until it is opened again.
- An export of one agent's sessions holds mentions of entries it leaves out
  when it has no entry of its own, and never the governance columns.
- While a compaction is between DROP and commit the vectors are nowhere, and what
  another process stored since its SELECT has lost its vector afterwards.

Hook and daemon:

- Two hooks of one session write one temporary file (`cc_hook/seen.py:51`), so
  besides losing ids one may leave a torn file, which is read as empty, or find
  its temporary file gone and end without a word.
- An id that is shown again keeps its place, so that the cap may drop it first.
- With `seen_cap` above 500 (`cc_hook/config.py:107`) the daemon in the end
  refuses every question of a session (`recall_daemon/server.py:223`).
- A pid that another process of the user has been given keeps the daemon from
  starting until that process ends or `stop` removes the file
  (`recall_daemon/cli.py:57`), and `stop` sends that process a SIGTERM: the
  exception in `SpawnRecovers`.

## Proofs

The theorems hold for all values of the constants that satisfy the modules'
named assumptions, and what a theorem assumes beyond them is in its statement.

`SessionChainProofs`:

- `TypeCorrect`, and from the inductive invariant `AppendInv`, which holds
  whatever the callers do: `NoGapTheorem`, `TailTheorem` and `LogRefinement`
  (every step is an append of `AgentLog` or changes nothing a reader sees).
  The two properties alone are not inductive, since `StoreEntry` could append
  anywhere; `AppendInv` adds that every row belongs to an opening that exists
  (`RowsOpened`), that the rows up to the counter are there (`RowsFilled`),
  that a call has read a position at most one past the counter (`ReadBelow`),
  and that at most one call of a store is between its commit and `advance()`,
  with its row exactly one past the counter (`CommittedRow`, `OneAdvancing`).
- `ChainTheorem` assumes one caller per store and default parents
  (`SingleCaller`, `DefaultParents`); merges and crashes are included.
  `ChainInv` adds that slots and ids are unique, that each row is chained to
  the one before it, and that what the caller has read is the tail, through the
  two separate assignments of `advance()` (`LocalsCurrent`, `TailIsLast`).
- `AcceptTheorem`, `CountersTheorem` assume in addition that no merge runs.
  `AcceptInv` adds that no row is past the counter unless a call is about to
  advance it (`NotAhead`), so the constraints have nothing to refuse.

`TaskQueueProofs`:

- `QueueTypeCorrect`, for any number of engines and workers.
- `WorkTheorem` (`ClaimedHasWorker`), likewise, from `WorkInv`: as long as nothing
  was stopped and nothing has raised, every engine is open (`Undisturbed`), so
  that a worker lets go of its row only by completing or failing it.
- `ClaimTheorem` assumes that all workers belong to one engine (`OneEngine`).
  `QueueInv` says what the lock is for: a worker between SELECT and UPDATE holds
  the lock and its row is still pending (`SelectedPending`), and the row of a
  worker inside `_execute_task` is claimed. With two engines on a file the
  first part is false.
- `QueueRefinement` assumes one engine on the file (`SingleEngine`), since
  another engine's `reset` or claim would come between the two statements. It
  adds that the selected row is still the oldest pending one (`SelectedFirst`).
- `DrainTheorem` and `DrainClaims` assume `OneEngine` and `WindowBounded`, the
  timing on which `drain()` relies. `DrainInv` counts what workers have
  finished and not yet counted in or out (`Tallies`), says that every claimed row
  is in the hands of a worker unless one has died, and that every row the
  caller found is one of the file (`Duties`), and, the heart of it, what the caller may conclude between its two looks
  (`Looks`): if it saw nobody active and nothing pending, whoever claimed a row
  before has counted itself by the second look. At the end nobody is still
  running (`Joined`).

`CapturePipelineProofs`:

- `CaptureTypeCorrect`, `OnceTheorem` and `DoneTheorem` from `StoreInv`: a row
  that waits or is in the batch has no copy yet, except the one the drain thread
  has in hand, which has one copy as soon as it is past its `remember()`
  (`WaitingUnstored`, `BatchUnstored`, `InHand`).
- `BacklogTheorem` from `Accounts` (the counter never exceeds the entries that
  are not consolidated, nor the batch its size) and `Pace` (while nothing fails
  and the store is open, the counter covers the backlog, and the rest of the
  batch fits in before the counter is looked at again).
- `FreshTheorem` from `Alone`: with one source, what SELECT found still holds at
  its INSERT, because rows enter the window only by that INSERT.

`GovernanceProofs`:

- `GovernanceTypeCorrect`, `TrustTheorem` and `DecisionsTheorem` from
  `TrustInv`: rows are stored in order, no row has a score before it is stored,
  an entry that its capture has not stamped is not fully trusted, and the score
  that `pin()` has read is still there when it writes.
- `CapTheorem` from `CapInv`: the pinned entries and the operators that have
  passed the check together never exceed `MAX_PINNED` + n - 1.
- `QuietTheorem` from `QuietInv`: as long as operators take turns, what one has
  checked is still true when it writes, because everybody else writes other
  columns, or entries that are not fully trusted.

`AccessProofs`, for `RateLimiter` and `Access`:

- `RetryTheorem` and `BucketRefinement` rest on how a level moves: by `Rate`
  per tick and by `Unit` per grant, up to the capacity, whenever the bucket was
  last touched; a bucket that is old enough to be dropped is full (`StaleFull`),
  so dropping it changes no level.
- `AccessRetry` and `AccessBuckets`: the server reaches the limiter only through
  its own actions, so its behaviours are behaviours of the limiter.
- `RevocationTheorem` from `LateInv`: what is counted as late is the one call
  that had passed before. Its second half (`RevokedStayOut`) is about steps: a
  revoked row stays revoked, and no step makes a call of that agent the one that
  is let in.
- `BudgetTheorem` from `BudgetInv`: what was spent since `since` and the level
  together are within the capacity and the refill from then on, whatever the
  level was then.
- `AccessTypeCorrect` and `ReferenceTheorem` from `CallInv`: a call has the role
  of its agent's row, which never changes, and no entry has an agent's session,
  so that the owner check of `reference()` lets through admins only.

`StoreFileProofs`, for the composition with compaction, export and import:

- `UpgradeTheorem` from `SchemaInv`: what the opener has seen of the columns and
  done to them at each step, inside and outside its transaction.
- `MigrationTheorem` from `MemoryInv`: what is in the file, in `mig` or in the
  open transaction covers every memory, unless a run was cut off between.
- `CompactionTheorem` from `CompactInv`: in each phase the vectors are in the
  table or in the rows that the compaction holds in memory.
- `WholeTheorem`, `QuietTheorem`, `AllOrNothingTheorem` and `KeptTheorem` from
  `FilesInv`, which joins the invariants of the source (`SourceInv`: the rows of
  each session are an unbroken sequence, and mentions name entities and entries
  that are there), of the export (`ExportInv`: what an undisturbed export has
  read is what the file still holds, and its result is self-contained) and of
  the target with its open transaction (`TargetInv`). Each of the properties
  alone breaks as an invariant at the first statement of an import that raises.
- `FileTypeCorrect` adds how far the operations may be (`Phases`).

`ConsolidationProofs`:

- `QuorumTheorem`, `QuietSynthesisTheorem` from `KnowledgeInv`: while a
  synthesizer waits for the language model its chains stay completed and of two
  sessions, and its reading of the items is `Current` until it is overtaken.
- `CountTheorem` from `CountInv`: the mentions of an entity and those whose
  upsert is committed (`Due`) together are within `mention_count`.
- `TraversalTheorem` needs no invariant: the recursion stops after `MAX_HOPS`
  hops, so the function it defines exists and has three values (`WalkRows`),
  which are compared with `Distance` case by case.
- `ConsolidatedQuorum`, `ConsolidatedQuiet`, `ConsolidatedCount`: a step of a
  consolidation is one of `Knowledge`, one of `Graph`, or leaves them alone
  (`PartsStep`), so both theorems hold in the composition.
- `NewestTheorem` from `StandInv`: pairs that were read stay pairs of their
  entity, since mentions are only added, only a store with a classifier has any
  (`Judgeable`), and of two entries the local one retires the older or, of one
  age, either.
- `FallsTheorem` from `FallInv`: a row that a store still owes a write
  (`Owed`) has the importance the store has read, unless another wrote it since
  (`Fresh`). For merging this needs that clusters share no row (`Apart`), which
  is an induction over the entities in the order `merge_similar()` takes them
  (`ClustersApart`).
- `GraphTypeCorrect`, `ConsolidationTypeCorrect`: the types of the parts and of
  the composition, with importances between 0 and `Top`.

`RecallProofs`:

- `RecallTypeCorrect` and `ShownTheorem` from `ShowInv`: whatever is live now has
  been live at some time since each asking hook asked, so what the store answers
  it with has been, too.
- `SeenTheorem` from `SeenInv`: as long as no other hook has come between
  (`Undisturbed`), the file still holds what the hook has read and merged, and
  the temporary file is its own and holds what it has written. What `append()` merges and caps is computed by
  induction over the list (`MergeType`, `CappedTail`).

The library states its induction over numbers for an operator, which cannot be
instantiated here; `SetInduction` and `Iteration` (in the two modules that need
them) are derived from well-founded induction on sets instead.

What is assumed of the constants is in the `ASSUME` of each module, which TLC
evaluates for its instances: types, disjoint names, entries, entities, rows and
workers that are finite sets (so that they can be counted), room for one entry
(`AccessConstants`), and a classifier for whoever has a language model, as in
`consolidate()` (`ConsolidationConstants`). `OneEngine`, `SingleEngine`,
`SingleCaller`, `DefaultParents` and `WindowBounded` are hypotheses of the
theorems that need them, and the runs satisfy them.

TLC checked the properties on small instances before they were proved, and the
inductive invariants of the drain and of the importances as invariants of such
instances; `NoGapTheorem`, `CountersTheorem`, `WorkTheorem`, `ReferenceTheorem`
and the type invariants state what no configuration lists. Model-checked only: liveness
(`EventuallyFinished`, `EventuallyTaken`, `DrainReturns`, `EventuallySettled`,
`SpawnRecovers`), since the prover has no ENABLED and no rule for fairness.

## Not modelled, and the plan

Next, in this order:

1. `recall()`: the fusion of the two rankings, validity windows (`as_of`) and
   trust as pure operators against reference definitions.
2. Capture: the daemon's sentinel and pid file, start and stop from the command
   line, a second source, and the reader that remembers its position in a file.
3. `drain()` by several callers at once.

Theorems planned: that `Recall` and `CapturePipeline` implement abstract
specifications of their own (a seen list that is read and extended in one step;
a queue that stores each row once); and safety parts of the liveness properties,
such as that a refused hook always leaves a daemon to be launched.

Left out for good: payload parsing of the capture adapters, embedding and
quantization kernels, full text and vector search, model downloads, prompts and
answers of LLMs (their outcomes are nondeterministic choices where they matter),
the viewer, telemetry and those commands that only call the parts above; the
legacy v2 pipeline.
