# sqlite-graphrag: TLA+ models

`sqlite-graphrag` is a command-line tool that stores memories, entities and
relationships in SQLite and enriches them with LLM calls. Every invocation is
a process of its own; processes meet in the database, in a sidecar queue
(`.enrich-queue.sqlite`), in lock and slot files and in `config.toml`. A
command reads before it takes the write lock, waits for a provider in between,
and may die at any point: that is where the hazards are, and what the models
are about.

## 1. Inventory

| Component | State | Operations | What is hard | What makes it correct |
|---|---|---|---|---|
| enrich queue (`enrich/queue.rs`, `queue_ops.rs`) | rows: namespace, operation, key, status, attempt, claim, backoff, priority | claim, heartbeat, write-backs, sweep, resume, enqueue, reopen, requeue, prune, cascade | concurrent claims; write-backs by id long after the claim | one worker per row; attempts bounded; terminal rows stay terminal |
| enrich run and drain (`enrich/run/*`, `drain_*.rs`) | flags, page, tallies, deadlines; per worker claim and breaker | prepare, scan, enqueue, spawn, join, until-empty, finish | crash between call and write-back, unlink of a file others have open | backlog settles, no stranded claim, a signal ends the run |
| maintenance flags (`enrich/status.rs`) | none | requeue, prune, reset stale | run beside a drain | never disturb a held claim |
| enrich scans and handlers (`enrich/scan`, `extraction_*`) | none | one row read, one LLM call, some statements | rows change during the call, no transaction around the writes | text searchable, vocabulary kept, scan and backlog agree |
| re-embed (`enrich/reembed_batch`, `scan`) | batches, page cursor | scan, batch claim, embed, write, settle | pages over a changing table, partial batches | vectors match texts, nothing missed |
| memory store (`commands/remember`, `edit`, `forget`, ...) | memories, versions, FTS, vectors | remember, batch, edit, rename, forget, restore, purge, split | read-then-write across processes, soft deletion | history restores, index and vector follow the body |
| entities and relationships | entities, edges, bindings, degrees | link, unlink, merge, rename, delete, reclassify, prune, cleanup | ids resolved before the transaction, stored degrees | no dangling reference, degrees exact |
| ingest | plan, staged files, channel | stage, persist, enrich after | pool, bounded channel, early end | every file accounted for, nothing lost |
| embedder, fallback, chat API | cache, attempts, chain | fan-out, retry, degrade, grow, reason | replies in any order, bounded cache | vectors aligned, requests bounded |
| search (`recall`, `hybrid_search`, `related`, `deep_research`, `graph.rs`) | none | walk, fuse, cut, merge | several SELECTs while others write; merge order | shortest paths, no duplicates, nothing forgotten |
| agent surface, listings | none | gate, filter, sort, cut, annotate | budgets and counts that must tell what is missing | nothing is left out silently |
| start of the CLI (`main.rs`, `paths.rs`, `runtime_config`) | argv, config layers | gates, target, exit code | settings read one by one while the file changes | refusal leaves nothing behind |
| text splitting (`chunking.rs`) | none | pure | limits in bytes and tokens | lossless, pieces fit |
| locks, memory guard (`lock.rs`) | lock files | CLI slots, job singleton | waiting and timeouts | bounds hold |
| schema (`storage/connection.rs`, `migrate`, `init`) | schema history, tables, dimension | open, copy, migrate, repair | two first openers, death between statements | ready means complete |
| config, atomic writes, backup | files | temp, fsync, rename; stepwise copy | power loss, overlapping saves | old or new, never half |
| LLM slots (`llm_slots.rs`, `reaper.rs`, `commands/slots.rs`) | slot files with a pid | acquire, write pid, poll, drop, sweep, release | check-then-unlink, death before the pid | limit holds, slots come back |
| signals, retry, breaker | flag, counter | raise, record | at any step | run ends |

Components interact through the database (all), the sidecar (enrich,
`remember`, `forget`, `purge`, `delete-entity`, `rename`), the slot and lock
files (all), and calls inside a process: start, then admission, schema, the
command, provider, surface. `PROJECT.json` lists the components with their files
and status, and the hazards the properties are about at their lines; hazards
that only a refuted property could cover are described in section 7.

## 2. Modules

| Module | Models | Run by |
|---|---|---|
| `EnrichQueue` | the sidecar: every SQL statement an operator from table to table | `EnrichDrain` |
| `EnrichDrain` | runs, workers, faults, time, commands over the queue | `MCEnrichDrain` |
| `EnrichDrainProofs` | types and claims; uniqueness, isolation, verdicts and attempts of rows | |
| `LlmSlots` | slot semaphore | `MCLlmSlots` |
| `MemoryStore`, `MemoryStoreProofs` | commands that write memories, reads and transactions apart; proofs, with the refinement | `MCMemoryStore` |
| `MemoryMap` | what a user relies on: the abstract map of memories | through `MemoryStore` |
| `EntityGraph`, `EntityGraphProofs` | commands that write entities and relationships; proofs | `MCEntityGraph` |
| `CliProcess`, `SchemaDb`, `DataFiles`, `CliHost`, `CliHostProofs` | admission and locks; opening and migrating; config and copies; their composition; proofs | `MCCliHost` |
| `Ingest`, `IngestProofs` | plan, staging threads, channel, persistence; proofs | `MCIngest` |
| `ReEmbed`, `ReEmbedProofs` | paged scan, batch claim, vectors; proofs | `MCReEmbed` |
| `EnrichHandlers` | scans and handlers of the other operations | `MCEnrichHandlers` |
| `EnrichCallProofs` | proofs about the slots and the handlers | |
| `ProviderCalls` | fan-out, cache, retries, fallback chain, chat | `MCOneCommand` |
| `Retrieval` | walk, chains, fusion, cuts, merge of sub-queries | `MCOneCommand` |
| `AgentSurface` | shaping and annotating an answer | `MCOneCommand` |
| `CliStartup` | `main` from the flags to the exit code | `MCOneCommand` |
| `TextSplit` | `split_body_by_sections` | `MCOneCommand` |
| `Totals` | the sum of lengths, of `AgentSurface` and `TextSplit` | through both |
| `OneCommandProofs` | proofs about the start, the calls, the splitting and the surface | |

Each `MC` module holds the instance (sets, initial databases, symmetry) and its
`.cfg` the constants; `MCOneCommand` also has the variable `part`, which selects
one of five modules that pass values on and share no state.

### EnrichQueue and EnrichDrain

A table maps row ids to rows or to `NoRow`. `claimed_at` becomes null, fresh
or stale relative to `--stale-claim-secs`; `next_retry_at` becomes *cooling*;
`priority` becomes *hot*. Reporting columns are left out. Ids come from
AUTOINCREMENT; as claims compare ids only within one (file, namespace,
operation), a new id is the least unused one above its scope, which keeps the
id set finite without changing any claim. In the passing runs the id sets never
run out. A row also records the inode it lives in, since `finish` unlinks the
sidecar by path while other processes keep their connections. `path` is the
inode the path names; one without a name and a connection is collected.

A job goes through `StartJob` (the job singleton admits one per namespace),
`Prepare`, `Scan`, `Enqueue` (once per candidate), `SpawnDrain`, `Join` or
`JoinFailed`, and `Finish`; an until-empty job goes from `Join` back to `Scan`
until it converges or `--max-runtime` is over (`ScanTimeout`). A worker loops
through `Claim`, `BeatOnce`, `Call` and `WriteBack` until `StopWorker`. One
worker per job is the serial drain, two or more the parallel one; they differ in
the connection they use, in what a lost write-back means, in the breaker and in
the preemption for hot descriptions, and the model keeps these differences.
A call is one step with an outcome: done (persisted in the main database),
skipped, rate-limited, transient or hard; what it does inside is in
`EnrichHandlers`.

`Crash`, `Signal`, `ClaimBusy` and `WriteBackLost` are faults; `AgeClaim`,
`CoolDown`, `RunDeadline` and `ThrottleDeadline` are time. The commands
(`RequeueDeadCmd` ... `RememberMergeCmd`) do not take the job singleton and may
happen at any moment. `live` and `todo` stand for the main database: which
memories and entities exist, and which candidates a scan would find. A claim can be
taken from a worker at work: its call outlasts `--stale-claim-secs` (`AgeClaim`) and a
sweep hands the row out again, or a hot enqueue does. The history `taken` holds the
workers this happened to and those that claimed a row such a worker is still at;
`strays` counts the takings and the late write-backs.

### LlmSlots

`file[s]` is what slot path `s` names. `proc[p]` follows `acquire_llm_slot`:
`Acquire`, a sweep of `ReadSlot`, `CheckPid` and `RemoveStale` steps,
`SweepDone`, `TrySlot`, `WritePid`, then holding, `Poll` when all slots are
taken, `DropGuard`. A process also sweeps when it starts (`Start`, the reaper).
`Die` is any end without destructors: kill -9, a second signal, or a panic,
because the release profile aborts on panics. The flock on a slot file is never
contended, as only the creator of an inode locks it; it is left out.

### MemoryStore and MemoryMap

`db` holds the memory rows, their versions, FTS entries, vectors and the clock
of `updated_at` (seconds). A process is at one of the steps of its command; the
rows it read outside the transaction are in its record and may be stale when the
transaction uses them. One step is an autocommitted statement or one IMMEDIATE
transaction. `ImplementsMemoryMap` is the refinement: `INSTANCE MemoryMap WITH
store <- ...` maps a row to live or gone with its body, and a name without a
row to absent. Every step of the store is a write, forget, purge or rename of
the map, or several writes at once for a batch, or a stutter.

### EntityGraph

Entities with a name and a stored `degree`, relationships, bindings to memories
and provenance. A command's record holds the ids it resolved; the transaction
that follows may find them gone. Every writing command has a read step and a
commit step. `Legacy` names are spellings from before normalization. Relationships
are triples; `g.row` follows the row whose id `unlink` has read, which a merge may
give other ends and which the delete by id then takes.

### CliHost

`CliProcess` takes an invocation from launch through the CLI slots (`Poll`,
timeout) and the job singleton to its exit; both are flocks and end with the
process. `SchemaDb` is `ensure_db_ready`: each statement outside a transaction is
a step, migrations commit one by one, and the database may be missing, old,
registered without its tables, or current. `DataFiles` keeps volatile and durable
contents of `config.toml` apart; `PowerLoss` falls back to the durable ones.

### Ingest, ReEmbed, EnrichHandlers

In `Ingest` staging threads take files in any order, block on the channel, and
the main thread persists them as they come; another process writes meanwhile. In
`ReEmbed` a vector records the text and the row it was computed from, so that a
stale one is visible; the scan pages by key. In `EnrichHandlers` a worker's item
goes through read, answer and one step per statement, the two of the index update
(`TakeOut`, `PutIn`) included, and may stop between any two (`WriteFails`); text is
a set of tokens and the index has its own copy. A run takes a list of types and a
policy from the flags (`Rules`) and a minimal length for bodies; `Nearest` has its
three branches. Entity-connect cuts hubs and islands to their windows before it drops
the pairs that are judged.

### ProviderCalls, Retrieval, AgentSurface, CliStartup, TextSplit

In `ProviderCalls` the vector of a text is the text, so misplaced results show;
replies are success, transient, rate-limited, hard or truncated. `Retrieval` pops
one entity of the walk per step while edges change, keeps predecessors, and fuses
integer ranks under the weights of `--weight-vec` and `--weight-fts`, zero and negative
ones included; `WalkIsBreadthFirst` compares it with distances defined without
the walk. The sub-queries of deep-research are merged in any order they may end in: of
equal scores the first to end shows its source, snippet and hop, of the chains with the
same ends the first is kept, and each sub-query brings its heaviest chains only. `AgentSurface` works on sequences of rows with lengths in units.
`CliStartup` reads each setting when the code does, with rewrites of the file in
between. `TextSplit` is checked on all texts of up to seven characters.

## 3. Runs

| Run | Checks | Bounds | Result |
|---|---|---|---|
| `drain_faults` | `UniqueTriple` `AttemptBudget` `DoneIsFinal` `DeadNeedsOperator` | 2 threads, 1 key, 2 inodes, MaxAttempts 2, a crash, a lost write, a throttled call, a command or hot enqueue, slow calls up to 2 strays; fresh, resumed and until-empty force-redescribe runs | holds |
| `drain_commands` | `TypeOK` `ClaimExclusive` `WriteBackHitsItsClaim` `RunsAreIsolated` | parallel and serial fresh runs of two namespaces, 3 inodes, MaxAttempts 1, one command of any kind or hot enqueue, slow calls up to 1 stray | holds |
| `drain_live` | `BacklogConverges` `NoStrandedClaim` `SignalEndsRun` | serial, 2 keys, a crash, a signal, a command, hot enqueues, calls shorter than their claims; `--ignore-backoff` | holds |
| `slots` | `SlotTypeOK` `SlotLimitWhileAllLive` `DeadSlotRecovered` `AcquireReturns` | 3 processes, 1 slot, a death, an operator command | holds |
| `store` | `StoreSound` `WritesAreGuarded` `ImplementsMemoryMap` | 2 processes, 3 names, 2 bodies, 3 ids, 3 commands, 2 seconds, a crash | holds |
| `store_lock` | `RememberHonoursLock` | 2 processes | violated |
| `graph` | `ReferencesHold` `DegreeExact` `NothingDisconnected` | 2 processes, 4 commands, 3 entity ids, 2 relations | holds |
| `host` | `LocksHold` `ReadyIsComplete` `FilesWhole` `NothingOverwritten` | 2 invocations of 9 commands, 4 kinds of database, a signal, a death or power loss | holds |
| `ingest` | `IngestSound` `IngestEnds` | 3 files, 2 threads, channel of 1 (code: twice the parallelism), another writer | holds |
| `reembed` | `ReEmbedSound` `DoneIsEmbedded` `Backfilled` | 2 memories with chunks, 1 entity, 2 workers, page and batch smaller than the backlog | holds |
| `enrich_ops` | `OpsSound` `VocabularyKept` `ConnectConverges` | 2 workers, 2 calls, 1 command, 2 namespaces, 2 entities, windows of 1 hub and 1 island (code: 32, 500), lists of types with and without `concept` | holds |
| `one_command` | `CallsSound` `WalkSound` `AnswerSound` `SurfaceSound` `StartSound` `SplitSound` `CommandEnds` | 2 callers with a call each, a batch above the cache's ceiling, token budgets below and above theirs, 2 sub-queries with 2 chains each (code: 20), weights 1, 0, 2 and -1, 1 concurrent write, texts of 7 characters, one retry for truncation | holds |

The larger invariants are conjunctions of named parts, each with its own comment
in the module:

* `StoreSound`: `Restorable` (the body of a live memory is in its history),
  `BodySearchable`, `VectorOfBody`. `WritesAreGuarded`: `CreateNeverClobbers`,
  `LockedWriteWithinSecond`.
* `ReferencesHold`: `NoDanglingReference`, `NamesUnique`. `NothingDisconnected`:
  `MergeKeepsNeighbours`, `RelabelKeepsPairs`.
* `LocksHold`: `AdmissionBound`, `JobBound`. `FilesWhole`: `ConfigNeverTorn`,
  `AckedIsDurable`, `BackupIsSnapshot`. `NothingOverwritten`: `EdgesSurvive`,
  `UpgradeLeavesCopy`, `SaveKeepsOthers`.
* `IngestSound`: `EveryFileReported`, `FilesKeepApart`, `NoDuplicateBodies`,
  `NothingLost`. `ReEmbedSound`: `VectorFresh`, `ScanComplete`.
* `OpsSound`: `LiveTextSearchable`, `DescribedIsGrounded`, `BacklogAgrees`.
  `VocabularyKept`: `TypesAreKept`, `RetypedInVocabulary`.
* `CallsSound`: `VectorsAligned` (results of chunks land at their texts),
  `CacheBounded`, `RequestsBounded`, `HardMeansRefused`, `DegradedIsSaid`.
* `WalkSound`: `WalkIsBreadthFirst`, `PathsLeadToSeeds`, `ChainsAreReal`.
  `AnswerSound`: `NothingForgotten`, `NothingTwice`, `FusionKeepsOrder`,
  `NearestFirst`, `MergeIsOrderFree`.
* `SurfaceSound`: `CountsTell`, `NothingSilent`, `BudgetKept`, `LeastStay`,
  `OfTheWholeTable`. `StartSound`: `StoresWhereNamed`, `InheritsTheActive`,
  `RefusedStoresNothing`, `ExitTells`, `NoKeyNoWork`. `SplitSound`: `Lossless`,
  `PiecesFit`, `NoNeedlessCut`. `CommandEnds`: `CallsEnd`, `SearchesEnd`.

Why the bounds are enough. An argument about a claim needs the claiming worker,
a rival, and one step that frees the row; three inodes are what two jobs can hold plus
a new one. A verdict is undone by a claim that is taken, the claim of a second worker,
its verdict, and the write-back of the first: two strays and one key. Three processes at one slot are a sweeper, the process
it judges and the one that takes the slot in between. In the store and the graph
a lost update needs two commands of which one is between its reads and its
transaction, and a third (fourth) that makes the state they start from. A page or
a batch goes wrong at its edge, so one row more than fits is enough; a channel
of one place blocks with the second file. Cuts and budgets of the surface go
wrong at zero, at the limit and one beyond it.

Deadlock is checked in the drain, slots and reembed runs: `enrich` can always be
invoked again. The others have commands that come to an end after a bounded
number, and their configurations say so.

Each property of a passing run has a mutant in `PROJECT.json`: a plausible bug in
one definition under which TLC finds the property violated. The mutated forms
stand in front of the definitions they would replace.

### What the violation shows

`store_lock`: `remember --force-merge --expected-updated-at` calls
`memories::update`, which returns false when the row has moved on, and ignores
the answer (`remember/run.rs:395`): a version, an index entry and a vector of a
body that is not stored are written, and the answer says updated.
`remember/args.rs:135-140` promises a rejection.

## 4. Fairness

`FairSpec` of `EnrichDrain` gives weak fairness to every step of a job and of a
worker (processes and threads run, and HTTP clients time out, so calls return),
to the clocks (claims age, backoffs and deadlines pass), and to starting a job:
`enrich` is invoked again and again, by a scheduler or an agent loop. Without that
nothing in the code would pick up a claim left by a crash. Signals, crashes, lost
writes and commands have no fairness. `SignalEndsRun` rests on `RunDeadline`:
after a signal an until-empty run whose workers left eligible rows spins until
`--max-runtime` (3600 s by default).

`SlotFairSpec` is weak fairness of every process step, which includes ending the
call, and of the acquisition timeout. `Ingest` has weak fairness of its threads.
`ReEmbed` has weak fairness of a run's and a worker's steps and strong fairness of
starting a fresh run (without `--resume`): it is invoked again and again whenever
no other run is on. `EnrichHandlers` has weak fairness of reads and
writes, strong fairness of an answer that is usable (the provider does not fail
for ever) and of claiming each pair. `MCOneCommand` has weak fairness of each
caller's steps and of the search.

## 5. Proofs

Every theorem holds for all values of the constants that satisfy the modules'
named assumptions: any number of jobs, threads, processes, rows, names and files,
any bounds. Each argument has the shape `Init => I`, `I /\ [Next]_vars => I'`,
`I => Inv`, with a lemma for each action, and each `I` was first checked by TLC as
an invariant of the run in section 3.

| Module | Theorem | Property |
|---|---|---|
| `EnrichDrainProofs` | `TypeCorrect` | `TypeOK` |
| | `ClaimSafety` | `ClaimExclusive` |
| | `WriteBackSafety` | `WriteBackHitsItsClaim` |
| | `TriplesStayUnique` | `UniqueTriple` |
| | `Isolation` | `RunsAreIsolated` |
| | `DoneStays` | `DoneIsFinal` |
| | `DeadStays` | `DeadNeedsOperator` |
| | `AttemptsAreBounded` | `AttemptBudget` |
| `EnrichCallProofs` | `SlotTypeCorrect` | `SlotTypeOK` |
| | `SlotLimitHolds` | `SlotLimitWhileAllLive` |
| | `OpsAreSound` | `OpsSound` |
| | `VocabularyIsKept` | `VocabularyKept` |
| `MemoryStoreProofs` | `StoreIsSound` | `StoreSound` |
| | `GuardedWrites` | `WritesAreGuarded` |
| | `StoreImplementsMap` | `ImplementsMemoryMap` |
| `EntityGraphProofs` | `ReferencesStayGood` | `ReferencesHold` |
| | `DegreesStayExact` | `DegreeExact` |
| | `NothingIsDisconnected` | `NothingDisconnected` |
| `CliHostProofs` | `LocksAreSound` | `LocksHold` |
| | `SchemaIsReady` | `ReadyIsComplete` |
| | `FilesStayWhole` | `FilesWhole` |
| | `NothingIsOverwritten` | `NothingOverwritten` |
| `IngestProofs` | `PlanApart` | names of a plan differ |
| | `IngestIsSound` | `IngestSound` |
| `ReEmbedProofs` | `ReEmbedIsSound` | `ReEmbedSound` |
| | `DoneMeansEmbedded` | `DoneIsEmbedded` |
| `OneCommandProofs` | `StartIsSound` | `StartSound` |
| | `CallsAreSound` | `CallsSound` |
| | `SplitIsSound` | `SplitSound` |
| | `SurfaceIsSound` | `SurfaceSound` |

No theorem has a hypothesis. A call may outlast `--stale-claim-secs` (1800 s by default:
the one heartbeat precedes the call, and a call retries, grows and falls back for as long
as that takes), and `remember --enqueue-enrich` puts rows in `processing` back. What
these two lead to is said in the properties, by the histories `taken` and `strays`, and
in section 7.

### The queue

* `TypeOK /\ HoldInv`. `HoldInv` (a worker holds a row only while its job drains,
  and the row id is an id) is needed because a write-back updates the job's tally,
  which has to be a running job's record.
* `ClaimInv`. Neither `ClaimExclusive` nor `WriteBackHitsItsClaim` is inductive: a
  resume or a shutdown of another run might free a held row. It adds that live jobs
  have different namespaces and that a held row belongs to the namespace and operation
  of its worker's job, so that resume and shutdown only reach rows of a job whose
  workers hold none. What else hands a held row back is a sweep or a hot enqueue, and
  both put the holders into `taken` (`HandedBack`). A row that a worker outside `taken`
  holds therefore stays in `processing` as it was claimed, and no claim chooses it.
* `UniqueTriple` is inductive with the types: every enqueue is an INSERT OR IGNORE
  or an upsert on the triple, and a new sidecar starts empty.
* `ScopeInv`, the part of `ClaimInv` about namespaces, holds of taken claims too: a row
  that a worker holds, if it still exists, is of its job's namespace and operation.
  Ids of a scope are not given out again, so even a late write-back of a taken claim
  hits its own row or none, and the rows of other runs are safe from it (`Isolation`).
* `BudgetInv`. `AttemptBudget` alone says nothing of the claim that comes next. A
  pending row has an attempt left; one in `processing` too, unless a worker is about
  to judge it; whatever takes that worker or its claim away (a crash, a lost write, a
  throttled call, a sweep or hot enqueue), and a late write-back that may put a judged
  row back, is counted in `Spent`.
* `DoneStays` and `DeadStays` follow from `ClaimInv`: the write-back of a worker outside
  `taken` lands on a row it has in `processing`, so none but those of taken claims
  reaches a settled row.

### The slots

`SlotLimitHolds` rests on `OwnSlotInv`: until somebody ended, the file of a guard's
slot is its own and no sweep has collected anything; the holders then inject into
the slots, and the cardinality follows.

### The handlers

`HandlerInv`. Handlers at work share the operation and have different items, so at most
one of them is about memories (`Apart`). `HalfOk` says what that one relies on between
its statements, unless another writer came between, which `lost` records: the rest of
the index update it owes brings in the text that is there. A memory leaves `lost` only
when all its text is in the index again and nobody has it half written. A handler that is to write a description has a row whose evidence was
found sufficient before the call. Ids and triples of relationships stay unique because
the insert is an upsert on the triple, which is what lets a backlog be counted.
`VocabularyIsKept` is a fact of each step from there: only the answer of
`entity-type-validate` replaces a type that somebody chose, and its policy decides
whether by one of the vocabulary; with fallback that is `Nearest`, whose three branches
all stay within the list.

### The start, the provider calls, the splitting, the surface

`StartInv` follows `main` step by step: what the flags, the configuration and the steps
before have determined (`StartTypes`, `StartFlow`), that a command works on the
database it was told to or inherits (`WorksWhereNamed`), and that without a key for its
provider `main` never comes to the work (`Keyless`).

`CallInv` has one part for each thing that the threads share. A chunk that came back
holds the vectors of its own texts, and none is collected twice; at most `FanOut` are
in flight. Requests are counted per backend of the chain (`Spent`) and per token budget
of a chat (`Rounds`), which bounds them; a failure counts as hard only after a refusal.
Room is made for a whole batch before it is inserted, which keeps the cache at its
ceiling; a batch above the ceiling clears the cache and is then all there is in it. Chunks may come back in any order: sorted by index (`SortedAtKey`) they are
all chunks in order, and their concatenation aligns with the texts (`FlattenChunks`).
What the recursive functions behind this compute is shown by induction on the length
(`UpTo`), with a least counterexample in the place of an induction rule.

`SplitIsSound` is about one function, and `TextInv` says no more than that the parts are
its value; the work is what `Sections` and `Packed` compute. `Cut` describes the
sections of the first `i` characters, `Packs` the parts after `k` sections: put together
they are what was read so far, none is empty, and each part but the first begins with a
section that did not fit into the part before. If everything fits there is one part,
which is why `HardSlice` leaves a part alone whose bytes fit and only its tokens do not.
`SameFirst` (a text has one first section) relates the sections of a part to those of
the body, and `Density` turns the byte limit into the token limit.

`SurfaceInv` follows an answer to its end: until it is shaped its rows are the page of
the table (`SurfaceFlow`), unless somebody forgot one, and before the last step the
annotation already tells what the shaping left out (`Annotated`). The filter, the sort
and the dedupe are one idea, rows at some positions in an order, and `Places` says that
as many are before the k-th of them as its place tells; so a sort sorts, and what a
limit or the budget leaves is a beginning of it (`Leads`). `RoomForMarks` is the
arithmetic of the budget: the widths of the marks grow with what they count, so the
room set aside for the most that can be dropped is enough for what is.

### The store

`StoreInv` says of the tables that no two rows have one name, that ids from `next`
on are unused, and of every row, forgotten ones included since `restore` makes them
live again, what `StoreSound` says of live ones. Of a process it says what its reads before the transaction still mean: the
id it carries was in use, and if that row has no history by now its body is still
the one that was read. A rename or a split writes the first version from that
body, which is why it is needed.

`StoreImplementsMap` compares the two tables of a step name by name: a lemma for
each statement says which names it may change and how (write, forget, purge,
rename), and a batch is a sequence of writes by induction on its length. That names
are distinct is what makes the map of a table a function.

### The graph

`GraphInv`: references hold, names are distinct, ids from the next one on are unused
and the edges are finitely many (`Sound`); degrees are exact outside `drift`, the
history variable that collects the entities of commands which do not recalculate;
a command's record holds ids and normalized names. The work is in
counting: each command's edges are a union or a difference, and the degree it adds
or recalculates is the cardinality of what is incident afterwards. `MergeConnects`
and its sibling relate the edges of both sides of a step.

### The host

`HostInv` is a conjunction over single processes (`ProcOk`) and three global facts:
slots and locks held are apart, no more inodes are kept open without a name
than `--force-job-singleton` has unlinked, and the saves under way are bounded.
`SchemaOk` says how far the schema is at each step of `ensure_db_ready`; it survives
other processes because migrations only go up. `FilesOk` says what a save or
a copy under way holds: a save whose base is still the present version
differs from it in its own key only.

### Ingest

`PlanApart`: `Plan` is a recursive function over the files; a file that got the
name of an earlier one would be a least counterexample, and the names taken before it
exclude it. `IngestInv` then follows a file: it is in one place (to do, with one
thread, in the channel, with the main thread) with nothing reported of it, or it is
settled (`Staging`, `Accounted`); the parts left of the file being persisted are the
rest of its plan (`Persisting`); what the lookup found still holds at the write
unless another writer came between (`LookedUp`); and each result says what the
database holds (`Outcomes`, `OwnNames`, `BodiesApart`).

### Re-embed

`IInv` has a part for each hazard. `ChunksApart`: a memory has one chunk and
AUTOINCREMENT is ahead of all chunk ids, so a chunk that `remember --force-merge`
replaces is never taken for its successor. `Fresh` is `VectorFresh`. `ScanOk`: a key
in `stable` lacks a vector, and once the cursor has passed it, it has a queue row.
A page that is not full therefore ends the kind, and a full one passes no key without
a row: `FirstFacts`, about the first `n` elements of a finite set. `Threads`: what
`resolve_key` answered still holds of its row unless a command wrote the row meanwhile
(`AnswerOk`); for a chunk this covers the chunks that its memory had. `WrittenOk`
carries that through a transaction by induction on its steps, and `WriteKeeps` through
every command. Workers are idle outside a drain. `DoneMeansEmbedded` is then a fact of
the one action that can settle a row, `Settle`.

### Assumptions

The assumptions on the constants are the named ASSUMEs, evaluated in every run. The
proofs need, beyond the types: that there is a thread to stage files, parts of one
name are numbered apart and every part has a name, and what the database holds before a run was not written by it (`Ingest`); that there is
a name and an id at all (`EntityGraph`); finitely many processes (`CliProcess`);
memory ids 1 to n whose first chunk ids fit `MaxChunk`, finitely many entities, a text
that is not empty and an embedding dimension (`ReEmbed`); a
dimension other than 0 (`SchemaDb`); that a list of types has a first entry and what resembles a label is
from the list, and that the descriptions an entity starts with are grounded
(`EnrichHandlers`); that a body is a sequence of characters that fit each
(`TextSplit`); that numbers have a base of two or more (`AgentSurface`); and that torn bytes are not a map of settings
(`DataFiles`). They are facts of the code or of the operating system, except for two
choices of the model: ids are small numbers (`ReEmbed`), and what is there before the
first step counts as grounded, or as not of this run (`EnrichHandlers`, `Ingest`), since
the properties are about what the program writes.

### What stays with TLC

* Liveness, since the prover handles neither fairness nor ENABLED:
  `BacklogConverges`, `NoStrandedClaim`, `SignalEndsRun`, `DeadSlotRecovered`,
  `AcquireReturns`, `IngestEnds`, `Backfilled`, `ConnectConverges`, `CommandEnds`.
* `RememberHonoursLock`, which is false.
* `WalkSound` and `AnswerSound` of `Retrieval`. They say what a search is for every
  graph and ranking: that a walk is breadth first, and that its answer is the fusion of
  all lists and has the same memories, scores and ends of chains in whatever order the
  sub-queries end. The definitions they are about sort
  and fold sequences with operators (`SetToSortSeq`, folds with a LAMBDA) that the
  provers do not look into.

## 6. Abstractions and what is not modelled

* `EnrichDrain`: `--force-job-singleton` (it is in `CliProcess`), `--dry-run`,
  provider selection and preflight checks. A page is enqueued in one transaction
  in the code and key by key in the model, which allows more interleavings.
  `prune_dead_orphans` selects and deletes in one step. The branches of
  `validate_claim` that contradict the claim's own WHERE clause are unreachable
  and left out, as is status `failed`, which no statement writes any more.
  `retry.disable` is the case of a rate-limit deadline that has already passed.
  `--yield-every-n-items` is 1. `--max-cost-usd` lets a worker stop at any loop
  head; costs are not counted.
* `LlmSlots`: one guard per process, one maximum for all. A pid that may not be
  signalled counts as dead, as in the code; on other systems than Unix every pid
  counts as alive, and nothing is swept.
* `MemoryStore`: one namespace; the description travels with the body; chunks and
  metadata are left out. `EntityGraph`: types, descriptions and weights are left
  out. `Ingest`: globbing, frontmatter, the graph of a file.
* `EnrichHandlers`: prompts, JSON parsing and weights; a user's UPDATE and its
  index sync are one step, as they are in one transaction; `--limit` of the pair scan
  (pairs are taken one at a time from all that it could offer). `Retrieval`: floating-point ties and query
  rewriting; `Collect` reads all entities of a walk in one snapshot where the code runs a
  SELECT for each, and `Before` orders what it finds.
  `AgentSurface`: NDJSON streams, suggestions, `target.rs`; an answer of `--count-only` has
  no rows left to cut, and its passage through `finalize` is skipped. `TextSplit`: token
  chunking for embedding works on the tokenizer's offsets.
* Not modelled at all: `pending_embeddings` (its insert has no caller), graph
  export, health, stats, history and read (one snapshot in, wording out), FTS
  rebuild and optimize (single statements), argument parsing, i18n, JSON layout
  and schemas, HTTP bytes, key storage.

## 7. Further divergences met while modelling

These have no run of their own. For the first five, the formula given as a
PROPERTY is refuted within seconds.

* `enrich/run/finalize.rs:129-130`: "cleanup_queue_entry clears a row when its
  memory is edited/forgotten". `edit.rs` never calls it:
  `EditCmd(ns, k) => ~\E i : Present(queue', i) /\ queue'[i].key = k /\ queue'[i].status = "skipped"`.
* `enrich/run/mod.rs:197`: preempted "to let HOT entity-descriptions run". The loop
  tail ignores the flag and the run keeps the singleton:
  `Join(j) /\ jobs[j].preempted => jobs'[j].pc = "finish"`.
* `enrich/budget.rs:23-24`: the deadline "covers the **first** scan".
  `run/mod.rs:112` scans without one: `Scan(j) => ~jobs[j].late`.
* `enrich/queue.rs:524`: the cascade removes "a memory's enrich-queue entry". The
  DELETE at line 540 has no namespace: `ForgetCmd(ns, k) =>` rows of other
  namespaces are unchanged.
* `enrich/queue_ops.rs:402-403`: not refunding keeps a throttled item from retrying
  "past `--max-attempts`". `requeue_rate_limited` looks at no limit;
  `AttemptBudget` has a term for throttled calls because of it.
* Removing the sidecar (`finalize.rs:138-139`) takes the attempt counts of cooling
  rows with it, which `queue_ops.rs:95-96` counts on, and the unfinished rows of
  other namespaces, against `finalize.rs:48-49`. `drain_live` therefore uses
  `--ignore-backoff`.
* A claim protects its row for `--stale-claim-secs` and not for as long as its call
  takes: `heartbeat` runs once, before the call (`drain_serial.rs:242`,
  `drain_parallel.rs:267`), although `queue_claim_tests.rs:186` has it keep "a slow LLM
  call" from being swept. After a sweep or a hot enqueue a second worker pays for the
  same item, and the later write-back wins, since it checks neither status nor attempt
  (`queue_ops.rs:357`): it may put a done row back to pending, dead-letter it, or make a
  dead one done. Properties and theorems about the drain leave room for exactly this.
* A hot enqueue (`queue.rs:370`) resets rows in `processing` although line 367
  speaks of pending ones; its insert (`queue.rs:362`) uses namespace `''`, which no
  claim asks for (`queue.rs:209`).
* The slot limit (`llm_slots.rs:88` against `lib.rs:234-236`): a sweeper reads a
  pid; that process drops its slot and exits; a new one takes the slot; the sweeper
  finds the old pid dead and unlinks the path; a third enters. A slot whose owner
  died before writing its pid is never stale (`llm_slots.rs:188` against `:33-34`).
* `unlink --relation` reads a row id and deletes it in a transaction of its own
  (`unlink.rs:203-213`): after a merge in between it deletes the relationship of
  other entities, says `deleted`, and leaves their degrees wrong. `drift` has them.
* `cleanup_orphans.rs:83,113` deletes an entity that was linked after its SELECT,
  against `README.md:481`. `sync_safe_copy.rs:80-83` copies a live file, against
  `README.md:431`.
* `split_into_chunks` may not advance (`chunking.rs:91` against `:46-47`; only
  benches and tests call it); dense ASCII below 80 KiB can exceed the token ceiling
  that `chunking.rs:397-399` assumes.
* Store: a failed force-merge leaves the forgotten memory restored
  (`remember/run.rs:208-217`); an empty-body force-merge writes an earlier body
  again (266-275); a rename onto a forgotten name always fails; forget removes the
  vector outside the soft delete; a batch transaction keeps the partial writes of
  failed lines. Optimistic locks are good to one second (`COOKBOOK.md:2162`), which
  is what `LockedWriteWithinSecond` states.
* Host: overlapping config saves lose one of two different keys
  (`SaveKeepsOthers` is about saves that do not overlap); of two first openers one
  fails on the history row; `migrate` and `init` take no copy first.
* Start: `--use-active` with an unreadable `config.toml` works on the default
  database (`paths.rs:177-184`); `ingest --enrich-after` resolves the database
  twice, and its failure exits 0; exit code 1 does not tell permanent from
  transient, nor 4 a missing entity from one not yet there.
* Re-embed: it may overwrite the fresh vector of a concurrent edit; a changed
  entity description leaves the old vector; a failed batch charges settled rows;
  a filtered scan ends early (`scan/memories.rs:285-301` against
  `scan/sql.rs:107-123`).
* Ingest: a part's name can collide with a file's; an update of a forgotten row is
  reported as indexed (`persist.rs:174`); a missing embedding leaves the old vector
  (`persist.rs:200`); a shutdown leaves files without an entry.
* Handlers: five look a memory up by name without its namespace; entity-connect
  and deep-research-synth insert edges without updating the degree; body-enrich and
  body-extract overwrite an edit made during the call. The UPDATE of a memory and the
  two statements of its index update are committed one by one (`postprocess.rs:353-364`,
  `extraction_descriptions.rs:480-486`, `extraction_body.rs:443-457`): after a busy
  database or a death between them, or another writer's, the text is not found until the
  memory is written again, and body-enrich may have recorded a version that was never
  stored. `LiveTextSearchable` leaves these memories out until then.
* `enrich --status` counts short bodies by 500 characters whatever `--min-output-chars`
  says (`quality_sample.rs:370` against `scan/mod.rs:95`); `BacklogAgrees` is stated for
  the default.
* Entity-connect leaves the degree of what it connects alone, so judged islands keep
  their place among the 500 (`scan_ec.rs:152-158`): those behind are never offered, and
  the `scan_backlog` of islands that `--status` reports does not go down, although a run
  converges, as `docs/TEST_PLAN.md:191` says, since `eligible_remaining` counts the queue
  (`run/mod.rs:305-316`). `ConnectConverges` says only that the pairs offered
  run out. A verdict that cannot be recorded is ignored (`extraction_graph.rs:282,300`).
* Provider: a transient failure of a query becomes a permanent exit
  (`fallback.rs:227-283` against `query_embedding.rs:70-80`); `grow_max_tokens`
  shrinks a value above its ceiling; one batch above the cache's ceiling exceeds it.
  `CallsTypeOK` and `CacheBounded` allow for both.
* Deep-research: what it shows of equally scored hits, the order of `sub_query_ids` and
  which of two chains with the same ends it reports depend on which sub-query ends first
  (`mod.rs:257-279,330-341`). `retain(depth >= 2)` counts entities, so it discards no
  "single-hop" chain (`mod.rs:343-344`). hybrid-search takes any `--weight-vec` and
  `--weight-fts` (`fusion.rs:49-61`): with 0 candidates tie in any order, with a negative
  one the order turns round; `FusionKeepsOrder` is for positive ones.
* Search: `recall.rs:313-325`, `graph_expansion.rs:40-52` and `pipeline.rs:479-493`
  pass entity ids where memory ids are read; the cap cuts by rowid, not by hop; the
  timeout of deep-research never fires; `--all-namespaces` walks only `global`.
* Surface: `--max-items` raises no `truncated`, and a bare array has no place for
  it; a list counts the table in a second read.
