-------------------------------- MODULE ReEmbed --------------------------------
(***************************************************************************)
(* `enrich --operation re-embed`: a paged scan finds memories, entities    *)
(* and chunks without a vector of the active dimension, workers claim      *)
(* several keys at once, read their texts, ask the embedding service for   *)
(* all of them in one call and write the vectors in one transaction.       *)
(* Other commands rewrite, describe and forget the same rows meanwhile.    *)
(*                                                                         *)
(* A vector is the text it was computed from, the row that text was read   *)
(* from and its dimension.  A chunked memory has one chunk (chunk_idx 0).  *)
(***************************************************************************)
EXTENDS Integers, FiniteSets, SequencesExt

CONSTANTS
  Mems, Ents,       \* ids of memories and of entities
  Texts, Empty,     \* texts; the empty one
  Dims,             \* embedding dimensions
  Workers,          \* threads of a run
  PageSize,         \* scan_page_size
  BatchSize,        \* enrich.reembed_claim_batch
  MaxAttempts,      \* --max-attempts
  MaxChunk, MaxWrites, MaxFailures   \* bounds

ASSUME ReEmbedConstants ==
  /\ \E n \in 0..MaxChunk : Mems = 1..n
  /\ Ents \subseteq Nat \ {0} /\ IsFiniteSet(Ents)
  /\ Empty \in Texts /\ Texts # {Empty} /\ Dims # {}
  /\ {PageSize, BatchSize, MaxAttempts} \subseteq Nat \ {0}
  /\ {MaxChunk, MaxWrites, MaxFailures} \subseteq Nat

VARIABLES
  db,        \* mem, ent, chunk, vec, next (AUTOINCREMENT of memory_chunks)
  dim,       \* embedding_dim() of the processes
  queue,     \* the sidecar's ReEmbed rows, in the order of their ids
  job,       \* the run: phase and the keyset cursor
  worker,
  stable,    \* history: keys the scan must deliver
  touched,   \* history: keys written to while claimed, or without a new vector
  misplaced, \* history: chunks that got the vector of a chunk that was gone
  events     \* history: writes and failures so far

vars == <<db, dim, queue, job, worker, stable, touched, misplaced, events>>

Kinds  == <<"mem", "ent", "chunk">>
Chunks == 1..MaxChunk
IdsOf(kind) == CASE kind = "mem" -> Mems [] kind = "ent" -> Ents [] kind = "chunk" -> Chunks
Keys   == {<<kind, i>> : kind \in {"mem"}, i \in Mems} \cup {<<kind, i>> : kind \in {"ent"}, i \in Ents}
            \cup {<<kind, i>> : kind \in {"chunk"}, i \in Chunks}

NoRow  == [text |-> "none"]
NoVec  == [text |-> "no vector"]
Vec    == [of: Keys, text: Texts, dim: Dims]
Status == {"pending", "processing", "done", "skipped", "dead"}
Idle   == [pc |-> "idle", claim |-> << >>, text |-> << >>]

\* Texts, vectors, queue and workers of the re-embed cycle are of their kinds, and ids of
\* chunks stay in their range.
ReEmbedTypeOK ==
  /\ db.mem \in [Mems -> [text: Texts, live: BOOLEAN]] /\ db.ent \in [Ents -> Texts]
  /\ db.chunk \in [Chunks -> [text: Texts, mem: Mems] \cup {NoRow}]
  /\ db.vec \in [Keys -> Vec \cup {NoVec}] /\ db.next \in 1..(MaxChunk + 1)
  /\ dim \in Dims
  /\ queue \in Seq([key: Keys, status: Status, attempt: Nat])
  /\ job.pc \in {"idle", "scan", "drain"} /\ job.kind \in 1..4
  /\ \A w \in Workers : /\ worker[w].pc \in {"idle", "claimed", "embed", "settle", "end"}
                        /\ worker[w].claim \in Seq(Nat) /\ Len(worker[w].claim) <= BatchSize
                        /\ Len(worker[w].text) \in {0, Len(worker[w].claim)}

\* A finite set of numbers in increasing order.
Sorted(S) == [i \in 1..Cardinality(S) |-> CHOOSE x \in S : Cardinality({y \in S : y <= x}) = i]

----------------------------------------------------------------------------
(* Rows and vectors. *)

\* resolve_memory, resolve_entity and resolve_chunk: no row, no text.
Found(d, k) ==
  CASE k[1] = "mem"   -> d.mem[k[2]].live
    [] k[1] = "ent"   -> TRUE
    [] k[1] = "chunk" -> d.chunk[k[2]] # NoRow /\ d.mem[d.chunk[k[2]].mem].live
TextOf(d, k) ==
  CASE k[1] = "mem"   -> d.mem[k[2]].text
    [] k[1] = "ent"   -> d.ent[k[2]]
    [] k[1] = "chunk" -> d.chunk[k[2]].text

\* memory_has_live_embedding and its siblings, judged by the length of the BLOB.
HasLiveEmbedding(d, k) == d.vec[k] # NoVec /\ d.vec[k].dim = dim

\* Mutant: the predicate takes any vector, of whatever dimension.
MissingAny(d, k) ==
  /\ d.vec[k] = NoVec
  /\ k[1] = "mem" => d.mem[k[2]].live
  /\ k[1] = "chunk" => d.chunk[k[2]] # NoRow
\* The scan predicates: a memory must be live, a chunk need only exist.
Missing(d, k) ==
  /\ ~HasLiveEmbedding(d, k)
  /\ k[1] = "mem" => d.mem[k[2]].live
  /\ k[1] = "chunk" => d.chunk[k[2]] # NoRow

UpsertVec(d, k, of, t) == [d EXCEPT !.vec[k] = [of |-> of, text |-> t, dim |-> dim]]

\* upsert_chunk_vec looks the chunk up by memory and index.  Without one the key
\* is NULL and SQLite takes the next free row id of chunk_embeddings.
ChunkOf(d, m) == {i \in Chunks : d.chunk[i] # NoRow /\ d.chunk[i].mem = m}
NextVecRow(d) == 1 + Max({0} \cup {i \in Chunks : d.vec[<<"chunk", i>>] # NoVec})

\* Where write_vector puts the vector of k; m is the memory of a chunk when it was read.
TargetsOf(d, k, m) ==
  IF k[1] # "chunk" THEN {k}
  ELSE {<<"chunk", i>> : i \in IF ChunkOf(d, m) # {} THEN ChunkOf(d, m) ELSE {NextVecRow(d)}}
\* The foreign key of the vector's row.
RowExists(d, k) == k \in Keys /\ (k[1] = "chunk" => d.chunk[k[2]] # NoRow)

----------------------------------------------------------------------------
(* The run: preparation, the scan page by page, the workers' loop. *)

Init ==
  /\ db = [mem   |-> [i \in Mems |-> [text |-> CHOOSE t \in Texts : t # Empty, live |-> TRUE]],
           ent   |-> [e \in Ents |-> CHOOSE t \in Texts : t # Empty],
           chunk |-> [i \in Chunks |-> IF i \in Mems
                        THEN [text |-> CHOOSE t \in Texts : t # Empty, mem |-> i] ELSE NoRow],
           vec   |-> [k \in Keys |-> NoVec],
           next  |-> 1 + Cardinality(Mems)]
  /\ dim = CHOOSE d \in Dims : TRUE
  /\ queue = << >>
  /\ job = [pc |-> "idle", kind |-> 1, after |-> 0]
  /\ worker = [w \in Workers |-> Idle]
  /\ stable = {} /\ touched = {} /\ misplaced = {}
  /\ events = [writes |-> 0, failures |-> 0]

\* prepare_queue: a fresh run deletes its rows; --resume hands orphaned claims
\* back.  Both then settle pending keys that have a vector by now.
Resumed(q) ==
  [i \in DOMAIN q |->
     IF q[i].status \notin {"pending", "processing"} THEN q[i]
     ELSE [q[i] EXCEPT !.status = IF HasLiveEmbedding(db, q[i].key) THEN "done" ELSE "pending"]]

StartRun(resume) ==
  /\ job.pc = "idle"
  /\ queue' = IF resume THEN Resumed(queue) ELSE << >>
  /\ job' = [pc |-> "scan", kind |-> 1, after |-> 0]
  /\ stable' = {k \in Keys : Missing(db, k)}
  /\ UNCHANGED <<db, dim, worker, touched, misplaced, events>>

\* Mutant: the cursor advances by the page size, not to the last id delivered.
PageByOffset(kind, after) ==
  LET hits == {i \in IdsOf(kind) : Missing(db, <<kind, i>>)}
  IN  {i \in hits : Cardinality({j \in hits : j < i}) \in after..(after + PageSize - 1)}
\* One SELECT ... WHERE id > after ORDER BY id LIMIT page_size.
Page(kind, after) ==
  LET hits == {i \in IdsOf(kind) : i > after /\ Missing(db, <<kind, i>>)}
  IN  {i \in hits : Cardinality({j \in hits : j < i}) < PageSize}

InQueue(k) == \E i \in DOMAIN queue : queue[i].key = k
\* enqueue_candidate: INSERT OR IGNORE, in id order.
Enqueued(kind, page) ==
  LET new == Sorted({x \in page : ~InQueue(<<kind, x>>)})
  IN  queue \o [i \in DOMAIN new |-> [key |-> <<kind, new[i]>>, status |-> "pending", attempt |-> 0]]

\* keyset_for_each: a short page is the last one of its kind.
ScanPage ==
  /\ job.pc = "scan" /\ job.kind <= 3
  /\ LET kind == Kinds[job.kind]
         page == Page(kind, job.after)
     IN  /\ queue' = Enqueued(kind, page)
         /\ job' = IF Cardinality(page) < PageSize THEN [job EXCEPT !.kind = @ + 1, !.after = 0]
                   ELSE [job EXCEPT !.after = Max(page)]
  /\ UNCHANGED <<db, dim, worker, stable, touched, misplaced, events>>

StartDrain ==
  /\ job.pc = "scan" /\ job.kind = 4
  /\ job' = [job EXCEPT !.pc = "drain"]
  /\ stable' = {}
  /\ UNCHANGED <<db, dim, queue, worker, touched, misplaced, events>>

EndRun ==
  /\ job.pc = "drain" /\ \A w \in Workers : worker[w].pc = "end"
  /\ job' = [pc |-> "idle", kind |-> 1, after |-> 0]
  /\ worker' = [w \in Workers |-> Idle]
  /\ UNCHANGED <<db, dim, queue, stable, touched, misplaced, events>>

----------------------------------------------------------------------------
(* run_reembed_cycle. *)

Put(w, r) == worker' = [worker EXCEPT ![w] = r]
Pending == {i \in DOMAIN queue : queue[i].status = "pending"}

\* dequeue_batch_pending: one UPDATE claims up to BatchSize rows, an attempt each.
DequeueBatch(w) ==
  LET batch == {i \in Pending : Cardinality({j \in Pending : j < i}) < BatchSize}
  IN  /\ worker[w].pc = "idle" /\ job.pc = "drain" /\ batch # {}
      /\ queue' = [i \in DOMAIN queue |-> IF i \in batch
                     THEN [queue[i] EXCEPT !.status = "processing", !.attempt = @ + 1] ELSE queue[i]]
      /\ Put(w, [pc |-> "claimed", text |-> << >>, claim |-> Sorted(batch)])
      /\ UNCHANGED <<db, dim, job, stable, touched, misplaced, events>>

\* Nothing is pending, or the claim stayed busy: the worker leaves its loop.
WorkerEnds(w) ==
  /\ worker[w].pc = "idle" /\ job.pc = "drain" /\ Pending = {}
  /\ Put(w, [Idle EXCEPT !.pc = "end"])
  /\ UNCHANGED <<db, dim, queue, job, stable, touched, misplaced, events>>

\* The keys of a claim, in claim order.
KeysOf(w) == [i \in DOMAIN worker[w].claim |-> queue[worker[w].claim[i]].key]

\* Mutant: a vector of another dimension settles the key.
ResolveAny(d, k) ==
  CASE ~Found(d, k)            -> [out |-> "skipped"]
    [] d.vec[k] # NoVec        -> [out |-> "done"]
    [] TextOf(d, k) = Empty    -> [out |-> "skipped"]
    [] OTHER -> [out |-> "embed", text |-> TextOf(d, k),
                 mem |-> IF k[1] = "chunk" THEN d.chunk[k[2]].mem ELSE 0]
\* resolve_key, key by key: a key without a row, with a vector or without a text
\* is settled; the others carry their text, and a chunk its memory.
Resolve(d, k) ==
  CASE ~Found(d, k)            -> [out |-> "skipped"]
    [] HasLiveEmbedding(d, k)  -> [out |-> "done"]
    [] TextOf(d, k) = Empty    -> [out |-> "skipped"]
    [] OTHER -> [out |-> "embed", text |-> TextOf(d, k),
                 mem |-> IF k[1] = "chunk" THEN d.chunk[k[2]].mem ELSE 0]

ResolveBatch(w) ==
  /\ worker[w].pc = "claimed"
  /\ LET text == [i \in DOMAIN worker[w].claim |-> Resolve(db, queue[worker[w].claim[i]].key)]
     IN  Put(w, [worker[w] EXCEPT !.text = text,
                   !.pc = IF \E i \in DOMAIN text : text[i].out = "embed" THEN "embed" ELSE "settle"])
  /\ UNCHANGED <<db, dim, queue, job, stable, touched, misplaced, events>>

\* record_item_failure on every row of the claim, settled ones too.
FailedRow(r, hard) ==
  [r EXCEPT !.status = IF hard \/ r.attempt >= MaxAttempts THEN "dead" ELSE "pending"]
FailBatch(w, hard) ==
  /\ queue' = [i \in DOMAIN queue |-> IF i \in Range(worker[w].claim) THEN FailedRow(queue[i], hard) ELSE queue[i]]
  /\ Put(w, Idle)
  /\ UNCHANGED <<db, dim, job, stable, touched, misplaced>>

\* The shared call fails, or returns another number of vectors than asked for.
EmbedFails(w, hard) ==
  /\ worker[w].pc = "embed" /\ events.failures < MaxFailures
  /\ events' = [events EXCEPT !.failures = @ + 1]
  /\ FailBatch(w, hard)

\* One transaction writes the vectors in claim order; a foreign key that fails
\* rolls all of them back.
Written(d, c, text) ==
  LET upTo[i \in 0..Len(c)] ==
        IF i = 0 THEN [db |-> d, ok |-> TRUE, lost |-> {}]
        ELSE LET r == upTo[i - 1]
             IN  IF text[i].out # "embed" \/ ~r.ok THEN r
                 ELSE LET t == CHOOSE x \in TargetsOf(r.db, c[i], text[i].mem) : TRUE
                      IN  IF ~RowExists(r.db, t) THEN [r EXCEPT !.ok = FALSE]
                          ELSE [r EXCEPT !.db = UpsertVec(@, t, c[i], text[i].text),
                                         !.lost = IF c[i][1] = "chunk" /\ ChunkOf(r.db, text[i].mem) = {}
                                                  THEN @ \cup {t} ELSE @]
  IN  upTo[Len(c)]

\* The call returned: write the vectors, then settle the rows.
WriteBatch(w) ==
  /\ worker[w].pc = "embed"
  /\ LET r == Written(db, KeysOf(w), worker[w].text)
     IN  \/ /\ r.ok
            /\ db' = r.db
            /\ misplaced' = misplaced \cup r.lost
            /\ Put(w, [worker[w] EXCEPT !.pc = "settle",
                         !.text = [i \in DOMAIN @ |-> IF @[i].out = "embed" THEN [out |-> "done"] ELSE @[i]]])
            /\ UNCHANGED <<dim, queue, job, stable, touched, events>>
         \/ /\ ~r.ok
            /\ \E hard \in BOOLEAN : FailBatch(w, hard)
            /\ UNCHANGED events

\* mark_done and mark_skipped, row by row; lost is the set of write-backs that
\* SQLITE_BUSY swallowed, and one of them ends the worker.
Settle(w, lost) ==
  LET c == worker[w].claim
  IN  /\ worker[w].pc = "settle"
      /\ lost # {} => events.failures < MaxFailures
      /\ events' = [events EXCEPT !.failures = IF lost = {} THEN @ ELSE @ + 1]
      /\ queue' = [r \in DOMAIN queue |-> IF \E i \in DOMAIN c \ lost : c[i] = r
                     THEN [queue[r] EXCEPT !.status = worker[w].text[CHOOSE i \in DOMAIN c : c[i] = r].out]
                     ELSE queue[r]]
      /\ Put(w, [Idle EXCEPT !.pc = IF lost = {} THEN "idle" ELSE "end"])
      /\ UNCHANGED <<db, dim, job, stable, touched, misplaced>>

\* The process dies; claims stay in 'processing'.
Crash ==
  /\ job.pc # "idle" /\ events.failures < MaxFailures
  /\ events' = [events EXCEPT !.failures = @ + 1]
  /\ job' = [pc |-> "idle", kind |-> 1, after |-> 0]
  /\ worker' = [w \in Workers |-> Idle]
  /\ stable' = {}
  /\ UNCHANGED <<db, dim, queue, touched, misplaced>>

----------------------------------------------------------------------------
(* Other commands, one transaction each. *)

\* Keys a worker holds a text of.
Held == UNION {Range(KeysOf(w)) : w \in {x \in Workers : worker[x].pc \in {"embed", "settle"}}}

\* A worker will write a chunk vector for memory m.
ChunkTextHeld(m) ==
  \E w \in Workers : \E i \in DOMAIN worker[w].text :
    worker[w].text[i].out = "embed" /\ KeysOf(w)[i][1] = "chunk" /\ worker[w].text[i].mem = m

\* A command writes to the keys S, of which it gives V a vector of their new text.
Write(d, S, V) ==
  /\ events.writes < MaxWrites /\ events' = [events EXCEPT !.writes = @ + 1]
  /\ db' = d
  /\ touched' = (touched \ (V \ Held)) \cup (S \cap Held) \cup (S \ V)
  /\ stable' = {k \in stable : Missing(d, k)}
  /\ UNCHANGED <<dim, queue, job, worker, misplaced>>

\* edit: a new body, embedded unless the backend is skipped; chunks stay.
EditBody(m, t, embedded) ==
  /\ db.mem[m].live /\ t # db.mem[m].text /\ (embedded => t # Empty)
  /\ LET k == <<"mem", m>>
         d == [db EXCEPT !.mem[m].text = t]
     IN  Write(IF embedded THEN UpsertVec(d, k, k, t) ELSE d, {k}, IF embedded THEN {k} ELSE {})

\* remember --force-merge and ingest --force-merge: the chunks are deleted, with
\* their vectors, and a long body is chunked again under new ids.
ForceMerge(m, t, long, embedded) ==
  /\ db.mem[m].live /\ t # Empty /\ (long => db.next <= MaxChunk)
  /\ LET old   == {<<"chunk", i>> : i \in ChunkOf(db, m)}
         new   == IF long THEN {<<"chunk", db.next>>} ELSE {}
         k     == <<"mem", m>>
         fresh == IF embedded THEN {k} \cup new ELSE {}
         d     == [db EXCEPT !.mem[m].text = t,
                     !.chunk = [i \in Chunks |-> IF <<"chunk", i>> \in old THEN NoRow
                                                 ELSE IF <<"chunk", i>> \in new THEN [text |-> t, mem |-> m] ELSE @[i]],
                     !.vec = [x \in Keys |-> IF x \in fresh THEN [of |-> x, text |-> t, dim |-> dim]
                                             ELSE IF x \in old THEN NoVec ELSE @[x]],
                     !.next = IF long THEN @ + 1 ELSE @]
     IN  Write(d, {k} \cup old \cup new, (IF ChunkTextHeld(m) THEN fresh \ new ELSE fresh) \cup old)

\* entity-descriptions: the description changes, the vector stays.
DescribeEntity(e, t) ==
  /\ t # db.ent[e] /\ t # Empty
  /\ Write([db EXCEPT !.ent[e] = t], {<<"ent", e>>}, {})

\* forget: the memory's vector is deleted, then the row is marked.
Forget(m) ==
  /\ db.mem[m].live
  /\ Write([db EXCEPT !.mem[m].live = FALSE, !.vec[<<"mem", m>>] = NoVec], {<<"mem", m>>}, {<<"mem", m>>})

\* vec purge-orphan: vectors of memories that are gone or forgotten.
PurgeOrphan ==
  LET gone == {<<"mem", m>> : m \in {x \in Mems : ~db.mem[x].live}}
  IN  /\ \E k \in gone : db.vec[k] # NoVec
      /\ db' = [db EXCEPT !.vec = [k \in Keys |-> IF k \in gone THEN NoVec ELSE @[k]]]
      /\ touched' = touched \cup gone
      /\ UNCHANGED <<dim, queue, job, worker, stable, misplaced, events>>

\* The operator changes the dimension of the database between two runs.
ChangeDim(n) ==
  /\ job.pc = "idle" /\ n # dim /\ events.writes < MaxWrites
  /\ dim' = n
  /\ events' = [events EXCEPT !.writes = @ + 1]
  /\ UNCHANGED <<db, queue, job, worker, stable, touched, misplaced>>

RunStep == ScanPage \/ StartDrain \/ EndRun
WorkerStep(w) ==
  \/ DequeueBatch(w)
  \/ WorkerEnds(w) \/ ResolveBatch(w) \/ WriteBatch(w) \/ Settle(w, {})
Faults ==
  \/ Crash
  \/ \E w \in Workers : \/ \E hard \in BOOLEAN : EmbedFails(w, hard)
                        \/ \E lost \in SUBSET (1..BatchSize) : lost # {} /\ lost \subseteq DOMAIN worker[w].claim /\ Settle(w, lost)
Commands ==
  \/ \E m \in Mems, t \in Texts, b \in BOOLEAN : EditBody(m, t, b) \/ \E long \in BOOLEAN : ForceMerge(m, t, long, b)
  \/ \E e \in Ents, t \in Texts : DescribeEntity(e, t)
  \/ \E m \in Mems : Forget(m)
  \/ PurgeOrphan
  \/ \E n \in Dims : ChangeDim(n)

Next == RunStep \/ (\E resume \in BOOLEAN : StartRun(resume)) \/ (\E w \in Workers : WorkerStep(w)) \/ Faults \/ Commands

\* A run keeps going, and the operator starts fresh runs again and again.
Spec == /\ Init /\ [][Next]_vars /\ WF_vars(RunStep) /\ \A w \in Workers : WF_vars(WorkerStep(w))
        /\ SF_vars(StartRun(FALSE))

----------------------------------------------------------------------------
(* Properties. *)

\* A stored vector was computed from the present text of its own row, whatever
\* batch it was computed in: unless a command wrote the row without a vector or
\* while a worker held its text, or the vector's chunk had gone.
VectorFresh ==
  \A k \in Keys : db.vec[k] # NoVec /\ k \notin touched \cup misplaced
                    => RowExists(db, k) /\ db.vec[k].of = k /\ db.vec[k].text = TextOf(db, k)

\* The paged scan misses nothing: a row without a vector from the first page to
\* the last has a queue row, although other rows appear, change and go meanwhile.
ScanComplete == job.pc = "scan" /\ job.kind = 4 => \A k \in stable : InQueue(k)

\* A key is settled as done only with a vector of the active dimension in place,
\* unless a command wrote the row after the worker had read it.
DoneIsEmbedded ==
  [][\A w \in Workers : \A i \in DOMAIN worker[w].claim :
       LET r == worker[w].claim[i]
       IN  queue[r].status = "processing" /\ r \in DOMAIN queue' /\ queue'[r].status = "done"
             => HasLiveEmbedding(db, queue[r].key) \/ queue[r].key \in touched]_vars

\* With fresh runs again and again, every row with a text ends up with a vector of
\* the active dimension, despite failed calls, lost write-backs and a crash.
Backfilled ==
  <>[](\A k \in Keys : Found(db, k) /\ TextOf(db, k) # Empty => HasLiveEmbedding(db, k))
\* Batches and pages are sound while rows change under them: a vector belongs to the text
\* of its row, and no row without a vector is missed by a scan.
ReEmbedSound == ReEmbedTypeOK /\ VectorFresh /\ ScanComplete
=============================================================================
