----------------------------- MODULE EnrichDrain -----------------------------
(***************************************************************************)
(* `enrich` runs (processes) and their drain workers (threads) over the    *)
(* shared sidecar of EnrichQueue, together with the maintenance flags, the *)
(* `remember`/`forget` commands that write to the same sidecar, signals,   *)
(* kill -9, lost write-backs and the passage of time.                      *)
(*                                                                         *)
(* A job is one invocation slot with a fixed (namespace, operation); the   *)
(* job singleton of lock.rs keeps two live jobs out of one namespace.      *)
(* Several namespaces share the sidecar.                                   *)
(***************************************************************************)
EXTENDS EnrichQueue

CONSTANTS
  Jobs, JobNs, JobOp,   \* invocation slots; their namespace and operation
  Workers, JobOf,       \* drain threads; the job each belongs to
  RunOptions,           \* flag combinations a run is started with
  BreakerThreshold,     \* --circuit-breaker-threshold
  HotKeys,              \* entity names remember --enqueue-enrich is given
  MaxCrashes, MaxSignals, MaxLost, MaxThrottles, MaxAdmin,  \* bounds on events
  MaxStrays             \* strays beyond which calls no longer outlast --stale-claim-secs

ASSUME JobsAssumption    == JobNs \in [Jobs -> Namespaces] /\ JobOp \in [Jobs -> Operations]
ASSUME WorkersAssumption == JobOf \in [Workers -> Jobs]
ASSUME OptionsAssumption ==
  RunOptions \subseteq [resume: BOOLEAN, retry_failed: BOOLEAN, until_empty: BOOLEAN,
                        force_redescribe: BOOLEAN, ignore_backoff: BOOLEAN,
                        max_cost_usd: BOOLEAN]
ASSUME BoundsAssumption  ==
  /\ BreakerThreshold \in Nat \ {0}
  /\ HotKeys \subseteq Keys
  /\ {MaxCrashes, MaxSignals, MaxLost, MaxThrottles, MaxAdmin, MaxStrays} \subseteq Nat
ASSUME EdAssumption      == "EntityDescriptions" \in Operations

VARIABLES
  queue,     \* the sidecar table
  path,      \* the inode the sidecar path names
  jobs,      \* state of every invocation slot
  workers,   \* state of every drain thread
  live,      \* <<namespace, item type, key>> present in the main database
  todo,      \* <<namespace, operation, key>>: candidates a scan would return
  events,    \* how many crashes, signals, lost writes, throttles, admin commands so far
  taken,     \* history: workers whose claim a sweep or a hot enqueue took from under them,
             \* and workers that claimed a row such a worker still works on
  strays     \* history: how often claims were taken, and how often such a worker wrote back

vars == <<queue, path, jobs, workers, live, todo, events, taken, strays>>

JobPc == {"off", "prep", "scan", "enqueue", "drain", "finish"}

\* file: the inode of the run's own connection; wfile: the one its drain uses.
Job == [pc: JobPc, file: Files, wfile: Files, opts: RunOptions, page: SUBSET Keys,
        first: BOOLEAN, failed: BOOLEAN, progressed: BOOLEAN, preempted: BOOLEAN,
        stop: BOOLEAN, late: BOOLEAN]

OffJob == [pc |-> "off"]

Outcomes == {"done", "skipped", "ratelimited", "transient", "hard"}

\* Between the claim and the write-back a worker works on a row.
Holding == {"claimed", "calling", "returned"}

WorkerRec == [pc: {"idle", "exit"} \cup Holding, id: Ids \cup {0}, key: Keys \cup {0},
              attempt: Nat, out: Outcomes \cup {"none"}, hard: Nat, late: BOOLEAN,
              busy: BOOLEAN, lost: BOOLEAN]

IdleWorker(hard, late, lost) ==
  [pc |-> "idle", id |-> 0, key |-> 0, attempt |-> 0, out |-> "none",
   hard |-> hard, late |-> late, busy |-> FALSE, lost |-> lost]

OffWorker == [IdleWorker(0, FALSE, FALSE) EXCEPT !.pc = "exit"]

\* The table, the runs, their workers and the history are of their kinds: in particular no
\* write-back by id creates a row where a cascade has deleted one.
TypeOK ==
  /\ queue \in Table
  /\ path \in Files
  /\ jobs \in [Jobs -> Job \cup {OffJob}]
  /\ workers \in [Workers -> WorkerRec]
  /\ live \subseteq Namespaces \X {"memory", "entity"} \X Keys
  /\ todo \subseteq Namespaces \X Operations \X Keys
  /\ events \in [crash: Nat, signal: Nat, lost: Nat, throttle: Nat, admin: Nat]
  /\ taken \subseteq Workers
  /\ strays \in Nat

Init ==
  /\ queue = [i \in Ids |-> NoRow]
  /\ path \in Files
  /\ jobs = [j \in Jobs |-> OffJob]
  /\ workers = [w \in Workers |-> OffWorker]
  /\ live = Namespaces \X {"memory", "entity"} \X Keys
  /\ todo = {<<JobNs[j], JobOp[j], k>> : j \in Jobs, k \in Keys}
  /\ events = [crash |-> 0, signal |-> 0, lost |-> 0, throttle |-> 0, admin |-> 0]
  /\ taken = {}
  /\ strays = 0

-----------------------------------------------------------------------------
(* Helpers *)

On(j)        == jobs[j].pc # "off"
WorkersOf(j) == {w \in Workers : JobOf[w] = j}
Parallel(j)  == Cardinality(WorkersOf(j)) > 1
Holds(w, i)  == workers[w].pc \in Holding /\ workers[w].id = i

\* AUTOINCREMENT.  Claims compare ids of one scope only, so a new id has to be
\* above those of its scope; ids that neither a row nor a worker names are
\* recycled, which nothing can observe.
FreshId(i, f, ns, op) ==
  /\ ~Present(queue, i) /\ ~\E w \in Workers : Holds(w, i)
  /\ \A k \in Ids : InScope(queue, k, f, ns, op) => k < i

NextId(i, f, ns, op) ==
  FreshId(i, f, ns, op) /\ \A k \in Ids : FreshId(k, f, ns, op) => i <= k

\* The row's memory or entity exists; the keys of entity pairs are trusted.
Exists(ns, op, k) == ItemType(op) = "entity_pair" \/ <<ns, ItemType(op), k>> \in live

EligibleIn(j, f) ==
  Eligible(queue, f, JobNs[j], JobOp[j], jobs[j].opts.ignore_backoff)

\* Some process of js has inode f open.
Open(js, f) == \E k \in Jobs : js[k].pc # "off" /\ f \in {js[k].file, js[k].wfile}

\* The rows of inode f are gone.
Freed(q, f) == DeleteWhere(q, LAMBDA i : Present(q, i) /\ q[i].file = f)

\* An inode without a name and without a connection is freed.
Collect(q, p, js) ==
  DeleteWhere(q, LAMBDA i : Present(q, i) /\ q[i].file # p /\ ~Open(js, q[i].file))

Count(e) == events' = [events EXCEPT ![e] = @ + 1]

\* Workers whose rows table q has back in 'pending' while they work on them.
TakenBy(q) ==
  {w \in Workers : \E i \in Ids : /\ Holds(w, i)
                                  /\ queue[i].status = "processing"
                                  /\ q[i].status = "pending"}

Overtake(q) ==
  /\ taken' = taken \cup TakenBy(q)
  /\ strays' = IF TakenBy(q) = {} THEN strays ELSE strays + 1

-----------------------------------------------------------------------------
(* A run: run/mod.rs, run/queue_prep.rs, run/finalize.rs *)

StartJob(j) ==
  /\ ~On(j)
  /\ \A k \in Jobs : On(k) => JobNs[k] # JobNs[j]      \* acquire_job_singleton
  /\ \E o \in RunOptions :
       jobs' = [jobs EXCEPT ![j] =
         [pc |-> "prep", file |-> path, wfile |-> path, opts |-> o, page |-> {},
          first |-> TRUE, failed |-> FALSE, progressed |-> FALSE, preempted |-> FALSE,
          stop |-> FALSE, late |-> FALSE]]
  /\ UNCHANGED <<queue, path, workers, live, todo, events, taken, strays>>

Prepare(j) ==
  /\ jobs[j].pc = "prep"
  /\ queue' = PrepareQueue(queue, jobs[j].file, JobNs[j], JobOp[j], jobs[j].opts)
  /\ Overtake(queue')
  /\ jobs' = [jobs EXCEPT ![j].pc = "scan"]
  /\ UNCHANGED <<path, workers, live, todo, events>>

\* Candidates of the main database; the re-scan of a body-enrich run drops the
\* vetoed ones.
Candidates(j) ==
  {k \in Keys : <<JobNs[j], JobOp[j], k>> \in todo}
    \ IF ~jobs[j].first /\ JobOp[j] = "BodyEnrich"
      THEN Vetoed(queue, jobs[j].file, JobOp[j]) ELSE {}

\* The re-scan of an --until-empty iteration fails once --max-runtime is over,
\* and the error leaves `run` before `finish`.
Scan(j) ==
  /\ jobs[j].pc = "scan"
  /\ jobs[j].first \/ ~jobs[j].late
  /\ jobs' = [jobs EXCEPT ![j].pc = "enqueue",
                          ![j].page = Candidates(j)]
  /\ UNCHANGED <<queue, path, workers, live, todo, events, taken, strays>>

ScanTimeout(j) ==
  /\ jobs[j].pc = "scan"
  /\ ~jobs[j].first /\ jobs[j].late
  /\ jobs' = [jobs EXCEPT ![j] = OffJob]
  /\ queue' = Collect(queue, path, jobs')
  /\ UNCHANGED <<path, workers, live, todo, events, taken, strays>>

\* One candidate of the scan; force-redescribe reopens on the first scan only.
Enqueue(j) ==
  /\ jobs[j].pc = "enqueue"
  /\ \E k \in jobs[j].page, i \in Ids :
       /\ \A m \in jobs[j].page : k <= m
       /\ NextId(i, jobs[j].file, JobNs[j], JobOp[j])
       /\ LET reopen == /\ jobs[j].opts.force_redescribe
                        /\ jobs[j].first
                        /\ JobOp[j] = "EntityDescriptions"
              q1 == IF reopen THEN ReopenForceRedescribe(queue, jobs[j].file, JobNs[j], k)
                    ELSE queue
          IN  queue' = IF Exists(JobNs[j], JobOp[j], k)
                       THEN EnqueueCandidate(q1, i, jobs[j].file, JobNs[j], JobOp[j], k)
                       ELSE q1
       /\ jobs' = [jobs EXCEPT ![j].page = @ \ {k}]
  /\ UNCHANGED <<path, workers, live, todo, events, taken, strays>>

\* A parallel drain opens the sidecar by its path once more; a serial one keeps
\* the connection of the run.
SpawnDrain(j) ==
  /\ jobs[j].pc = "enqueue"
  /\ jobs[j].page = {}
  /\ jobs' = [jobs EXCEPT ![j].pc = "drain", ![j].progressed = FALSE,
                          ![j].wfile = IF Parallel(j) THEN path ELSE jobs[j].file]
  /\ queue' = Collect(queue, path, jobs')
  /\ workers' = [w \in Workers |->
       IF w \in WorkersOf(j)
       THEN IdleWorker(0, workers[w].late, FALSE)
       ELSE workers[w]]
  /\ UNCHANGED <<path, live, todo, events, taken, strays>>

Joined(j) == jobs[j].pc = "drain" /\ \A w \in WorkersOf(j) : workers[w].pc = "exit"

\* A claim that stayed busy, or a write-back a parallel worker lost, fails the
\* run with DbBusy before `finish`.
DrainFailed(j) ==
  \E w \in WorkersOf(j) : workers[w].busy \/ (Parallel(j) /\ workers[w].lost)

\* The threads are gone; the rate-limit deadline of a serial drain belongs to
\* the run and outlives them.
Ended(j, keepLate) ==
  workers' = [w \in Workers |->
    IF JobOf[w] = j THEN [OffWorker EXCEPT !.late = keepLate /\ workers[w].late]
    ELSE workers[w]]

JoinFailed(j) ==
  /\ Joined(j)
  /\ DrainFailed(j)
  /\ jobs' = [jobs EXCEPT ![j] = OffJob]
  /\ queue' = Collect(queue, path, jobs')
  /\ Ended(j, FALSE)
  /\ UNCHANGED <<path, live, todo, events, taken, strays>>

\* Mutant: leftover rows are drained again before the deadline is looked at.
JoinBeforeDeadline(j) ==
  /\ Joined(j)
  /\ ~DrainFailed(j)
  /\ LET again == jobs[j].opts.until_empty /\ EligibleIn(j, jobs[j].file) # {}
     IN  /\ jobs' = [jobs EXCEPT ![j].pc = IF again THEN "enqueue" ELSE "finish",
                                 ![j].first = FALSE]
         /\ Ended(j, again /\ ~Parallel(j))
  /\ UNCHANGED <<queue, path, live, todo, events, taken, strays>>

\* The tail of the until-empty loop: stop at the deadline or at convergence.
\* The connections of the threads are closed.
Join(j) ==
  /\ Joined(j)
  /\ ~DrainFailed(j)
  /\ LET again == /\ jobs[j].opts.until_empty
                  /\ ~jobs[j].late
                  /\ jobs[j].progressed \/ EligibleIn(j, jobs[j].file) # {}
     IN  /\ jobs' = [jobs EXCEPT ![j].pc = IF again THEN "scan" ELSE "finish",
                                 ![j].first = FALSE, ![j].wfile = jobs[j].file]
         /\ Ended(j, again /\ ~Parallel(j))
  /\ queue' = Collect(queue, path, jobs')
  /\ UNCHANGED <<path, live, todo, events, taken, strays>>

\* Mutant: dead letters do not keep the sidecar.
RemovableDead(q, j) ==
  /\ ~jobs[j].failed
  /\ \A i \in Ids : Present(q, i) /\ q[i].file = jobs[j].file => q[i].status # "skipped"

\* What `finish` sees through its own connection lets it unlink the path.
Removable(q, j) ==
  /\ ~jobs[j].failed
  /\ \A i \in Ids : Present(q, i) /\ q[i].file = jobs[j].file
                      => q[i].status \notin {"dead", "skipped"}

\* release_on_shutdown frees in-flight claims; remove_file unlinks whatever inode
\* the path names by now.  The next open creates inode g.
Finish(j) ==
  /\ jobs[j].pc = "finish"
  /\ jobs' = [jobs EXCEPT ![j] = OffJob]
  /\ LET q1 == IF jobs[j].stop
               THEN ResetProcessingForOp(queue, jobs[j].file, JobNs[j], JobOp[j])
               ELSE queue
     IN  \/ /\ Removable(q1, j)
            /\ \E g \in Files :
                 /\ ~Open(jobs', g)
                 /\ path' = g
                 /\ queue' = Collect(Freed(q1, g), g, jobs')
         \/ /\ ~Removable(q1, j)
            /\ path' = path
            /\ queue' = Collect(q1, path, jobs')
  /\ UNCHANGED <<workers, live, todo, events, taken, strays>>

-----------------------------------------------------------------------------
(* A drain worker: drain_serial.rs, drain_parallel.rs *)

InDrain(w) == jobs[JobOf[w]].pc = "drain"

ExitWorker(w) == workers' = [workers EXCEPT ![w].pc = "exit"]

EligibleFor(w) == EligibleIn(JobOf[w], jobs[JobOf[w]].wfile)

\* Loop head: a requested shutdown, a spent --max-cost-usd or an empty backlog
\* ends the worker.
StopWorker(w) ==
  /\ InDrain(w) /\ workers[w].pc = "idle"
  /\ \/ jobs[JobOf[w]].stop
     \/ jobs[JobOf[w]].opts.max_cost_usd
     \/ EligibleFor(w) = {}
  /\ ExitWorker(w)
  /\ UNCHANGED <<queue, path, jobs, live, todo, events, taken, strays>>

Claim(w) ==
  /\ InDrain(w) /\ workers[w].pc = "idle"
  /\ ~jobs[JobOf[w]].stop
  /\ \E i \in EligibleFor(w) :
       /\ \A k \in EligibleFor(w) : ClaimedBefore(queue, i, k)
       /\ queue' = DequeueNextPending(queue, i)
       /\ workers' = [workers EXCEPT ![w].pc = "claimed", ![w].id = i,
                                     ![w].key = queue[i].key,
                                     ![w].attempt = queue[i].attempt + 1]
       /\ taken' = IF \E v \in Workers \ {w} : Holds(v, i) THEN taken \cup {w}
                   ELSE taken \ {w}
  /\ UNCHANGED <<path, jobs, live, todo, events, strays>>

\* SQLITE_BUSY outlasted the bounded retries of the claim.
ClaimBusy(w) ==
  /\ InDrain(w) /\ workers[w].pc = "idle"
  /\ ~jobs[JobOf[w]].stop
  /\ events.lost < MaxLost /\ Count("lost")
  /\ workers' = [workers EXCEPT ![w].pc = "exit", ![w].busy = TRUE]
  /\ UNCHANGED <<queue, path, jobs, live, todo, taken, strays>>

BeatOnce(w) ==
  /\ workers[w].pc = "claimed"
  /\ queue' = Heartbeat(queue, workers[w].id)
  /\ workers' = [workers EXCEPT ![w].pc = "calling"]
  /\ UNCHANGED <<path, jobs, live, todo, events, taken, strays>>

\* The call_* handler.  A success has persisted its result in the main
\* database when it returns.  A memory that vanished is a hard NotFound, an
\* entity a transient EntityNotYetMaterialized.
Call(w) ==
  /\ workers[w].pc = "calling"
  /\ LET j == JobOf[w]
     IN  \E out \in Outcomes :
           /\ ~Exists(JobNs[j], JobOp[j], workers[w].key) =>
                out = IF ItemType(JobOp[j]) = "memory" THEN "hard" ELSE "transient"
           /\ IF out = "ratelimited" THEN events.throttle < MaxThrottles /\ Count("throttle")
              ELSE UNCHANGED events
           /\ workers' = [workers EXCEPT ![w].pc = "returned", ![w].out = out]
           /\ todo' = IF out = "done" THEN todo \ {<<JobNs[j], JobOp[j], workers[w].key>>}
                      ELSE todo
  /\ UNCHANGED <<queue, path, jobs, live, taken, strays>>

\* A throttled call goes back to pending and the worker sleeps, unless the
\* rate-limit deadline has passed: then it is a transient failure.
Throttled(w) == workers[w].out = "ratelimited" /\ ~workers[w].late

IsFailure(w) == workers[w].out \in {"transient", "hard"}
                  \/ (workers[w].out = "ratelimited" /\ workers[w].late)

\* CircuitBreaker::record after outcome `out`.
Breaker(w, out) == CASE out = "hard" -> workers[w].hard + 1
                     [] out = "skipped" \/ Throttled(w) -> workers[w].hard
                     [] OTHER -> 0

\* A serial pair-scan drain stops after an item when hot entity descriptions of
\* its namespace are pending (--yield-every-n-items 1).
Preempts(w) ==
  /\ ~Parallel(JobOf[w])
  /\ JobOp[JobOf[w]] \in {"EntityConnect", "CrossDomainBridges"}
  /\ workers[w].out = "done"
  /\ \E i \in Ids : /\ InScope(queue, i, jobs[JobOf[w]].file, JobNs[JobOf[w]],
                               "EntityDescriptions")
                    /\ queue[i].hot /\ queue[i].status = "pending"

AfterItem(w) ==
  LET n == Breaker(w, workers[w].out)
      opened == Parallel(JobOf[w]) /\ IsFailure(w) /\ n >= BreakerThreshold
  IN  [IdleWorker(IF Parallel(JobOf[w]) THEN n ELSE 0, workers[w].late, workers[w].lost)
         EXCEPT !.pc = IF opened \/ Preempts(w) THEN "exit" ELSE "idle"]

Tally(w) ==
  jobs' = [jobs EXCEPT ![JobOf[w]].progressed = @ \/ workers[w].out = "done",
                       ![JobOf[w]].failed = @ \/ IsFailure(w),
                       ![JobOf[w]].preempted = @ \/ Preempts(w)]

WriteBack(w) ==
  /\ workers[w].pc = "returned"
  /\ LET i == workers[w].id
         out == workers[w].out
     IN  \/ out = "done" /\ queue' = MarkDone(queue, i)
         \/ out = "skipped" /\ queue' = MarkSkipped(queue, i)
         \/ Throttled(w) /\ queue' = RequeueRateLimited(queue, i)
         \/ /\ IsFailure(w)
            /\ queue' = RecordItemFailure(queue, i, workers[w].attempt, out)
  /\ workers' = [workers EXCEPT ![w] = AfterItem(w)]
  /\ Tally(w)
  /\ taken' = taken \ {w}
  /\ strays' = IF w \in taken THEN strays + 1 ELSE strays
  /\ UNCHANGED <<path, live, todo, events>>

\* SQLITE_BUSY outlasted the write-back.  A parallel worker remembers that a
\* completion was lost; every other lost write is only logged.
WriteBackLost(w) ==
  /\ workers[w].pc = "returned"
  /\ events.lost < MaxLost /\ Count("lost")
  /\ workers' = [workers EXCEPT ![w] =
       [AfterItem(w) EXCEPT !.lost = @ \/ workers[w].out \in {"done", "skipped"}]]
  /\ Tally(w)
  /\ UNCHANGED <<queue, path, live, todo, taken, strays>>

-----------------------------------------------------------------------------
(* Signals, crashes and time *)

Signal(j) ==
  /\ On(j) /\ ~jobs[j].stop
  /\ events.signal < MaxSignals /\ Count("signal")
  /\ jobs' = [jobs EXCEPT ![j].stop = TRUE]
  /\ UNCHANGED <<queue, path, workers, live, todo, taken, strays>>

\* kill -9, a second signal, or a power cut: the OS releases locks and inodes.
Crash(j) ==
  /\ On(j)
  /\ events.crash < MaxCrashes /\ Count("crash")
  /\ jobs' = [jobs EXCEPT ![j] = OffJob]
  /\ queue' = Collect(queue, path, jobs')
  /\ Ended(j, FALSE)
  /\ UNCHANGED <<path, live, todo, taken, strays>>

\* The claim grows older than --stale-claim-secs, also while its worker is in a call: the
\* one heartbeat comes before the call, and a call retries for as long as it likes.
AgeClaim(i) ==
  /\ Present(queue, i) /\ queue[i].status = "processing" /\ queue[i].claim = "fresh"
  /\ (\E w \in Workers : Holds(w, i)) => strays < MaxStrays
  /\ queue' = [queue EXCEPT ![i].claim = "stale"]
  /\ UNCHANGED <<path, jobs, workers, live, todo, events, taken, strays>>

\* next_retry_at is reached.
CoolDown(i) ==
  /\ Present(queue, i) /\ queue[i].cooling
  /\ queue' = [queue EXCEPT ![i].cooling = FALSE]
  /\ UNCHANGED <<path, jobs, workers, live, todo, events, taken, strays>>

\* --max-runtime elapses; only an --until-empty run looks at it.
RunDeadline(j) ==
  /\ On(j) /\ jobs[j].opts.until_empty /\ ~jobs[j].late
  /\ jobs' = [jobs EXCEPT ![j].late = TRUE]
  /\ UNCHANGED <<queue, path, workers, live, todo, events, taken, strays>>

\* The rate-limit deadline elapses; only a throttled worker looks at it.
ThrottleDeadline(w) ==
  /\ workers[w].out = "ratelimited" /\ ~workers[w].late
  /\ workers' = [workers EXCEPT ![w].late = TRUE]
  /\ UNCHANGED <<queue, path, jobs, live, todo, events, taken, strays>>

-----------------------------------------------------------------------------
(* Other commands writing to the sidecar; none takes the job singleton *)

Admin == events.admin < MaxAdmin /\ Count("admin")

RequeueDeadCmd(ns, op) ==
  /\ Admin
  /\ queue' = RequeueDead(queue, path, ns, op)
  /\ UNCHANGED <<path, jobs, workers, live, todo, taken, strays>>

RequeueSkippedCmd(ns, op) ==
  /\ Admin
  /\ queue' = RequeueSkipped(queue, path, ns, op)
  /\ UNCHANGED <<path, jobs, workers, live, todo, taken, strays>>

PruneDeadOrphansCmd(ns, op) ==
  /\ Admin
  /\ queue' = PruneDeadOrphans(queue, path, ns, op, live)
  /\ UNCHANGED <<path, jobs, workers, live, todo, taken, strays>>

PruneDeadEntityOrphansCmd(ns, op) ==
  /\ Admin
  /\ queue' = PruneDeadEntityOrphans(queue, path, ns, op)
  /\ UNCHANGED <<path, jobs, workers, live, todo, taken, strays>>

ResetStaleClaimsCmd ==
  /\ Admin
  /\ queue' = ResetStaleProcessingClaims(queue, path)
  /\ Overtake(queue')
  /\ UNCHANGED <<path, jobs, workers, live, todo>>

\* remember --enqueue-enrich for an entity of that name.
EnqueueHotCmd(k) ==
  /\ Admin
  /\ \E i \in Ids : /\ NextId(i, path, NoNs, "EntityDescriptions")
                    /\ queue' = EnqueueWithPriority(queue, i, path, k)
  /\ Overtake(queue')
  /\ UNCHANGED <<path, jobs, workers, live, todo>>

\* Memory or entity k leaves the main database, and every scan with it.
Removed(ns, type, k) ==
  /\ live' = live \ {<<ns, type, k>>}
  /\ todo' = {t \in todo : <<t[1], ItemType(t[2]), t[3]>> # <<ns, type, k>>}

\* A rewritten body: every memory operation may want the memory again.
Rewritten(ns, k) ==
  todo' = todo \cup {<<ns, op, k>> : op \in {o \in Operations : ItemType(o) = "memory"}}

\* forget and purge delete the memory, then clean the sidecar.
ForgetCmd(ns, k) ==
  /\ Admin
  /\ <<ns, "memory", k>> \in live
  /\ Removed(ns, "memory", k)
  /\ queue' = CleanupQueueEntry(queue, path, k)
  /\ UNCHANGED <<path, jobs, workers, taken, strays>>

\* rename moves the memory to another name and leaves the sidecar alone.
RenameAwayCmd(ns, k) ==
  /\ Admin
  /\ <<ns, "memory", k>> \in live
  /\ Removed(ns, "memory", k)
  /\ UNCHANGED <<queue, path, jobs, workers, taken, strays>>

\* delete-entity removes the entity and leaves the sidecar alone.
DeleteEntityCmd(ns, k) ==
  /\ Admin
  /\ <<ns, "entity", k>> \in live
  /\ Removed(ns, "entity", k)
  /\ UNCHANGED <<queue, path, jobs, workers, taken, strays>>

\* `edit` rewrites the body and leaves the sidecar alone.
EditCmd(ns, k) ==
  /\ Admin
  /\ <<ns, "memory", k>> \in live
  /\ Rewritten(ns, k)
  /\ UNCHANGED <<queue, path, jobs, workers, live, taken, strays>>

\* remember --force-merge rewrites the body and cleans the sidecar.
RememberMergeCmd(ns, k) ==
  /\ Admin
  /\ <<ns, "memory", k>> \in live
  /\ Rewritten(ns, k)
  /\ queue' = CleanupQueueEntry(queue, path, k)
  /\ UNCHANGED <<path, jobs, workers, live, taken, strays>>

-----------------------------------------------------------------------------
JobStep(j) == \/ StartJob(j) \/ Prepare(j) \/ Scan(j) \/ ScanTimeout(j) \/ Enqueue(j)
              \/ SpawnDrain(j) \/ JoinFailed(j) \/ Join(j) \/ Finish(j)

WorkerStep(w) == StopWorker(w) \/ Claim(w) \/ BeatOnce(w) \/ Call(w) \/ WriteBack(w)

Fault == \/ \E w \in Workers : ClaimBusy(w) \/ WriteBackLost(w)
         \/ \E j \in Jobs : Signal(j) \/ Crash(j)

Time == \/ \E i \in Ids : AgeClaim(i) \/ CoolDown(i)
        \/ \E j \in Jobs : RunDeadline(j)
        \/ \E w \in Workers : ThrottleDeadline(w)

Command ==
  \/ \E ns \in Namespaces, op \in Operations :
       \/ RequeueDeadCmd(ns, op) \/ RequeueSkippedCmd(ns, op)
       \/ PruneDeadOrphansCmd(ns, op) \/ PruneDeadEntityOrphansCmd(ns, op)
  \/ ResetStaleClaimsCmd
  \/ \E k \in HotKeys : EnqueueHotCmd(k)
  \/ \E ns \in Namespaces, k \in Keys :
       \/ ForgetCmd(ns, k) \/ RenameAwayCmd(ns, k) \/ DeleteEntityCmd(ns, k)
       \/ EditCmd(ns, k) \/ RememberMergeCmd(ns, k)

Next == \/ \E j \in Jobs : JobStep(j)
        \/ \E w \in Workers : WorkerStep(w)
        \/ Fault \/ Time \/ Command

Spec == Init /\ [][Next]_vars

\* Threads and processes keep running, time passes, and enrich is invoked again
\* and again (a cron job, an agent loop); nothing forces signals, crashes,
\* busy errors or operator commands.
Fairness ==
  /\ \A j \in Jobs : WF_vars(JobStep(j)) /\ WF_vars(RunDeadline(j))
  /\ \A w \in Workers : WF_vars(WorkerStep(w)) /\ WF_vars(ThrottleDeadline(w))
  /\ \A i \in Ids : WF_vars(AgeClaim(i)) /\ WF_vars(CoolDown(i))

FairSpec == Spec /\ Fairness

-----------------------------------------------------------------------------
(* Properties *)

\* Two workers, of one run or of two, work on the same row at once only after a sweep of
\* stale claims or a hot enqueue took the claim from under one of them; short of that no
\* item is billed twice concurrently: dequeue_next_pending is one statement, and resumes,
\* shutdowns and requeues only return rows nobody works on.
ClaimExclusive ==
  \A v, w \in Workers :
    v # w /\ workers[v].pc \in Holding /\ v \notin taken => ~Holds(w, workers[v].id)

\* A write-back, which addresses its row by id and checks nothing, lands on the
\* row the worker claimed: that row is still 'processing' with the worker's key
\* and attempt, or it was deleted meanwhile.  Only a worker whose claim was taken, or
\* shared with such a worker, may find something else.
WriteBackHitsItsClaim ==
  \A w \in Workers \ taken :
    workers[w].pc \in Holding /\ Present(queue, workers[w].id) =>
      LET r == queue[workers[w].id]
      IN  /\ r.status = "processing"
          /\ r.key = workers[w].key
          /\ r.attempt = workers[w].attempt
          /\ r.file = jobs[JobOf[w]].wfile

\* UNIQUE (namespace, operation, item_key) within one sidecar file.
UniqueTriple ==
  \A i, k \in Ids :
    Present(queue, i) /\ Present(queue, k) /\ i # k =>
      <<queue[i].file, queue[i].ns, queue[i].op, queue[i].key>>
        # <<queue[k].file, queue[k].ns, queue[k].op, queue[k].key>>

\* --max-attempts bounds the claims of a row, except for one more claim per
\* crash, lost write-back or throttled call, which leave no verdict behind, and per claim
\* taken from under its worker and write-back of such a worker, which may undo a verdict.
AttemptBudget ==
  \A i \in Ids : Present(queue, i) =>
    queue[i].attempt <= MaxAttempts + events.crash + events.lost + events.throttle + strays

\* A worker whose claim was taken writes back to row i all the same.
StrayWriteBack(i) == \E w \in taken : Holds(w, i) /\ ~Holds(w, i)'

\* A finished item is not paid for again: 'done' is left only by deletion, when
\* --force-redescribe reopens it on the first scan of a run, or by the late write-back of a
\* worker whose claim had been taken.
DoneIsFinal ==
  [][\A i \in Ids :
       Present(queue, i) /\ queue[i].status = "done" /\ Present(queue', i)
         => \/ queue'[i].status = "done"
            \/ \E j \in Jobs : /\ jobs[j].pc = "enqueue"
                              /\ jobs[j].first /\ jobs[j].opts.force_redescribe
                              /\ jobs'[j].page # jobs[j].page
            \/ StrayWriteBack(i)]_vars

\* A dead letter is never resurrected by a run: only --requeue-dead does it, or the late
\* write-back of a worker whose claim had been taken.
DeadNeedsOperator ==
  [][\A i \in Ids :
       Present(queue, i) /\ queue[i].status = "dead" /\ Present(queue', i)
         /\ queue'[i].status # "dead"
       => \/ \E ns \in Namespaces, op \in Operations : RequeueDeadCmd(ns, op)
          \/ StrayWriteBack(i)]_vars

\* Some process other than j can still read inode f.
ReachableWithout(j, f) ==
  f = path \/ \E k \in Jobs \ {j} : On(k) /\ f \in {jobs[k].file, jobs[k].wfile}

\* The steps of a run up to its teardown leave the rows of other namespaces and
\* operations alone, except that the startup sweep frees stale claims.
RunsAreIsolated ==
  [][\A j \in Jobs :
       jobs[j].pc \notin {"off", "finish"} /\ On(j)' /\ events' = events
         /\ (jobs'[j] # jobs[j] \/ \E w \in WorkersOf(j) : workers'[w] # workers[w])
       => \A i \in Ids :
            Present(queue, i) /\ queue[i].ns \in Namespaces
              /\ <<queue[i].ns, queue[i].op>> # <<JobNs[j], JobOp[j]>>
              /\ ReachableWithout(j, queue[i].file)
            => \/ queue'[i] = queue[i]
               \/ queue[i].claim = "stale" /\ queue'[i] = ReleasedRow(queue[i])]_vars

\* A worker holds a row only while its job drains.
HoldInv ==
  \A w \in Workers : workers[w].pc \in Holding => InDrain(w) /\ workers[w].id \in Ids

\* acquire_job_singleton: live jobs have different namespaces.
SingletonInv == \A j, k \in Jobs : On(j) /\ On(k) /\ j # k => JobNs[j] # JobNs[k]

\* A held row belongs to the namespace and operation of its holder's job: ids that a worker
\* holds are not recycled, and rows keep their triple.
ScopeInv ==
  \A w \in Workers : workers[w].pc \in Holding /\ Present(queue, workers[w].id) =>
    /\ queue[workers[w].id].ns = JobNs[JobOf[w]]
    /\ queue[workers[w].id].op = JobOp[JobOf[w]]

\* The inductive strengthening of ClaimExclusive and WriteBackHitsItsClaim: held rows are
\* in the scope of their holder's job, where no resume, shutdown or requeue of another run
\* reaches them.
ClaimInv ==
  /\ HoldInv
  /\ SingletonInv
  /\ ScopeInv
  /\ ClaimExclusive
  /\ WriteBackHitsItsClaim

\* --- under FairSpec ---

\* Every candidate is settled for good: enriched, skipped or dead-lettered.
Settled(ns, op, k) ==
  \/ <<ns, op, k>> \notin todo
  \/ \E i \in Ids : /\ InScope(queue, i, path, ns, op)
                    /\ queue[i].key = k
                    /\ queue[i].status \in {"skipped", "dead"}

BacklogConverges ==
  \A j \in Jobs, k \in Keys : <>[]Settled(JobNs[j], JobOp[j], k)

\* A claim orphaned by a crash or a lost write-back is eventually handed back.
NoStrandedClaim ==
  \A i \in Ids : (Present(queue, i) /\ queue[i].status = "processing")
                  ~> ~(Present(queue, i) /\ queue[i].status = "processing")

\* A signalled run ends.
SignalEndsRun == \A j \in Jobs : (On(j) /\ jobs[j].stop) ~> ~On(j)
=============================================================================
