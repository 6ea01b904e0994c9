-------------------------- MODULE EnrichDrainProofs --------------------------
(***************************************************************************)
(* Proofs about EnrichDrain for every number of jobs, workers, rows, keys  *)
(* and namespaces, and for every bound on the events.  A row keeps its     *)
(* UNIQUE triple, a run stays inside its own scope, a worker owns the row  *)
(* it claimed until a sweep or a hot enqueue takes it, a verdict stays     *)
(* unless somebody asks for the row again, and claims are bounded.         *)
(***************************************************************************)
EXTENDS EnrichDrain, TLAPS

-----------------------------------------------------------------------------
(* Rows and tables *)

\* A row that is there is a Row; what is not there is NoRow.
LEMMA PresentRow ==
  ASSUME NEW q \in Table, NEW i \in Ids, Present(q, i)
  PROVE  q[i] \in Row
BY DEF Table, Present, NoRow, Row

\* Every row update of the queue keeps the columns' types and the row's identity.
LEMMA RowUpdates ==
  ASSUME NEW r \in Row
  PROVE  /\ ClaimedRow(r) \in Row
         /\ HeartbeatRow(r) \in Row
         /\ DoneRow(r) \in Row
         /\ SkippedRow(r) \in Row
         /\ PendingRow(r) \in Row
         /\ DeadRow(r) \in Row
         /\ BackoffRow(r) \in Row
         /\ ReleasedRow(r) \in Row
         /\ ReopenedRow(r) \in Row
         /\ HotRow(r) \in Row
         /\ RequeuedRow(r) \in Row
<1>1. r.attempt + 1 \in Nat
  BY DEF Row
<1>2. ClaimedRow(r) \in Row
  BY <1>1 DEF ClaimedRow, Row, Status
<1>3. HeartbeatRow(r) \in Row /\ ReleasedRow(r) \in Row
  BY DEF HeartbeatRow, ReleasedRow, Row, Status
<1>4. DoneRow(r) \in Row /\ SkippedRow(r) \in Row /\ PendingRow(r) \in Row
  BY DEF DoneRow, SkippedRow, PendingRow, Row, Status
<1>5. DeadRow(r) \in Row /\ BackoffRow(r) \in Row
  BY DEF DeadRow, BackoffRow, Row, Status
<1>6. ReopenedRow(r) \in Row /\ RequeuedRow(r) \in Row
  BY DEF ReopenedRow, RequeuedRow, Row, Status
<1>7. HotRow(r) \in Row
  BY DEF HotRow, Row, Status
<1> QED BY <1>2, <1>3, <1>4, <1>5, <1>6, <1>7

\* Statements by id: an update of a missing row does nothing.
LEMMA IdOps ==
  ASSUME NEW q \in Table, NEW i \in Ids
  PROVE  /\ Heartbeat(q, i) \in Table
         /\ MarkDone(q, i) \in Table
         /\ MarkSkipped(q, i) \in Table
         /\ RequeueRateLimited(q, i) \in Table
         /\ \A att, out : RecordItemFailure(q, i, att, out) \in Table
<1>1. CASE ~Present(q, i)
  BY <1>1 DEF Heartbeat, MarkDone, MarkSkipped, RequeueRateLimited, RecordItemFailure,
              UpdateById
<1>2. CASE Present(q, i)
  <2>1. q[i] \in Row
    BY <1>2, PresentRow
  <2>2. \A r \in Row : [q EXCEPT ![i] = r] \in Table
    BY DEF Table
  <2>3. /\ HeartbeatRow(q[i]) \in Row /\ DoneRow(q[i]) \in Row /\ SkippedRow(q[i]) \in Row
        /\ PendingRow(q[i]) \in Row /\ DeadRow(q[i]) \in Row /\ BackoffRow(q[i]) \in Row
    BY <2>1, RowUpdates
  <2> QED BY <1>2, <2>2, <2>3 DEF Heartbeat, MarkDone, MarkSkipped, RequeueRateLimited,
                                  RecordItemFailure, UpdateById
<1> QED BY <1>1, <1>2

\* Statements over a scope.
LEMMA ScopeOps ==
  ASSUME NEW q \in Table, NEW f, NEW ns, NEW op
  PROVE  /\ ResetStaleProcessingClaims(q, f) \in Table
         /\ ResetProcessingForOp(q, f, ns, op) \in Table
         /\ ClearOp(q, f, ns, op) \in Table
         /\ \A k : ReopenForceRedescribe(q, f, ns, k) \in Table
         /\ RequeueDead(q, f, ns, op) \in Table
         /\ RequeueSkipped(q, f, ns, op) \in Table
         /\ \A l : PruneDeadOrphans(q, f, ns, op, l) \in Table
         /\ PruneDeadEntityOrphans(q, f, ns, op) \in Table
         /\ \A k : CleanupQueueEntry(q, f, k) \in Table
         /\ \A js : Collect(q, f, js) \in Table
         /\ Freed(q, f) \in Table
<1>1. ResetStaleProcessingClaims(q, f) \in Table
  BY PresentRow, RowUpdates DEF ResetStaleProcessingClaims, UpdateWhere, Table
<1>2. ResetProcessingForOp(q, f, ns, op) \in Table
  BY PresentRow, RowUpdates DEF ResetProcessingForOp, UpdateWhere, Table, InScope
<1>3. \A k : ReopenForceRedescribe(q, f, ns, k) \in Table
  BY PresentRow, RowUpdates DEF ReopenForceRedescribe, UpdateWhere, Table, InScope
<1>4. RequeueDead(q, f, ns, op) \in Table
  BY PresentRow, RowUpdates DEF RequeueDead, UpdateWhere, Table, InScope
<1>5. RequeueSkipped(q, f, ns, op) \in Table
  BY PresentRow, RowUpdates DEF RequeueSkipped, UpdateWhere, Table, InScope
<1>6. ClearOp(q, f, ns, op) \in Table
  BY DEF ClearOp, DeleteWhere, Table
<1>7. \A l : PruneDeadOrphans(q, f, ns, op, l) \in Table
  BY DEF PruneDeadOrphans, DeleteWhere, Table
<1>8. \A k : CleanupQueueEntry(q, f, k) \in Table
  BY DEF CleanupQueueEntry, DeleteWhere, Table
<1>9. \A js : Collect(q, f, js) \in Table
  BY DEF Collect, DeleteWhere, Table
<1>10. Freed(q, f) \in Table
  BY DEF Freed, DeleteWhere, Table
<1>11. PruneDeadEntityOrphans(q, f, ns, op) \in Table
  BY DEF PruneDeadEntityOrphans, DeleteWhere, Table
<1> QED BY <1>1, <1>2, <1>3, <1>4, <1>5, <1>6, <1>7, <1>8, <1>9, <1>10, <1>11

LEMMA PrepareTable ==
  ASSUME NEW q \in Table, NEW f, NEW ns, NEW op, NEW o
  PROVE  PrepareQueue(q, f, ns, op, o) \in Table
<1> DEFINE swept   == ResetStaleProcessingClaims(q, f)
           resumed == IF o.resume THEN ResetProcessingForOp(swept, f, ns, op) ELSE swept
<1>1. swept \in Table
  BY ScopeOps
<1>2. resumed \in Table
  BY <1>1, ScopeOps
<1> HIDE DEF resumed
<1>3. ClearOp(resumed, f, ns, op) \in Table
  BY <1>2, ScopeOps
<1> QED BY <1>2, <1>3 DEF PrepareQueue, resumed

\* Inserts.
LEMMA InsertCold ==
  ASSUME NEW q \in Table, NEW i \in Ids, NEW f \in Files, NEW k \in Keys,
         NEW ns \in Namespaces, NEW op \in Operations
  PROVE  EnqueueCandidate(q, i, f, ns, op, k) \in Table
<1>1. NewRow(f, ns, op, k, FALSE) \in Row
  BY DEF NewRow, Row, Status
<1> QED BY <1>1 DEF EnqueueCandidate, Table

LEMMA InsertHot ==
  ASSUME NEW q \in Table, NEW i \in Ids, NEW f \in Files, NEW k \in Keys
  PROVE  EnqueueWithPriority(q, i, f, k) \in Table
<1>1. NewRow(f, NoNs, "EntityDescriptions", k, TRUE) \in Row
  BY EdAssumption DEF NewRow, Row, Status
<1> DEFINE ins == IF InQueue(q, f, NoNs, "EntityDescriptions", k) THEN q
                  ELSE [q EXCEPT ![i] = NewRow(f, NoNs, "EntityDescriptions", k, TRUE)]
<1>2. ins \in Table
  BY <1>1 DEF Table
<1> HIDE DEF ins
<1>3. UpdateWhere(ins,
        LAMBDA m : Present(ins, m) /\ ins[m].file = f /\ ins[m].key = k /\ ~ins[m].hot,
        HotRow) \in Table
  BY <1>2, PresentRow, RowUpdates DEF UpdateWhere, Table
<1> QED BY <1>3 DEF EnqueueWithPriority, ins

-----------------------------------------------------------------------------
(* Type correctness *)

\* A job that is on is a Job, and starting or stopping others does not matter.
LEMMA OnJob ==
  ASSUME TypeOK, NEW j \in Jobs, On(j)
  PROVE  jobs[j] \in Job
BY DEF TypeOK, On, OffJob

LEMMA OffTypes == OffJob \in Job \cup {OffJob} /\ OffWorker \in WorkerRec
BY DEF OffWorker, IdleWorker, WorkerRec

\* The record a worker is left with after an item.
LEMMA AfterItemType ==
  ASSUME TypeOK, NEW w \in Workers
  PROVE  /\ AfterItem(w) \in WorkerRec
         /\ AfterItem(w).pc \in {"idle", "exit"}
<1> DEFINE n == Breaker(w, workers[w].out)
<1>1. workers[w] \in WorkerRec
  BY DEF TypeOK
<1>2. n \in Nat
  BY <1>1 DEF Breaker, WorkerRec
<1>3. (IF Parallel(JobOf[w]) THEN n ELSE 0) \in Nat
  BY <1>2
<1> HIDE DEF n
<1>4. \A h \in Nat, l, x \in BOOLEAN : IdleWorker(h, l, x) \in WorkerRec
  BY DEF IdleWorker, WorkerRec
<1>5. workers[w].late \in BOOLEAN /\ workers[w].lost \in BOOLEAN
  BY <1>1 DEF WorkerRec
<1>6. IdleWorker(IF Parallel(JobOf[w]) THEN n ELSE 0, workers[w].late, workers[w].lost)
        \in WorkerRec
  BY <1>3, <1>4, <1>5
<1>7. \A r \in WorkerRec, p \in {"idle", "exit"} :
        [r EXCEPT !.pc = p] \in WorkerRec /\ [r EXCEPT !.pc = p].pc = p
  BY DEF WorkerRec
<1> QED BY <1>6, <1>7 DEF AfterItem, n

\* Tally only touches flags of the worker's job.
LEMMA TallyType ==
  ASSUME TypeOK, NEW w \in Workers, InDrain(w), Tally(w)
  PROVE  /\ jobs' \in [Jobs -> Job \cup {OffJob}]
         /\ \A j \in Jobs : /\ jobs'[j].pc = jobs[j].pc
                            /\ On(j) => /\ jobs'[j].wfile = jobs[j].wfile
                                        /\ jobs'[j].file = jobs[j].file
<1> DEFINE j == JobOf[w]
<1>1. j \in Jobs
  BY WorkersAssumption
<1>2. jobs[j] \in Job
  BY <1>1, OnJob DEF InDrain, On
<1>3. jobs \in [Jobs -> Job \cup {OffJob}]
  BY DEF TypeOK
<1> DEFINE p == jobs[j].progressed \/ workers[w].out = "done"
           f == jobs[j].failed \/ IsFailure(w)
           e == jobs[j].preempted \/ Preempts(w)
           r == [jobs[j] EXCEPT !.progressed = p, !.failed = f, !.preempted = e]
<1>4. jobs' = [jobs EXCEPT ![j] = r]
  BY <1>1, <1>3 DEF Tally
<1>5. p \in BOOLEAN /\ f \in BOOLEAN /\ e \in BOOLEAN
  OBVIOUS
<1> HIDE DEF j, p, f, e
<1>6. /\ r \in Job /\ r.pc = jobs[j].pc
      /\ r.wfile = jobs[j].wfile /\ r.file = jobs[j].file
  BY <1>2, <1>5 DEF Job
<1> QED BY <1>1, <1>3, <1>4, <1>6

LEMMA CountType ==
  ASSUME TypeOK, NEW e \in {"crash", "signal", "lost", "throttle", "admin"}, Count(e)
  PROVE  events' \in [crash: Nat, signal: Nat, lost: Nat, throttle: Nat, admin: Nat]
BY DEF TypeOK, Count

LEMMA OvertakeType ==
  ASSUME TypeOK, NEW q, Overtake(q)
  PROVE  taken' \subseteq Workers /\ strays' \in Nat
BY DEF TypeOK, Overtake, TakenBy

\* Every action of a run preserves the types.
LEMMA JobStepType ==
  ASSUME TypeOK, NEW j \in Jobs, JobStep(j)
  PROVE  TypeOK'
<1>0. /\ queue \in Table /\ path \in Files
      /\ jobs \in [Jobs -> Job \cup {OffJob}] /\ workers \in [Workers -> WorkerRec]
      /\ JobNs[j] \in Namespaces /\ JobOp[j] \in Operations
  BY JobsAssumption DEF TypeOK
<1>1. CASE StartJob(j)
  <2>1. \A o \in RunOptions :
          [pc |-> "prep", file |-> path, wfile |-> path, opts |-> o, page |-> {},
           first |-> TRUE, failed |-> FALSE, progressed |-> FALSE, preempted |-> FALSE,
           stop |-> FALSE, late |-> FALSE] \in Job
    BY <1>0 DEF Job, JobPc
  <2> QED BY <1>0, <1>1, <2>1 DEF StartJob, TypeOK
<1>2. CASE Prepare(j)
  <2>1. jobs[j] \in Job
    BY <1>2, OnJob DEF Prepare, On
  <2>2. [jobs[j] EXCEPT !.pc = "scan"] \in Job
    BY <2>1 DEF Job, JobPc
  <2>3. queue' \in Table
    BY <1>0, <1>2, PrepareTable DEF Prepare
  <2>4. taken' \subseteq Workers /\ strays' \in Nat
    BY <1>2, OvertakeType DEF Prepare
  <2> QED BY <1>0, <1>2, <2>2, <2>3, <2>4 DEF Prepare, TypeOK
<1>3. CASE Scan(j)
  <2>1. jobs[j] \in Job
    BY <1>3, OnJob DEF Scan, On
  <2>2. \A p \in SUBSET Keys : [jobs[j] EXCEPT !.pc = "enqueue", !.page = p] \in Job
    BY <2>1 DEF Job, JobPc
  <2>3. Candidates(j) \in SUBSET Keys
    BY DEF Candidates
  <2> QED BY <1>0, <1>3, <2>2, <2>3 DEF Scan, TypeOK
<1>4. CASE ScanTimeout(j)
  BY <1>0, <1>4, ScopeOps, OffTypes DEF ScanTimeout, TypeOK
<1>5. CASE Enqueue(j)
  <2>1. jobs[j] \in Job
    BY <1>5, OnJob DEF Enqueue, On
  <2>2. PICK k \in jobs[j].page, i \in Ids : Enqueue(j)!2!(k, i)
    BY <1>5 DEF Enqueue
  <2> DEFINE reopen == /\ jobs[j].opts.force_redescribe
                       /\ jobs[j].first
                       /\ JobOp[j] = "EntityDescriptions"
             q1 == IF reopen THEN ReopenForceRedescribe(queue, jobs[j].file, JobNs[j], k)
                   ELSE queue
  <2>3. q1 \in Table
    BY <1>0, ScopeOps
  <2>4. queue' = IF Exists(JobNs[j], JobOp[j], k)
                 THEN EnqueueCandidate(q1, i, jobs[j].file, JobNs[j], JobOp[j], k)
                 ELSE q1
    BY <2>2
  <2> HIDE DEF q1
  <2>5. k \in Keys /\ jobs[j].file \in Files
    BY <2>1 DEF Job
  <2>6. queue' \in Table
    BY <1>0, <2>3, <2>4, <2>5, InsertCold
  <2>7. [jobs[j] EXCEPT !.page = jobs[j].page \ {k}] \in Job
    BY <2>1 DEF Job
  <2> QED BY <1>0, <1>5, <2>2, <2>6, <2>7 DEF Enqueue, TypeOK
<1>6. CASE SpawnDrain(j)
  <2>1. jobs[j] \in Job
    BY <1>6, OnJob DEF SpawnDrain, On
  <2>2. \A f \in Files :
          [jobs[j] EXCEPT !.pc = "drain", !.progressed = FALSE, !.wfile = f] \in Job
    BY <2>1 DEF Job, JobPc
  <2>3. (IF Parallel(j) THEN path ELSE jobs[j].file) \in Files
    BY <1>0, <2>1 DEF Job
  <2>4. \A w \in Workers : IdleWorker(0, workers[w].late, FALSE) \in WorkerRec
    BY <1>0 DEF IdleWorker, WorkerRec
  <2>5. queue' \in Table
    BY <1>0, <1>6, ScopeOps DEF SpawnDrain
  <2>6. workers' \in [Workers -> WorkerRec]
    BY <1>0, <1>6, <2>4 DEF SpawnDrain
  <2>7. jobs' \in [Jobs -> Job \cup {OffJob}]
    BY <1>0, <1>6, <2>2, <2>3 DEF SpawnDrain
  <2> QED BY <1>6, <2>5, <2>6, <2>7 DEF SpawnDrain, TypeOK
<1>7. ASSUME NEW late \in BOOLEAN, Ended(j, late)
      PROVE  workers' \in [Workers -> WorkerRec]
  <2>1. \A l \in BOOLEAN : [OffWorker EXCEPT !.late = l] \in WorkerRec
    BY OffTypes DEF WorkerRec
  <2>2. \A w \in Workers : workers[w] \in WorkerRec
    BY <1>0
  <2> DEFINE rec(w) == IF JobOf[w] = j THEN [OffWorker EXCEPT !.late = late /\ workers[w].late]
                       ELSE workers[w]
  <2>3. \A w \in Workers : (late /\ workers[w].late) \in BOOLEAN
    OBVIOUS
  <2>4. \A w \in Workers : rec(w) \in WorkerRec
    BY <2>1, <2>2, <2>3, Zenon
  <2>5. workers' = [w \in Workers |-> rec(w)]
    BY <1>7, Zenon DEF Ended
  <2> HIDE DEF rec
  <2> QED BY <2>4, <2>5
<1>8. CASE JoinFailed(j)
  BY <1>0, <1>7, <1>8, ScopeOps, OffTypes DEF JoinFailed, TypeOK
<1>9. CASE Join(j)
  <2>1. jobs[j] \in Job
    BY <1>9, OnJob DEF Join, Joined, On
  <2>2. \A p \in {"scan", "finish"} :
          [jobs[j] EXCEPT !.pc = p, !.first = FALSE, !.wfile = jobs[j].file] \in Job
    BY <2>1 DEF Job, JobPc
  <2> DEFINE again == /\ jobs[j].opts.until_empty
                      /\ ~jobs[j].late
                      /\ jobs[j].progressed \/ EligibleIn(j, jobs[j].file) # {}
  <2>3. /\ jobs' = [jobs EXCEPT ![j].pc = IF again THEN "scan" ELSE "finish",
                                ![j].first = FALSE, ![j].wfile = jobs[j].file]
        /\ Ended(j, again /\ ~Parallel(j))
    BY <1>9 DEF Join
  <2> HIDE DEF again
  <2>4. workers' \in [Workers -> WorkerRec]
    BY <1>7, <2>3
  <2>5. jobs' \in [Jobs -> Job \cup {OffJob}]
    BY <1>0, <2>2, <2>3
  <2>6. queue' \in Table
    BY <1>0, <1>9, ScopeOps DEF Join
  <2> QED BY <1>9, <2>4, <2>5, <2>6 DEF Join, TypeOK
<1>10. CASE Finish(j)
  <2> DEFINE q1 == IF jobs[j].stop
                   THEN ResetProcessingForOp(queue, jobs[j].file, JobNs[j], JobOp[j])
                   ELSE queue
  <2>1. q1 \in Table
    BY <1>0, ScopeOps
  <2>2. \/ \E g \in Files :
             /\ path' = g
             /\ queue' = Collect(Freed(q1, g), g, jobs')
        \/ path' = path /\ queue' = Collect(q1, path, jobs')
    BY <1>10 DEF Finish
  <2> HIDE DEF q1
  <2>3. \A g : Freed(q1, g) \in Table
    BY <2>1, ScopeOps
  <2>4. \A t \in Table : \A g : Collect(t, g, jobs') \in Table
    BY ScopeOps
  <2>5. path' \in Files /\ queue' \in Table
    BY <1>0, <2>1, <2>2, <2>3, <2>4
  <2> QED BY <1>0, <1>10, <2>5, OffTypes DEF Finish, TypeOK
<1> QED BY <1>1, <1>2, <1>3, <1>4, <1>5, <1>6, <1>8, <1>9, <1>10 DEF JobStep

\* So do the steps of a worker,
LEMMA WorkerStepType ==
  ASSUME TypeOK, HoldInv, NEW w \in Workers,
         WorkerStep(w) \/ ClaimBusy(w) \/ WriteBackLost(w)
  PROVE  TypeOK'
<1>0. /\ queue \in Table /\ workers \in [Workers -> WorkerRec] /\ workers[w] \in WorkerRec
  BY DEF TypeOK
<1>1. CASE StopWorker(w)
  <2>1. [workers[w] EXCEPT !.pc = "exit"] \in WorkerRec
    BY <1>0 DEF WorkerRec
  <2> QED BY <1>0, <1>1, <2>1 DEF StopWorker, ExitWorker, TypeOK
<1>2. CASE Claim(w)
  <2>1. PICK i \in EligibleFor(w) :
          /\ queue' = DequeueNextPending(queue, i)
          /\ workers' = [workers EXCEPT ![w].pc = "claimed", ![w].id = i,
                                        ![w].key = queue[i].key,
                                        ![w].attempt = queue[i].attempt + 1]
    BY <1>2 DEF Claim
  <2>2. i \in Ids /\ queue[i] \in Row
    BY <1>0, <2>1, PresentRow DEF EligibleFor, EligibleIn, Eligible, InScope
  <2>3. queue[i].key \in Keys /\ queue[i].attempt + 1 \in Nat
    BY <2>2 DEF Row
  <2>4. ClaimedRow(queue[i]) \in Row
    BY <2>2, RowUpdates
  <2>5. queue' \in Table
    BY <1>0, <2>1, <2>2, <2>4 DEF DequeueNextPending, Table
  <2>6. \A k \in Keys, n \in Nat :
          [workers[w] EXCEPT !.pc = "claimed", !.id = i, !.key = k, !.attempt = n] \in WorkerRec
    BY <1>0, <2>2 DEF WorkerRec, Holding
  <2>7. workers' \in [Workers -> WorkerRec]
    BY <1>0, <2>1, <2>3, <2>6
  <2>8. taken' \subseteq Workers
    BY <1>2 DEF Claim, TypeOK
  <2> QED BY <1>2, <2>5, <2>7, <2>8 DEF Claim, TypeOK
<1>3. CASE BeatOnce(w)
  <2>1. workers[w].id \in Ids
    BY <1>3 DEF BeatOnce, HoldInv, Holding
  <2>2. [workers[w] EXCEPT !.pc = "calling"] \in WorkerRec
    BY <1>0 DEF WorkerRec, Holding
  <2>3. queue' \in Table
    BY <1>0, <1>3, <2>1, IdOps DEF BeatOnce
  <2> QED BY <1>0, <1>3, <2>2, <2>3 DEF BeatOnce, TypeOK
<1>4. CASE Call(w)
  <2>1. \A out \in Outcomes :
          [workers[w] EXCEPT !.pc = "returned", !.out = out] \in WorkerRec
    BY <1>0 DEF WorkerRec, Holding
  <2>2. workers' \in [Workers -> WorkerRec]
    BY <1>0, <1>4, <2>1 DEF Call
  <2>3. todo' \subseteq Namespaces \X Operations \X Keys
    BY <1>4 DEF Call, TypeOK
  <2>4. events' \in [crash: Nat, signal: Nat, lost: Nat, throttle: Nat, admin: Nat]
    BY <1>4, CountType DEF Call, TypeOK
  <2> QED BY <1>4, <2>2, <2>3, <2>4 DEF Call, TypeOK
<1>5. CASE WriteBack(w)
  <2>1. workers[w].id \in Ids /\ InDrain(w)
    BY <1>5 DEF WriteBack, HoldInv, Holding
  <2>2. queue' \in Table
    BY <1>0, <1>5, <2>1, IdOps DEF WriteBack
  <2>3. workers' \in [Workers -> WorkerRec]
    BY <1>0, <1>5, AfterItemType DEF WriteBack
  <2>4. jobs' \in [Jobs -> Job \cup {OffJob}]
    BY <1>5, <2>1, TallyType DEF WriteBack
  <2>5. taken' \subseteq Workers /\ strays' \in Nat
    BY <1>5 DEF WriteBack, TypeOK
  <2> QED BY <1>5, <2>2, <2>3, <2>4, <2>5 DEF WriteBack, TypeOK
<1>6. CASE ClaimBusy(w)
  <2>1. [workers[w] EXCEPT !.pc = "exit", !.busy = TRUE] \in WorkerRec
    BY <1>0 DEF WorkerRec
  <2> QED BY <1>0, <1>6, <2>1, CountType DEF ClaimBusy, TypeOK
<1>7. CASE WriteBackLost(w)
  <2>1. InDrain(w)
    BY <1>7 DEF WriteBackLost, HoldInv, Holding
  <2>2. \A l \in BOOLEAN : [AfterItem(w) EXCEPT !.lost = l] \in WorkerRec
    BY AfterItemType DEF WorkerRec
  <2>3. workers' \in [Workers -> WorkerRec]
    BY <1>0, <1>7, <2>2 DEF WriteBackLost
  <2>4. jobs' \in [Jobs -> Job \cup {OffJob}]
    BY <1>7, <2>1, TallyType DEF WriteBackLost
  <2> QED BY <1>7, <2>3, <2>4, CountType DEF WriteBackLost, TypeOK
<1> QED BY <1>1, <1>2, <1>3, <1>4, <1>5, <1>6, <1>7 DEF WorkerStep

\* signals, crashes and the passage of time,
LEMMA EnvStepType ==
  ASSUME TypeOK,
         \/ \E j \in Jobs : Signal(j) \/ Crash(j)
         \/ Time
  PROVE  TypeOK'
<1>0. /\ queue \in Table /\ path \in Files
      /\ jobs \in [Jobs -> Job \cup {OffJob}] /\ workers \in [Workers -> WorkerRec]
  BY DEF TypeOK
<1>1. ASSUME NEW j \in Jobs, Signal(j) PROVE TypeOK'
  <2>1. [jobs[j] EXCEPT !.stop = TRUE] \in Job
    BY <1>1, OnJob DEF Signal, Job
  <2> QED BY <1>0, <1>1, <2>1, CountType DEF Signal, TypeOK
<1>2. ASSUME NEW j \in Jobs, Crash(j) PROVE TypeOK'
  <2>1. \A w \in Workers : [OffWorker EXCEPT !.late = FALSE] \in WorkerRec
    BY OffTypes DEF OffWorker, IdleWorker, WorkerRec
  <2>2. workers' \in [Workers -> WorkerRec]
    BY <1>0, <1>2, <2>1 DEF Crash, Ended
  <2>3. queue' \in Table
    BY <1>0, <1>2, ScopeOps DEF Crash
  <2> QED BY <1>0, <1>2, <2>2, <2>3, OffTypes, CountType DEF Crash, TypeOK
<1>3. ASSUME NEW i \in Ids, AgeClaim(i) PROVE TypeOK'
  <2>1. [queue[i] EXCEPT !.claim = "stale"] \in Row
    BY <1>0, <1>3, PresentRow DEF AgeClaim, Row
  <2>2. queue' \in Table
    BY <1>0, <1>3, <2>1 DEF AgeClaim, Table
  <2> QED BY <1>3, <2>2 DEF AgeClaim, TypeOK
<1>4. ASSUME NEW i \in Ids, CoolDown(i) PROVE TypeOK'
  <2>1. [queue[i] EXCEPT !.cooling = FALSE] \in Row
    BY <1>0, <1>4, PresentRow DEF CoolDown, Row
  <2>2. queue' \in Table
    BY <1>0, <1>4, <2>1 DEF CoolDown, Table
  <2> QED BY <1>4, <2>2 DEF CoolDown, TypeOK
<1>5. ASSUME NEW j \in Jobs, RunDeadline(j) PROVE TypeOK'
  <2>1. [jobs[j] EXCEPT !.late = TRUE] \in Job
    BY <1>5, OnJob DEF RunDeadline, Job
  <2> QED BY <1>0, <1>5, <2>1 DEF RunDeadline, TypeOK
<1>6. ASSUME NEW w \in Workers, ThrottleDeadline(w) PROVE TypeOK'
  <2>1. [workers[w] EXCEPT !.late = TRUE] \in WorkerRec
    BY <1>0 DEF WorkerRec
  <2> QED BY <1>0, <1>6, <2>1 DEF ThrottleDeadline, TypeOK
<1> QED BY <1>1, <1>2, <1>3, <1>4, <1>5, <1>6 DEF Time

\* and the other commands.
LEMMA CommandType ==
  ASSUME TypeOK, Command
  PROVE  TypeOK'
<1>0. queue \in Table /\ path \in Files
  BY DEF TypeOK
<1>1. events' \in [crash: Nat, signal: Nat, lost: Nat, throttle: Nat, admin: Nat]
  BY CountType DEF Command, RequeueDeadCmd, RequeueSkippedCmd, PruneDeadOrphansCmd,
     PruneDeadEntityOrphansCmd, ResetStaleClaimsCmd, EnqueueHotCmd, ForgetCmd, RenameAwayCmd,
     DeleteEntityCmd, EditCmd, RememberMergeCmd, Admin
<1>2. ASSUME NEW ns \in Namespaces, NEW op \in Operations,
             \/ RequeueDeadCmd(ns, op) \/ RequeueSkippedCmd(ns, op)
             \/ PruneDeadOrphansCmd(ns, op) \/ PruneDeadEntityOrphansCmd(ns, op)
      PROVE  TypeOK'
  <2>1. queue' \in Table
    BY <1>0, <1>2, ScopeOps DEF RequeueDeadCmd, RequeueSkippedCmd, PruneDeadOrphansCmd,
       PruneDeadEntityOrphansCmd
  <2> QED BY <1>1, <1>2, <2>1 DEF RequeueDeadCmd, RequeueSkippedCmd, PruneDeadOrphansCmd,
          PruneDeadEntityOrphansCmd, TypeOK
<1>3. CASE ResetStaleClaimsCmd
  <2>1. queue' \in Table
    BY <1>0, <1>3, ScopeOps DEF ResetStaleClaimsCmd
  <2>2. taken' \subseteq Workers /\ strays' \in Nat
    BY <1>3, OvertakeType DEF ResetStaleClaimsCmd
  <2> QED BY <1>1, <1>3, <2>1, <2>2 DEF ResetStaleClaimsCmd, TypeOK
<1>4. ASSUME NEW k \in HotKeys, EnqueueHotCmd(k) PROVE TypeOK'
  <2>1. k \in Keys
    BY BoundsAssumption
  <2>2. \A i \in Ids : EnqueueWithPriority(queue, i, path, k) \in Table
    BY <1>0, <2>1, InsertHot
  <2>3. queue' \in Table
    BY <1>4, <2>2 DEF EnqueueHotCmd
  <2>4. taken' \subseteq Workers /\ strays' \in Nat
    BY <1>4, OvertakeType DEF EnqueueHotCmd
  <2> QED BY <1>1, <1>4, <2>3, <2>4 DEF EnqueueHotCmd, TypeOK
<1>5. ASSUME NEW ns \in Namespaces, NEW k \in Keys,
             \/ ForgetCmd(ns, k) \/ RenameAwayCmd(ns, k) \/ DeleteEntityCmd(ns, k)
             \/ EditCmd(ns, k) \/ RememberMergeCmd(ns, k)
      PROVE  TypeOK'
  <2>1. queue' \in Table
    BY <1>0, <1>5, ScopeOps DEF ForgetCmd, RenameAwayCmd, DeleteEntityCmd, EditCmd,
       RememberMergeCmd
  <2>2. live' \subseteq live
    BY <1>5 DEF ForgetCmd, RenameAwayCmd, DeleteEntityCmd, EditCmd, RememberMergeCmd, Removed
  <2>3. todo' \subseteq todo \cup {<<ns, op, k>> : op \in Operations}
    BY <1>5 DEF ForgetCmd, RenameAwayCmd, DeleteEntityCmd, EditCmd, RememberMergeCmd,
       Removed, Rewritten
  <2>4. {<<ns, op, k>> : op \in Operations} \subseteq Namespaces \X Operations \X Keys
    OBVIOUS
  <2> QED BY <1>1, <1>5, <2>1, <2>2, <2>3, <2>4
          DEF ForgetCmd, RenameAwayCmd, DeleteEntityCmd, EditCmd, RememberMergeCmd, TypeOK
<1> QED BY <1>2, <1>3, <1>4, <1>5 DEF Command

LEMMA NextType ==
  ASSUME TypeOK, HoldInv, [Next]_vars
  PROVE  TypeOK'
<1>1. CASE UNCHANGED vars
  BY <1>1 DEF vars, TypeOK
<1> QED BY <1>1, JobStepType, WorkerStepType, EnvStepType, CommandType DEF Next, Fault

\* A write-back, lost or not, leaves the worker without a row.
LEMMA WriteBackLets ==
  ASSUME TypeOK, NEW w \in Workers, WriteBack(w) \/ WriteBackLost(w)
  PROVE  workers'[w].pc \notin Holding
<1>0. workers \in [Workers -> WorkerRec]
  BY DEF TypeOK
<1>1. CASE WriteBack(w)
  BY <1>0, <1>1, AfterItemType DEF WriteBack, Holding
<1>2. CASE WriteBackLost(w)
  <2>1. \A l : [AfterItem(w) EXCEPT !.lost = l].pc = AfterItem(w).pc
    BY AfterItemType DEF WorkerRec
  <2>2. \E l : workers' = [workers EXCEPT ![w] = [AfterItem(w) EXCEPT !.lost = l]]
    BY <1>2 DEF WriteBackLost
  <2> QED BY <1>0, <2>1, <2>2, AfterItemType DEF Holding
<1> QED BY <1>1, <1>2

\* Workers hold rows only inside a drain: a job leaves the drain when all of its
\* threads have exited, or takes them with it.
LEMMA NextHold ==
  ASSUME TypeOK, HoldInv, [Next]_vars
  PROVE  HoldInv'
<1> USE DEF HoldInv, InDrain
<1>0. /\ jobs \in [Jobs -> Job \cup {OffJob}] /\ workers \in [Workers -> WorkerRec]
      /\ JobOf \in [Workers -> Jobs]
  BY WorkersAssumption DEF TypeOK
<1>1. CASE UNCHANGED vars
  BY <1>1 DEF vars
<1>2. CASE Command
  BY <1>2 DEF Command, RequeueDeadCmd, RequeueSkippedCmd, PruneDeadOrphansCmd,
     PruneDeadEntityOrphansCmd, ResetStaleClaimsCmd, EnqueueHotCmd, ForgetCmd, RenameAwayCmd,
     DeleteEntityCmd, EditCmd, RememberMergeCmd
<1>3. ASSUME NEW j \in Jobs,
             \/ StartJob(j) \/ Prepare(j) \/ Scan(j) \/ ScanTimeout(j)
             \/ Enqueue(j) \/ Finish(j)
      PROVE  HoldInv'
  <2>1. jobs[j].pc # "drain"
    BY <1>3 DEF StartJob, Prepare, Scan, ScanTimeout, Enqueue, Finish, On
  <2>2. \A k \in Jobs \ {j} : jobs'[k] = jobs[k]
    BY <1>0, <1>3 DEF StartJob, Prepare, Scan, ScanTimeout, Enqueue, Finish
  <2>3. UNCHANGED workers
    BY <1>3 DEF StartJob, Prepare, Scan, ScanTimeout, Enqueue, Finish
  <2> QED BY <1>0, <2>1, <2>2, <2>3
<1>4. ASSUME NEW j \in Jobs, SpawnDrain(j) \/ JoinFailed(j) \/ Join(j) \/ Crash(j)
      PROVE  HoldInv'
  <2>1. \A k \in Jobs \ {j} : jobs'[k] = jobs[k]
    BY <1>0, <1>4 DEF SpawnDrain, JoinFailed, Join, Crash
  <2>2. \A w \in Workers : JobOf[w] = j => workers'[w].pc \notin Holding
    <3>1. \A x, y : /\ IdleWorker(0, x, y).pc = "idle"
                    /\ [OffWorker EXCEPT !.late = x].pc = "exit"
      BY DEF IdleWorker, OffWorker
    <3>2. CASE SpawnDrain(j)
      BY <1>0, <3>1, <3>2 DEF SpawnDrain, WorkersOf, Holding
    <3>3. ASSUME NEW late, Ended(j, late)
          PROVE  \A w \in Workers : JobOf[w] = j => workers'[w].pc \notin Holding
      BY <3>1, <3>3 DEF Ended, Holding
    <3> QED BY <1>4, <3>2, <3>3 DEF JoinFailed, Join, Crash
  <2>3. \A w \in Workers : JobOf[w] # j => workers'[w] = workers[w]
    BY <1>0, <1>4 DEF SpawnDrain, WorkersOf, JoinFailed, Join, Crash, Ended
  <2> QED BY <1>0, <2>1, <2>2, <2>3
<1>5. ASSUME NEW w \in Workers, StopWorker(w) \/ Claim(w) \/ ClaimBusy(w) \/ BeatOnce(w) \/ Call(w)
      PROVE  HoldInv'
  <2>1. InDrain(w) /\ UNCHANGED jobs
    BY <1>5 DEF StopWorker, Claim, ClaimBusy, BeatOnce, Call, Holding
  <2>2. \A v \in Workers \ {w} : workers'[v] = workers[v]
    BY <1>0, <1>5 DEF StopWorker, ExitWorker, Claim, ClaimBusy, BeatOnce, Call
  <2>3. workers'[w].pc \in Holding => workers'[w].id \in Ids
    <3>1. CASE Claim(w)
      BY <1>0, <3>1 DEF Claim, EligibleFor, EligibleIn, Eligible
    <3>2. CASE BeatOnce(w) \/ Call(w)
      BY <1>0, <3>2 DEF BeatOnce, Call, Holding, WorkerRec
    <3>3. CASE StopWorker(w) \/ ClaimBusy(w)
      BY <1>0, <3>3 DEF StopWorker, ExitWorker, ClaimBusy, Holding, WorkerRec
    <3> QED BY <1>5, <3>1, <3>2, <3>3
  <2> QED BY <1>0, <2>1, <2>2, <2>3
<1>6. ASSUME NEW w \in Workers, WriteBack(w) \/ WriteBackLost(w)
      PROVE  HoldInv'
  <2>1. InDrain(w) /\ Tally(w)
    BY <1>6 DEF WriteBack, WriteBackLost, Holding
  <2>2. \A j \in Jobs : jobs'[j].pc = jobs[j].pc
    BY <2>1, TallyType
  <2>3. \A v \in Workers \ {w} : workers'[v] = workers[v]
    BY <1>0, <1>6 DEF WriteBack, WriteBackLost
  <2>4. workers'[w].pc \notin Holding
    BY <1>6, WriteBackLets
  <2> QED BY <1>0, <2>2, <2>3, <2>4
<1>7. ASSUME NEW j \in Jobs, Signal(j) \/ RunDeadline(j)
      PROVE  HoldInv'
  <2>1. jobs[j] \in Job
    BY <1>7, OnJob DEF Signal, RunDeadline
  <2>2. \A k \in Jobs : jobs'[k].pc = jobs[k].pc
    BY <1>0, <1>7, <2>1 DEF Signal, RunDeadline, Job
  <2> QED BY <1>0, <1>7, <2>2 DEF Signal, RunDeadline
<1>8. ASSUME NEW w \in Workers, ThrottleDeadline(w)
      PROVE  HoldInv'
  BY <1>0, <1>8 DEF ThrottleDeadline, WorkerRec
<1>9. ASSUME NEW i \in Ids, AgeClaim(i) \/ CoolDown(i)
      PROVE  HoldInv'
  BY <1>9 DEF AgeClaim, CoolDown
<1> QED BY <1>1, <1>2, <1>3, <1>4, <1>5, <1>6, <1>7, <1>8, <1>9
        DEF Next, JobStep, WorkerStep, Fault, Time

LEMMA InitType == Init => TypeOK /\ HoldInv
<1> SUFFICES ASSUME Init PROVE TypeOK /\ HoldInv
  OBVIOUS
<1>1. queue \in Table
  BY DEF Init, Table
<1>2. workers \in [Workers -> WorkerRec] /\ jobs \in [Jobs -> Job \cup {OffJob}]
  BY OffTypes DEF Init
<1>3. todo \subseteq Namespaces \X Operations \X Keys
  BY JobsAssumption DEF Init
<1>4. HoldInv
  BY DEF Init, HoldInv, OffWorker, IdleWorker, Holding
<1> QED BY <1>1, <1>2, <1>3, <1>4 DEF Init, TypeOK

\* Every reachable state of the queue, its runs, workers and commands is well
\* typed: in particular no write-back by id ever leaves a malformed row.
THEOREM TypeCorrect == Spec => []TypeOK
<1>1. TypeOK /\ HoldInv /\ [Next]_vars => (TypeOK /\ HoldInv)'
  BY NextType, NextHold
<1> QED BY <1>1, InitType, PTL DEF Spec

\* Only StartJob turns a job on, and it checks the singleton.
LEMMA NextSingleton ==
  ASSUME TypeOK, HoldInv, SingletonInv, [Next]_vars
  PROVE  SingletonInv'
<1> USE DEF SingletonInv, On
<1>0. jobs \in [Jobs -> Job \cup {OffJob}] /\ OffJob.pc = "off"
  BY DEF TypeOK, OffJob
<1>1. ASSUME NEW j \in Jobs, StartJob(j) PROVE SingletonInv'
  <2>1. \A k \in Jobs \ {j} : jobs'[k] = jobs[k]
    BY <1>0, <1>1 DEF StartJob
  <2> QED BY <1>1, <2>1 DEF StartJob
<1>2. ASSUME \A k \in Jobs : jobs'[k].pc # "off" => jobs[k].pc # "off"
      PROVE  SingletonInv'
  BY <1>2
<1>3. ASSUME NEW j \in Jobs,
             \/ Prepare(j) \/ Scan(j) \/ Enqueue(j) \/ SpawnDrain(j) \/ Join(j)
             \/ Signal(j) \/ RunDeadline(j)
      PROVE  \A k \in Jobs : jobs'[k].pc # "off" => jobs[k].pc # "off"
  <2>1. \A k \in Jobs \ {j} : jobs'[k] = jobs[k]
    BY <1>0, <1>3 DEF Prepare, Scan, Enqueue, SpawnDrain, Join, Signal, RunDeadline
  <2>2. jobs[j].pc # "off"
    BY <1>3 DEF Prepare, Scan, Enqueue, SpawnDrain, Join, Joined, Signal, RunDeadline
  <2> QED BY <2>1, <2>2
<1>4. ASSUME NEW j \in Jobs, ScanTimeout(j) \/ JoinFailed(j) \/ Finish(j) \/ Crash(j)
      PROVE  \A k \in Jobs : jobs'[k].pc # "off" => jobs[k].pc # "off"
  BY <1>0, <1>4 DEF ScanTimeout, JoinFailed, Finish, Crash
<1>5. ASSUME NEW w \in Workers, WriteBack(w) \/ WriteBackLost(w)
      PROVE  \A k \in Jobs : jobs'[k].pc # "off" => jobs[k].pc # "off"
  BY <1>5, TallyType DEF WriteBack, WriteBackLost, HoldInv, Holding
<1>6. ASSUME UNCHANGED jobs
      PROVE  SingletonInv'
  BY <1>6
<1>7. ASSUME NEW w \in Workers,
             \/ StopWorker(w) \/ Claim(w) \/ ClaimBusy(w) \/ BeatOnce(w) \/ Call(w)
             \/ ThrottleDeadline(w)
      PROVE  UNCHANGED jobs
  BY <1>7 DEF StopWorker, Claim, ClaimBusy, BeatOnce, Call, ThrottleDeadline
<1>8. CASE Command
  BY <1>8 DEF Command, RequeueDeadCmd, RequeueSkippedCmd, PruneDeadOrphansCmd,
     PruneDeadEntityOrphansCmd, ResetStaleClaimsCmd, EnqueueHotCmd, ForgetCmd, RenameAwayCmd,
     DeleteEntityCmd, EditCmd, RememberMergeCmd
<1>9. ASSUME NEW i \in Ids, AgeClaim(i) \/ CoolDown(i)
      PROVE  UNCHANGED jobs
  BY <1>9 DEF AgeClaim, CoolDown
<1>10. CASE UNCHANGED vars
  BY <1>10 DEF vars
<1> QED BY <1>1, <1>2, <1>3, <1>4, <1>5, <1>6, <1>7, <1>8, <1>9, <1>10
        DEF Next, JobStep, WorkerStep, Fault, Time

-----------------------------------------------------------------------------
(* The identity of rows *)

\* What the UNIQUE index of the table ranges over.
Triple(r) == <<r.file, r.ns, r.op, r.key>>

\* From q to p rows may disappear, but none appears or changes its triple.
SameRows(q, p) ==
  \A i \in Ids : Present(p, i) => Present(q, i) /\ Triple(p[i]) = Triple(q[i])

\* From q to p row n appears besides, under a triple q does not have.
OneMore(q, p, n) ==
  /\ \A i \in Ids : i # n /\ Present(p, i) => Present(q, i) /\ Triple(p[i]) = Triple(q[i])
  /\ \A i \in Ids : Present(q, i) => Triple(q[i]) # Triple(p[n])

LEMMA TripleKept ==
  ASSUME NEW r \in Row
  PROVE  /\ Triple(ClaimedRow(r)) = Triple(r)
         /\ Triple(HeartbeatRow(r)) = Triple(r)
         /\ Triple(DoneRow(r)) = Triple(r)
         /\ Triple(SkippedRow(r)) = Triple(r)
         /\ Triple(PendingRow(r)) = Triple(r)
         /\ Triple(DeadRow(r)) = Triple(r)
         /\ Triple(BackoffRow(r)) = Triple(r)
         /\ Triple(ReleasedRow(r)) = Triple(r)
         /\ Triple(ReopenedRow(r)) = Triple(r)
         /\ Triple(HotRow(r)) = Triple(r)
         /\ Triple(RequeuedRow(r)) = Triple(r)
         /\ Triple([r EXCEPT !.claim = "stale"]) = Triple(r)
         /\ Triple([r EXCEPT !.cooling = FALSE]) = Triple(r)
BY DEF Row, Triple, ClaimedRow, HeartbeatRow, DoneRow, SkippedRow, PendingRow, DeadRow,
   BackoffRow, ReleasedRow, ReopenedRow, HotRow, RequeuedRow

LEMMA SameRowsTransitive ==
  ASSUME NEW q, NEW p, NEW r, SameRows(q, p), SameRows(p, r)
  PROVE  SameRows(q, r)
BY DEF SameRows

LEMMA SameRowsReflexive == \A q : SameRows(q, q)
BY DEF SameRows

\* Deleting and updating statements.
LEMMA StatementsKeepTriples ==
  ASSUME NEW q \in Table, NEW f, NEW ns, NEW op
  PROVE  /\ SameRows(q, ResetStaleProcessingClaims(q, f))
         /\ SameRows(q, ResetProcessingForOp(q, f, ns, op))
         /\ SameRows(q, ClearOp(q, f, ns, op))
         /\ \A k : SameRows(q, ReopenForceRedescribe(q, f, ns, k))
         /\ SameRows(q, RequeueDead(q, f, ns, op))
         /\ SameRows(q, RequeueSkipped(q, f, ns, op))
         /\ \A l : SameRows(q, PruneDeadOrphans(q, f, ns, op, l))
         /\ SameRows(q, PruneDeadEntityOrphans(q, f, ns, op))
         /\ \A k : SameRows(q, CleanupQueueEntry(q, f, k))
         /\ \A js : SameRows(q, Collect(q, f, js))
         /\ SameRows(q, Freed(q, f))
<1>0. \A i \in Ids : Present(q, i) => q[i] \in Row
  BY PresentRow
<1>1. SameRows(q, ResetStaleProcessingClaims(q, f))
  BY <1>0, TripleKept DEF SameRows, ResetStaleProcessingClaims, UpdateWhere, Present
<1>2. SameRows(q, ResetProcessingForOp(q, f, ns, op))
  BY <1>0, TripleKept DEF SameRows, ResetProcessingForOp, UpdateWhere, Present, InScope
<1>3. \A k : SameRows(q, ReopenForceRedescribe(q, f, ns, k))
  BY <1>0, TripleKept DEF SameRows, ReopenForceRedescribe, UpdateWhere, Present, InScope
<1>4. SameRows(q, RequeueDead(q, f, ns, op)) /\ SameRows(q, RequeueSkipped(q, f, ns, op))
  BY <1>0, TripleKept DEF SameRows, RequeueDead, RequeueSkipped, UpdateWhere, Present, InScope
<1>5. SameRows(q, ClearOp(q, f, ns, op))
  BY DEF SameRows, ClearOp, DeleteWhere, Present, NoRow
<1>6. \A l : SameRows(q, PruneDeadOrphans(q, f, ns, op, l))
  BY DEF SameRows, PruneDeadOrphans, DeleteWhere, Present, NoRow
<1>7. SameRows(q, PruneDeadEntityOrphans(q, f, ns, op))
  BY DEF SameRows, PruneDeadEntityOrphans, DeleteWhere, Present, NoRow
<1>8. \A k : SameRows(q, CleanupQueueEntry(q, f, k))
  BY DEF SameRows, CleanupQueueEntry, DeleteWhere, Present, NoRow
<1>9. \A js : SameRows(q, Collect(q, f, js))
  BY DEF SameRows, Collect, DeleteWhere, Present, NoRow
<1>10. SameRows(q, Freed(q, f))
  BY DEF SameRows, Freed, DeleteWhere, Present, NoRow
<1> QED BY <1>1, <1>2, <1>3, <1>4, <1>5, <1>6, <1>7, <1>8, <1>9, <1>10

\* Statements by id.
LEMMA IdOpsKeepTriples ==
  ASSUME NEW q \in Table, NEW i \in Ids
  PROVE  /\ SameRows(q, Heartbeat(q, i))
         /\ SameRows(q, MarkDone(q, i))
         /\ SameRows(q, MarkSkipped(q, i))
         /\ SameRows(q, RequeueRateLimited(q, i))
         /\ \A att, out : SameRows(q, RecordItemFailure(q, i, att, out))
         /\ Present(q, i) => SameRows(q, DequeueNextPending(q, i))
<1>1. CASE ~Present(q, i)
  BY <1>1, SameRowsReflexive DEF Heartbeat, MarkDone, MarkSkipped, RequeueRateLimited,
     RecordItemFailure, UpdateById
<1>2. CASE Present(q, i)
  <2>1. q[i] \in Row
    BY <1>2, PresentRow
  <2>2. \A r : Triple(r) = Triple(q[i]) => SameRows(q, [q EXCEPT ![i] = r])
    BY <1>2 DEF SameRows, Present, Table
  <2> QED BY <1>2, <2>1, <2>2, TripleKept DEF Heartbeat, MarkDone, MarkSkipped,
          RequeueRateLimited, RecordItemFailure, UpdateById, DequeueNextPending
<1> QED BY <1>1, <1>2

LEMMA PrepareKeepsTriples ==
  ASSUME NEW q \in Table, NEW f, NEW ns, NEW op, NEW o
  PROVE  SameRows(q, PrepareQueue(q, f, ns, op, o))
<1> DEFINE swept   == ResetStaleProcessingClaims(q, f)
           resumed == IF o.resume THEN ResetProcessingForOp(swept, f, ns, op) ELSE swept
<1>1. swept \in Table /\ SameRows(q, swept)
  BY ScopeOps, StatementsKeepTriples
<1>2. resumed \in Table /\ SameRows(swept, resumed)
  <2>1. ResetProcessingForOp(swept, f, ns, op) \in Table
    BY <1>1, ScopeOps
  <2>2. SameRows(swept, ResetProcessingForOp(swept, f, ns, op)) /\ SameRows(swept, swept)
    BY <1>1, StatementsKeepTriples, SameRowsReflexive
  <2> QED BY <1>1, <2>1, <2>2
<1>3. SameRows(q, resumed)
  BY <1>1, <1>2, SameRowsTransitive
<1> HIDE DEF resumed
<1>4. SameRows(resumed, ClearOp(resumed, f, ns, op))
  BY <1>2, StatementsKeepTriples
<1>5. SameRows(q, ClearOp(resumed, f, ns, op))
  BY <1>3, <1>4, SameRowsTransitive
<1> QED BY <1>3, <1>5 DEF PrepareQueue, resumed

\* INSERT OR IGNORE adds a row only where the index has no such triple.
LEMMA InsertIsNew ==
  ASSUME NEW q \in Table, NEW i \in Ids, NEW f, NEW ns, NEW op, NEW k, NEW hot,
         ~InQueue(q, f, ns, op, k)
  PROVE  OneMore(q, [q EXCEPT ![i] = NewRow(f, ns, op, k, hot)], i)
<1> DEFINE p == [q EXCEPT ![i] = NewRow(f, ns, op, k, hot)]
<1>1. p[i] = NewRow(f, ns, op, k, hot) /\ \A m \in Ids \ {i} : p[m] = q[m]
  BY DEF Table
<1>2. Triple(p[i]) = <<f, ns, op, k>>
  BY <1>1 DEF NewRow, Triple
<1>3. ASSUME NEW m \in Ids, Present(q, m) PROVE Triple(q[m]) # <<f, ns, op, k>>
  BY <1>3 DEF InQueue, InScope, Triple
<1> HIDE DEF p
<1>4. \A m \in Ids \ {i} : Present(p, m) <=> Present(q, m)
  BY <1>1 DEF Present
<1> QED BY <1>1, <1>2, <1>3, <1>4 DEF OneMore, p

LEMMA OneMoreThenSame ==
  ASSUME NEW q, NEW p, NEW r, NEW n \in Ids, OneMore(q, p, n), SameRows(p, r)
  PROVE  SameRows(q, r) \/ OneMore(q, r, n)
<1>1. CASE Present(r, n)
  BY <1>1 DEF OneMore, SameRows
<1>2. CASE ~Present(r, n)
  BY <1>2 DEF OneMore, SameRows
<1> QED BY <1>1, <1>2

-----------------------------------------------------------------------------
(* UNIQUE (namespace, operation, item_key) *)

\* No row has this id and no worker works under it.
Unused(n) == ~Present(queue, n) /\ ~\E w \in Workers : Holds(w, n)

\* The steps of a run: one row may be new, under the id the step picks.
LEMMA JobStepTriples ==
  ASSUME TypeOK, NEW j \in Jobs, JobStep(j) \/ Crash(j)
  PROVE  SameRows(queue, queue') \/ \E n \in Ids : Unused(n) /\ OneMore(queue, queue', n)
<1>0. queue \in Table
  BY DEF TypeOK
<1>1. CASE StartJob(j) \/ Scan(j)
  BY <1>1, SameRowsReflexive DEF StartJob, Scan
<1>2. CASE Prepare(j)
  BY <1>0, <1>2, PrepareKeepsTriples DEF Prepare
<1>3. CASE ScanTimeout(j) \/ SpawnDrain(j) \/ JoinFailed(j) \/ Join(j) \/ Crash(j)
  <2>1. queue' = Collect(queue, path, jobs')
    BY <1>3 DEF ScanTimeout, SpawnDrain, JoinFailed, Join, Crash
  <2> QED BY <1>0, <2>1, StatementsKeepTriples
<1>4. CASE Enqueue(j)
  <2>1. PICK k \in jobs[j].page, n \in Ids : Enqueue(j)!2!(k, n)
    BY <1>4 DEF Enqueue
  <2> DEFINE f == jobs[j].file
             reopen == /\ jobs[j].opts.force_redescribe
                       /\ jobs[j].first
                       /\ JobOp[j] = "EntityDescriptions"
             q1 == IF reopen THEN ReopenForceRedescribe(queue, f, JobNs[j], k) ELSE queue
  <2>2. q1 \in Table /\ SameRows(queue, q1)
    BY <1>0, ScopeOps, StatementsKeepTriples, SameRowsReflexive
  <2>3. queue' = q1 \/ queue' = EnqueueCandidate(q1, n, f, JobNs[j], JobOp[j], k)
    BY <2>1
  <2>4. Unused(n)
    BY <2>1 DEF NextId, FreshId, Unused
  <2>5. \A i \in Ids : Present(q1, i) <=> Present(queue, i)
    <3>1. q1 = queue \/ \A i \in Ids : q1[i] = queue[i] \/ q1[i] = ReopenedRow(queue[i])
      BY DEF ReopenForceRedescribe, UpdateWhere
    <3>2. \A i \in Ids : Present(queue, i) => ReopenedRow(queue[i]).status = "pending"
      BY <1>0, PresentRow DEF ReopenedRow, Row
    <3> QED BY <2>2, <3>1, <3>2 DEF SameRows, Present
  <2>6. \A i \in Ids : Present(queue, i) => Triple(q1[i]) = Triple(queue[i])
    BY <2>2, <2>5 DEF SameRows
  <2> HIDE DEF q1
  <2>7. CASE queue' = q1
    BY <2>2, <2>7
  <2>8. CASE queue' = EnqueueCandidate(q1, n, f, JobNs[j], JobOp[j], k) /\ queue' # q1
    <3>1. ~InQueue(q1, f, JobNs[j], JobOp[j], k)
      BY <2>8 DEF EnqueueCandidate
    <3>2. OneMore(q1, queue', n)
      BY <2>2, <2>8, <3>1, InsertIsNew DEF EnqueueCandidate
    <3>3. OneMore(queue, queue', n)
      BY <2>5, <2>6, <3>2 DEF OneMore
    <3> QED BY <2>4, <3>3
  <2> QED BY <2>3, <2>7, <2>8
<1>5. CASE Finish(j)
  <2> DEFINE q1 == IF jobs[j].stop
                   THEN ResetProcessingForOp(queue, jobs[j].file, JobNs[j], JobOp[j])
                   ELSE queue
  <2>1. q1 \in Table /\ SameRows(queue, q1)
    BY <1>0, ScopeOps, StatementsKeepTriples, SameRowsReflexive
  <2>2. \/ \E g \in Files : queue' = Collect(Freed(q1, g), g, jobs')
        \/ queue' = Collect(q1, path, jobs')
    BY <1>5 DEF Finish
  <2> HIDE DEF q1
  <2>3. ASSUME NEW g \in Files, queue' = Collect(Freed(q1, g), g, jobs')
        PROVE  SameRows(queue, queue')
    <3>1. SameRows(q1, Freed(q1, g)) /\ Freed(q1, g) \in Table
      BY <2>1, ScopeOps, StatementsKeepTriples
    <3>2. SameRows(Freed(q1, g), queue')
      BY <2>3, <3>1, StatementsKeepTriples
    <3> QED BY <2>1, <3>1, <3>2, SameRowsTransitive
  <2>4. CASE queue' = Collect(q1, path, jobs')
    <3>1. SameRows(q1, queue')
      BY <2>1, <2>4, StatementsKeepTriples
    <3> QED BY <2>1, <3>1, SameRowsTransitive
  <2> QED BY <2>2, <2>3, <2>4
<1> QED BY <1>1, <1>2, <1>3, <1>4, <1>5 DEF JobStep

\* A hot enqueue inserts under the empty namespace, then raises rows.
LEMMA HotTriples ==
  ASSUME TypeOK, NEW k \in Keys, NEW n \in Ids,
         queue' = EnqueueWithPriority(queue, n, path, k)
  PROVE  SameRows(queue, queue') \/ OneMore(queue, queue', n)
<1> DEFINE ins == IF InQueue(queue, path, NoNs, "EntityDescriptions", k) THEN queue
                  ELSE [queue EXCEPT ![n] = NewRow(path, NoNs, "EntityDescriptions", k, TRUE)]
<1>0. queue \in Table /\ path \in Files
  BY DEF TypeOK
<1>1. SameRows(queue, ins) \/ OneMore(queue, ins, n)
  BY <1>0, InsertIsNew, SameRowsReflexive
<1>2. NewRow(path, NoNs, "EntityDescriptions", k, TRUE) \in Row
  BY <1>0, EdAssumption DEF NewRow, Row, Status
<1>3. ins \in Table
  BY <1>0, <1>2 DEF Table
<1> HIDE DEF ins
<1>4. SameRows(ins, queue')
  <2>1. queue' = UpdateWhere(ins, LAMBDA m : Present(ins, m) /\ ins[m].file = path
                                               /\ ins[m].key = k /\ ~ins[m].hot, HotRow)
    BY DEF EnqueueWithPriority, ins
  <2>2. \A i \in Ids : Present(ins, i) => Triple(HotRow(ins[i])) = Triple(ins[i])
    BY <1>3, PresentRow, TripleKept
  <2>3. \A i \in Ids : queue'[i] = ins[i] \/ (Present(ins, i) /\ queue'[i] = HotRow(ins[i]))
    BY <2>1 DEF UpdateWhere
  <2> HIDE DEF UpdateWhere
  <2> QED BY <2>2, <2>3 DEF SameRows, Present
<1> QED BY <1>1, <1>4, OneMoreThenSame, SameRowsTransitive

\* Every other step changes or deletes rows only.
LEMMA OtherStepTriples ==
  ASSUME TypeOK, HoldInv,
         \/ \E w \in Workers : WorkerStep(w) \/ ClaimBusy(w) \/ WriteBackLost(w)
         \/ \E j \in Jobs : Signal(j)
         \/ Time \/ Command
  PROVE  SameRows(queue, queue') \/ \E n \in Ids : Unused(n) /\ OneMore(queue, queue', n)
<1>0. queue \in Table
  BY DEF TypeOK
<1>1. ASSUME NEW w \in Workers, Claim(w) PROVE SameRows(queue, queue')
  <2>1. PICK i \in EligibleFor(w) : queue' = DequeueNextPending(queue, i)
    BY <1>1 DEF Claim
  <2>2. i \in Ids /\ Present(queue, i)
    BY <2>1 DEF EligibleFor, EligibleIn, Eligible, InScope
  <2> QED BY <1>0, <2>1, <2>2, IdOpsKeepTriples
<1>2. ASSUME NEW w \in Workers, BeatOnce(w) \/ WriteBack(w) PROVE SameRows(queue, queue')
  <2>1. workers[w].id \in Ids
    BY <1>2 DEF BeatOnce, WriteBack, HoldInv, Holding
  <2> QED BY <1>0, <1>2, <2>1, IdOpsKeepTriples DEF BeatOnce, WriteBack
<1>3. ASSUME NEW w \in Workers,
             \/ StopWorker(w) \/ Call(w) \/ ClaimBusy(w) \/ WriteBackLost(w) \/ ThrottleDeadline(w)
      PROVE  SameRows(queue, queue')
  BY <1>3, SameRowsReflexive DEF StopWorker, Call, ClaimBusy, WriteBackLost, ThrottleDeadline
<1>4. ASSUME NEW j \in Jobs, Signal(j) \/ RunDeadline(j) PROVE SameRows(queue, queue')
  BY <1>4, SameRowsReflexive DEF Signal, RunDeadline
<1>5. ASSUME NEW i \in Ids, AgeClaim(i) \/ CoolDown(i) PROVE SameRows(queue, queue')
  <2>1. Present(queue, i) /\ queue[i] \in Row
    BY <1>0, <1>5, PresentRow DEF AgeClaim, CoolDown
  <2>2. queue'[i] \in {[queue[i] EXCEPT !.claim = "stale"], [queue[i] EXCEPT !.cooling = FALSE]}
    BY <1>0, <1>5 DEF AgeClaim, CoolDown, Table
  <2>3. \A m \in Ids \ {i} : queue'[m] = queue[m]
    BY <1>0, <1>5 DEF AgeClaim, CoolDown, Table
  <2>4. Triple(queue'[i]) = Triple(queue[i])
    BY <2>1, <2>2 DEF Triple, Row
  <2> QED BY <2>1, <2>3, <2>4 DEF SameRows, Present
<1>6. ASSUME NEW ns \in Namespaces, NEW op \in Operations,
             \/ RequeueDeadCmd(ns, op) \/ RequeueSkippedCmd(ns, op)
             \/ PruneDeadOrphansCmd(ns, op) \/ PruneDeadEntityOrphansCmd(ns, op)
      PROVE  SameRows(queue, queue')
  BY <1>0, <1>6, StatementsKeepTriples DEF RequeueDeadCmd, RequeueSkippedCmd,
     PruneDeadOrphansCmd, PruneDeadEntityOrphansCmd
<1>7. CASE ResetStaleClaimsCmd
  BY <1>0, <1>7, StatementsKeepTriples DEF ResetStaleClaimsCmd
<1>8. ASSUME NEW k \in HotKeys, EnqueueHotCmd(k)
      PROVE  SameRows(queue, queue') \/ \E n \in Ids : Unused(n) /\ OneMore(queue, queue', n)
  <2>1. PICK n \in Ids : /\ NextId(n, path, NoNs, "EntityDescriptions")
                         /\ queue' = EnqueueWithPriority(queue, n, path, k)
    BY <1>8 DEF EnqueueHotCmd
  <2>2. Unused(n) /\ k \in Keys
    BY <2>1, BoundsAssumption DEF NextId, FreshId, Unused
  <2> QED BY <2>1, <2>2, HotTriples
<1>9. ASSUME NEW ns \in Namespaces, NEW k \in Keys,
             \/ ForgetCmd(ns, k) \/ RenameAwayCmd(ns, k) \/ DeleteEntityCmd(ns, k)
             \/ EditCmd(ns, k) \/ RememberMergeCmd(ns, k)
      PROVE  SameRows(queue, queue')
  BY <1>0, <1>9, StatementsKeepTriples, SameRowsReflexive DEF ForgetCmd, RenameAwayCmd,
     DeleteEntityCmd, EditCmd, RememberMergeCmd
<1> QED BY <1>1, <1>2, <1>3, <1>4, <1>5, <1>6, <1>7, <1>8, <1>9
        DEF WorkerStep, Time, Command

\* A step either keeps all triples or adds one row whose triple is free.
LEMMA NextTriples ==
  ASSUME TypeOK, HoldInv, [Next]_vars
  PROVE  SameRows(queue, queue') \/ \E n \in Ids : Unused(n) /\ OneMore(queue, queue', n)
<1>1. CASE UNCHANGED vars
  BY <1>1, SameRowsReflexive DEF vars
<1> QED BY <1>1, JobStepTriples, OtherStepTriples DEF Next, Fault

\* The sidecar never holds two rows of one (namespace, operation, item_key), whatever
\* runs, scans, hot enqueues and maintenance commands write to it and in whatever
\* order: every insert of the code is INSERT OR IGNORE, and no update touches the triple.
THEOREM TriplesStayUnique == Spec => []UniqueTriple
<1> DEFINE I == TypeOK /\ HoldInv /\ UniqueTriple
<1>1. Init => I
  BY InitType DEF Init, UniqueTriple, Present, NoRow
<1>2. I /\ [Next]_vars => I'
  <2> SUFFICES ASSUME I, [Next]_vars PROVE I'
    OBVIOUS
  <2>1. TypeOK' /\ HoldInv'
    BY NextType, NextHold
  <2>2. \A i, k \in Ids : Present(queue, i) /\ Present(queue, k) /\ i # k =>
          Triple(queue[i]) # Triple(queue[k])
    BY DEF UniqueTriple, Triple
  <2>3. \A i, k \in Ids : Present(queue', i) /\ Present(queue', k) /\ i # k =>
          Triple(queue'[i]) # Triple(queue'[k])
    <3>1. CASE SameRows(queue, queue')
      BY <2>2, <3>1 DEF SameRows
    <3>2. ASSUME NEW n \in Ids, OneMore(queue, queue', n)
          PROVE  \A i, k \in Ids : Present(queue', i) /\ Present(queue', k) /\ i # k =>
                   Triple(queue'[i]) # Triple(queue'[k])
      BY <2>2, <3>2 DEF OneMore
    <3> QED BY <3>1, <3>2, NextTriples
  <2>4. UniqueTriple'
    BY <2>3 DEF UniqueTriple, Triple
  <2> QED BY <2>1, <2>4
<1>3. I => UniqueTriple
  OBVIOUS
<1> HIDE DEF I
<1> QED BY <1>1, <1>2, <1>3, PTL DEF Spec

-----------------------------------------------------------------------------
(* Runs stay in their scope *)

\* A worker that holds a row held it before, or claims it in this step.
LEMMA HolderStep ==
  ASSUME TypeOK, HoldInv, [Next]_vars, NEW w \in Workers, workers'[w].pc \in Holding
  PROVE  \/ Claim(w)
         \/ /\ workers[w].pc \in Holding
            /\ workers'[w].id = workers[w].id
            /\ workers'[w].key = workers[w].key
            /\ workers'[w].attempt = workers[w].attempt
<1> DEFINE Kept == /\ workers[w].pc \in Holding
                   /\ workers'[w].id = workers[w].id
                   /\ workers'[w].key = workers[w].key
                   /\ workers'[w].attempt = workers[w].attempt
<1>0. workers \in [Workers -> WorkerRec]
  BY DEF TypeOK
<1>1. CASE UNCHANGED workers
  BY <1>1
<1>2. ASSUME NEW j \in Jobs, SpawnDrain(j) \/ JoinFailed(j) \/ Join(j) \/ Crash(j)
      PROVE  Kept
  <2>1. \A x, y : /\ IdleWorker(0, x, y).pc = "idle"
                  /\ [OffWorker EXCEPT !.late = x].pc = "exit"
    BY DEF IdleWorker, OffWorker
  <2>2. CASE SpawnDrain(j)
    BY <1>0, <2>1, <2>2 DEF SpawnDrain, WorkersOf, Holding
  <2>3. ASSUME NEW late, Ended(j, late) PROVE Kept
    BY <2>1, <2>3 DEF Ended, Holding
  <2> QED BY <1>2, <2>2, <2>3 DEF JoinFailed, Join, Crash
<1>3. ASSUME NEW j \in Jobs,
             \/ StartJob(j) \/ Prepare(j) \/ Scan(j) \/ ScanTimeout(j) \/ Enqueue(j)
             \/ Finish(j) \/ Signal(j) \/ RunDeadline(j)
      PROVE  UNCHANGED workers
  BY <1>3 DEF StartJob, Prepare, Scan, ScanTimeout, Enqueue, Finish, Signal, RunDeadline
<1>4. ASSUME NEW v \in Workers,
             \/ StopWorker(v) \/ ClaimBusy(v) \/ BeatOnce(v) \/ Call(v) \/ ThrottleDeadline(v)
      PROVE  Kept
  <2>1. CASE v # w
    BY <1>0, <1>4, <2>1 DEF StopWorker, ExitWorker, ClaimBusy, BeatOnce, Call, ThrottleDeadline
  <2>2. CASE v = w /\ (StopWorker(w) \/ ClaimBusy(w))
    BY <1>0, <2>2 DEF StopWorker, ExitWorker, ClaimBusy, Holding, WorkerRec
  <2>3. CASE v = w /\ (BeatOnce(w) \/ Call(w) \/ ThrottleDeadline(w))
    BY <1>0, <2>3 DEF BeatOnce, Call, ThrottleDeadline, Holding, WorkerRec
  <2> QED BY <1>4, <2>1, <2>2, <2>3
<1>5. ASSUME NEW v \in Workers, Claim(v), v # w PROVE Kept
  BY <1>0, <1>5 DEF Claim
<1>6. ASSUME NEW v \in Workers, WriteBack(v) \/ WriteBackLost(v) PROVE Kept
  <2>1. v # w
    BY <1>6, WriteBackLets
  <2> QED BY <1>0, <1>6, <2>1 DEF WriteBack, WriteBackLost
<1>7. ASSUME NEW i \in Ids, AgeClaim(i) \/ CoolDown(i) PROVE UNCHANGED workers
  BY <1>7 DEF AgeClaim, CoolDown
<1>8. ASSUME Command PROVE UNCHANGED workers
  BY <1>8 DEF Command, RequeueDeadCmd, RequeueSkippedCmd, PruneDeadOrphansCmd,
     PruneDeadEntityOrphansCmd, ResetStaleClaimsCmd, EnqueueHotCmd, ForgetCmd, RenameAwayCmd,
     DeleteEntityCmd, EditCmd, RememberMergeCmd
<1>9. ASSUME UNCHANGED vars PROVE UNCHANGED workers
  BY <1>9 DEF vars
<1> QED BY <1>1, <1>2, <1>3, <1>4, <1>5, <1>6, <1>7, <1>8, <1>9
        DEF Next, JobStep, WorkerStep, Fault, Time

\* Ids that a worker holds are not recycled, and rows keep their triple.
LEMMA HeldTriple ==
  ASSUME TypeOK, HoldInv, [Next]_vars, NEW w \in Workers, workers[w].pc \in Holding,
         Present(queue', workers[w].id)
  PROVE  /\ Present(queue, workers[w].id)
         /\ Triple(queue'[workers[w].id]) = Triple(queue[workers[w].id])
<1> DEFINE i == workers[w].id
<1>1. i \in Ids
  BY DEF HoldInv
<1>2. CASE SameRows(queue, queue')
  BY <1>1, <1>2 DEF SameRows
<1>3. ASSUME NEW n \in Ids, Unused(n), OneMore(queue, queue', n)
      PROVE  Present(queue, i) /\ Triple(queue'[i]) = Triple(queue[i])
  <2>1. n # i
    BY <1>3 DEF Unused, Holds
  <2> QED BY <1>1, <1>3, <2>1 DEF OneMore
<1> QED BY <1>2, <1>3, NextTriples

LEMMA NextScope ==
  ASSUME TypeOK, HoldInv, ScopeInv, [Next]_vars
  PROVE  ScopeInv'
<1> SUFFICES ASSUME NEW w \in Workers, workers'[w].pc \in Holding,
                    Present(queue', workers'[w].id)
             PROVE  /\ queue'[workers'[w].id].ns = JobNs[JobOf[w]]
                    /\ queue'[workers'[w].id].op = JobOp[JobOf[w]]
  BY DEF ScopeInv
<1>0. queue \in Table /\ workers \in [Workers -> WorkerRec]
  BY DEF TypeOK
<1>1. CASE Claim(w)
  <2>1. PICK i \in EligibleFor(w) :
          /\ queue' = DequeueNextPending(queue, i)
          /\ workers' = [workers EXCEPT ![w].pc = "claimed", ![w].id = i,
                                        ![w].key = queue[i].key,
                                        ![w].attempt = queue[i].attempt + 1]
    BY <1>1 DEF Claim
  <2>2. /\ i \in Ids /\ Present(queue, i)
        /\ queue[i].ns = JobNs[JobOf[w]] /\ queue[i].op = JobOp[JobOf[w]]
    BY <2>1 DEF EligibleFor, EligibleIn, Eligible, InScope
  <2>3. workers'[w].id = i
    BY <1>0, <2>1 DEF WorkerRec
  <2>4. Triple(queue'[i]) = Triple(queue[i])
    BY <1>0, <1>1, <2>1, <2>2, <2>3, IdOpsKeepTriples DEF SameRows
  <2> QED BY <2>2, <2>3, <2>4 DEF Triple
<1>2. CASE workers[w].pc \in Holding /\ workers'[w].id = workers[w].id
  BY <1>2, HeldTriple DEF ScopeInv, Triple
<1> QED BY <1>1, <1>2, HolderStep

\* A deletion of unreachable inodes spares the rows another process can still read.
LEMMA CollectSpares ==
  ASSUME TypeOK, NEW j \in Jobs, NEW i \in Ids, NEW js, NEW q,
         ReachableWithout(j, q[i].file), \A k \in Jobs \ {j} : js[k] = jobs[k]
  PROVE  Collect(q, path, js)[i] = q[i]
BY DEF ReachableWithout, Collect, DeleteWhere, Open, On

\* What a step of run j may do to a row of another scope.
Isolated(i) ==
  \/ queue'[i] = queue[i]
  \/ queue[i].claim = "stale" /\ queue'[i] = ReleasedRow(queue[i])

\* Row i is none of run j's business, and somebody else can still read it.
Foreign(j, i) ==
  /\ Present(queue, i) /\ queue[i].ns \in Namespaces
  /\ <<queue[i].ns, queue[i].op>> # <<JobNs[j], JobOp[j]>>
  /\ ReachableWithout(j, queue[i].file)

\* Steps of the run itself.
LEMMA JobStepIsolated ==
  ASSUME TypeOK, NEW j \in Jobs, JobStep(j), jobs[j].pc \notin {"off", "finish"},
         NEW i \in Ids, Foreign(j, i)
  PROVE  Isolated(i)
<1>0. /\ queue \in Table /\ jobs \in [Jobs -> Job \cup {OffJob}]
      /\ Present(queue, i) /\ queue[i].ns # NoNs
      /\ queue[i].ns = JobNs[j] => queue[i].op # JobOp[j]
  BY NsAssumption DEF TypeOK, Foreign
<1>1. \A f : ~InScope(queue, i, f, JobNs[j], JobOp[j]) /\ ~InScope(queue, i, f, NoNs, JobOp[j])
  BY <1>0 DEF InScope
<1>2. CASE StartJob(j) \/ Scan(j)
  BY <1>2 DEF StartJob, Scan, Isolated
<1>3. CASE Prepare(j)
  <2> DEFINE f == jobs[j].file
             swept == ResetStaleProcessingClaims(queue, f)
             resumed == IF jobs[j].opts.resume
                        THEN ResetProcessingForOp(swept, f, JobNs[j], JobOp[j]) ELSE swept
  <2>1. \/ swept[i] = queue[i]
        \/ queue[i].claim = "stale" /\ swept[i] = ReleasedRow(queue[i])
    BY DEF ResetStaleProcessingClaims, UpdateWhere
  <2>2. swept[i].ns = queue[i].ns /\ swept[i].op = queue[i].op
    BY <1>0, <2>1, PresentRow DEF ReleasedRow, Row
  <2> HIDE DEF swept, f
  <2>3. resumed[i] = swept[i]
    BY <1>0, <2>2 DEF ResetProcessingForOp, UpdateWhere, InScope
  <2> HIDE DEF resumed
  <2>4. ClearOp(resumed, f, JobNs[j], JobOp[j])[i] = resumed[i]
    BY <1>0, <2>2, <2>3 DEF ClearOp, DeleteWhere, InScope
  <2>5. queue' = resumed \/ queue' = ClearOp(resumed, f, JobNs[j], JobOp[j])
    BY <1>3 DEF Prepare, PrepareQueue, resumed, swept, f
  <2>6. queue'[i] = swept[i]
    BY <2>3, <2>4, <2>5
  <2> QED BY <2>1, <2>6 DEF Isolated
<1>4. CASE ScanTimeout(j) \/ SpawnDrain(j) \/ JoinFailed(j) \/ Join(j)
  <2>1. /\ queue' = Collect(queue, path, jobs')
        /\ \A k \in Jobs \ {j} : jobs'[k] = jobs[k]
    BY <1>0, <1>4 DEF ScanTimeout, SpawnDrain, JoinFailed, Join
  <2> QED BY <2>1, CollectSpares DEF Foreign, Isolated
<1>5. CASE Enqueue(j)
  <2>1. PICK k \in jobs[j].page, n \in Ids : Enqueue(j)!2!(k, n)
    BY <1>5 DEF Enqueue
  <2> DEFINE f == jobs[j].file
             reopen == /\ jobs[j].opts.force_redescribe
                       /\ jobs[j].first
                       /\ JobOp[j] = "EntityDescriptions"
             q1 == IF reopen THEN ReopenForceRedescribe(queue, f, JobNs[j], k) ELSE queue
  <2>2. q1 \in Table
    BY <1>0, ScopeOps
  <2>3. q1[i] = queue[i]
    BY <1>0 DEF ReopenForceRedescribe, UpdateWhere, InScope
  <2>4. n # i
    BY <1>0, <2>1 DEF NextId, FreshId
  <2>5. queue' = q1 \/ queue' = EnqueueCandidate(q1, n, f, JobNs[j], JobOp[j], k)
    BY <2>1
  <2> HIDE DEF q1
  <2>6. queue'[i] = q1[i]
    BY <2>2, <2>4, <2>5 DEF EnqueueCandidate, Table
  <2> QED BY <2>3, <2>6 DEF Isolated
<1>6. ~Finish(j)
  BY DEF Finish
<1> QED BY <1>2, <1>3, <1>4, <1>5, <1>6 DEF JobStep

\* Steps of its workers.
LEMMA WorkerStepIsolated ==
  ASSUME TypeOK, HoldInv, ScopeInv, NEW w \in Workers, WorkerStep(w),
         NEW i \in Ids, Foreign(JobOf[w], i)
  PROVE  Isolated(i)
<1>0. queue \in Table
  BY DEF TypeOK
<1>1. CASE StopWorker(w) \/ Call(w)
  BY <1>1 DEF StopWorker, Call, Isolated
<1>2. CASE Claim(w)
  <2>1. PICK n \in EligibleFor(w) : queue' = DequeueNextPending(queue, n)
    BY <1>2 DEF Claim
  <2>2. n # i
    BY <2>1 DEF EligibleFor, EligibleIn, Eligible, InScope, Foreign
  <2> QED BY <1>0, <2>1, <2>2 DEF DequeueNextPending, Isolated, Table
<1>3. CASE BeatOnce(w) \/ WriteBack(w)
  <2>1. workers[w].pc \in Holding
    BY <1>3 DEF BeatOnce, WriteBack, Holding
  <2>2. workers[w].id # i
    BY <2>1 DEF ScopeInv, Foreign
  <2> QED BY <1>0, <1>3, <2>2 DEF BeatOnce, WriteBack, Heartbeat, MarkDone, MarkSkipped,
          RequeueRateLimited, RecordItemFailure, UpdateById, Isolated, Table
<1> QED BY <1>1, <1>2, <1>3 DEF WorkerStep

\* A step that moves run j or one of its workers, and no event, is a step of theirs.
LEMMA WhoMoved ==
  ASSUME TypeOK, HoldInv, [Next]_vars, NEW j \in Jobs, events' = events,
         jobs'[j] # jobs[j] \/ \E w \in WorkersOf(j) : workers'[w] # workers[w]
  PROVE  \/ JobStep(j)
         \/ \E w \in WorkersOf(j) : WorkerStep(w)
         \/ UNCHANGED queue
<1>0. /\ jobs \in [Jobs -> Job \cup {OffJob}] /\ workers \in [Workers -> WorkerRec]
      /\ JobOf \in [Workers -> Jobs]
      /\ events \in [crash: Nat, signal: Nat, lost: Nat, throttle: Nat, admin: Nat]
  BY WorkersAssumption DEF TypeOK
<1>1. ASSUME NEW k \in Jobs, k # j, JobStep(k) PROVE FALSE
  <2>1. jobs'[j] = jobs[j]
    BY <1>0, <1>1 DEF JobStep, StartJob, Prepare, Scan, ScanTimeout, Enqueue, SpawnDrain,
       JoinFailed, Join, Finish
  <2>2. \A w \in WorkersOf(j) : workers'[w] = workers[w]
    BY <1>0, <1>1 DEF JobStep, StartJob, Prepare, Scan, ScanTimeout, Enqueue, SpawnDrain,
       JoinFailed, Join, Finish, Ended, WorkersOf
  <2> QED BY <2>1, <2>2
<1>2. ASSUME NEW w \in Workers, JobOf[w] # j, WorkerStep(w) PROVE FALSE
  <2>1. jobs'[j] = jobs[j]
    BY <1>0, <1>2 DEF WorkerStep, StopWorker, Claim, BeatOnce, Call, WriteBack, Tally
  <2>2. \A v \in WorkersOf(j) : workers'[v] = workers[v]
    BY <1>0, <1>2 DEF WorkerStep, StopWorker, ExitWorker, Claim, BeatOnce, Call, WriteBack,
       WorkersOf
  <2> QED BY <2>1, <2>2
<1>3. ~Fault
  <2>1. \A e \in {"lost", "signal", "crash"} : ~Count(e)
    BY <1>0 DEF Count
  <2> QED BY <2>1 DEF Fault, ClaimBusy, WriteBackLost, Signal, Crash
<1>4. ASSUME Time PROVE UNCHANGED queue
  <2>1. ASSUME NEW i \in Ids, AgeClaim(i) \/ CoolDown(i) PROVE FALSE
    BY <2>1 DEF AgeClaim, CoolDown
  <2> QED BY <1>4, <2>1 DEF Time, RunDeadline, ThrottleDeadline
<1>5. ~Command
  <2> SUFFICES ASSUME Command PROVE UNCHANGED <<jobs, workers>>
    OBVIOUS
  <2> QED BY DEF Command, RequeueDeadCmd, RequeueSkippedCmd, PruneDeadOrphansCmd,
          PruneDeadEntityOrphansCmd, ResetStaleClaimsCmd, EnqueueHotCmd, ForgetCmd,
          RenameAwayCmd, DeleteEntityCmd, EditCmd, RememberMergeCmd
<1>6. ~UNCHANGED vars
  BY DEF vars
<1> QED BY <1>1, <1>2, <1>3, <1>4, <1>5, <1>6 DEF Next, WorkersOf

\* Up to its teardown, a run and its workers leave every row of another namespace or
\* operation as it is, except that the startup sweep frees stale claims; even slow calls,
\* hot rows, crashes and recycled inodes do not lead a write-back by id astray.
THEOREM Isolation == Spec => RunsAreIsolated
<1> DEFINE I == TypeOK /\ HoldInv /\ ScopeInv
<1>1. Init => I
  BY InitType DEF Init, ScopeInv, Present, NoRow, OffWorker, IdleWorker, Holding
<1>2. I /\ [Next]_vars => I'
  BY NextType, NextHold, NextScope
<1>3. I /\ [Next]_vars => RunsAreIsolated!1
  <2> SUFFICES ASSUME I, [Next]_vars, NEW j \in Jobs,
                      jobs[j].pc \notin {"off", "finish"}, On(j)', events' = events,
                      jobs'[j] # jobs[j] \/ \E w \in WorkersOf(j) : workers'[w] # workers[w],
                      NEW i \in Ids, Foreign(j, i)
               PROVE  Isolated(i)
    BY DEF Foreign, Isolated
  <2>1. ASSUME NEW w \in WorkersOf(j), WorkerStep(w) PROVE Isolated(i)
    BY <2>1, WorkerStepIsolated DEF WorkersOf
  <2>2. CASE UNCHANGED queue
    BY <2>2 DEF Isolated
  <2> QED BY <2>1, <2>2, WhoMoved, JobStepIsolated
<1> HIDE DEF I
<1> QED BY <1>1, <1>2, <1>3, PTL DEF Spec, RunsAreIsolated

-----------------------------------------------------------------------------
(* What a step does to one row *)

\* force-redescribe reopens a row on the first scan of run j.
Reopens(j) ==
  /\ jobs[j].pc = "enqueue"
  /\ jobs[j].first /\ jobs[j].opts.force_redescribe
  /\ jobs'[j].page # jobs[j].page

\* A claim on row i goes back to pending without a write-back: either nobody works on it, or
\* whoever does is known to have lost it.
HandedBack(i) ==
  /\ Present(queue, i) /\ queue[i].status = "processing"
  /\ queue'[i].status = "pending" /\ queue'[i].attempt = queue[i].attempt
  /\ \/ ~\E w \in Workers : Holds(w, i)
     \/ /\ \A w \in Workers : Holds(w, i) => w \in taken'
        /\ strays' = strays + 1

LEMMA OvertakeHands ==
  ASSUME TypeOK, Overtake(queue'), NEW i \in Ids, Present(queue, i),
         queue[i].status = "processing", queue'[i].status = "pending",
         queue'[i].attempt = queue[i].attempt
  PROVE  HandedBack(i)
BY DEF HandedBack, Overtake, TakenBy

\* What rows look like after the updates that start a row afresh or hand it back.
LEMMA RowFields ==
  ASSUME NEW r \in Row
  PROVE  /\ ReleasedRow(r).attempt = r.attempt /\ ReleasedRow(r).status = "pending"
         /\ ReopenedRow(r).attempt = 0
         /\ RequeuedRow(r).attempt = 0
         /\ HeartbeatRow(r).attempt = r.attempt /\ HeartbeatRow(r).status = r.status
         /\ ClaimedRow(r).attempt = r.attempt + 1 /\ ClaimedRow(r).status = "processing"
         /\ ClaimedRow(r).key = r.key /\ ClaimedRow(r).file = r.file
         /\ HotRow(r).attempt = r.attempt
         /\ HotRow(r).status = r.status \/ HotRow(r).status = "pending"
         /\ r.status \in {"done", "skipped", "dead"} => HotRow(r).status = r.status
BY DEF Row, ReleasedRow, ReopenedRow, RequeuedRow, HeartbeatRow, ClaimedRow, HotRow

\* What deletes rows only.
LEMMA DeletesOnly ==
  ASSUME NEW q \in Table, NEW f, NEW ns, NEW op, NEW i \in Ids
  PROVE  /\ ClearOp(q, f, ns, op)[i] \in {q[i], NoRow}
         /\ \A l : PruneDeadOrphans(q, f, ns, op, l)[i] \in {q[i], NoRow}
         /\ PruneDeadEntityOrphans(q, f, ns, op)[i] \in {q[i], NoRow}
         /\ \A k : CleanupQueueEntry(q, f, k)[i] \in {q[i], NoRow}
         /\ \A js : Collect(q, f, js)[i] \in {q[i], NoRow}
         /\ Freed(q, f)[i] \in {q[i], NoRow}
BY DEF ClearOp, PruneDeadOrphans, PruneDeadEntityOrphans, CleanupQueueEntry, Collect, Freed,
   DeleteWhere

\* The steps of a run up to its end delete a row, hand its claim back, reopen it by force,
\* insert it, or leave it alone.
LEMMA JobRow ==
  ASSUME TypeOK, HoldInv, SingletonInv, ScopeInv, NEW j \in Jobs, JobStep(j) \/ Crash(j),
         NEW i \in Ids, Present(queue', i)
  PROVE  \/ queue'[i] = queue[i]
         \/ HandedBack(i)
         \/ /\ Present(queue, i) /\ queue[i].status \in {"skipped", "done"}
            /\ queue'[i] = ReopenedRow(queue[i])
            /\ Reopens(j)
         \/ /\ ~Present(queue, i)
            /\ queue'[i].status = "pending" /\ queue'[i].attempt = 0
<1>0. /\ queue \in Table /\ jobs \in [Jobs -> Job \cup {OffJob}]
      /\ JobOf \in [Workers -> Jobs]
      /\ NoRow.status = "absent"
      /\ Present(queue, i) => queue[i] \in Row
  BY WorkersAssumption, PresentRow DEF TypeOK, NoRow
<1> DEFINE Released(r) == /\ Present(queue, i) /\ queue[i].status = "processing"
                          /\ r = ReleasedRow(queue[i])
<1>1. \A r : Released(r) => r.status = "pending" /\ r.attempt = queue[i].attempt
  BY <1>0, RowFields
<1>2. CASE StartJob(j) \/ Scan(j)
  BY <1>2 DEF StartJob, Scan
<1>3. CASE Prepare(j)
  <2> DEFINE f == jobs[j].file
             swept == ResetStaleProcessingClaims(queue, f)
             resumed == IF jobs[j].opts.resume
                        THEN ResetProcessingForOp(swept, f, JobNs[j], JobOp[j]) ELSE swept
  <2>1. swept \in Table /\ (swept[i] = queue[i] \/ Released(swept[i]))
    BY <1>0, ScopeOps DEF ResetStaleProcessingClaims, UpdateWhere
  <2> HIDE DEF swept
  <2>2. resumed[i] = swept[i] \/ (/\ Present(swept, i) /\ swept[i].status = "processing"
                                  /\ resumed[i] = ReleasedRow(swept[i]))
    BY DEF ResetProcessingForOp, UpdateWhere, InScope
  <2>3. resumed[i] = queue[i] \/ Released(resumed[i])
    <3>1. CASE swept[i] = queue[i]
      BY <2>2, <3>1 DEF Present
    <3>2. CASE Released(swept[i])
      <4>1. resumed[i] = swept[i]
        BY <1>1, <2>2, <3>2
      <4> QED BY <3>2, <4>1
    <3> QED BY <2>1, <3>1, <3>2
  <2>4. resumed \in Table
    BY <2>1, ScopeOps
  <2>5. queue' = resumed \/ queue' = ClearOp(resumed, f, JobNs[j], JobOp[j])
    BY <1>3 DEF Prepare, PrepareQueue, swept
  <2> HIDE DEF resumed, f
  <2>6. queue'[i] \in {resumed[i], NoRow}
    BY <2>4, <2>5, DeletesOnly
  <2>7. queue'[i] = resumed[i]
    BY <1>0, <2>6 DEF Present
  <2>8. Overtake(queue')
    BY <1>3 DEF Prepare
  <2>9. Released(queue'[i]) => HandedBack(i)
    BY <1>1, <2>8, OvertakeHands
  <2> HIDE DEF Released
  <2> QED BY <2>3, <2>7, <2>9
<1>4. CASE ScanTimeout(j) \/ SpawnDrain(j) \/ JoinFailed(j) \/ Join(j) \/ Crash(j)
  <2>1. queue' = Collect(queue, path, jobs')
    BY <1>4 DEF ScanTimeout, SpawnDrain, JoinFailed, Join, Crash
  <2>2. queue'[i] \in {queue[i], NoRow}
    BY <1>0, <2>1, DeletesOnly
  <2> QED BY <1>0, <2>2 DEF Present
<1>5. CASE Enqueue(j)
  <2>1. PICK k \in jobs[j].page, n \in Ids : Enqueue(j)!2!(k, n)
    BY <1>5 DEF Enqueue
  <2> DEFINE f == jobs[j].file
             reopen == /\ jobs[j].opts.force_redescribe
                       /\ jobs[j].first
                       /\ JobOp[j] = "EntityDescriptions"
             q1 == IF reopen THEN ReopenForceRedescribe(queue, f, JobNs[j], k) ELSE queue
  <2>2. q1 \in Table
    BY <1>0, ScopeOps
  <2>3. jobs'[j].page # jobs[j].page
    <3>1. jobs[j] \in Job
      BY <1>5, OnJob DEF Enqueue, On
    <3>2. jobs'[j].page = jobs[j].page \ {k}
      BY <1>0, <2>1, <3>1 DEF Job
    <3> QED BY <3>2
  <2>4. \/ q1[i] = queue[i]
        \/ /\ Present(queue, i) /\ queue[i].status \in {"skipped", "done"}
           /\ q1[i] = ReopenedRow(queue[i]) /\ Reopens(j)
    BY <1>5, <2>3 DEF ReopenForceRedescribe, UpdateWhere, InScope, Reopens, Enqueue
  <2>5. ~Present(queue, n)
    BY <2>1 DEF NextId, FreshId
  <2>6. queue' = q1 \/ queue' = EnqueueCandidate(q1, n, f, JobNs[j], JobOp[j], k)
    BY <2>1
  <2> HIDE DEF q1
  <2>7. \/ queue'[i] = q1[i]
        \/ i = n /\ queue'[i] = NewRow(f, JobNs[j], JobOp[j], k, FALSE)
    BY <2>2, <2>6 DEF EnqueueCandidate, Table
  <2> QED BY <2>4, <2>5, <2>7 DEF NewRow
\* A run that finishes has no worker left, and its namespace no other run.
<1>6. CASE Finish(j)
  <2> DEFINE q1 == IF jobs[j].stop
                   THEN ResetProcessingForOp(queue, jobs[j].file, JobNs[j], JobOp[j])
                   ELSE queue
  <2>1. On(j) /\ jobs[j].pc # "drain"
    BY <1>6 DEF Finish, On
  <2>2. q1[i] = queue[i] \/ (Released(q1[i]) /\ queue[i].ns = JobNs[j])
    BY <1>0 DEF ResetProcessingForOp, UpdateWhere, InScope
  <2>3. Present(queue, i) /\ queue[i].ns = JobNs[j] => ~\E w \in Workers : Holds(w, i)
    BY <1>0, <2>1 DEF ScopeInv, SingletonInv, HoldInv, InDrain, Holds, On
  <2>4. q1 \in Table
    BY <1>0, ScopeOps
  <2>5. \/ \E g \in Files : queue' = Collect(Freed(q1, g), g, jobs')
        \/ queue' = Collect(q1, path, jobs')
    BY <1>6 DEF Finish
  <2> HIDE DEF q1
  <2>6. \A g : Freed(q1, g) \in Table /\ Freed(q1, g)[i] \in {q1[i], NoRow}
    BY <2>4, ScopeOps, DeletesOnly
  <2>7. \A t \in Table : \A g : Collect(t, g, jobs')[i] \in {t[i], NoRow}
    BY DeletesOnly
  <2>8. queue'[i] \in {q1[i], NoRow}
    BY <2>4, <2>5, <2>6, <2>7
  <2>9. queue'[i] = q1[i]
    BY <1>0, <2>8 DEF Present
  <2>10. CASE Released(queue'[i]) /\ queue[i].ns = JobNs[j]
    BY <1>1, <2>3, <2>10 DEF HandedBack
  <2> HIDE DEF Released
  <2> QED BY <2>2, <2>9, <2>10
<1> QED BY <1>2, <1>3, <1>4, <1>5, <1>6 DEF JobStep

\* A hot enqueue hands claims back, whoever works on them, and inserts.
LEMMA HotEnqueueRow ==
  ASSUME TypeOK, NEW k \in HotKeys, EnqueueHotCmd(k), NEW i \in Ids, Present(queue', i)
  PROVE  \/ /\ Present(queue, i)
            /\ queue'[i].status = queue[i].status
            /\ queue'[i].attempt = queue[i].attempt
         \/ HandedBack(i)
         \/ /\ ~Present(queue, i)
            /\ queue'[i].status = "pending" /\ queue'[i].attempt = 0
<1>0. queue \in Table /\ k \in Keys /\ path \in Files
  BY BoundsAssumption DEF TypeOK
<1>1. PICK n \in Ids : /\ NextId(n, path, NoNs, "EntityDescriptions")
                       /\ queue' = EnqueueWithPriority(queue, n, path, k)
  BY DEF EnqueueHotCmd
<1> DEFINE new == NewRow(path, NoNs, "EntityDescriptions", k, TRUE)
           ins == IF InQueue(queue, path, NoNs, "EntityDescriptions", k) THEN queue
                  ELSE [queue EXCEPT ![n] = new]
<1>2. ~Present(queue, n)
  BY <1>1 DEF NextId, FreshId
<1>3. new \in Row /\ new.status = "pending" /\ new.attempt = 0 /\ new.hot
  BY <1>0, EdAssumption DEF NewRow, Row, Status
<1>4. ins[i] = queue[i] \/ (i = n /\ ins[i] = new)
  BY <1>0 DEF Table
<1>5. queue'[i] = ins[i] \/ (Present(ins, i) /\ ~ins[i].hot /\ queue'[i] = HotRow(ins[i]))
  BY <1>1 DEF EnqueueWithPriority, UpdateWhere
<1> HIDE DEF ins, new
<1>6. CASE i = n /\ ins[i] = new
  BY <1>2, <1>3, <1>5, <1>6
<1>7. CASE ins[i] = queue[i]
  <2>1. Present(queue, i)
    BY <1>5, <1>7 DEF Present
  <2>2. queue[i] \in Row
    BY <1>0, <2>1, PresentRow
  <2>3. CASE queue'[i] = queue[i]
    BY <2>1, <2>3
  <2>4. CASE queue'[i] = HotRow(queue[i])
    <3>1. queue'[i].attempt = queue[i].attempt
      BY <2>2, <2>4, RowFields
    <3>2. \/ queue'[i].status = queue[i].status
          \/ queue[i].status = "processing" /\ queue'[i].status = "pending"
      BY <2>1, <2>2, <2>4, RowFields DEF Row, Status, Present
    <3>3. Overtake(queue')
      BY DEF EnqueueHotCmd
    <3> QED BY <2>1, <3>1, <3>2, <3>3, OvertakeHands
  <2> QED BY <1>5, <1>7, <2>3, <2>4
<1> QED BY <1>4, <1>6, <1>7

\* What time and the other commands do to a row.
LEMMA EnvRow ==
  ASSUME TypeOK, Time \/ Command, NEW i \in Ids, Present(queue', i)
  PROVE  \/ /\ Present(queue, i)
            /\ queue'[i].status = queue[i].status
            /\ queue'[i].attempt = queue[i].attempt
         \/ HandedBack(i)
         \/ /\ Present(queue, i) /\ queue[i].status = "dead"
            /\ \E ns \in Namespaces, op \in Operations : RequeueDeadCmd(ns, op)
            /\ queue'[i] = RequeuedRow(queue[i])
         \/ /\ Present(queue, i) /\ queue[i].status = "skipped"
            /\ queue'[i] = RequeuedRow(queue[i])
         \/ /\ ~Present(queue, i)
            /\ queue'[i].status = "pending" /\ queue'[i].attempt = 0
<1>0. queue \in Table /\ NoRow.status = "absent"
  BY DEF TypeOK, NoRow
<1>1. Present(queue, i) => queue[i] \in Row
  BY <1>0, PresentRow
<1>2. CASE queue'[i] \in {queue[i], NoRow}
  BY <1>0, <1>2 DEF Present
<1>3. ASSUME NEW m \in Ids, AgeClaim(m) \/ CoolDown(m)
      PROVE  /\ Present(queue, i)
             /\ queue'[i].status = queue[i].status /\ queue'[i].attempt = queue[i].attempt
  <2>1. CASE m # i
    BY <1>0, <1>3, <2>1 DEF AgeClaim, CoolDown, Table, Present
  <2>2. CASE m = i
    BY <1>0, <1>1, <1>3, <2>2 DEF AgeClaim, CoolDown, Table, Row
  <2> QED BY <2>1, <2>2
<1>4. ASSUME NEW ns \in Namespaces, NEW op \in Operations, RequeueDeadCmd(ns, op)
      PROVE  \/ queue'[i] = queue[i]
             \/ /\ Present(queue, i) /\ queue[i].status = "dead"
                /\ queue'[i] = RequeuedRow(queue[i])
  BY <1>4 DEF RequeueDeadCmd, RequeueDead, UpdateWhere, InScope
<1>5. ASSUME NEW ns \in Namespaces, NEW op \in Operations, RequeueSkippedCmd(ns, op)
      PROVE  \/ queue'[i] = queue[i]
             \/ /\ Present(queue, i) /\ queue[i].status = "skipped"
                /\ queue'[i] = RequeuedRow(queue[i])
  BY <1>5 DEF RequeueSkippedCmd, RequeueSkipped, UpdateWhere, InScope
<1>6. ASSUME NEW ns \in Namespaces, NEW op \in Operations,
             PruneDeadOrphansCmd(ns, op) \/ PruneDeadEntityOrphansCmd(ns, op)
      PROVE  queue'[i] \in {queue[i], NoRow}
  <2>1. \/ queue' = PruneDeadOrphans(queue, path, ns, op, live)
        \/ queue' = PruneDeadEntityOrphans(queue, path, ns, op)
    BY <1>6 DEF PruneDeadOrphansCmd, PruneDeadEntityOrphansCmd
  <2> QED BY <2>1 DEF PruneDeadOrphans, PruneDeadEntityOrphans, DeleteWhere
<1>7. ASSUME ResetStaleClaimsCmd
      PROVE  queue'[i] = queue[i] \/ HandedBack(i)
  <2>1. \/ queue'[i] = queue[i]
        \/ /\ Present(queue, i) /\ queue[i].status = "processing"
           /\ queue'[i] = ReleasedRow(queue[i])
    BY <1>7 DEF ResetStaleClaimsCmd, ResetStaleProcessingClaims, UpdateWhere
  <2>2. Overtake(queue')
    BY <1>7 DEF ResetStaleClaimsCmd
  <2> QED BY <1>1, <2>1, <2>2, RowFields, OvertakeHands
<1>8. ASSUME NEW ns \in Namespaces, NEW k \in Keys,
             \/ ForgetCmd(ns, k) \/ RenameAwayCmd(ns, k) \/ DeleteEntityCmd(ns, k)
             \/ EditCmd(ns, k) \/ RememberMergeCmd(ns, k)
      PROVE  queue'[i] \in {queue[i], NoRow}
  BY <1>0, <1>8, DeletesOnly DEF ForgetCmd, RenameAwayCmd, DeleteEntityCmd, EditCmd,
     RememberMergeCmd
<1>9. ASSUME \/ \E j \in Jobs : RunDeadline(j)
             \/ \E w \in Workers : ThrottleDeadline(w)
      PROVE  queue'[i] = queue[i]
  BY <1>9 DEF RunDeadline, ThrottleDeadline
<1>10. CASE Time
  BY <1>2, <1>3, <1>9, <1>10 DEF Time
<1>11. CASE Command
  BY <1>2, <1>4, <1>5, <1>6, <1>7, <1>8, <1>11, HotEnqueueRow DEF Command
<1> QED BY <1>10, <1>11

\* What a worker's step does to a row: it claims a pending one, or judges its own.
LEMMA WorkerRow ==
  ASSUME TypeOK, HoldInv, NEW w \in Workers, WorkerStep(w) \/ ClaimBusy(w) \/ WriteBackLost(w),
         NEW i \in Ids, Present(queue', i)
  PROVE  /\ Present(queue, i)
         /\ \/ queue'[i] = queue[i]
            \/ Claim(w) /\ queue[i].status = "pending" /\ queue'[i] = ClaimedRow(queue[i])
                 /\ workers'[w].id = i /\ workers'[w].pc = "claimed"
            \/ BeatOnce(w) /\ queue'[i] = HeartbeatRow(queue[i])
            \/ WriteBack(w) /\ Holds(w, i)
<1>0. /\ queue \in Table /\ workers \in [Workers -> WorkerRec] /\ HoldInv
      /\ workers[w] \in WorkerRec
  BY DEF TypeOK
<1>1. CASE StopWorker(w) \/ Call(w) \/ ClaimBusy(w) \/ WriteBackLost(w)
  BY <1>1 DEF StopWorker, Call, ClaimBusy, WriteBackLost
<1>2. CASE Claim(w)
  <2>1. PICK n \in EligibleFor(w) :
          /\ queue' = DequeueNextPending(queue, n)
          /\ workers' = [workers EXCEPT ![w].pc = "claimed", ![w].id = n,
                                        ![w].key = queue[n].key,
                                        ![w].attempt = queue[n].attempt + 1]
    BY <1>2 DEF Claim
  <2>2. n \in Ids /\ Present(queue, n) /\ queue[n].status = "pending"
    BY <2>1 DEF EligibleFor, EligibleIn, Eligible, InScope
  <2>3. workers'[w].id = n /\ workers'[w].pc = "claimed"
    BY <1>0, <2>1 DEF WorkerRec
  <2>4. queue'[n] = ClaimedRow(queue[n]) /\ \A m \in Ids \ {n} : queue'[m] = queue[m]
    BY <1>0, <2>1, <2>2 DEF DequeueNextPending, Table
  <2> QED BY <1>2, <2>2, <2>3, <2>4 DEF Present
<1>3. CASE BeatOnce(w) \/ WriteBack(w)
  <2>1. workers[w].pc \in Holding /\ workers[w].id \in Ids
    BY <1>0, <1>3 DEF BeatOnce, WriteBack, HoldInv, Holding
  <2>2. ~Present(queue, workers[w].id) => queue' = queue
    BY <1>3 DEF BeatOnce, WriteBack, Heartbeat, MarkDone, MarkSkipped, RequeueRateLimited,
       RecordItemFailure, UpdateById
  <2>3. \A m \in Ids : m # workers[w].id => queue'[m] = queue[m]
    BY <1>0, <1>3, <2>1 DEF BeatOnce, WriteBack, Heartbeat, MarkDone, MarkSkipped,
       RequeueRateLimited, RecordItemFailure, UpdateById, Table
  <2>4. BeatOnce(w) /\ Present(queue, workers[w].id) =>
          queue'[workers[w].id] = HeartbeatRow(queue[workers[w].id])
    BY <1>0, <2>1 DEF BeatOnce, Heartbeat, UpdateById, Table
  <2> QED BY <1>3, <2>1, <2>2, <2>3, <2>4 DEF Present, Holds
<1> QED BY <1>1, <1>2, <1>3 DEF WorkerStep

-----------------------------------------------------------------------------
(* Claims *)

\* A drain does not change its connection while a worker holds a row.
LEMMA WfileKept ==
  ASSUME TypeOK, HoldInv, [Next]_vars, NEW w \in Workers,
         workers[w].pc \in Holding, workers'[w].pc \in Holding
  PROVE  jobs'[JobOf[w]].wfile = jobs[JobOf[w]].wfile
<1> DEFINE Kept == jobs'[JobOf[w]].wfile = jobs[JobOf[w]].wfile
<1>0. /\ jobs \in [Jobs -> Job \cup {OffJob}] /\ workers \in [Workers -> WorkerRec]
      /\ JobOf \in [Workers -> Jobs] /\ jobs[JobOf[w]].pc = "drain"
  BY WorkersAssumption DEF TypeOK, HoldInv, InDrain
<1>1. ASSUME NEW j \in Jobs, JobStep(j) \/ Crash(j) PROVE Kept
  <2>1. JobOf[w] # j
    <3>1. CASE StartJob(j) \/ Prepare(j) \/ Scan(j) \/ ScanTimeout(j) \/ Enqueue(j)
               \/ SpawnDrain(j) \/ Finish(j)
      BY <1>0, <3>1 DEF StartJob, Prepare, Scan, ScanTimeout, Enqueue, SpawnDrain, Finish, On
    <3>2. CASE JoinFailed(j) \/ Join(j)
      BY <3>2 DEF JoinFailed, Join, Joined, WorkersOf, Holding
    <3>3. CASE Crash(j)
      <4>1. \A x : [OffWorker EXCEPT !.late = x].pc = "exit"
        BY DEF IdleWorker, OffWorker
      <4> QED BY <3>3, <4>1 DEF Crash, Ended, Holding
    <3> QED BY <1>1, <3>1, <3>2, <3>3 DEF JobStep
  <2> QED BY <1>0, <1>1, <2>1 DEF JobStep, StartJob, Prepare, Scan, ScanTimeout, Enqueue,
          SpawnDrain, JoinFailed, Join, Finish, Crash
<1>2. ASSUME NEW v \in Workers, WriteBack(v) \/ WriteBackLost(v) PROVE Kept
  <2>1. InDrain(v) /\ Tally(v)
    BY <1>2 DEF WriteBack, WriteBackLost, HoldInv, Holding
  <2> QED BY <1>0, <2>1, TallyType DEF On
<1>3. ASSUME NEW j \in Jobs, Signal(j) \/ RunDeadline(j) PROVE Kept
  <2>1. jobs[j] \in Job
    BY <1>3, OnJob DEF Signal, RunDeadline
  <2> QED BY <1>0, <1>3, <2>1 DEF Signal, RunDeadline, Job
<1>4. ASSUME NEW v \in Workers,
             \/ StopWorker(v) \/ Claim(v) \/ ClaimBusy(v) \/ BeatOnce(v) \/ Call(v)
             \/ ThrottleDeadline(v)
      PROVE  UNCHANGED jobs
  BY <1>4 DEF StopWorker, Claim, ClaimBusy, BeatOnce, Call, ThrottleDeadline
<1>5. ASSUME NEW i \in Ids, AgeClaim(i) \/ CoolDown(i) PROVE UNCHANGED jobs
  BY <1>5 DEF AgeClaim, CoolDown
<1>6. ASSUME Command PROVE UNCHANGED jobs
  BY <1>6 DEF Command, RequeueDeadCmd, RequeueSkippedCmd, PruneDeadOrphansCmd,
     PruneDeadEntityOrphansCmd, ResetStaleClaimsCmd, EnqueueHotCmd, ForgetCmd, RenameAwayCmd,
     DeleteEntityCmd, EditCmd, RememberMergeCmd
<1>7. ASSUME UNCHANGED vars PROVE UNCHANGED jobs
  BY <1>7 DEF vars
<1> QED BY <1>1, <1>2, <1>3, <1>4, <1>5, <1>6, <1>7 DEF Next, WorkerStep, Fault, Time

\* Only its next claim or its write-back makes a worker forget that its row was taken.
LEMMA TakenStays ==
  ASSUME [Next]_vars, NEW w \in taken, ~Claim(w), ~WriteBack(w)
  PROVE  w \in taken'
<1>1. ASSUME NEW j \in Jobs, JobStep(j) \/ Crash(j) \/ Signal(j) PROVE w \in taken'
  BY <1>1 DEF JobStep, StartJob, Prepare, Scan, ScanTimeout, Enqueue, SpawnDrain, JoinFailed,
     Join, Finish, Crash, Signal, Overtake
<1>2. ASSUME NEW v \in Workers, WorkerStep(v) \/ ClaimBusy(v) \/ WriteBackLost(v)
      PROVE  w \in taken'
  BY <1>2 DEF WorkerStep, StopWorker, Claim, BeatOnce, Call, WriteBack, ClaimBusy, WriteBackLost
<1>3. CASE Time
  BY <1>3 DEF Time, AgeClaim, CoolDown, RunDeadline, ThrottleDeadline
<1>4. CASE Command
  BY <1>4 DEF Command, RequeueDeadCmd, RequeueSkippedCmd, PruneDeadOrphansCmd,
     PruneDeadEntityOrphansCmd, ResetStaleClaimsCmd, EnqueueHotCmd, ForgetCmd, RenameAwayCmd,
     DeleteEntityCmd, EditCmd, RememberMergeCmd, Overtake
<1>5. CASE UNCHANGED vars
  BY <1>5 DEF vars
<1> QED BY <1>1, <1>2, <1>3, <1>4, <1>5 DEF Next, Fault

\* The row of a worker whose claim nobody took is in status processing, and its alone.
LEMMA JudgedRow ==
  ASSUME ClaimInv, NEW w \in Workers, w \notin taken, NEW i \in Ids, Holds(w, i),
         Present(queue, i)
  PROVE  /\ queue[i].status = "processing"
         /\ queue[i].attempt = workers[w].attempt
         /\ \A v \in Workers : Holds(v, i) => v = w
BY DEF ClaimInv, WriteBackHitsItsClaim, ClaimExclusive, Holds

\* A step in which worker w keeps its row leaves the claim standing, or w has lost it.
LEMMA ClaimStands ==
  ASSUME TypeOK, ClaimInv, [Next]_vars, NEW w \in Workers, w \notin taken, NEW i \in Ids,
         Holds(w, i), Present(queue', i), workers'[w].pc \in Holding
  PROVE  \/ w \in taken'
         \/ queue'[i].status = "processing" /\ queue'[i].attempt = queue[i].attempt
<1>1. /\ HoldInv /\ SingletonInv /\ ScopeInv
      /\ workers[w].pc \in Holding /\ workers[w].id = i
  BY DEF ClaimInv, Holds
<1>2. Present(queue, i)
  BY <1>1, HeldTriple
<1>3. /\ queue[i].status = "processing" /\ queue[i] \in Row
      /\ \A v \in Workers : Holds(v, i) => v = w
  BY <1>2, JudgedRow, PresentRow DEF TypeOK
<1>4. HandedBack(i) => w \in taken'
  BY DEF HandedBack
<1>5. ASSUME NEW j \in Jobs, JobStep(j) \/ Crash(j) PROVE HandedBack(i) \/ queue'[i] = queue[i]
  BY <1>1, <1>2, <1>3, <1>5, JobRow
<1>6. ASSUME NEW v \in Workers, WorkerStep(v) \/ ClaimBusy(v) \/ WriteBackLost(v)
      PROVE  queue'[i].status = "processing" /\ queue'[i].attempt = queue[i].attempt
  <2>1. ~(WriteBack(v) /\ Holds(v, i))
    BY <1>3, WriteBackLets
  <2> QED BY <1>1, <1>3, <1>6, <2>1, WorkerRow, RowFields
<1>7. CASE Time \/ Command
  BY <1>2, <1>3, <1>4, <1>7, EnvRow
<1>8. ASSUME NEW j \in Jobs, Signal(j) PROVE queue'[i] = queue[i]
  BY <1>8 DEF Signal
<1>9. CASE UNCHANGED vars
  BY <1>3, <1>9 DEF vars
<1> QED BY <1>3, <1>4, <1>5, <1>6, <1>7, <1>8, <1>9 DEF Next, Fault

\* A claim by another worker does not choose a row that stands claimed.
LEMMA NoSecondClaim ==
  ASSUME TypeOK, ClaimInv, [Next]_vars, NEW w \in Workers, w \notin taken, NEW i \in Ids,
         Holds(w, i), NEW v \in Workers, v # w
  PROVE  ~Holds(v, i)'
<1> SUFFICES ASSUME Holds(v, i)' PROVE FALSE
  OBVIOUS
<1>1. HoldInv /\ workers[w].pc \in Holding /\ workers[w].id = i
  BY DEF ClaimInv, Holds
<1>2. ~Holds(v, i)
  BY <1>1 DEF ClaimInv, ClaimExclusive
<1>3. Claim(v)
  BY <1>1, <1>2, HolderStep DEF Holds
<1>4. PICK n \in EligibleFor(v) : workers' = [workers EXCEPT ![v].pc = "claimed", ![v].id = n,
                                                ![v].key = queue[n].key,
                                                ![v].attempt = queue[n].attempt + 1]
  BY <1>3 DEF Claim
<1>5. workers'[v].id = n
  BY <1>4 DEF TypeOK, WorkerRec
<1>6. n = i
  BY <1>5 DEF Holds
<1>7. Present(queue, i) /\ queue[i].status = "pending"
  BY <1>4, <1>6 DEF EligibleFor, EligibleIn, Eligible, InScope
<1> QED BY <1>7, JudgedRow

\* A claim that nobody shares is exclusive and matches its row.
LEMMA NewClaim ==
  ASSUME TypeOK, ClaimInv, NEW w \in Workers, Claim(w), w \notin taken'
  PROVE  /\ \A v \in Workers \ {w} : ~Holds(v, workers[w].id)'
         /\ LET r == queue'[workers'[w].id]
            IN  /\ r.status = "processing" /\ r.key = workers'[w].key
                /\ r.attempt = workers'[w].attempt /\ r.file = jobs'[JobOf[w]].wfile
<1>0. queue \in Table /\ workers \in [Workers -> WorkerRec]
  BY DEF TypeOK
<1>1. PICK i \in EligibleFor(w) :
        /\ queue' = DequeueNextPending(queue, i)
        /\ workers' = [workers EXCEPT ![w].pc = "claimed", ![w].id = i,
                                      ![w].key = queue[i].key,
                                      ![w].attempt = queue[i].attempt + 1]
        /\ taken' = IF \E v \in Workers \ {w} : Holds(v, i) THEN taken \cup {w}
                    ELSE taken \ {w}
  BY DEF Claim
<1>2. i \in Ids /\ queue[i] \in Row /\ queue[i].file = jobs[JobOf[w]].wfile
  BY <1>0, <1>1, PresentRow DEF EligibleFor, EligibleIn, Eligible, InScope
<1>3. /\ workers'[w].id = i /\ workers'[w].key = queue[i].key
      /\ workers'[w].attempt = queue[i].attempt + 1
  BY <1>0, <1>1 DEF WorkerRec
<1>4. queue'[i] = ClaimedRow(queue[i])
  BY <1>0, <1>1, <1>2 DEF DequeueNextPending, Table
<1>5. \A v \in Workers \ {w} : ~Holds(v, i) /\ workers'[v] = workers[v]
  BY <1>0, <1>1
<1>6. UNCHANGED jobs
  BY DEF Claim
<1>7. ASSUME NEW v \in Workers \ {w} PROVE ~Holds(v, workers[w].id)'
  BY <1>3, <1>5, <1>7 DEF Holds
<1>8. /\ queue'[i].status = "processing" /\ queue'[i].key = queue[i].key
      /\ queue'[i].attempt = queue[i].attempt + 1 /\ queue'[i].file = queue[i].file
  BY <1>2, <1>4, RowFields
<1> QED BY <1>2, <1>3, <1>6, <1>7, <1>8

LEMMA NextClaim ==
  ASSUME TypeOK, ClaimInv, [Next]_vars
  PROVE  ClaimInv'
<1>1. HoldInv' /\ SingletonInv' /\ ScopeInv'
  BY NextHold, NextSingleton, NextScope DEF ClaimInv
<1> DEFINE Match(w) == LET r == queue'[workers'[w].id]
                       IN  /\ r.status = "processing" /\ r.key = workers'[w].key
                           /\ r.attempt = workers'[w].attempt
                           /\ r.file = jobs'[JobOf[w]].wfile
<1>2. ASSUME NEW w \in Workers, w \notin taken', workers'[w].pc \in Holding
      PROVE  /\ \A v \in Workers \ {w} : ~Holds(v, workers[w].id)'
             /\ Present(queue', workers'[w].id) => Match(w)
  <2>1. CASE Claim(w)
    BY <1>2, <2>1, NewClaim
  <2>2. CASE ~Claim(w)
    <3>1. /\ HoldInv /\ workers[w].pc \in Holding
          /\ workers'[w].id = workers[w].id /\ workers'[w].key = workers[w].key
          /\ workers'[w].attempt = workers[w].attempt
      BY <1>2, <2>2, HolderStep DEF ClaimInv
    <3>2. PICK i \in Ids : i = workers[w].id /\ Holds(w, i)
      BY <3>1 DEF HoldInv, Holds
    <3>3. w \notin taken
      BY <1>2, <2>2, WriteBackLets, TakenStays
    <3>4. ASSUME NEW v \in Workers \ {w} PROVE ~Holds(v, workers[w].id)'
      <4>1. ~Holds(v, i)'
        BY <3>2, <3>3, NoSecondClaim
      <4> QED BY <3>1, <3>2, <4>1 DEF Holds
    <3>5. ASSUME Present(queue', i) PROVE Match(w)
      <4>1. queue'[i].status = "processing" /\ queue'[i].attempt = queue[i].attempt
        BY <1>2, <3>2, <3>3, <3>5, ClaimStands
      <4>2. Present(queue, i) /\ Triple(queue'[i]) = Triple(queue[i])
        BY <3>1, <3>2, <3>5, HeldTriple
      <4>3. /\ queue[i].key = workers[w].key /\ queue[i].attempt = workers[w].attempt
            /\ queue[i].file = jobs[JobOf[w]].wfile
        BY <3>1, <3>2, <3>3, <4>2 DEF ClaimInv, WriteBackHitsItsClaim
      <4>4. jobs'[JobOf[w]].wfile = jobs[JobOf[w]].wfile
        BY <1>2, <3>1, WfileKept
      <4> QED BY <3>1, <3>2, <4>1, <4>2, <4>3, <4>4 DEF Triple
    <3> QED BY <3>1, <3>2, <3>4, <3>5
  <2> QED BY <2>1, <2>2
<1>3. ClaimExclusive'
  BY <1>2 DEF ClaimExclusive
<1>4. WriteBackHitsItsClaim'
  BY <1>2 DEF WriteBackHitsItsClaim
<1> QED BY <1>1, <1>3, <1>4 DEF ClaimInv

LEMMA InitClaim == Init => ClaimInv
BY InitType DEF Init, ClaimInv, SingletonInv, ScopeInv, ClaimExclusive, WriteBackHitsItsClaim,
   On, OffJob, OffWorker, IdleWorker, Holding

\* ClaimInv is inductive together with the types.
LEMMA ClaimInvariance == Spec => [](TypeOK /\ ClaimInv)
<1>1. TypeOK /\ ClaimInv /\ [Next]_vars => (TypeOK /\ ClaimInv)'
  BY NextType, NextClaim DEF ClaimInv
<1>2. Init => TypeOK /\ ClaimInv
  BY InitType, InitClaim
<1> QED BY <1>1, <1>2, PTL DEF Spec

\* Whatever crashes, signals, lost writes, slow calls, hot enqueues and maintenance commands
\* happen in between, two workers of any runs work on one row only after a sweep of stale
\* claims or a hot enqueue took the claim from under one of them.
THEOREM ClaimSafety == Spec => []ClaimExclusive
<1>1. ClaimInv => ClaimExclusive
  BY DEF ClaimInv
<1> QED BY <1>1, ClaimInvariance, PTL

\* Every write-back, which addresses its row by id and checks nothing, lands on the very
\* claim it belongs to, or on no row at all, unless that claim was taken from its worker or
\* made while another such worker was still at the row.
THEOREM WriteBackSafety == Spec => []WriteBackHitsItsClaim
<1>1. ClaimInv => WriteBackHitsItsClaim
  BY DEF ClaimInv
<1> QED BY <1>1, ClaimInvariance, PTL

-----------------------------------------------------------------------------
(* Verdicts *)

\* A row that is done or dead stays so in every step but three.
LEMMA NextVerdict ==
  ASSUME TypeOK, ClaimInv, [Next]_vars, NEW i \in Ids,
         Present(queue, i), queue[i].status \in {"done", "dead"}, Present(queue', i)
  PROVE  \/ queue'[i].status = queue[i].status
         \/ queue[i].status = "done" /\ \E j \in Jobs : Reopens(j)
         \/ /\ queue[i].status = "dead"
            /\ \E ns \in Namespaces, op \in Operations : RequeueDeadCmd(ns, op)
         \/ StrayWriteBack(i)
<1>0. queue[i] \in Row /\ HoldInv /\ SingletonInv /\ ScopeInv
  BY PresentRow DEF TypeOK, ClaimInv
<1>1. ASSUME NEW j \in Jobs, JobStep(j) \/ Crash(j)
      PROVE  queue'[i] = queue[i] \/ (queue[i].status = "done" /\ Reopens(j))
  BY <1>0, <1>1, JobRow DEF HandedBack
<1>2. ASSUME NEW w \in Workers, WorkerStep(w) \/ ClaimBusy(w) \/ WriteBackLost(w)
      PROVE  queue'[i].status = queue[i].status \/ StrayWriteBack(i)
  <2>1. ASSUME WriteBack(w), Holds(w, i) PROVE StrayWriteBack(i)
    <3>1. w \in taken
      BY <2>1, JudgedRow
    <3>2. ~Holds(w, i)'
      BY <2>1, WriteBackLets DEF Holds
    <3> QED BY <2>1, <3>1, <3>2 DEF StrayWriteBack
  <2>2. HeartbeatRow(queue[i]).status = queue[i].status
    BY <1>0, RowFields
  <2> QED BY <1>0, <1>2, <2>1, <2>2, WorkerRow
<1>3. CASE Time \/ Command
  BY <1>3, EnvRow DEF HandedBack
<1>4. ASSUME NEW j \in Jobs, Signal(j) PROVE queue'[i] = queue[i]
  BY <1>4 DEF Signal
<1>5. ASSUME UNCHANGED vars PROVE queue'[i] = queue[i]
  BY <1>5 DEF vars
<1> QED BY <1>1, <1>2, <1>3, <1>4, <1>5 DEF Next, Fault

\* A finished item is not paid for twice: a row in status done is deleted, reopened by a
\* first --force-redescribe scan, overwritten late by a worker whose claim was taken, or done
\* for ever; no sweep, resume, requeue, hot enqueue or other write-back takes the verdict back.
THEOREM DoneStays == Spec => DoneIsFinal
<1>1. TypeOK /\ ClaimInv /\ [Next]_vars => DoneIsFinal!1
  BY NextVerdict DEF Reopens
<1> QED BY <1>1, ClaimInvariance, PTL DEF Spec, DoneIsFinal

\* A dead letter leaves its status only when an operator asks for it (--requeue-dead) or a
\* worker whose claim was taken writes back late: runs, other workers, time, hot enqueues and
\* the other commands never resurrect it.
THEOREM DeadStays == Spec => DeadNeedsOperator
<1>1. TypeOK /\ ClaimInv /\ [Next]_vars => DeadNeedsOperator!1
  BY NextVerdict
<1> QED BY <1>1, ClaimInvariance, PTL DEF Spec, DeadNeedsOperator

-----------------------------------------------------------------------------
(* The attempt budget *)

\* Claims that may have ended without a verdict on the row, and verdicts undone.
Spent == events.crash + events.lost + events.throttle + strays

\* Worker w is going to leave a verdict, unless something happens to it.
Judging(w) == ~(workers[w].pc = "returned" /\ workers[w].out = "ratelimited")

\* AttemptBudget is not inductive: a pending row must have a claim left, and so must a claim
\* that nobody works on or that a throttled worker is about to return.
BudgetRow(i) ==
  Present(queue, i) =>
    /\ queue[i].attempt <= MaxAttempts + Spent
    /\ queue[i].status = "pending" => queue[i].attempt < MaxAttempts + Spent
    /\ queue[i].status = "processing" =>
         \/ queue[i].attempt < MaxAttempts + Spent
         \/ \E w \in Workers : Holds(w, i) /\ Judging(w)

BudgetInv == \A i \in Ids : BudgetRow(i)

\* A step that moves neither the row nor its holders, or that is counted.
LEMMA BudgetFrame ==
  ASSUME TypeOK, TypeOK', NEW i \in Ids, BudgetRow(i),
         Present(queue', i) =>
           /\ Present(queue, i)
           /\ queue'[i].attempt = queue[i].attempt
           /\ queue'[i].status = queue[i].status,
         \/ Spent' > Spent
         \/ /\ Spent' = Spent
            /\ \A w \in Workers : Holds(w, i) /\ Judging(w) => Holds(w, i)' /\ Judging(w)'
  PROVE  BudgetRow(i)'
<1>1. Spent \in Nat /\ Spent' \in Nat
  BY DEF TypeOK, Spent
<1>2. Present(queue, i) => queue[i].attempt \in Nat
  BY PresentRow DEF TypeOK, Row
<1> HIDE DEF Spent
<1>3. SUFFICES ASSUME Present(queue', i) PROVE BudgetRow(i)'
  BY DEF BudgetRow
<1>4. CASE Spent' > Spent
  BY <1>1, <1>2, <1>3, <1>4, AttemptAssumption DEF BudgetRow
<1>5. CASE Spent' = Spent /\ \A w \in Workers : Holds(w, i) /\ Judging(w)
                                                   => Holds(w, i)' /\ Judging(w)'
  BY <1>3, <1>5 DEF BudgetRow
<1> QED BY <1>4, <1>5

\* A row with a claim to spare is fine in whatever status.
LEMMA BudgetSpare ==
  ASSUME TypeOK', NEW i \in Ids, Present(queue', i) => queue'[i].attempt < MaxAttempts + Spent'
  PROVE  BudgetRow(i)'
<1>1. Spent' \in Nat
  BY DEF TypeOK, Spent
<1>2. Present(queue', i) => queue'[i].attempt \in Nat
  BY PresentRow DEF TypeOK, Row
<1> HIDE DEF Spent
<1> QED BY <1>1, <1>2, AttemptAssumption DEF BudgetRow

LEMMA FreshBudget ==
  ASSUME TypeOK' PROVE 0 < MaxAttempts + Spent'
<1>1. Spent' \in Nat
  BY DEF TypeOK, Spent
<1>2. \A s \in Nat : 0 < MaxAttempts + s
  BY AttemptAssumption
<1> QED BY <1>1, <1>2

\* The steps of a run do not end a worker that holds a row.
LEMMA JobStepHolders ==
  ASSUME TypeOK, HoldInv, NEW j \in Jobs, JobStep(j), NEW w \in Workers, workers[w].pc \in Holding
  PROVE  workers'[w] = workers[w]
<1>0. /\ workers \in [Workers -> WorkerRec] /\ JobOf \in [Workers -> Jobs]
      /\ JobOf[w] = j => jobs[j].pc = "drain"
  BY WorkersAssumption DEF TypeOK, HoldInv, InDrain
<1>1. CASE SpawnDrain(j)
  BY <1>0, <1>1 DEF SpawnDrain, WorkersOf
<1>2. CASE JoinFailed(j) \/ Join(j)
  <2>1. JobOf[w] # j
    BY <1>2 DEF JoinFailed, Join, Joined, WorkersOf, Holding
  <2> QED BY <1>0, <1>2, <2>1 DEF JoinFailed, Join, Ended
<1>3. CASE \/ StartJob(j) \/ Prepare(j) \/ Scan(j) \/ ScanTimeout(j) \/ Enqueue(j)
           \/ Finish(j)
  BY <1>3 DEF StartJob, Prepare, Scan, ScanTimeout, Enqueue, Finish
<1> QED BY <1>1, <1>2, <1>3 DEF JobStep

\* A claim handed back has a claim to spare.
LEMMA HandedBudget ==
  ASSUME TypeOK, TypeOK', NEW i \in Ids, BudgetRow(i), Spent' >= Spent, HandedBack(i),
         strays' > strays => Spent' > Spent
  PROVE  BudgetRow(i)'
<1>1. Spent \in Nat /\ Spent' \in Nat
  BY DEF TypeOK, Spent
<1>2. /\ Present(queue, i) /\ queue[i].status = "processing" /\ queue[i].attempt \in Nat
      /\ queue'[i].attempt = queue[i].attempt
  BY PresentRow DEF HandedBack, TypeOK, Row
<1>3. queue[i].attempt < MaxAttempts + Spent \/ strays' > strays
  <2>1. CASE ~\E w \in Workers : Holds(w, i)
    BY <1>2, <2>1 DEF BudgetRow
  <2>2. CASE strays' = strays + 1
    BY <2>2 DEF TypeOK
  <2> QED BY <2>1, <2>2 DEF HandedBack
<1>4. queue[i].attempt <= MaxAttempts + Spent
  BY <1>2 DEF BudgetRow
<1> HIDE DEF Spent
<1>5. queue'[i].attempt < MaxAttempts + Spent'
  BY <1>1, <1>2, <1>3, <1>4, AttemptAssumption
<1> QED BY <1>5, BudgetSpare

\* A run spends nothing but the claims its startup sweep takes.
LEMMA JobStepSpends ==
  ASSUME TypeOK, NEW j \in Jobs, JobStep(j)
  PROVE  \/ strays' = strays /\ Spent' = Spent
         \/ strays' > strays /\ Spent' > Spent
<1>1. /\ events \in [crash: Nat, signal: Nat, lost: Nat, throttle: Nat, admin: Nat]
      /\ strays \in Nat
  BY DEF TypeOK
<1>2. UNCHANGED events /\ strays' \in {strays, strays + 1}
  BY DEF JobStep, StartJob, Prepare, Scan, ScanTimeout, Enqueue, SpawnDrain, JoinFailed, Join,
     Finish, Overtake
<1> QED BY <1>1, <1>2 DEF Spent

LEMMA JobStepBudget ==
  ASSUME TypeOK, TypeOK', ClaimInv, NEW j \in Jobs, JobStep(j), NEW i \in Ids, BudgetRow(i)
  PROVE  BudgetRow(i)'
<1>0. /\ HoldInv /\ SingletonInv /\ ScopeInv
      /\ Spent \in Nat /\ Spent' \in Nat
  BY DEF ClaimInv, TypeOK, Spent
<1>1. Present(queue, i) => queue[i] \in Row
  BY PresentRow DEF TypeOK
<1>2. \A w \in Workers : Holds(w, i) /\ Judging(w) => Holds(w, i)' /\ Judging(w)'
  BY <1>0, JobStepHolders DEF Holds, Judging
<1> SUFFICES ASSUME Present(queue', i) PROVE BudgetRow(i)'
  BY DEF BudgetRow
<1>3. CASE queue'[i] = queue[i]
  BY <1>2, <1>3, JobStepSpends, BudgetFrame DEF Present
<1>4. CASE HandedBack(i)
  <2>1. /\ strays' > strays => Spent' > Spent
        /\ Spent' = Spent \/ Spent' > Spent
    BY JobStepSpends DEF TypeOK
  <2> HIDE DEF Spent
  <2>2. Spent' >= Spent
    BY <1>0, <2>1
  <2> QED BY <1>4, <2>1, <2>2, HandedBudget
<1>5. CASE queue'[i].attempt = 0
  BY <1>5, FreshBudget, BudgetSpare
<1>6. CASE Present(queue, i) /\ queue'[i] = ReopenedRow(queue[i])
  BY <1>1, <1>5, <1>6, RowFields
<1> QED BY <1>0, <1>3, <1>4, <1>5, <1>6, JobRow

LEMMA WorkerStepBudget ==
  ASSUME TypeOK, TypeOK', ClaimInv, NEW w \in Workers, WorkerStep(w), NEW i \in Ids, BudgetRow(i)
  PROVE  BudgetRow(i)'
<1>0. /\ HoldInv /\ SingletonInv /\ ScopeInv /\ strays \in Nat /\ queue \in Table /\ workers \in [Workers -> WorkerRec]
      /\ workers[w] \in WorkerRec
      /\ events \in [crash: Nat, signal: Nat, lost: Nat, throttle: Nat, admin: Nat]
  BY DEF ClaimInv, TypeOK
<1>1. Present(queue, i) => queue[i] \in Row
  BY <1>0, PresentRow
<1>2. \A v \in Workers \ {w} : workers'[v] = workers[v]
  BY <1>0 DEF WorkerStep, StopWorker, ExitWorker, Claim, BeatOnce, Call, WriteBack
<1>3. ~Call(w) /\ (~WriteBack(w) \/ w \notin taken) => Spent' = Spent
  BY DEF WorkerStep, StopWorker, Claim, BeatOnce, WriteBack, Spent
<1> SUFFICES ASSUME Present(queue', i) PROVE BudgetRow(i)'
  BY DEF BudgetRow
<1>4. CASE StopWorker(w)
  <2>1. ~Holds(w, i)
    BY <1>4 DEF StopWorker, Holds, Holding
  <2>2. \A v \in Workers : Holds(v, i) /\ Judging(v) => Holds(v, i)' /\ Judging(v)'
    BY <1>2, <2>1 DEF Holds, Judging
  <2>3. ~Call(w) /\ ~WriteBack(w) /\ UNCHANGED queue
    BY <1>4 DEF StopWorker, Call, WriteBack
  <2> QED BY <1>3, <2>2, <2>3, BudgetFrame DEF Present
<1>5. CASE Claim(w)
  <2>1. ~Holds(w, i) /\ ~Call(w) /\ ~BeatOnce(w) /\ ~WriteBack(w)
    BY <1>5 DEF Claim, Call, BeatOnce, WriteBack, Holds, Holding
  <2>2. \A v \in Workers : Holds(v, i) /\ Judging(v) => Holds(v, i)' /\ Judging(v)'
    BY <1>2, <2>1 DEF Holds, Judging
  <2>3. CASE queue'[i] = queue[i]
    BY <1>3, <2>1, <2>2, <2>3, BudgetFrame DEF Present
  <2>4. CASE /\ Present(queue, i) /\ queue[i].status = "pending"
             /\ queue'[i] = ClaimedRow(queue[i])
             /\ workers'[w].id = i /\ workers'[w].pc = "claimed"
    <3>1. Holds(w, i)' /\ Judging(w)'
      BY <2>4 DEF Holds, Judging, Holding
    <3>2. /\ queue[i].attempt \in Nat /\ queue[i].attempt < MaxAttempts + Spent
          /\ queue'[i].attempt = queue[i].attempt + 1 /\ queue'[i].status = "processing"
      BY <1>1, <2>4, RowFields DEF BudgetRow, Row
    <3>3. Spent \in Nat /\ Spent' = Spent
      BY <1>0, <1>3, <2>1 DEF Spent
    <3> HIDE DEF Spent
    <3>4. queue'[i].attempt <= MaxAttempts + Spent'
      BY <3>2, <3>3, AttemptAssumption
    <3> QED BY <3>1, <3>2, <3>4 DEF BudgetRow
  <2> QED BY <1>0, <1>5, <2>1, <2>3, <2>4, WorkerRow
<1>6. CASE BeatOnce(w)
  <2>1. ~Call(w) /\ ~Claim(w) /\ ~WriteBack(w)
    BY <1>6 DEF BeatOnce, Call, Claim, WriteBack
  <2>2. workers'[w].id = workers[w].id /\ workers'[w].pc = "calling"
    BY <1>0, <1>6 DEF BeatOnce, WorkerRec
  <2>3. \A v \in Workers : Holds(v, i) /\ Judging(v) => Holds(v, i)' /\ Judging(v)'
    BY <1>2, <2>2 DEF Holds, Judging, Holding
  <2>4. /\ Present(queue, i) /\ queue'[i].attempt = queue[i].attempt
        /\ queue'[i].status = queue[i].status
    BY <1>0, <1>1, <2>1, WorkerRow, RowFields
  <2> QED BY <1>3, <2>1, <2>3, <2>4, BudgetFrame
<1>7. CASE Call(w)
  <2>1. UNCHANGED <<queue, strays>>
    BY <1>7 DEF Call
  <2>2. PICK out \in Outcomes :
          /\ IF out = "ratelimited" THEN events.throttle < MaxThrottles /\ Count("throttle")
             ELSE UNCHANGED events
          /\ workers' = [workers EXCEPT ![w].pc = "returned", ![w].out = out]
    BY <1>7 DEF Call
  <2>3. CASE out = "ratelimited"
    <3>1. Spent' > Spent
      BY <1>0, <2>1, <2>2, <2>3 DEF Count, Spent
    <3> QED BY <2>1, <3>1, BudgetFrame DEF Present
  <2>4. CASE out # "ratelimited"
    <3>1. /\ workers'[w].id = workers[w].id /\ workers'[w].pc = "returned"
          /\ workers'[w].out # "ratelimited"
      BY <1>0, <2>2, <2>4 DEF WorkerRec
    <3>2. \A v \in Workers : Holds(v, i) /\ Judging(v) => Holds(v, i)' /\ Judging(v)'
      BY <1>2, <3>1 DEF Holds, Judging, Holding
    <3>3. Spent' = Spent
      BY <2>1, <2>2, <2>4 DEF Spent
    <3> QED BY <2>1, <3>2, <3>3, BudgetFrame DEF Present
  <2> QED BY <2>3, <2>4
<1>8. CASE WriteBack(w)
  <2>1. ~Call(w) /\ ~Claim(w) /\ ~BeatOnce(w)
    BY <1>8 DEF BeatOnce, Call, Claim, WriteBack
  <2>2. w \notin taken => Spent' = Spent
    BY <1>3, <2>1
  <2>3. w \in taken => Spent' > Spent
    BY <1>0, <1>8 DEF WriteBack, Spent
  <2>4. Spent \in Nat /\ Spent' \in Nat
    BY DEF TypeOK, Spent
  <2>5. Present(queue, i) /\ queue[i] \in Row
    BY <1>0, <1>1, WorkerRow
  <2>6. CASE ~Holds(w, i)
    <3>1. Present(queue, i) /\ queue'[i] = queue[i]
      BY <1>0, <2>1, <2>6, WorkerRow
    <3>2. \A v \in Workers : Holds(v, i) /\ Judging(v) => Holds(v, i)' /\ Judging(v)'
      BY <1>2, <2>6 DEF Holds, Judging
    <3> QED BY <2>2, <2>3, <3>1, <3>2, BudgetFrame
  <2>7. CASE Holds(w, i)
    <3>1. /\ \A f \in {DoneRow(queue[i]), SkippedRow(queue[i]), DeadRow(queue[i])} :
               f.attempt = queue[i].attempt /\ f.status \notin {"pending", "processing"}
          /\ \A f \in {PendingRow(queue[i]), BackoffRow(queue[i])} :
               f.attempt = queue[i].attempt
      BY <2>5 DEF Row, DoneRow, SkippedRow, DeadRow, PendingRow, BackoffRow
    <3>2. \/ queue'[i] \in {DoneRow(queue[i]), SkippedRow(queue[i]), DeadRow(queue[i])}
          \/ Throttled(w) /\ queue'[i] = PendingRow(queue[i])
          \/ workers[w].attempt < MaxAttempts /\ queue'[i] = BackoffRow(queue[i])
      <4>1. \A r : [queue EXCEPT ![i] = r][i] = r
        BY <1>0 DEF Table
      <4>2. workers[w].attempt \in Nat /\ workers[w].id = i
        BY <1>0, <2>7 DEF WorkerRec, Holds
      <4> QED BY <1>8, <2>5, <4>1, <4>2, AttemptAssumption
              DEF WriteBack, MarkDone, MarkSkipped, RequeueRateLimited, RecordItemFailure,
                  UpdateById
    <3>3. queue[i].attempt \in Nat /\ queue[i].attempt <= MaxAttempts + Spent
      BY <2>5 DEF BudgetRow, Row
    <3>4. queue'[i].attempt = queue[i].attempt
      BY <3>1, <3>2
    <3>5. CASE w \in taken
      <4>1. Spent' > Spent
        BY <2>3, <3>5
      <4> HIDE DEF Spent
      <4>2. queue'[i].attempt < MaxAttempts + Spent'
        BY <2>4, <3>3, <3>4, <4>1, AttemptAssumption
      <4> QED BY <4>2, BudgetSpare
    <3>6. CASE w \notin taken
      <4>0. Spent' = Spent
        BY <2>2, <3>6
      <4>1. /\ queue[i].status = "processing" /\ queue[i].attempt = workers[w].attempt
            /\ \A v \in Workers : Holds(v, i) => v = w
        BY <2>5, <2>7, <3>6, JudgedRow
      <4> HIDE DEF Spent
      <4>2. CASE queue'[i] \in {DoneRow(queue[i]), SkippedRow(queue[i]), DeadRow(queue[i])}
        BY <3>1, <3>3, <4>0, <4>2 DEF BudgetRow
      <4>3. CASE Throttled(w) /\ queue'[i] = PendingRow(queue[i])
        <5>1. ~Judging(w)
          BY <1>8, <4>3 DEF WriteBack, Throttled, Judging
        <5>2. queue[i].attempt < MaxAttempts + Spent
          BY <2>5, <4>1, <5>1 DEF BudgetRow
        <5> QED BY <3>4, <4>0, <5>2, BudgetSpare
      <4>4. CASE workers[w].attempt < MaxAttempts /\ queue'[i] = BackoffRow(queue[i])
        <5>1. queue[i].attempt < MaxAttempts + Spent
          BY <2>4, <3>3, <4>1, <4>4, AttemptAssumption
        <5> QED BY <3>4, <4>0, <5>1, BudgetSpare
      <4> QED BY <3>2, <4>2, <4>3, <4>4
    <3> QED BY <3>5, <3>6
  <2> QED BY <2>6, <2>7
<1> QED BY <1>4, <1>5, <1>6, <1>7, <1>8 DEF WorkerStep

\* Faults that end a claim without a verdict are counted.
LEMMA FaultBudget ==
  ASSUME TypeOK, TypeOK', ClaimInv, Fault, NEW i \in Ids, BudgetRow(i)
  PROVE  BudgetRow(i)'
<1>0. /\ events \in [crash: Nat, signal: Nat, lost: Nat, throttle: Nat, admin: Nat]
      /\ strays \in Nat
  BY DEF TypeOK
<1>1. ASSUME NEW j \in Jobs, Signal(j) PROVE BudgetRow(i)'
  <2>1. Spent' = Spent
    BY <1>0, <1>1 DEF Signal, Count, Spent
  <2>2. UNCHANGED <<queue, workers>>
    BY <1>1 DEF Signal
  <2>3. \A w \in Workers : Holds(w, i) /\ Judging(w) => Holds(w, i)' /\ Judging(w)'
    BY <2>2 DEF Holds, Judging
  <2> QED BY <2>1, <2>2, <2>3, BudgetFrame DEF Present
<1>2. ASSUME NEW w \in Workers, ClaimBusy(w) \/ WriteBackLost(w) PROVE BudgetRow(i)'
  <2>1. Spent' > Spent
    BY <1>0, <1>2 DEF ClaimBusy, WriteBackLost, Count, Spent
  <2>2. UNCHANGED queue
    BY <1>2 DEF ClaimBusy, WriteBackLost
  <2> QED BY <2>1, <2>2, BudgetFrame DEF Present
<1>3. ASSUME NEW j \in Jobs, Crash(j) PROVE BudgetRow(i)'
  <2>1. Spent' > Spent
    BY <1>0, <1>3 DEF Crash, Count, Spent
  <2>2. queue'[i] \in {queue[i], NoRow}
    BY <1>3, DeletesOnly DEF Crash, TypeOK
  <2> QED BY <2>1, <2>2, BudgetFrame DEF Present, NoRow
<1> QED BY <1>1, <1>2, <1>3 DEF Fault

\* Time and the commands spend nothing but the claims that a sweep or a hot enqueue takes.
LEMMA EnvSpends ==
  ASSUME TypeOK, Time \/ Command
  PROVE  \/ strays' = strays /\ Spent' = Spent
         \/ strays' > strays /\ Spent' > Spent
<1>1. /\ events \in [crash: Nat, signal: Nat, lost: Nat, throttle: Nat, admin: Nat]
      /\ strays \in Nat
  BY DEF TypeOK
<1>2. CASE Time
  BY <1>2 DEF Time, AgeClaim, CoolDown, RunDeadline, ThrottleDeadline, Spent
<1>3. CASE Command
  <2>1. Admin /\ strays' \in {strays, strays + 1}
    BY <1>3 DEF Command, RequeueDeadCmd, RequeueSkippedCmd, PruneDeadOrphansCmd,
       PruneDeadEntityOrphansCmd, ResetStaleClaimsCmd, EnqueueHotCmd, ForgetCmd,
       RenameAwayCmd, DeleteEntityCmd, EditCmd, RememberMergeCmd, Overtake
  <2>2. /\ events'.crash = events.crash /\ events'.lost = events.lost
        /\ events'.throttle = events.throttle
    BY <1>1, <2>1 DEF Admin, Count
  <2> QED BY <1>1, <2>1, <2>2 DEF Spent
<1> QED BY <1>2, <1>3

LEMMA EnvBudget ==
  ASSUME TypeOK, TypeOK', ClaimInv, Time \/ Command, NEW i \in Ids, BudgetRow(i)
  PROVE  BudgetRow(i)'
<1>0. Spent \in Nat /\ Spent' \in Nat
  BY DEF TypeOK, Spent
<1>1. \A w \in Workers : Holds(w, i) /\ Judging(w) => Holds(w, i)' /\ Judging(w)'
  <2>1. \A w \in Workers : /\ workers'[w].pc = workers[w].pc
                           /\ workers'[w].id = workers[w].id
                           /\ workers'[w].out = workers[w].out
    <3>1. CASE Time
      BY <3>1 DEF Time, AgeClaim, CoolDown, RunDeadline, ThrottleDeadline, TypeOK, WorkerRec
    <3>2. CASE Command
      BY <3>2 DEF Command, RequeueDeadCmd, RequeueSkippedCmd, PruneDeadOrphansCmd,
         PruneDeadEntityOrphansCmd, ResetStaleClaimsCmd, EnqueueHotCmd, ForgetCmd,
         RenameAwayCmd, DeleteEntityCmd, EditCmd, RememberMergeCmd
    <3> QED BY <3>1, <3>2
  <2> QED BY <2>1 DEF Holds, Judging
<1>2. Present(queue, i) => queue[i] \in Row
  BY PresentRow DEF TypeOK
<1> SUFFICES ASSUME Present(queue', i) PROVE BudgetRow(i)'
  BY DEF BudgetRow
<1>3. CASE /\ Present(queue, i) /\ queue'[i].status = queue[i].status
           /\ queue'[i].attempt = queue[i].attempt
  BY <1>1, <1>3, EnvSpends, BudgetFrame
<1>4. CASE HandedBack(i)
  <2>1. /\ strays' > strays => Spent' > Spent
        /\ Spent' = Spent \/ Spent' > Spent
    BY EnvSpends DEF TypeOK
  <2> HIDE DEF Spent
  <2>2. Spent' >= Spent
    BY <1>0, <2>1
  <2> QED BY <1>4, <2>1, <2>2, HandedBudget
<1>5. CASE queue'[i].attempt = 0
  BY <1>5, FreshBudget, BudgetSpare
<1>6. CASE Present(queue, i) /\ queue'[i] = RequeuedRow(queue[i])
  BY <1>2, <1>5, <1>6, RowFields
<1> QED BY <1>3, <1>4, <1>5, <1>6, EnvRow

\* However runs, crashes, sweeps, resumes, requeues, hot enqueues, slow calls and lost
\* write-backs interleave, a row is claimed at most --max-attempts times plus once for every
\* crash, lost write-back, throttled call, sweep or hot enqueue that took a claim from its
\* worker, and late write-back of such a worker.
THEOREM AttemptsAreBounded == Spec => []AttemptBudget
<1>1. Init => BudgetInv
  BY DEF Init, BudgetInv, BudgetRow, Present, NoRow
<1>2. TypeOK /\ ClaimInv /\ (TypeOK /\ ClaimInv)' /\ BudgetInv /\ [Next]_vars => BudgetInv'
  <2> SUFFICES ASSUME TypeOK, TypeOK', ClaimInv, BudgetInv, [Next]_vars, NEW i \in Ids
               PROVE  BudgetRow(i)'
    BY DEF BudgetInv
  <2>1. BudgetRow(i)
    BY DEF BudgetInv
  <2>2. CASE UNCHANGED vars
    BY <2>1, <2>2 DEF vars, BudgetRow, Spent, Judging, Holds, Present
  <2> QED BY <2>1, <2>2, JobStepBudget, WorkerStepBudget, FaultBudget, EnvBudget DEF Next
<1>3. TypeOK /\ BudgetInv => AttemptBudget
  <2> SUFFICES ASSUME TypeOK, BudgetInv PROVE AttemptBudget
    OBVIOUS
  <2>1. MaxAttempts + Spent = MaxAttempts + events.crash + events.lost + events.throttle + strays
    BY AttemptAssumption DEF TypeOK, Spent
  <2> QED BY <2>1 DEF BudgetInv, BudgetRow, AttemptBudget
<1> QED BY <1>1, <1>2, <1>3, ClaimInvariance, PTL DEF Spec
=============================================================================
