----------------------------- MODULE EnrichQueue -----------------------------
(***************************************************************************)
(* The `.enrich-queue.sqlite` sidecar: one table of work items, and the    *)
(* SQL statements every process runs against it.  A statement is an        *)
(* operator from a table to the next table; EnrichDrain interleaves them.  *)
(*                                                                         *)
(* A table is a function from row ids to rows; an id nobody inserted, or   *)
(* whose row was deleted, maps to NoRow.  Of a row's columns the model     *)
(* keeps the ones a WHERE clause reads: the UNIQUE triple (namespace,      *)
(* operation, item_key), status, attempt, and three abstractions:          *)
(*   claim    claimed_at, as NULL, younger, or older than                  *)
(*            --stale-claim-secs;                                          *)
(*   cooling  next_retry_at lies in the future;                            *)
(*   hot      priority is PRIORITY_HOT rather than 0.                      *)
(* `file` is the inode the row lives in: a process that holds a connection *)
(* keeps using its inode after another one unlinked the path.              *)
(***************************************************************************)
EXTENDS Naturals, FiniteSets

CONSTANTS
  Namespaces,   \* namespaces of the main database
  NoNs,         \* the empty namespace '' of legacy and hot rows
  Operations,   \* enrich operations, as the Debug labels stored in the table
  Keys,         \* item keys: memory and entity names, ordered as the scan does
  Ids,          \* row ids
  Files,        \* inodes the sidecar path can name over time
  MaxAttempts   \* --max-attempts

ASSUME NsAssumption      == NoNs \notin Namespaces
ASSUME IdsAssumption     == Ids \subseteq Nat
ASSUME KeysAssumption    == Keys \subseteq Nat
ASSUME AttemptAssumption == MaxAttempts \in Nat \ {0}

Status == {"absent", "pending", "processing", "done", "skipped", "dead"}

Row == [file: Files, ns: Namespaces \cup {NoNs}, op: Operations, key: Keys,
        status: Status, attempt: Nat, claim: {"null", "fresh", "stale"},
        cooling: BOOLEAN, hot: BOOLEAN]

\* item_type_for: what the keys of an operation name.
ItemType(op) ==
  CASE op \in {"EntityDescriptions", "EntityTypeValidate"} -> "entity"
    [] op \in {"EntityConnect", "CrossDomainBridges"} -> "entity_pair"
    [] OTHER -> "memory"

\* What an id without a row maps to.
NoRow == [status |-> "absent"]

Table == [Ids -> Row \cup {NoRow}]

Present(q, i) == q[i].status # "absent"

\* Rows of one (namespace, operation) in one inode: the scope of a run.
InScope(q, i, f, ns, op) ==
  Present(q, i) /\ q[i].file = f /\ q[i].ns = ns /\ q[i].op = op

\* UPDATE queue SET ... WHERE: rows satisfying P become F of themselves.
UpdateWhere(q, P(_), F(_)) == [i \in Ids |-> IF P(i) THEN F(q[i]) ELSE q[i]]

\* DELETE FROM queue WHERE.
DeleteWhere(q, P(_)) == [i \in Ids |-> IF P(i) THEN NoRow ELSE q[i]]

-----------------------------------------------------------------------------
(* Claiming *)

\* The WHERE clause of the claim; ignoreBackoff drops the cooldown filter.
Eligible(q, f, ns, op, ignoreBackoff) ==
  {i \in Ids : /\ InScope(q, i, f, ns, op)
               /\ q[i].status = "pending"
               /\ ignoreBackoff \/ ~q[i].cooling}

\* ORDER BY priority DESC, id ASC: i is claimed before k.
ClaimedBefore(q, i, k) == \/ q[i].hot /\ ~q[k].hot
                          \/ q[i].hot = q[k].hot /\ i <= k

ClaimedRow(r) ==
  [r EXCEPT !.status = "processing", !.attempt = r.attempt + 1, !.claim = "fresh"]

\* Mutant: the claim counts the attempt and leaves the row pending.
DequeueUnmarked(q, i) ==
  [q EXCEPT ![i] = [ClaimedRow(q[i]) EXCEPT !.status = "pending"]]

DequeueNextPending(q, i) == [q EXCEPT ![i] = ClaimedRow(q[i])]

\* UPDATE ... WHERE id = ?: nothing happens when the row is gone, and nothing
\* checks what its status has become.
UpdateById(q, i, F(_)) ==
  IF Present(q, i) THEN [q EXCEPT ![i] = F(q[i])] ELSE q

HeartbeatRow(r) == [r EXCEPT !.claim = "fresh"]

Heartbeat(q, i) == UpdateById(q, i, HeartbeatRow)

-----------------------------------------------------------------------------
(* Write-backs, by id *)

DoneRow(r)    == [r EXCEPT !.status = "done"]
SkippedRow(r) == [r EXCEPT !.status = "skipped"]
PendingRow(r) == [r EXCEPT !.status = "pending"]
DeadRow(r)    == [r EXCEPT !.status = "dead"]
BackoffRow(r) == [r EXCEPT !.status = "pending", !.cooling = TRUE]

\* Mutant: the completion is an upsert.
MarkDoneUpsert(q, i) == [q EXCEPT ![i] = DoneRow(q[i])]

MarkDone(q, i) == UpdateById(q, i, DoneRow)

MarkSkipped(q, i) == UpdateById(q, i, SkippedRow)

\* Neither refunds the attempt nor looks at MaxAttempts.
RequeueRateLimited(q, i) == UpdateById(q, i, PendingRow)

\* Mutant: one attempt too many.
RecordItemFailureLate(q, i, attempt, outcome) ==
  IF outcome = "hard" \/ attempt > MaxAttempts
  THEN UpdateById(q, i, DeadRow)
  ELSE UpdateById(q, i, BackoffRow)

\* A hard failure, or the last allowed attempt, is dead-lettered; any other
\* failure waits for its backoff.
RecordItemFailure(q, i, attempt, outcome) ==
  IF outcome = "hard" \/ attempt >= MaxAttempts
  THEN UpdateById(q, i, DeadRow)
  ELSE UpdateById(q, i, BackoffRow)

-----------------------------------------------------------------------------
(* Recovery and preparation of a run *)

ReleasedRow(r) == [r EXCEPT !.status = "pending", !.claim = "null"]

\* Mutant: no sweep.
SkipSweep(q, f) == q

\* The sweep is not scoped to an operation or a namespace.
ResetStaleProcessingClaims(q, f) ==
  UpdateWhere(q, LAMBDA i : /\ Present(q, i)
                            /\ q[i].file = f
                            /\ q[i].status = "processing"
                            /\ q[i].claim = "stale", ReleasedRow)

\* Mutant: the status filter is gone.
ResetEverythingForOp(q, f, ns, op) ==
  UpdateWhere(q, LAMBDA i : InScope(q, i, f, ns, op), ReleasedRow)

ResetProcessingForOp(q, f, ns, op) ==
  UpdateWhere(q, LAMBDA i : /\ InScope(q, i, f, ns, op)
                            /\ q[i].status = "processing", ReleasedRow)

\* Mutant: the namespace filter is gone.
ClearOpEverywhere(q, f, ns, op) ==
  DeleteWhere(q, LAMBDA i : Present(q, i) /\ q[i].file = f /\ q[i].op = op)

\* A run that neither resumes nor loops starts from an empty scope, and takes
\* the rows of the empty namespace with it.
ClearOp(q, f, ns, op) ==
  DeleteWhere(q, LAMBDA i : InScope(q, i, f, ns, op) \/ InScope(q, i, f, NoNs, op))

\* o: the flags of the run.  --retry-failed also resets rows in status
\* 'failed', which no statement of the crate writes any more.
PrepareQueue(q, f, ns, op, o) ==
  LET swept   == ResetStaleProcessingClaims(q, f)
      resumed == IF o.resume THEN ResetProcessingForOp(swept, f, ns, op) ELSE swept
  IN  IF o.resume \/ o.retry_failed \/ o.until_empty THEN resumed
      ELSE ClearOp(resumed, f, ns, op)

-----------------------------------------------------------------------------
(* Enqueueing *)

InQueue(q, f, ns, op, k) ==
  \E i \in Ids : InScope(q, i, f, ns, op) /\ q[i].key = k

NewRow(f, ns, op, k, hot) ==
  [file |-> f, ns |-> ns, op |-> op, key |-> k, status |-> "pending",
   attempt |-> 0, claim |-> "null", cooling |-> FALSE, hot |-> hot]

\* Mutant: a plain INSERT into a table without the UNIQUE index.
EnqueueAlways(q, i, f, ns, op, k) == [q EXCEPT ![i] = NewRow(f, ns, op, k, FALSE)]

\* INSERT OR IGNORE under id i: a row of the same triple, dead ones included,
\* makes it a no-op.
EnqueueCandidate(q, i, f, ns, op, k) ==
  IF InQueue(q, f, ns, op, k) THEN q
  ELSE [q EXCEPT ![i] = NewRow(f, ns, op, k, FALSE)]

ReopenedRow(r) ==
  [r EXCEPT !.status = "pending", !.attempt = 0, !.claim = "null", !.cooling = FALSE]

\* Mutant: reopens dead rows too.
ReopenDeadToo(q, f, ns, k) ==
  UpdateWhere(q, LAMBDA i : /\ InScope(q, i, f, ns, "EntityDescriptions")
                            /\ q[i].key = k
                            /\ q[i].status \in {"skipped", "done", "dead"},
              ReopenedRow)

\* Reopening never touches a dead row.
ReopenForceRedescribe(q, f, ns, k) ==
  UpdateWhere(q, LAMBDA i : /\ InScope(q, i, f, ns, "EntityDescriptions")
                            /\ q[i].key = k
                            /\ q[i].status \in {"skipped", "done"},
              ReopenedRow)

HotRow(r) ==
  [r EXCEPT !.hot = TRUE,
            !.status = IF r.status \in {"done", "skipped", "dead"} THEN r.status
                       ELSE "pending"]

\* `remember --enqueue-enrich`: inserts under the empty namespace, then raises
\* every colder row of that key, in any namespace and operation, and puts it
\* back to pending unless it is terminal.
EnqueueWithPriority(q, i, f, k) ==
  LET ins == IF InQueue(q, f, NoNs, "EntityDescriptions", k) THEN q
             ELSE [q EXCEPT ![i] = NewRow(f, NoNs, "EntityDescriptions", k, TRUE)]
  IN  UpdateWhere(ins,
        LAMBDA m : Present(ins, m) /\ ins[m].file = f /\ ins[m].key = k /\ ~ins[m].hot,
        HotRow)

-----------------------------------------------------------------------------
(* Maintenance flags and the cascade of a deleted memory *)

RequeuedRow(r) == [r EXCEPT !.status = "pending", !.attempt = 0, !.cooling = FALSE]

\* Mutant: requeues whatever the scope holds.
RequeueAny(q, f, ns, op) ==
  UpdateWhere(q, LAMBDA i : InScope(q, i, f, ns, op), RequeuedRow)

RequeueDead(q, f, ns, op) ==
  UpdateWhere(q, LAMBDA i : InScope(q, i, f, ns, op) /\ q[i].status = "dead", RequeuedRow)

RequeueSkipped(q, f, ns, op) ==
  UpdateWhere(q, LAMBDA i : InScope(q, i, f, ns, op) /\ q[i].status = "skipped", RequeuedRow)

\* known: the <<namespace, item type, key>> triples the main database holds.
PruneDeadOrphans(q, f, ns, op, known) ==
  DeleteWhere(q, LAMBDA i : /\ InScope(q, i, f, ns, op)
                            /\ q[i].status = "dead"
                            /\ ItemType(op) = "memory"
                            /\ <<ns, "memory", q[i].key>> \notin known)

\* Entity rows are pruned without a look at the main database.
PruneDeadEntityOrphans(q, f, ns, op) ==
  DeleteWhere(q, LAMBDA i : /\ InScope(q, i, f, ns, op)
                            /\ q[i].status = "dead"
                            /\ ItemType(op) = "entity")

\* Keys that retain_unskipped drops from a re-scan: the operation decides, the
\* namespace does not.
Vetoed(q, f, op) ==
  {k \in Keys : \E i \in Ids : /\ Present(q, i) /\ q[i].file = f /\ q[i].op = op
                              /\ q[i].key = k /\ q[i].status = "skipped"}

\* Deletes by memory id or by key; the key alone reaches every namespace and
\* every operation.
CleanupQueueEntry(q, f, k) ==
  DeleteWhere(q, LAMBDA i : Present(q, i) /\ q[i].file = f /\ q[i].key = k)
=============================================================================
