------------------------------ MODULE SchemaDb ------------------------------
(***************************************************************************)
(* What stands between admission and the body of a command: opening the    *)
(* database file, bringing its schema up to date and recording the         *)
(* embedding dimension (connection.rs, init.rs, migrate.rs).               *)
(*                                                                         *)
(* A migration of the library is one transaction; everything else here is  *)
(* a statement of its own, and a process may die, or another one run the   *)
(* same sequence, in between.                                              *)
(***************************************************************************)
EXTENDS CliProcess

CONSTANTS
  Last,         \* CURRENT_SCHEMA_VERSION
  Blob,         \* the version that creates the embedding tables (V013)
  Rebuilds,     \* versions that rebuild a table others refer to (V017)
  Dims          \* embedding dimensions; 0: not recorded

ASSUME SchemaConstants ==
  /\ Last \in Nat /\ Blob \in 1..Last /\ Rebuilds \subseteq 1..Last
  /\ 0 \notin Dims /\ Dims # {}

VARIABLES
  db,           \* the database file
  copies        \* pre-migration copies beside it: their schema versions

schemaVars == <<db, copies>>

DefaultDim == CHOOSE d \in Dims : TRUE

Db == [exists: BOOLEAN, applied: 0..Last, current: BOOLEAN, blob: BOOLEAN, vec: BOOLEAN,
       drift: BOOLEAN, edges: BOOLEAN, meta: BOOLEAN, dim: Dims \cup {0}]

\* current: user_version is the target; blob: embedding tables exist; vec: tables of the
\* removed extension do; drift: a recorded checksum is not the one of this build.
NoDb == [exists |-> FALSE, applied |-> 0, current |-> FALSE, blob |-> FALSE, vec |-> FALSE,
         drift |-> FALSE, edges |-> FALSE, meta |-> FALSE, dim |-> 0]

\* No file, a file of an older release with data in it, or the registered-but-missing
\* V013 that ensure_v013_tables_exist repairs.
SchemaInit ==
  /\ db \in {NoDb} \cup
            {[exists |-> TRUE, applied |-> v, current |-> c, blob |-> b, vec |-> v < Blob,
              drift |-> v < Blob, edges |-> TRUE, meta |-> TRUE, dim |-> DefaultDim] :
             v \in (Blob - 1)..Last, b \in BOOLEAN, c \in BOOLEAN}
  /\ db.exists => (db.applied < Blob => ~db.blob) /\ (db.current => db.applied >= Blob)
  /\ copies = {}

Step(p, l, d) == Goto(p, l) /\ db' = d /\ UNCHANGED <<copies, jobPath, launches, forced, deaths>>
Fail(p)       == Step(p, "done", db)

\* migrate works on a file that open_rw creates; so does init.
SchemaBegin(p) ==
  /\ At(p, "run")
  /\ proc[p].cmd \in {"init", "migrate", "rehash", "llmonly"}
  /\ Step(p, IF proc[p].cmd = "init" THEN "plan" ELSE "repair", [db EXCEPT !.exists = TRUE])

\* ensure_db_ready: is there a file?  Asked before it is opened.
Probe(p) ==
  /\ At(p, "run") /\ proc[p].cmd \in {"enrich", "write", "backup", "sync"}
  /\ Set(p, [proc[p] EXCEPT !.pc = "open", !.existed = db.exists])
  /\ UNCHANGED <<db, copies, jobPath, launches, forced, deaths>>

\* Mutant: only the schema history is compared.
OpenByHistory(p) ==
  /\ At(p, "open")
  /\ Step(p, IF db.applied < Last THEN (IF proc[p].existed THEN "copy" ELSE "plan") ELSE "verify",
          [db EXCEPT !.exists = TRUE])
\* Mutant: the copy is left to the migrate command.
OpenNoCopy(p) ==
  /\ At(p, "open")
  /\ Step(p, IF ~db.current \/ db.applied < Last THEN "plan" ELSE "verify",
          [db EXCEPT !.exists = TRUE])
\* open_rw, then both version numbers.
Open(p) ==
  /\ At(p, "open")
  /\ Step(p, IF ~db.current \/ db.applied < Last
             THEN (IF proc[p].existed THEN "copy" ELSE "plan") ELSE "verify",
          [db EXCEPT !.exists = TRUE])

\* back_up_before_migrating.
CopyAside(p) ==
  /\ At(p, "copy") /\ Goto(p, "plan")
  /\ copies' = copies \cup {db.applied}
  /\ UNCHANGED <<db, jobPath, launches, forced, deaths>>

\* run_migrations_with_foreign_keys_off: the runner reads what is applied.
Plan(p) ==
  /\ At(p, "plan")
  /\ Set(p, [proc[p] EXCEPT !.pc = "apply", !.todo = (db.applied + 1)..Last])
  /\ UNCHANGED <<db, copies, jobPath, launches, forced, deaths>>

Migrated(v, fk) ==
  [db EXCEPT !.applied = v, !.blob = @ \/ v = Blob,
             !.edges = @ /\ ~(fk /\ v \in Rebuilds)]

\* The history row is there already, or V013 drops virtual tables whose module is gone.
Refused(v) == db.applied >= v \/ (v = Blob /\ db.vec)

Smallest(T) == CHOOSE v \in T : \A u \in T : v <= u

\* One migration and its history row, in one transaction.
Apply(p) ==
  /\ At(p, "apply") /\ proc[p].todo # {}
  /\ LET v == Smallest(proc[p].todo) IN
     IF Refused(v) THEN Fail(p)
     ELSE /\ db' = Migrated(v, FALSE)
          /\ Set(p, [proc[p] EXCEPT !.todo = @ \ {v}])
          /\ UNCHANGED <<copies, jobPath, launches, forced, deaths>>

\* PRAGMA user_version, after the last migration.
MarkCurrent(p) ==
  /\ At(p, "apply") /\ proc[p].todo = {}
  /\ Step(p, IF proc[p].cmd \in {"init", "migrate", "llmonly"} \/ ~proc[p].existed
             THEN "meta" ELSE "verify", [db EXCEPT !.current = TRUE])

\* schema_meta: init and a first opening record the dimension, migrate the version only.
WriteMeta(p, d) ==
  /\ At(p, "meta")
  /\ Step(p, IF proc[p].cmd \in {"init", "migrate", "llmonly"} THEN "done" ELSE "verify",
          CASE proc[p].cmd \in {"migrate", "llmonly"} -> [db EXCEPT !.meta = TRUE]
            [] proc[p].cmd = "init" -> [db EXCEPT !.meta = TRUE, !.dim = IF @ = 0 THEN d ELSE @]
            [] OTHER -> [db EXCEPT !.meta = TRUE, !.dim = d])

Repaired == [db EXCEPT !.blob = @ \/ db.applied >= Blob]

\* ensure_v013_tables_exist, on every opening.
Verify(p) == At(p, "verify") /\ Step(p, "dim", Repaired)

\* remove_vec_virtual_tables_without_module: by DROP, or from sqlite_master if that fails.
WithoutVec(d) == [d EXCEPT !.vec = FALSE]

\* The same repair in migrate, before anything else; rehash, and --to-llm-only after it
\* has removed the old vector tables, rewrite checksums.
Repair(p) ==
  /\ At(p, "repair")
  /\ LET d == IF db.applied > 0 /\ proc[p].cmd \in {"rehash", "llmonly"}
              THEN [Repaired EXCEPT !.drift = FALSE] ELSE Repaired
     IN  Step(p, IF proc[p].cmd = "rehash" THEN "done" ELSE "plan",
              IF proc[p].cmd = "llmonly" THEN WithoutVec(d) ELSE d)

\* sync_embedding_dim_meta: a configured dimension (0: none) wins over the recorded one.
SyncDim(p, override, d) ==
  /\ At(p, "dim")
  /\ Step(p, "ready", [db EXCEPT !.dim = IF override # 0 THEN override
                                         ELSE IF @ # 0 THEN @ ELSE d])

\* The body of a command that writes relationships.
WriteBody(p) == At(p, "ready") /\ proc[p].cmd = "write" /\ Step(p, "close", [db EXCEPT !.edges = TRUE])
EnrichBody(p) == At(p, "ready") /\ proc[p].cmd = "enrich" /\ Step(p, "jobbegin", db)

SchemaStep(p) ==
  \/ SchemaBegin(p) \/ Probe(p) \/ Open(p) \/ CopyAside(p) \/ Plan(p) \/ Apply(p)
  \/ MarkCurrent(p) \/ Verify(p) \/ Repair(p) \/ EnrichBody(p)
  \/ WriteMeta(p, DefaultDim) \/ \E o \in Dims \cup {0} : SyncDim(p, o, DefaultDim)

----------------------------------------------------------------------------
(* Properties *)

\* Whatever file it met, and wherever earlier processes died or raced it, the body of a
\* command runs on a complete schema: every migration applied, the version marked, the
\* embedding tables there and a dimension recorded.
ReadyIsComplete ==
  \A p \in Procs : At(p, "ready") =>
    db.applied = Last /\ db.current /\ db.blob /\ db.dim # 0

\* No migration loses the rows that refer to a rebuilt table (connection.rs:97).
EdgesSurvive == db.edges => db'.edges

\* A database that existed is migrated on opening only with a copy of an earlier schema
\* beside it, even when a second process starts the same upgrade halfway.
UpgradeLeavesCopy ==
  \A p \in Procs :
    At(p, "apply") /\ proc[p].existed /\ db'.applied > db.applied /\ proc'[p] # proc[p] =>
      \E v \in copies : v < db'.applied
=============================================================================
