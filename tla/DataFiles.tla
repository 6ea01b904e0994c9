----------------------------- MODULE DataFiles -----------------------------
(***************************************************************************)
(* Files the tool writes beside its database: config.toml (config/store.rs *)
(* and atomic_io.rs), and copies of the database (backup, sync-safe-copy). *)
(*                                                                         *)
(* A power loss ends every process and forgets what was not synced: the    *)
(* contents of a file without fsync, the rename without a directory fsync. *)
(***************************************************************************)
EXTENDS SchemaDb, Sequences

CONSTANTS
  Keys, Vals, NoVal,   \* settings and API keys; their values
  Torn,                \* the contents of a file whose data never reached the disk
  MaxSaves, MaxCommits \* bounds

ASSUME FileConstants ==
  /\ NoVal \notin Vals /\ Torn \notin [Keys -> Vals \cup {NoVal}]
  /\ {MaxSaves, MaxCommits} \subseteq Nat

VARIABLES
  conf,      \* config.toml: map, ver (renames so far), synced
  kept,      \* the version that survives a power loss
  acked,     \* history: the latest version a command reported as saved
  data,      \* the database as readers see it: committed version
  page,      \* pages of the main file, which checkpoints fill from the log
  backup, synced   \* destination of backup, and of sync-safe-copy: pages, or NoContent

fileVars == <<conf, kept, acked, data, page, backup, synced>>

Map   == [Keys -> Vals \cup {NoVal}]
Pages == 1..2

FileInit ==
  /\ conf = [map |-> [k \in Keys |-> NoVal], ver |-> 0, synced |-> TRUE]
  /\ kept = conf /\ acked = 0
  /\ data = 0 /\ page = [i \in Pages |-> 0]
  /\ backup = NoContent /\ synced = [i \in Pages |-> NoContent]

Keep(p, l)  == Goto(p, l) /\ UNCHANGED <<jobPath, launches, forced, deaths, schemaVars>>
With(p, r)  == Set(p, r) /\ UNCHANGED <<jobPath, launches, forced, deaths, schemaVars>>

----------------------------------------------------------------------------
(* config set, unset, add-key, remove-key: load, change one entry, save *)

\* load_config; unset and remove-key of what is not there save nothing.
ConfigLoad(p, k, v) ==
  /\ At(p, "run") /\ proc[p].cmd = "config" /\ conf.ver < MaxSaves
  /\ IF v = NoVal /\ conf.map[k] = NoVal THEN Keep(p, "done")
     ELSE With(p, [proc[p] EXCEPT !.pc = "temp", !.existed = FALSE,
                     !.copy = [map |-> [conf.map EXCEPT ![k] = v], base |-> conf.ver, key |-> k]])
  /\ UNCHANGED fileVars

\* save_config writes a temporary file in the same directory and syncs it.
ConfigTemp(p) ==
  /\ At(p, "temp")
  /\ With(p, [proc[p] EXCEPT !.pc = "persist", !.existed = TRUE])
  /\ UNCHANGED fileVars

\* Mutant: the temporary file is renamed before it is synced.
ConfigPersistEarly(p) ==
  /\ proc[p].pc \in {"temp", "persist"} /\ proc[p].cmd = "config"
  /\ conf' = [map |-> proc[p].copy.map, ver |-> conf.ver + 1, synced |-> proc[p].existed]
  /\ With(p, [proc[p] EXCEPT !.pc = "dirsync", !.copy.base = conf.ver + 1])
  /\ UNCHANGED <<kept, acked, data, page, backup, synced>>
\* The rename; existed: the temporary file has been synced.
ConfigPersist(p) ==
  /\ At(p, "persist") /\ proc[p].cmd = "config"
  /\ conf' = [map |-> proc[p].copy.map, ver |-> conf.ver + 1, synced |-> proc[p].existed]
  /\ With(p, [proc[p] EXCEPT !.pc = "dirsync", !.copy.base = conf.ver + 1])
  /\ UNCHANGED <<kept, acked, data, page, backup, synced>>

\* The directory fsync makes the rename durable; then success is reported.
ConfigAck(p) ==
  /\ At(p, "dirsync") /\ With(p, [proc[p] EXCEPT !.pc = "done", !.copy = NoContent])
  /\ kept' = conf
  /\ acked' = Greater(acked, proc[p].copy.base)
  /\ UNCHANGED <<conf, data, page, backup, synced>>

\* Everything that was not synced may be gone, including the rename.
PowerLoss ==
  /\ deaths < MaxDeaths /\ deaths' = deaths + 1
  /\ proc' = [p \in Procs |-> Off]
  /\ conf' \in {kept, IF conf.synced THEN conf ELSE [conf EXCEPT !.map = Torn]}
  /\ kept' = conf'
  /\ UNCHANGED <<jobPath, launches, forced, schemaVars, acked, data, page, backup, synced>>

----------------------------------------------------------------------------
(* Copies of a database that others write to *)

\* The body of a writing command: its transaction goes to the log, where readers see it.
CommitData(p) ==
  /\ WriteBody(p) /\ data < MaxCommits /\ data' = data + 1
  /\ UNCHANGED <<conf, kept, acked, page, backup, synced>>

\* Closing the last connection, or the automatic checkpoint of any other, moves the log
\* into the main file, page by page.
Checkpoint(p, i) ==
  /\ At(p, "close") /\ page[i] # data /\ page' = [page EXCEPT ![i] = data]
  /\ UNCHANGED <<cliVars, schemaVars, conf, kept, acked, data, backup, synced>>

Close(p) == At(p, "close") /\ Keep(p, "done") /\ UNCHANGED fileVars

\* backup: a temporary file in the directory of the destination.
BackupBegin(p) ==
  /\ At(p, "ready") /\ proc[p].cmd = "backup"
  /\ With(p, [proc[p] EXCEPT !.pc = "pages", !.copy = <<>>])
  /\ UNCHANGED fileVars

\* backup.step: pages of the committed state; the online backup API starts over when
\* another process has written in between.
BackupStep(p) ==
  LET c == proc[p].copy IN
  /\ At(p, "pages") /\ Len(c) < Cardinality(Pages)
  /\ With(p, [proc[p] EXCEPT !.copy = IF \A i \in 1..Len(c) : c[i] = data
                                      THEN Append(c, data) ELSE <<data>>])
  /\ UNCHANGED fileVars

\* temp.persist: one rename.
BackupPersist(p) ==
  /\ At(p, "pages") /\ Len(proc[p].copy) = Cardinality(Pages)
  /\ backup' = proc[p].copy
  /\ With(p, [proc[p] EXCEPT !.pc = "done", !.copy = NoContent])
  /\ UNCHANGED <<conf, kept, acked, data, page, synced>>

\* sync-safe-copy: checkpoint, close, then a plain copy onto the destination.
SyncCheckpoint(p) ==
  /\ At(p, "ready") /\ proc[p].cmd = "sync"
  /\ page' = [i \in Pages |-> data]
  /\ synced' = [i \in Pages |-> NoContent]
  /\ With(p, [proc[p] EXCEPT !.pc = "raw", !.copy = 1])
  /\ UNCHANGED <<conf, kept, acked, data, backup>>

SyncCopy(p) ==
  /\ At(p, "raw")
  /\ LET i == proc[p].copy IN
     /\ synced' = [synced EXCEPT ![i] = page[i]]
     /\ With(p, IF i + 1 \in Pages THEN [proc[p] EXCEPT !.copy = i + 1]
                ELSE [proc[p] EXCEPT !.pc = "done", !.copy = NoContent])
  /\ UNCHANGED <<conf, kept, acked, data, page, backup>>

FileStep(p) ==
  \/ \E k \in Keys, v \in Vals \cup {NoVal} : ConfigLoad(p, k, v)
  \/ ConfigTemp(p) \/ ConfigPersist(p) \/ ConfigAck(p)
  \/ CommitData(p) \/ Close(p) \/ \E i \in Pages : Checkpoint(p, i)
  \/ BackupBegin(p) \/ BackupStep(p) \/ BackupPersist(p) \/ SyncCheckpoint(p) \/ SyncCopy(p)

----------------------------------------------------------------------------
(* Properties *)

\* No crash or power loss leaves a configuration that load_config cannot parse: the data
\* is on disk before the rename.
ConfigNeverTorn == conf.map # Torn /\ kept.map # Torn

\* What config set or add-key has reported as saved survives a power loss.
AckedIsDurable == kept.ver >= acked

\* A save changes one entry, unless another command saved after this one loaded: API keys
\* and other settings are carried over.  (Two overlapping saves lose one of the two.)
SaveKeepsOthers ==
  \A p \in Procs :
    proc[p].cmd = "config" /\ At(p, "persist") /\ conf'.ver > conf.ver /\ proc'[p] # proc[p]
      /\ proc[p].copy.base = conf.ver =>
    \A k \in Keys \ {proc[p].copy.key} : conf'.map[k] = conf.map[k]

\* The destination of backup always holds one committed state of the database, never a
\* mixture, whatever is written or whoever dies during the copy (backup.rs:34-36).
BackupIsSnapshot ==
  backup # NoContent => \A i, j \in Pages : backup[i] = backup[j]
=============================================================================
