------------------------------ MODULE CliHost ------------------------------
(***************************************************************************)
(* A host where the tool is invoked concurrently on one database: the      *)
(* composition of CliProcess, SchemaDb and DataFiles.  A process passes    *)
(* admission, then the readiness of the database, then its command.        *)
(***************************************************************************)
EXTENDS DataFiles

vars == <<cliVars, schemaVars, fileVars>>

Init == CliInit /\ SchemaInit /\ FileInit

ProcStep(p) ==
  \/ CliStep(p) /\ UNCHANGED <<schemaVars, fileVars>>
  \/ SchemaStep(p) /\ UNCHANGED fileVars
  \/ FileStep(p)

Next ==
  \/ \E p \in Procs :
       \/ \E c \in Cmds, m \in 1..Ceiling, mb \in {0, Ceiling} :
            Launch(p, c, m, mb) /\ UNCHANGED <<schemaVars, fileVars>>
       \/ ProcStep(p)
       \/ (Elapse(p) \/ Signal(p) \/ Die(p)) /\ UNCHANGED <<schemaVars, fileVars>>
  \/ PowerLoss

Spec == Init /\ [][Next]_vars

\* Every process is somewhere in its command, with a slot, a singleton and scratch of the
\* right kind.
HostTypeOK ==
  /\ db \in Db /\ copies \subseteq 0..Last
  /\ conf.map \in Map \cup {Torn} /\ conf.ver \in 0..(MaxSaves + Cardinality(Procs))
  /\ jobPath \in Inodes \cup {0}
  /\ \A p \in Procs :
       /\ proc[p].cmd \in Cmds \cup {"none"} /\ proc[p].s \in 1..(Ceiling + 1)
       /\ proc[p].ino \in Inodes \cup {0} /\ proc[p].todo \subseteq 1..Last
       /\ proc[p].locked => proc[p].ino # 0
\* The flocks of lock.rs admit no more invocations than they should, and one job of a
\* namespace plus one for each --force-job-singleton, while processes poll, die and
\* unlink the lock file.
LocksHold == HostTypeOK /\ AdmissionBound /\ JobBound

\* Files are whole at any time, after a power loss too: config.toml is the old or the new
\* one and keeps what was acknowledged, and a backup is one state of the database.
FilesWhole == ConfigNeverTorn /\ AckedIsDurable /\ BackupIsSnapshot

\* What is there already stays: rows that refer to a rebuilt table, a copy of the schema
\* before an upgrade, and the other entries of config.toml.
NothingOverwritten == [][EdgesSurvive /\ UpgradeLeavesCopy /\ SaveKeepsOthers]_vars
=============================================================================
