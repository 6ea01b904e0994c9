---------------------------- MODULE CliHostProofs ----------------------------
(***************************************************************************)
(* Proofs about CliHost for every number of processes, every schema        *)
(* version and every set of settings: admission and the job singleton, the *)
(* schema a command finds, and the files that survive crashes.             *)
(***************************************************************************)
EXTENDS CliHost, FiniteSetTheorems, TLAPS

-----------------------------------------------------------------------------
(* The inductive invariant *)

Saved   == [map: Map, base: Nat, key: Keys]
Scratch == {NoContent} \cup Saved \cup Seq(Nat) \cup Pages

Labels == {"off", "slot", "run", "jobbegin", "jobopen", "joblock", "job", "done", "plan", "repair",
           "open", "copy", "apply", "meta", "verify", "dim", "ready", "close", "temp", "persist",
           "dirsync", "pages", "raw"}
Process == [pc: Labels, cmd: Cmds \cup {"none"}, max: 1..Ceiling, s: 1..(Ceiling + 1),
            late: BOOLEAN, signalled: BOOLEAN, ino: Inodes \cup {0}, locked: BOOLEAN,
            existed: BOOLEAN, todo: SUBSET (1..Last), copy: Scratch]

\* Admission and the singleton, in one process.
LocksOk(r) ==
  /\ r.pc \notin {"off", "slot"} => r.s <= r.max
  /\ r.locked => r.pc \in {"job", "done"} /\ r.ino # 0
  /\ r.pc = "job" => r.locked
  /\ r.pc = "joblock" => r.ino # 0

\* How far the schema d is, as a process that got to r.pc may assume, and what copies c
\* of it an upgrade has left.
SchemaOk(r, d, c) ==
  /\ r.pc \in {"off", "slot", "run", "repair"} => ~r.existed
  /\ r.pc \in {"plan", "apply"} /\ r.existed => \E v \in c : v <= d.applied
  /\ r.pc = "apply" => \A v \in (1..Last) \ r.todo : v <= d.applied
  /\ r.pc \in {"meta", "verify", "dim", "ready"} => d.applied = Last /\ d.current
  /\ r.pc \in {"dim", "ready"} => d.blob
  /\ r.pc = "ready" => d.dim # 0

\* What a process is about to save or has copied, f being config.toml.
FilesOk(r, f) ==
  /\ r.pc \in {"temp", "persist", "dirsync"} =>
       r.cmd = "config" /\ r.copy \in Saved /\ r.copy.base <= f.ver
  /\ r.pc \in {"temp", "persist"} /\ r.copy.base = f.ver =>
       \A k \in Keys \ {r.copy.key} : r.copy.map[k] = f.map[k]
  /\ r.pc = "persist" => r.existed
  /\ r.pc = "pages" => r.copy \in Seq(Nat) /\ \A i, j \in 1..Len(r.copy) : r.copy[i] = r.copy[j]
  /\ r.pc = "raw" => r.copy \in Pages

ProcOk(r, d, c, f) == r \in Process /\ LocksOk(r) /\ SchemaOk(r, d, c) /\ FilesOk(r, f)

\* Inodes that processes still hold open although the singleton path does not name them.
Unlinked(P, path) == {P[p].ino : p \in Procs} \ {0, path}
\* Processes that will save config.toml.
Saving(P) == {p \in Procs : P[p].pc \in {"temp", "persist"}}

SlotsApart(P) ==
  \A p, q \in Procs : P[p].pc \notin {"off", "slot"} /\ P[q].pc \notin {"off", "slot"} /\ P[p].s = P[q].s
    => p = q
LocksApart(P) == \A p, q \in Procs : P[p].locked /\ P[q].locked /\ P[p].ino = P[q].ino => p = q

ConfFile == [map: Map, ver: Nat, synced: {TRUE}]

HostInv ==
  /\ \A p \in Procs : ProcOk(proc[p], db, copies, conf)
  /\ proc \in [Procs -> Process]
  /\ SlotsApart(proc) /\ LocksApart(proc)
  /\ jobPath \in Inodes \cup {0} /\ forced \in Nat
  /\ Cardinality(Unlinked(proc, jobPath)) <= forced
  /\ db \in Db /\ copies \subseteq 0..Last
  /\ conf \in ConfFile /\ kept \in ConfFile /\ kept.ver <= conf.ver
  /\ acked \in Nat /\ acked <= kept.ver
  /\ conf.ver + Cardinality(Saving(proc)) <= MaxSaves + Cardinality(Procs)
  /\ data \in Nat /\ BackupIsSnapshot
LEMMA Constants ==
  /\ Ceiling \in Nat \ {0} /\ IsFiniteSet(Procs) /\ Cardinality(Procs) \in Nat
  /\ Last \in Nat /\ Blob \in 1..Last /\ DefaultDim \in Dims /\ DefaultDim # 0 /\ 0 \notin Dims
  /\ Torn \notin Map /\ MaxSaves \in Nat
  /\ Inodes \subseteq Nat \ {0} /\ IsFiniteSet(Inodes)
<1>1. Cardinality(Procs) \in Nat
  BY CliBounds, FS_CardinalityType
<1>2. IsFiniteSet(Inodes)
  BY <1>1, FS_Interval DEF Inodes
<1>3. DefaultDim \in Dims
  BY SchemaConstants DEF DefaultDim
<1> QED BY <1>1, <1>2, <1>3, CliBounds, SchemaConstants, FileConstants DEF Map, Inodes

\* The invariant, without what each process knows.
LocksInv(P, path, n) ==
  /\ SlotsApart(P) /\ LocksApart(P) /\ path \in Inodes \cup {0} /\ n \in Nat
  /\ Cardinality(Unlinked(P, path)) <= n
SaveInv(P, f) == f.ver + Cardinality(Saving(P)) <= MaxSaves + Cardinality(Procs)
FilesInv ==
  /\ conf \in ConfFile /\ kept \in ConfFile /\ kept.ver <= conf.ver
  /\ acked \in Nat /\ acked <= kept.ver /\ data \in Nat /\ BackupIsSnapshot

-----------------------------------------------------------------------------
(* One process moves *)

\* From record o to r a process takes no slot and no lock, ...
Calm(o, r) ==
  /\ r.pc \notin {"off", "slot"} => o.pc \notin {"off", "slot"} /\ r.s = o.s
  /\ r.ino = o.ino \/ r.ino = 0
  /\ r.locked => o.locked /\ r.ino = o.ino
\* ... and starts no save.
Quiet(o, r) ==
  /\ Calm(o, r)
  /\ r.pc \in {"temp", "persist"} => o.pc \in {"temp", "persist"}

\* The schema only advances.
Later(d, e) ==
  /\ d \in Db /\ e \in Db /\ d.applied <= e.applied
  /\ d.current => e.current
  /\ d.blob => e.blob
  /\ d.dim # 0 => e.dim # 0

LEMMA LaterReflexive == \A d \in Db : Later(d, d)
BY SchemaConstants DEF Later, Db

LEMMA OthersOk ==
  ASSUME NEW r, NEW d, NEW e, NEW c, NEW b, NEW f, NEW h, ProcOk(r, d, c, f),
         Later(d, e), c \subseteq b, c \subseteq 0..Last, f \in ConfFile, h \in ConfFile,
         h = f \/ h.ver > f.ver
  PROVE  ProcOk(r, e, b, h)
<1>1. SchemaOk(r, e, b)
  <2>1. d.applied \in 0..Last /\ e.applied \in 0..Last /\ d.applied <= e.applied /\ Last \in Nat
    BY Constants DEF Later, Db
  <2>2. \A v \in c : v \in Nat
    BY Constants
  <2>3. SchemaOk(r, d, c)
    BY DEF ProcOk
  <2>4. r.pc \in {"plan", "apply"} /\ r.existed => \E v \in b : v <= e.applied
    BY <2>1, <2>2, <2>3 DEF SchemaOk
  <2>5. r.pc = "apply" => \A v \in (1..Last) \ r.todo : v <= e.applied
    BY <2>1, <2>3 DEF SchemaOk
  <2>6. d.applied = Last => e.applied = Last
    BY <2>1
  <2> QED BY <2>3, <2>4, <2>5, <2>6 DEF SchemaOk, Later
<1>2. FilesOk(r, h)
  <2>1. CASE h = f
    BY <2>1 DEF ProcOk
  <2>2. CASE h.ver > f.ver
    <3>1. f.ver \in Nat /\ h.ver \in Nat
      BY DEF ConfFile
    <3>2. FilesOk(r, f)
      BY DEF ProcOk
    <3>3. r.pc \in {"temp", "persist", "dirsync"} => r.copy \in Saved /\ r.copy.base \in Nat
                                                     /\ r.copy.base <= f.ver
      BY <3>2 DEF FilesOk, Saved
    <3>4. r.pc \in {"temp", "persist", "dirsync"} => r.copy.base <= h.ver /\ r.copy.base # h.ver
      BY <2>2, <3>1, <3>3
    <3> QED BY <3>2, <3>4 DEF FilesOk
  <2> QED BY <2>1, <2>2
<1> QED BY <1>1, <1>2 DEF ProcOk

LEMMA FiniteUnlinked ==
  ASSUME NEW P \in [Procs -> Process], NEW path
  PROVE  IsFiniteSet(Unlinked(P, path)) /\ Cardinality(Unlinked(P, path)) \in Nat
<1>1. Unlinked(P, path) \in SUBSET Inodes
  <2>1. \A p \in Procs : P[p].ino \in Inodes \cup {0}
    BY DEF Process
  <2> QED BY <2>1 DEF Unlinked
<1>2. IsFiniteSet(Unlinked(P, path))
  BY <1>1, Constants, FS_Subset
<1> QED BY <1>2, FS_CardinalityType

LEMMA FiniteSaving == \A P : IsFiniteSet(Saving(P)) /\ Cardinality(Saving(P)) \in Nat
<1> SUFFICES ASSUME NEW P PROVE IsFiniteSet(Saving(P)) /\ Cardinality(Saving(P)) \in Nat
  OBVIOUS
<1>1. Saving(P) \in SUBSET Procs
  BY DEF Saving
<1>2. IsFiniteSet(Saving(P))
  BY <1>1, Constants, FS_Subset
<1> QED BY <1>2, FS_CardinalityType

LEMMA QuietLocks ==
  ASSUME NEW P \in [Procs -> Process], NEW path, NEW n, LocksInv(P, path, n),
         NEW p \in Procs, NEW r \in Process, Calm(P[p], r)
  PROVE  LocksInv([P EXCEPT ![p] = r], path, n)
<1> DEFINE Q == [P EXCEPT ![p] = r]
<1>1. Q \in [Procs -> Process] /\ Q[p] = r /\ \A q \in Procs : q # p => Q[q] = P[q]
  OBVIOUS
<1> HIDE DEF Q
<1>2. SlotsApart(Q)
  BY <1>1 DEF LocksInv, SlotsApart, Calm
<1>3. LocksApart(Q)
  BY <1>1 DEF LocksInv, LocksApart, Calm
<1>4. Cardinality(Unlinked(Q, path)) <= n
  <2>1. Unlinked(Q, path) \in SUBSET Unlinked(P, path)
    BY <1>1 DEF Unlinked, Calm
  <2>2. IsFiniteSet(Unlinked(P, path)) /\ Cardinality(Unlinked(P, path)) \in Nat
        /\ Cardinality(Unlinked(Q, path)) \in Nat
    BY <1>1, FiniteUnlinked
  <2>3. Cardinality(Unlinked(Q, path)) <= Cardinality(Unlinked(P, path))
    BY <2>1, <2>2, FS_Subset
  <2> QED BY <2>2, <2>3 DEF LocksInv
<1> QED BY <1>2, <1>3, <1>4 DEF LocksInv, Q

LEMMA QuietSaving ==
  ASSUME NEW P \in [Procs -> Process], NEW f \in ConfFile, SaveInv(P, f),
         NEW p \in Procs, NEW r \in Process, Quiet(P[p], r)
  PROVE  SaveInv([P EXCEPT ![p] = r], f)
<1> DEFINE Q == [P EXCEPT ![p] = r]
<1>1. Saving(Q) \in SUBSET Saving(P)
  BY DEF Saving, Quiet
<1>2. IsFiniteSet(Saving(P)) /\ Cardinality(Saving(P)) \in Nat /\ Cardinality(Saving(Q)) \in Nat
  BY FiniteSaving
<1>3. Cardinality(Saving(Q)) <= Cardinality(Saving(P))
  BY <1>1, <1>2, FS_Subset
<1>4. f.ver \in Nat /\ MaxSaves + Cardinality(Procs) \in Nat
  BY Constants DEF ConfFile
<1> QED BY <1>2, <1>3, <1>4 DEF SaveInv
\* The parts of the invariant, and what holds of the process that moves.
LEMMA InvParts ==
  ASSUME HostInv
  PROVE  /\ proc \in [Procs -> Process] /\ \A p \in Procs : ProcOk(proc[p], db, copies, conf)
         /\ LocksInv(proc, jobPath, forced) /\ SaveInv(proc, conf) /\ FilesInv
         /\ db \in Db /\ copies \subseteq 0..Last /\ conf \in ConfFile
BY DEF HostInv, LocksInv, SaveInv, FilesInv

LEMMA StepInv ==
  ASSUME HostInv, NEW p \in Procs, NEW r, proc' = [proc EXCEPT ![p] = r],
         ProcOk(r, db', copies', conf'), Later(db, db'),
         copies \subseteq copies', copies' \subseteq 0..Last,
         LocksInv(proc', jobPath', forced'), SaveInv(proc', conf'), FilesInv',
         conf' = conf \/ conf'.ver > conf.ver
  PROVE  HostInv'
<1>1. conf' \in ConfFile /\ r \in Process
  BY DEF FilesInv, ProcOk
<1>2. proc' \in [Procs -> Process] /\ proc'[p] = r /\ \A q \in Procs : q # p => proc'[q] = proc[q]
  BY <1>1, InvParts
<1>3. ASSUME NEW q \in Procs PROVE ProcOk(proc'[q], db', copies', conf')
  <2>1. CASE q = p
    BY <1>2, <2>1
  <2>2. CASE q # p
    BY <1>1, <1>2, <2>2, InvParts, OthersOk
  <2> QED BY <2>1, <2>2
<1>4. db' \in Db
  BY DEF Later
<1> QED BY <1>2, <1>3, <1>4 DEF HostInv, LocksInv, SaveInv, FilesInv

\* A quiet step that leaves config.toml alone.
LEMMA QuietStep ==
  ASSUME HostInv, NEW p \in Procs, NEW r, Set(p, r), Quiet(proc[p], r),
         ProcOk(r, db', copies', conf), Later(db, db'),
         copies \subseteq copies', copies' \subseteq 0..Last,
         UNCHANGED <<jobPath, forced, conf, kept, acked>>, data' \in Nat, BackupIsSnapshot'
  PROVE  HostInv'
<1>1. proc' = [proc EXCEPT ![p] = r] /\ r \in Process
  BY DEF Set, ProcOk
<1>2. LocksInv(proc', jobPath', forced') /\ SaveInv(proc', conf')
  BY <1>1, InvParts, QuietLocks, QuietSaving DEF Quiet
<1>3. FilesInv'
  BY InvParts DEF FilesInv
<1> QED BY <1>1, <1>2, <1>3, StepInv

\* ... and the database too.
LEMMA CliQuietStep ==
  ASSUME HostInv, NEW p \in Procs, NEW r, Set(p, r), Quiet(proc[p], r), ProcOk(r, db, copies, conf),
         UNCHANGED <<jobPath, forced, schemaVars, fileVars>>
  PROVE  HostInv'
<1>1. db' = db /\ copies' = copies /\ conf' = conf /\ kept' = kept /\ acked' = acked
      /\ data' = data /\ backup' = backup
  BY DEF schemaVars, fileVars
<1>2. Later(db, db') /\ data' \in Nat /\ BackupIsSnapshot'
  BY <1>1, InvParts, LaterReflexive DEF FilesInv, BackupIsSnapshot
<1> QED BY <1>1, <1>2, InvParts, QuietStep

LEMMA OffOk == \A d, c, f : ProcOk(Off, d, c, f)
<1>1. /\ NoContent \in Scratch /\ 1 \in 1..Ceiling /\ 1 \in 1..(Ceiling + 1) /\ {} \in SUBSET (1..Last)
      /\ 0 \in Inodes \cup {0} /\ "none" \in Cmds \cup {"none"} /\ "off" \in Labels
  <2>1. Ceiling \in Nat \ {0}
    BY Constants
  <2>2. 1 \in 1..Ceiling /\ 1 \in 1..(Ceiling + 1)
    BY <2>1
  <2>3. NoContent \in Scratch
    BY DEF Scratch
  <2> QED BY <2>2, <2>3 DEF Labels
<1>2. Off \in Process
  BY <1>1 DEF Off, Process
<1> QED BY <1>2 DEF Off, ProcOk, LocksOk, SchemaOk, FilesOk

LEMMA OffQuiet == \A o : Quiet(o, Off)
BY DEF Off, Quiet, Calm

\* The fields of a process that only goes somewhere else.
LEMMA GotoFields ==
  ASSUME NEW o \in Process, NEW l \in Labels
  PROVE  LET r == [o EXCEPT !.pc = l]
         IN  /\ r \in Process /\ r.pc = l /\ r.cmd = o.cmd /\ r.max = o.max /\ r.s = o.s
             /\ r.late = o.late /\ r.signalled = o.signalled /\ r.ino = o.ino
             /\ r.locked = o.locked /\ r.existed = o.existed /\ r.todo = o.todo /\ r.copy = o.copy
BY DEF Process

LEMMA SafeMax == \A x \in Int, m \in 1..Ceiling :
  /\ Lesser(m, Ceiling) \in 1..Ceiling
  /\ Lesser(Lesser(m, Lesser(Greater(x, 1), Ceiling)), Ceiling) \in 1..Ceiling
BY Constants DEF Lesser, Greater

-----------------------------------------------------------------------------
(* Admission, signals and the singleton *)

LEMMA LaunchStep ==
  ASSUME HostInv, NEW p \in Procs, NEW c \in Cmds, NEW m \in 1..Ceiling, NEW mb \in {0, Ceiling},
         Launch(p, c, m, mb), UNCHANGED <<schemaVars, fileVars>>
  PROVE  HostInv'
<1> DEFINE k == IF c = "init" THEN Lesser(m, SafeConcurrency(mb, 1)) ELSE m
           l == Lesser(k, Ceiling)
           r == [Off EXCEPT !.pc = "slot", !.cmd = c, !.max = l]
<1>1. Set(p, r) /\ jobPath' = jobPath /\ forced' = forced
  BY DEF Launch
<1>2. l \in 1..Ceiling
  <2>1. Lesser(Cpus, mb \div Greater(1, 1)) \in Int
    BY CliBounds DEF Lesser, Greater
  <2> QED BY <2>1, SafeMax DEF SafeConcurrency
<1> HIDE DEF l
<1>3. /\ r \in Process /\ r.pc = "slot" /\ r.ino = 0 /\ ~r.locked /\ ~r.existed
  <2>1. Off \in Process /\ Off.ino = 0 /\ Off.locked = FALSE /\ Off.existed = FALSE
    BY OffOk DEF ProcOk, Off
  <2> HIDE DEF l
  <2>2. c \in Cmds \cup {"none"} /\ "slot" \in Labels /\ l \in 1..Ceiling
    BY <1>2 DEF Labels
  <2> QED BY <2>1, <2>2 DEF Process
<1> HIDE DEF r
<1>4. Quiet(proc[p], r) /\ ProcOk(r, db, copies, conf)
  BY <1>3 DEF Quiet, Calm, ProcOk, LocksOk, SchemaOk, FilesOk
<1> QED BY <1>1, <1>4, CliQuietStep

LEMMA EndStep ==
  ASSUME HostInv, NEW p \in Procs, Set(p, Off), UNCHANGED <<jobPath, forced, schemaVars, fileVars>>
  PROVE  HostInv'
BY OffOk, OffQuiet, CliQuietStep

LEMMA PollSlotStep ==
  ASSUME HostInv, NEW p \in Procs, PollSlot(p), UNCHANGED <<schemaVars, fileVars>>
  PROVE  HostInv'
<1> DEFINE o == proc[p]
           r == [o EXCEPT !.s = 1]
<1>1. /\ o \in Process /\ ProcOk(o, db, copies, conf) /\ o.pc = "slot"
      /\ Set(p, IF o.late THEN Off ELSE r) /\ UNCHANGED <<jobPath, forced>>
  BY InvParts DEF PollSlot, At
<1> HIDE DEF o
<1>2. r \in Process /\ r.pc = "slot" /\ r.ino = o.ino /\ r.locked = o.locked /\ r.existed = o.existed
  BY <1>1, Constants DEF Process
<1> HIDE DEF r
<1>3. Quiet(o, r) /\ ProcOk(r, db, copies, conf)
  BY <1>1, <1>2 DEF Quiet, Calm, ProcOk, LocksOk, SchemaOk, FilesOk
<1> QED BY <1>1, <1>3, CliQuietStep, EndStep DEF o

\* Only late or signalled changes.
LEMMA FlagStep ==
  ASSUME HostInv, NEW p \in Procs, UNCHANGED <<jobPath, forced, schemaVars, fileVars>>,
         Set(p, [proc[p] EXCEPT !.late = TRUE]) \/ Set(p, [proc[p] EXCEPT !.signalled = TRUE])
  PROVE  HostInv'
<1> DEFINE o == proc[p]
<1>1. o \in Process /\ ProcOk(o, db, copies, conf)
  BY InvParts
<1> HIDE DEF o
<1>2. ASSUME NEW r \in {[o EXCEPT !.late = TRUE], [o EXCEPT !.signalled = TRUE]}
      PROVE  Quiet(o, r) /\ ProcOk(r, db, copies, conf)
  <2>1. /\ r \in Process /\ r.pc = o.pc /\ r.cmd = o.cmd /\ r.max = o.max /\ r.s = o.s
        /\ r.ino = o.ino /\ r.locked = o.locked /\ r.existed = o.existed /\ r.todo = o.todo
        /\ r.copy = o.copy
    BY <1>1, <1>2 DEF Process
  <2> QED BY <1>1, <2>1 DEF Quiet, Calm, ProcOk, LocksOk, SchemaOk, FilesOk
<1> QED BY <1>2, CliQuietStep DEF o
\* A step of the command line that takes or leaves a lock.
LEMMA LockStep ==
  ASSUME HostInv, NEW p \in Procs, NEW r, Set(p, r), ProcOk(r, db, copies, conf),
         r.pc \notin {"temp", "persist"}, LocksInv(proc', jobPath', forced'),
         UNCHANGED <<schemaVars, fileVars>>
  PROVE  HostInv'
<1>1. db' = db /\ copies' = copies /\ conf' = conf /\ kept' = kept /\ acked' = acked
      /\ data' = data /\ backup' = backup
  BY DEF schemaVars, fileVars
<1>2. Later(db, db') /\ FilesInv'
  BY <1>1, InvParts, LaterReflexive DEF FilesInv, BackupIsSnapshot
<1>3. proc' = [proc EXCEPT ![p] = r] /\ r \in Process
  BY DEF Set, ProcOk
<1>4. SaveInv(proc', conf')
  <2>1. Saving(proc') \in SUBSET Saving(proc)
    BY <1>3, InvParts DEF Saving
  <2>2. IsFiniteSet(Saving(proc)) /\ Cardinality(Saving(proc)) \in Nat /\ Cardinality(Saving(proc')) \in Nat
    BY FiniteSaving
  <2>3. Cardinality(Saving(proc')) <= Cardinality(Saving(proc))
    BY <2>1, <2>2, FS_Subset
  <2>4. conf.ver \in Nat /\ MaxSaves + Cardinality(Procs) \in Nat
    BY InvParts, Constants DEF ConfFile
  <2> QED BY <1>1, <2>2, <2>3, <2>4, InvParts DEF SaveInv
<1> QED BY <1>1, <1>2, <1>3, <1>4, InvParts, StepInv

LEMMA TrySlotStep ==
  ASSUME HostInv, NEW p \in Procs, TrySlot(p), UNCHANGED <<schemaVars, fileVars>>
  PROVE  HostInv'
<1> DEFINE o == proc[p]
           r == [o EXCEPT !.s = @ + 1]
           t == [o EXCEPT !.pc = "run", !.late = FALSE]
<1>1. /\ o \in Process /\ ProcOk(o, db, copies, conf) /\ o.pc = "slot" /\ o.s <= o.max
      /\ UNCHANGED <<jobPath, forced>>
  BY InvParts DEF TrySlot, At
<1>2. CASE SlotHeld(o.s)
  <2>1. Set(p, r)
    BY <1>2 DEF TrySlot
  <2> HIDE DEF o
  <2>2. o.s + 1 \in 1..(Ceiling + 1)
    BY <1>1, Constants DEF Process
  <2>3. r \in Process /\ r.pc = "slot" /\ r.ino = o.ino /\ r.locked = o.locked /\ r.existed = o.existed
    BY <1>1, <2>2 DEF Process
  <2> HIDE DEF r
  <2>4. Quiet(o, r) /\ ProcOk(r, db, copies, conf)
    BY <1>1, <2>3 DEF Quiet, Calm, ProcOk, LocksOk, SchemaOk, FilesOk
  <2> QED BY <1>1, <2>1, <2>4, CliQuietStep DEF o
<1>3. CASE ~SlotHeld(o.s)
  <2>1. Set(p, t)
    BY <1>3 DEF TrySlot
  <2>2. \A q \in Procs : proc[q].pc \notin {"off", "slot"} => proc[q].s # o.s
    BY <1>3 DEF SlotHeld, Alive, At
  <2> HIDE DEF o
  <2>3. /\ t \in Process /\ t.pc = "run" /\ t.s = o.s /\ t.max = o.max /\ t.ino = o.ino
        /\ t.locked = o.locked /\ t.existed = o.existed
    BY <1>1 DEF Process, Labels
  <2> HIDE DEF t
  <2>4. ProcOk(t, db, copies, conf) /\ ~t.locked
    BY <1>1, <2>3 DEF ProcOk, LocksOk, SchemaOk, FilesOk
  <2>5. /\ proc' \in [Procs -> Process] /\ proc'[p] = t
        /\ \A q \in Procs : q # p => proc'[q] = proc[q]
    BY <2>1, <2>3, InvParts DEF Set
  <2>6. SlotsApart(proc')
    BY <2>2, <2>3, <2>5, InvParts DEF LocksInv, SlotsApart
  <2>7. LocksApart(proc')
    BY <2>4, <2>5, InvParts DEF LocksInv, LocksApart
  <2>8. Unlinked(proc', jobPath) = Unlinked(proc, jobPath)
    <3>1. \A q \in Procs : proc'[q].ino = proc[q].ino
      BY <2>3, <2>5 DEF o
    <3> QED BY <3>1 DEF Unlinked
  <2>9. LocksInv(proc', jobPath', forced')
    BY <1>1, <2>6, <2>7, <2>8, InvParts DEF LocksInv
  <2> QED BY <2>1, <2>3, <2>4, <2>9, LockStep
<1> QED BY <1>2, <1>3

\* A process between two statements of acquire_job_singleton, or at the end.
LEMMA CliGotoStep ==
  ASSUME HostInv, NEW p \in Procs, UNCHANGED <<jobPath, forced, schemaVars, fileVars>>,
         (At(p, "jobbegin") /\ Goto(p, "jobopen")) \/ (At(p, "job") /\ Goto(p, "done"))
  PROVE  HostInv'
<1> DEFINE o == proc[p]
<1>1. o \in Process /\ ProcOk(o, db, copies, conf)
  BY InvParts
<1>2. ASSUME NEW l \in Labels, Goto(p, l), (o.pc = "jobbegin" /\ l = "jobopen") \/ (o.pc = "job" /\ l = "done")
      PROVE  HostInv'
  <2> DEFINE r == [o EXCEPT !.pc = l]
  <2>1. Set(p, r)
    BY <1>2 DEF Goto
  <2> HIDE DEF o
  <2>2. /\ r \in Process /\ r.pc = l /\ r.s = o.s /\ r.max = o.max /\ r.ino = o.ino
        /\ r.locked = o.locked /\ r.existed = o.existed /\ r.todo = o.todo
    BY <1>1, GotoFields
  <2> HIDE DEF r
  <2>3. Quiet(o, r) /\ ProcOk(r, db, copies, conf)
    BY <1>1, <1>2, <2>2 DEF Quiet, Calm, ProcOk, LocksOk, SchemaOk, FilesOk
  <2> QED BY <2>1, <2>3, CliQuietStep DEF o
<1>3. "jobopen" \in Labels /\ "done" \in Labels
  BY DEF Labels
<1> QED BY <1>2, <1>3 DEF At

LEMMA JobForceStep ==
  ASSUME HostInv, NEW p \in Procs, JobForce(p), UNCHANGED <<schemaVars, fileVars>>
  PROVE  HostInv'
<1> DEFINE o == proc[p]
           r == [o EXCEPT !.pc = "jobopen"]
           A == Unlinked(proc, jobPath)
           B == Unlinked(proc', 0)
<1>1. o \in Process /\ ProcOk(o, db, copies, conf) /\ o.pc = "jobbegin"
  BY InvParts DEF JobForce, At
<1>2. Set(p, r) /\ jobPath' = 0 /\ forced' = forced + 1
  BY DEF JobForce, Goto
<1> HIDE DEF o
<1>3. /\ r \in Process /\ r.pc = "jobopen" /\ r.s = o.s /\ r.max = o.max /\ r.ino = o.ino
      /\ r.locked = o.locked /\ r.existed = o.existed
  <2>1. "jobopen" \in Labels
    BY DEF Labels
  <2> QED BY <1>1, <2>1, GotoFields
<1> HIDE DEF r
<1>4. ProcOk(r, db, copies, conf)
  BY <1>1, <1>3 DEF ProcOk, LocksOk, SchemaOk, FilesOk
<1>5. /\ proc' \in [Procs -> Process] /\ proc'[p] = r
      /\ \A q \in Procs : q # p => proc'[q] = proc[q]
  BY <1>2, <1>3, InvParts DEF Set
<1>6. \A q \in Procs : /\ proc'[q].ino = proc[q].ino /\ proc'[q].locked = proc[q].locked
                       /\ proc'[q].s = proc[q].s
                       /\ proc'[q].pc \notin {"off", "slot"} => proc[q].pc \notin {"off", "slot"}
  BY <1>1, <1>3, <1>5 DEF o
<1>7. SlotsApart(proc') /\ LocksApart(proc')
  BY <1>6, InvParts DEF LocksInv, SlotsApart, LocksApart
<1>8. Cardinality(B) <= forced + 1
  <2>1. B \subseteq A \cup {jobPath}
    BY <1>6 DEF Unlinked
  <2> HIDE DEF A, B
  <2>2. IsFiniteSet(A) /\ Cardinality(A) \in Nat /\ Cardinality(A) <= forced /\ forced \in Nat
    BY InvParts, FiniteUnlinked DEF A, LocksInv
  <2>3. IsFiniteSet(A \cup {jobPath}) /\ Cardinality(A \cup {jobPath}) <= Cardinality(A) + 1
        /\ Cardinality(A \cup {jobPath}) \in Nat
    BY <2>2, FS_AddElement
  <2>4. Cardinality(B) <= Cardinality(A \cup {jobPath})
    BY <2>1, <2>3, FS_Subset
  <2>5. Cardinality(B) \in Nat
    BY <1>5, FiniteUnlinked DEF B
  <2> QED BY <2>2, <2>3, <2>4, <2>5
<1>9. LocksInv(proc', jobPath', forced')
  BY <1>2, <1>7, <1>8, InvParts DEF LocksInv
<1> QED BY <1>2, <1>3, <1>4, <1>9, LockStep

LEMMA JobOpenStep ==
  ASSUME HostInv, NEW p \in Procs, JobOpen(p), UNCHANGED <<schemaVars, fileVars>>
  PROVE  HostInv'
<1> DEFINE o == proc[p]
<1>1. PICK i \in Inodes :
        /\ IF jobPath # 0 THEN i = jobPath ELSE \A q \in Procs : proc[q].ino # i
        /\ jobPath' = i /\ Set(p, [o EXCEPT !.pc = "joblock", !.ino = i]) /\ forced' = forced
  BY DEF JobOpen
<1> DEFINE r == [o EXCEPT !.pc = "joblock", !.ino = i]
           A == Unlinked(proc, jobPath)
           B == Unlinked(proc', i)
<1>2. o \in Process /\ ProcOk(o, db, copies, conf) /\ o.pc = "jobopen"
  BY InvParts DEF JobOpen, At
<1>3. Set(p, r)
  BY <1>1
<1> HIDE DEF o
<1>4. /\ r \in Process /\ r.pc = "joblock" /\ r.s = o.s /\ r.max = o.max /\ r.ino = i
      /\ r.locked = o.locked /\ r.existed = o.existed
  BY <1>2 DEF Process, Labels
<1> HIDE DEF r
<1>5. ProcOk(r, db, copies, conf) /\ ~r.locked
  BY <1>2, <1>4, Constants DEF ProcOk, LocksOk, SchemaOk, FilesOk
<1>6. /\ proc' \in [Procs -> Process] /\ proc'[p] = r
      /\ \A q \in Procs : q # p => proc'[q] = proc[q]
  BY <1>3, <1>4, InvParts DEF Set
<1>7. SlotsApart(proc')
  BY <1>2, <1>4, <1>6, InvParts DEF LocksInv, SlotsApart, o
<1>8. LocksApart(proc')
  BY <1>5, <1>6, InvParts DEF LocksInv, LocksApart
<1>9. Cardinality(B) <= forced
  <2>1. B \in SUBSET A
    <3> SUFFICES ASSUME NEW q \in Procs, proc'[q].ino \notin {0, i} PROVE proc'[q].ino \in A
      BY DEF Unlinked
    <3>1. proc'[q].ino = proc[q].ino
      BY <1>4, <1>6
    <3>2. jobPath = i \/ jobPath = 0
      BY <1>1
    <3> QED BY <3>1, <3>2 DEF Unlinked
  <2>2. IsFiniteSet(A) /\ Cardinality(A) \in Nat /\ Cardinality(A) <= forced /\ forced \in Nat
        /\ Cardinality(B) \in Nat
    BY <1>6, InvParts, FiniteUnlinked DEF LocksInv
  <2>3. Cardinality(B) <= Cardinality(A)
    BY <2>1, <2>2, FS_Subset
  <2> QED BY <2>2, <2>3
<1>10. LocksInv(proc', jobPath', forced')
  BY <1>1, <1>7, <1>8, <1>9, InvParts DEF LocksInv
<1> QED BY <1>3, <1>4, <1>5, <1>10, LockStep

LEMMA JobLockStep ==
  ASSUME HostInv, NEW p \in Procs, JobLock(p), UNCHANGED <<schemaVars, fileVars>>
  PROVE  HostInv'
<1> DEFINE o == proc[p]
           r == [o EXCEPT !.pc = "job", !.locked = TRUE]
           s == [o EXCEPT !.pc = "done", !.ino = 0]
           t == [o EXCEPT !.pc = "jobopen", !.ino = 0]
<1>1. /\ o \in Process /\ ProcOk(o, db, copies, conf) /\ o.pc = "joblock"
      /\ UNCHANGED <<jobPath, forced>>
  BY InvParts DEF JobLock, At
<1>2. CASE ~JobHeld(o.ino)
  <2>1. Set(p, r)
    BY <1>2 DEF JobLock
  <2>2. \A q \in Procs : proc[q].locked => proc[q].ino # o.ino
    BY <1>2 DEF JobHeld
  <2> HIDE DEF o
  <2>3. /\ r \in Process /\ r.pc = "job" /\ r.s = o.s /\ r.max = o.max /\ r.ino = o.ino
        /\ r.locked /\ r.existed = o.existed
    BY <1>1 DEF Process, Labels
  <2> HIDE DEF r
  <2>4. ProcOk(r, db, copies, conf)
    BY <1>1, <2>3 DEF ProcOk, LocksOk, SchemaOk, FilesOk
  <2>5. /\ proc' \in [Procs -> Process] /\ proc'[p] = r
        /\ \A q \in Procs : q # p => proc'[q] = proc[q]
    BY <2>1, <2>3, InvParts DEF Set
  <2>6. SlotsApart(proc')
    BY <1>1, <2>3, <2>5, InvParts DEF LocksInv, SlotsApart, o
  <2>7. LocksApart(proc')
    BY <2>2, <2>3, <2>5, InvParts DEF LocksInv, LocksApart
  <2>8. Unlinked(proc', jobPath) = Unlinked(proc, jobPath)
    <3>1. \A q \in Procs : proc'[q].ino = proc[q].ino
      BY <2>3, <2>5 DEF o
    <3> QED BY <3>1 DEF Unlinked
  <2>9. LocksInv(proc', jobPath', forced')
    BY <1>1, <2>6, <2>7, <2>8, InvParts DEF LocksInv
  <2> QED BY <2>1, <2>3, <2>4, <2>9, LockStep
<1>3. CASE JobHeld(o.ino)
  <2>1. Set(p, s) \/ Set(p, t)
    BY <1>3 DEF JobLock
  <2> HIDE DEF o
  <2>2. /\ s \in Process /\ s.pc = "done" /\ s.s = o.s /\ s.max = o.max /\ s.ino = 0
        /\ s.locked = o.locked /\ s.existed = o.existed
    BY <1>1 DEF Process, Labels
  <2>3. /\ t \in Process /\ t.pc = "jobopen" /\ t.s = o.s /\ t.max = o.max /\ t.ino = 0
        /\ t.locked = o.locked /\ t.existed = o.existed
    BY <1>1 DEF Process, Labels
  <2> HIDE DEF s, t
  <2>4. Quiet(o, s) /\ ProcOk(s, db, copies, conf) /\ Quiet(o, t) /\ ProcOk(t, db, copies, conf)
    BY <1>1, <2>2, <2>3 DEF Quiet, Calm, ProcOk, LocksOk, SchemaOk, FilesOk
  <2> QED BY <1>1, <2>1, <2>4, CliQuietStep DEF o
<1> QED BY <1>2, <1>3

LEMMA CliStepInv ==
  ASSUME HostInv, NEW p \in Procs, CliStep(p), UNCHANGED <<schemaVars, fileVars>>
  PROVE  HostInv'
<1>1. Exit(p) => HostInv'
  BY EndStep DEF Exit
<1>2. JobBegin(p) \/ JobDone(p) => HostInv'
  BY CliGotoStep DEF JobBegin, JobDone
<1> QED BY <1>1, <1>2, TrySlotStep, PollSlotStep, JobForceStep, JobOpenStep, JobLockStep DEF CliStep

LEMMA EnvironmentStep ==
  ASSUME HostInv, NEW p \in Procs, Elapse(p) \/ Signal(p) \/ Die(p), UNCHANGED <<schemaVars, fileVars>>
  PROVE  HostInv'
<1>1. Elapse(p) => HostInv'
  BY FlagStep DEF Elapse
<1>2. Signal(p) => HostInv'
  BY FlagStep, EndStep DEF Signal
<1>3. Die(p) => HostInv'
  BY EndStep DEF Die
<1> QED BY <1>1, <1>2, <1>3
-----------------------------------------------------------------------------
(* Readiness of the database *)

\* A migration that is left is the smallest of those left.
LEMMA SmallestIsLeft ==
  ASSUME NEW T \in SUBSET Nat, T # {}
  PROVE  Smallest(T) \in T
<1>1. PICK x \in T : \A y \in T : <<y, x>> \notin OpToRel(<, Nat)
  <2>1. IsWellFoundedOn(OpToRel(<, Nat), Nat)
    BY NatLessThanWellFounded
  <2> QED BY <2>1, WFMin
<1>2. \A y \in T : x <= y
  <2> SUFFICES ASSUME NEW y \in T PROVE ~(y < x)
    OBVIOUS
  <2>1. y < x => <<y, x>> \in OpToRel(<, Nat)
    BY DEF OpToRel
  <2> QED BY <1>1, <2>1
<1> QED BY <1>2 DEF Smallest

SchemaLabels == {"run", "plan", "repair", "open", "copy", "apply", "meta", "verify", "dim", "ready",
                 "jobbegin", "close", "done"}

\* A step of the schema part: to r, with the database and the copies as they are now.
LEMMA SchemaMove ==
  ASSUME HostInv, NEW p \in Procs, NEW r \in Process, Set(p, r),
         proc[p].pc \in SchemaLabels \ {"done"}, r.pc \in SchemaLabels,
         r.s = proc[p].s, r.max = proc[p].max, r.ino = proc[p].ino, r.locked = proc[p].locked,
         SchemaOk(r, db', copies'), Later(db, db'), copies \subseteq copies', copies' \subseteq 0..Last,
         UNCHANGED <<jobPath, forced, conf, kept, acked, backup>>, data' \in Nat
  PROVE  HostInv'
<1>1. Quiet(proc[p], r)
  BY DEF Quiet, Calm, SchemaLabels
<1>2. ProcOk(r, db', copies', conf)
  <2>1. LocksOk(proc[p])
    BY InvParts DEF ProcOk
  <2>2. LocksOk(r)
    BY <2>1 DEF LocksOk, SchemaLabels
  <2>3. FilesOk(r, conf)
    BY DEF FilesOk, SchemaLabels
  <2> QED BY <2>2, <2>3 DEF ProcOk
<1>3. BackupIsSnapshot'
  BY InvParts DEF FilesInv, BackupIsSnapshot
<1> QED BY <1>1, <1>2, <1>3, QuietStep

\* ... that only goes to l.
LEMMA SchemaGoto ==
  ASSUME HostInv, NEW p \in Procs, NEW l \in SchemaLabels, NEW d, Step(p, l, d),
         proc[p].pc \in SchemaLabels \ {"done"}, Later(db, d),
         \A r : r.pc = l /\ r.existed = proc[p].existed /\ r.todo = proc[p].todo
           => SchemaOk(r, d, copies),
         UNCHANGED <<conf, kept, acked, backup>>, data' \in Nat
  PROVE  HostInv'
<1> DEFINE o == proc[p]
           r == [o EXCEPT !.pc = l]
<1>1. Set(p, r) /\ db' = d /\ copies' = copies /\ UNCHANGED <<jobPath, forced>>
  BY DEF Step, Goto
<1>2. o \in Process /\ l \in Labels /\ copies \subseteq 0..Last
  BY InvParts DEF Labels, SchemaLabels
<1>3. /\ r \in Process /\ r.pc = l /\ r.s = o.s /\ r.max = o.max /\ r.ino = o.ino
      /\ r.locked = o.locked /\ r.existed = o.existed /\ r.todo = o.todo
  <2> HIDE DEF o
  <2> QED BY <1>2, GotoFields
<1> HIDE DEF r
<1>4. SchemaOk(r, db', copies')
  BY <1>1, <1>3
<1>5. Later(db, db') /\ copies \subseteq copies'
  BY <1>1
<1> QED BY <1>1, <1>2, <1>3, <1>4, <1>5, SchemaMove
LEMMA SchemaParts ==
  ASSUME HostInv, NEW p \in Procs
  PROVE  /\ proc[p] \in Process /\ SchemaOk(proc[p], db, copies)
         /\ db \in Db /\ db.applied \in 0..Last /\ copies \subseteq 0..Last /\ data \in Nat
         /\ Last \in Nat /\ Blob \in 1..Last
BY InvParts, Constants DEF ProcOk, FilesInv, Db

LEMMA SameFiles ==
  ASSUME HostInv, UNCHANGED fileVars
  PROVE  UNCHANGED <<conf, kept, acked, backup>> /\ data' \in Nat
BY InvParts DEF fileVars, FilesInv

\* Opening the file creates it, and changes no more.
LEMMA Created ==
  ASSUME NEW d \in Db
  PROVE  LET e == [d EXCEPT !.exists = TRUE]
         IN  Later(d, e) /\ e.applied = d.applied /\ e.current = d.current
<1> DEFINE e == [d EXCEPT !.exists = TRUE]
<1>1. /\ e \in Db /\ e.applied = d.applied /\ e.current = d.current /\ e.blob = d.blob
      /\ e.dim = d.dim
  BY DEF Db
<1>2. d.applied <= e.applied
  <2>1. d.applied \in Nat
    BY Constants DEF Db
  <2> QED BY <1>1, <2>1
<1> QED BY <1>1, <1>2 DEF Later

LEMMA SchemaBeginStep ==
  ASSUME HostInv, NEW p \in Procs, SchemaBegin(p), UNCHANGED fileVars
  PROVE  HostInv'
<1> DEFINE d == [db EXCEPT !.exists = TRUE]
           l == IF proc[p].cmd = "init" THEN "plan" ELSE "repair"
<1>1. proc[p].pc = "run" /\ Step(p, l, d) /\ l \in {"plan", "repair"}
  BY DEF SchemaBegin, At
<1>2. Later(db, d)
  BY SchemaParts, Created
<1>3. ~proc[p].existed
  BY <1>1, SchemaParts DEF SchemaOk
<1> HIDE DEF d, l
<1>4. \A r : r.pc = l /\ r.existed = proc[p].existed /\ r.todo = proc[p].todo => SchemaOk(r, d, copies)
  BY <1>1, <1>3 DEF SchemaOk
<1>5. l \in SchemaLabels /\ proc[p].pc \in SchemaLabels \ {"done"}
  BY <1>1 DEF SchemaLabels
<1> QED BY <1>1, <1>2, <1>4, <1>5, SameFiles, SchemaGoto

LEMMA ProbeStep ==
  ASSUME HostInv, NEW p \in Procs, Probe(p), UNCHANGED fileVars
  PROVE  HostInv'
<1> DEFINE o == proc[p]
           r == [o EXCEPT !.pc = "open", !.existed = db.exists]
<1>1. o.pc = "run" /\ Set(p, r) /\ UNCHANGED <<db, copies, jobPath, forced>>
  BY DEF Probe, At
<1>2. o \in Process /\ db.exists \in BOOLEAN
  BY SchemaParts DEF Db
<1>3. o.pc \in SchemaLabels \ {"done"} /\ "open" \in Labels
  BY <1>1 DEF SchemaLabels, Labels
<1>4. /\ r \in Process /\ r.pc = "open" /\ r.s = o.s /\ r.max = o.max /\ r.ino = o.ino
      /\ r.locked = o.locked
  <2> HIDE DEF o
  <2> QED BY <1>2, <1>3 DEF Process
<1> HIDE DEF r
<1>5. SchemaOk(r, db', copies') /\ r.pc \in SchemaLabels
  BY <1>4 DEF SchemaOk, SchemaLabels
<1>6. Later(db, db') /\ copies \subseteq copies' /\ copies' \subseteq 0..Last
  BY <1>1, SchemaParts, LaterReflexive
<1> QED BY <1>1, <1>3, <1>4, <1>5, <1>6, SameFiles, SchemaMove

LEMMA OpenStep ==
  ASSUME HostInv, NEW p \in Procs, Open(p), UNCHANGED fileVars
  PROVE  HostInv'
<1> DEFINE d == [db EXCEPT !.exists = TRUE]
           l == IF ~db.current \/ db.applied < Last
                THEN (IF proc[p].existed THEN "copy" ELSE "plan") ELSE "verify"
<1>1. proc[p].pc = "open" /\ Step(p, l, d)
  BY DEF Open, At
<1>2. Later(db, d) /\ d.applied = db.applied /\ d.current = db.current
  BY SchemaParts, Created
<1>3. l \in {"copy", "plan", "verify"}
  OBVIOUS
<1>4. l = "plan" => ~proc[p].existed
  OBVIOUS
<1>5. l = "verify" => db.current /\ db.applied = Last
  <2>1. l = "verify" => db.current /\ ~(db.applied < Last)
    OBVIOUS
  <2> HIDE DEF l
  <2> QED BY <2>1, SchemaParts
<1> HIDE DEF d, l
<1>6. \A r : r.pc = l /\ r.existed = proc[p].existed /\ r.todo = proc[p].todo => SchemaOk(r, d, copies)
  BY <1>2, <1>3, <1>4, <1>5 DEF SchemaOk
<1>7. l \in SchemaLabels /\ proc[p].pc \in SchemaLabels \ {"done"}
  BY <1>1, <1>3 DEF SchemaLabels
<1> QED BY <1>1, <1>2, <1>6, <1>7, SameFiles, SchemaGoto

LEMMA CopyAsideStep ==
  ASSUME HostInv, NEW p \in Procs, CopyAside(p), UNCHANGED fileVars
  PROVE  HostInv'
<1> DEFINE o == proc[p]
           r == [o EXCEPT !.pc = "plan"]
<1>1. /\ o.pc = "copy" /\ Set(p, r) /\ UNCHANGED <<db, jobPath, forced>>
      /\ copies' = copies \cup {db.applied}
  BY DEF CopyAside, At, Goto
<1>2. o \in Process /\ "plan" \in Labels /\ o.pc \in SchemaLabels \ {"done"}
  BY <1>1, SchemaParts DEF SchemaLabels, Labels
<1>3. /\ r \in Process /\ r.pc = "plan" /\ r.s = o.s /\ r.max = o.max /\ r.ino = o.ino
      /\ r.locked = o.locked
  <2> HIDE DEF o
  <2> QED BY <1>2, GotoFields
<1> HIDE DEF r
<1>4. db.applied \in copies' /\ db.applied <= db'.applied
  BY <1>1, SchemaParts
<1>5. SchemaOk(r, db', copies') /\ r.pc \in SchemaLabels
  BY <1>3, <1>4 DEF SchemaOk, SchemaLabels
<1>6. Later(db, db') /\ copies \subseteq copies' /\ copies' \subseteq 0..Last
  BY <1>1, SchemaParts, LaterReflexive
<1> QED BY <1>1, <1>2, <1>3, <1>5, <1>6, SameFiles, SchemaMove

LEMMA PlanStep ==
  ASSUME HostInv, NEW p \in Procs, Plan(p), UNCHANGED fileVars
  PROVE  HostInv'
<1> DEFINE o == proc[p]
           T == (db.applied + 1)..Last
           r == [o EXCEPT !.pc = "apply", !.todo = T]
<1>1. o.pc = "plan" /\ Set(p, r) /\ UNCHANGED <<db, copies, jobPath, forced>>
  BY DEF Plan, At
<1>2. o \in Process /\ "apply" \in Labels /\ o.pc \in SchemaLabels \ {"done"} /\ T \in SUBSET (1..Last)
  BY <1>1, SchemaParts DEF SchemaLabels, Labels
<1>3. \A v \in (1..Last) \ T : v <= db.applied
  BY SchemaParts
<1> HIDE DEF T
<1>4. /\ r \in Process /\ r.pc = "apply" /\ r.s = o.s /\ r.max = o.max /\ r.ino = o.ino
      /\ r.locked = o.locked /\ r.existed = o.existed /\ r.todo = T
  <2> HIDE DEF o
  <2> QED BY <1>2 DEF Process
<1> HIDE DEF r
<1>5. SchemaOk(r, db', copies') /\ r.pc \in SchemaLabels
  <2>1. SchemaOk(o, db, copies)
    BY SchemaParts
  <2>2. o.existed => \E v \in copies : v <= db.applied
    BY <1>1, <2>1 DEF SchemaOk
  <2> QED BY <1>1, <1>3, <1>4, <2>2 DEF SchemaOk, SchemaLabels
<1>6. Later(db, db') /\ copies \subseteq copies' /\ copies' \subseteq 0..Last
  BY <1>1, SchemaParts, LaterReflexive
<1> QED BY <1>1, <1>2, <1>4, <1>5, <1>6, SameFiles, SchemaMove
\* A migration is committed.
LEMMA Advanced ==
  ASSUME NEW d \in Db, db = d, NEW v \in 1..Last, d.applied < v
  PROVE  LET e == Migrated(v, FALSE) IN Later(d, e) /\ e.applied = v
<1> DEFINE e == Migrated(v, FALSE)
<1>1. v \in 0..Last
  BY Constants
<1>2. \A b, g \in BOOLEAN :
        LET x == [d EXCEPT !.applied = v, !.blob = b, !.edges = g]
        IN  x \in Db /\ x.applied = v /\ x.current = d.current /\ x.blob = b /\ x.dim = d.dim
  BY <1>1 DEF Db
<1>3. /\ e \in Db /\ e.applied = v /\ e.current = d.current /\ (d.blob => e.blob)
      /\ e.dim = d.dim
  <2>1. d.blob \in BOOLEAN
    BY DEF Db
  <2>2. PICK b, g \in BOOLEAN : e = [d EXCEPT !.applied = v, !.blob = b, !.edges = g] /\ (d.blob => b)
    BY <2>1 DEF Migrated
  <2> HIDE DEF e
  <2> QED BY <1>2, <2>2
<1>4. d.applied <= v
  BY Constants DEF Db
<1> QED BY <1>3, <1>4 DEF Later

LEMMA ApplyStep ==
  ASSUME HostInv, NEW p \in Procs, Apply(p), UNCHANGED fileVars
  PROVE  HostInv'
<1> DEFINE o == proc[p]
           v == Smallest(o.todo)
           r == [o EXCEPT !.todo = o.todo \ {v}]
<1>1. o.pc = "apply" /\ o.todo # {}
  BY DEF Apply, At
<1>2. o \in Process /\ o.pc \in SchemaLabels \ {"done"} /\ o.todo \in SUBSET (1..Last)
  BY <1>1, SchemaParts DEF SchemaLabels, Process
<1>3. v \in o.todo /\ v \in 1..Last /\ v \in Nat
  <2>1. o.todo \in SUBSET Nat
    BY <1>2
  <2>2. v \in o.todo
    BY <1>1, <2>1, SmallestIsLeft
  <2> HIDE DEF v
  <2> QED BY <1>2, <2>2
<1>4. CASE Refused(v)
  <2>1. Step(p, "done", db)
    BY <1>4 DEF Apply, Fail
  <2>2. \A x : x.pc = "done" => SchemaOk(x, db, copies)
    BY DEF SchemaOk
  <2>3. "done" \in SchemaLabels /\ Later(db, db)
    BY SchemaParts, LaterReflexive DEF SchemaLabels
  <2> QED BY <1>2, <2>1, <2>2, <2>3, SameFiles, SchemaGoto
<1>5. CASE ~Refused(v)
  <2>1. db' = Migrated(v, FALSE) /\ Set(p, r) /\ UNCHANGED <<copies, jobPath, forced>>
    BY <1>5 DEF Apply
  <2>2. db.applied < v
    BY <1>3, <1>5, SchemaParts DEF Refused
  <2> HIDE DEF v
  <2>3. Later(db, db') /\ db'.applied = v
    BY <1>3, <2>1, <2>2, SchemaParts, Advanced
  <2>4. /\ r \in Process /\ r.pc = "apply" /\ r.s = o.s /\ r.max = o.max /\ r.ino = o.ino
        /\ r.locked = o.locked /\ r.existed = o.existed /\ r.todo = o.todo \ {v}
    <3> HIDE DEF o
    <3> QED BY <1>1, <1>2 DEF Process
  <2> HIDE DEF r
  <2>5. SchemaOk(o, db, copies)
    BY SchemaParts
  <2>6. o.existed => \E w \in copies : w <= v
    BY <1>1, <1>3, <2>2, <2>5, SchemaParts DEF SchemaOk
  <2>7. ASSUME NEW w \in (1..Last) \ r.todo PROVE w <= v
    <3>1. w = v \/ w <= db.applied
      BY <1>1, <2>4, <2>5, <2>7 DEF SchemaOk
    <3>2. w \in Nat
      BY <2>7
    <3> QED BY <1>3, <2>2, <3>1, <3>2, SchemaParts
  <2>8. SchemaOk(r, db', copies') /\ r.pc \in SchemaLabels
    BY <2>1, <2>3, <2>4, <2>6, <2>7 DEF SchemaOk, SchemaLabels
  <2>9. copies \subseteq copies' /\ copies' \subseteq 0..Last
    BY <2>1, SchemaParts
  <2> QED BY <1>2, <2>1, <2>3, <2>4, <2>8, <2>9, SameFiles, SchemaMove
<1> QED BY <1>4, <1>5

\* What is recorded beside the history takes nothing back.
LEMMA Recorded ==
  ASSUME NEW d \in Db, NEW e \in Db, e.applied = d.applied, d.current => e.current,
         d.blob => e.blob, d.dim # 0 => e.dim # 0
  PROVE  Later(d, e)
<1>1. d.applied <= d.applied
  BY Constants DEF Db
<1> QED BY <1>1 DEF Later

LEMMA MarkCurrentStep ==
  ASSUME HostInv, NEW p \in Procs, MarkCurrent(p), UNCHANGED fileVars
  PROVE  HostInv'
<1> DEFINE o == proc[p]
           d == [db EXCEPT !.current = TRUE]
           l == IF o.cmd \in {"init", "migrate", "llmonly"} \/ ~o.existed THEN "meta" ELSE "verify"
<1>1. o.pc = "apply" /\ o.todo = {} /\ Step(p, l, d)
  BY DEF MarkCurrent, At
<1>2. Later(db, d) /\ d.applied = db.applied /\ d.current
  <2>1. /\ d \in Db /\ d.applied = db.applied /\ d.current /\ d.blob = db.blob /\ d.dim = db.dim
    BY SchemaParts DEF Db
  <2> HIDE DEF d
  <2> QED BY <2>1, SchemaParts, Recorded
<1>3. l \in {"meta", "verify"}
  OBVIOUS
<1>4. db.applied = Last
  <2>1. \A v \in (1..Last) \ o.todo : v <= db.applied
    BY <1>1, SchemaParts DEF SchemaOk
  <2>2. Last \in (1..Last) \ o.todo
    BY <1>1, Constants
  <2> QED BY <2>1, <2>2, SchemaParts
<1> HIDE DEF d, l
<1>5. \A r : r.pc = l => SchemaOk(r, d, copies)
  BY <1>2, <1>3, <1>4 DEF SchemaOk
<1>6. l \in SchemaLabels /\ o.pc \in SchemaLabels \ {"done"}
  BY <1>1, <1>3 DEF SchemaLabels
<1> QED BY <1>1, <1>2, <1>5, <1>6, SameFiles, SchemaGoto
LEMMA WriteMetaStep ==
  ASSUME HostInv, NEW p \in Procs, WriteMeta(p, DefaultDim), UNCHANGED fileVars
  PROVE  HostInv'
<1> DEFINE o == proc[p]
           n == IF db.dim = 0 THEN DefaultDim ELSE db.dim
           l == IF o.cmd \in {"init", "migrate", "llmonly"} THEN "done" ELSE "verify"
           d1 == [db EXCEPT !.meta = TRUE]
           d2 == [db EXCEPT !.meta = TRUE, !.dim = n]
           d3 == [db EXCEPT !.meta = TRUE, !.dim = DefaultDim]
<1>1. PICK d \in {d1, d2, d3} : o.pc = "meta" /\ Step(p, l, d)
  <2>1. [db EXCEPT !.meta = TRUE, !.dim = IF @ = 0 THEN DefaultDim ELSE @] = d2
    OBVIOUS
  <2> HIDE DEF d2
  <2> QED BY <2>1 DEF WriteMeta, At
<1>2. n \in Dims \cup {0} /\ n # 0 /\ DefaultDim \in Dims \cup {0} /\ DefaultDim # 0
  BY SchemaParts, Constants DEF Db
<1> HIDE DEF n
<1>3. /\ d \in Db /\ d.applied = db.applied /\ d.current = db.current /\ d.blob = db.blob
      /\ db.dim # 0 => d.dim # 0
  <2>1. CASE d = d1
    BY <2>1, SchemaParts DEF Db
  <2>2. CASE d = d2
    BY <1>2, <2>2, SchemaParts DEF Db
  <2>3. CASE d = d3
    BY <1>2, <2>3, SchemaParts DEF Db
  <2> QED BY <1>1, <2>1, <2>2, <2>3
<1>4. Later(db, d)
  BY <1>3, SchemaParts, Recorded
<1>5. l \in {"done", "verify"}
  OBVIOUS
<1>6. d.applied = Last /\ d.current
  BY <1>1, <1>3, SchemaParts DEF SchemaOk
<1> HIDE DEF l
<1>7. \A r : r.pc = l => SchemaOk(r, d, copies)
  BY <1>5, <1>6 DEF SchemaOk
<1>8. l \in SchemaLabels /\ o.pc \in SchemaLabels \ {"done"}
  BY <1>1, <1>5 DEF SchemaLabels
<1> QED BY <1>1, <1>4, <1>7, <1>8, SameFiles, SchemaGoto

\* ensure_v013_tables_exist takes nothing back, and leaves a complete schema with its tables.
LEMMA RepairedOk ==
  ASSUME HostInv
  PROVE  /\ Repaired \in Db /\ Repaired.applied = db.applied /\ Repaired.current = db.current
         /\ Repaired.dim = db.dim /\ (db.blob => Repaired.blob)
         /\ db.applied = Last => Repaired.blob
<1>1. ASSUME NEW b \in BOOLEAN
      PROVE  LET e == [db EXCEPT !.blob = b]
             IN  e \in Db /\ e.applied = db.applied /\ e.current = db.current /\ e.dim = db.dim /\ e.blob = b
  BY InvParts DEF Db
<1>2. PICK b \in BOOLEAN : Repaired = [db EXCEPT !.blob = b] /\ (db.blob => b) /\ (db.applied >= Blob => b)
  <2>1. db.blob \in BOOLEAN
    BY InvParts DEF Db
  <2> QED BY <2>1 DEF Repaired
<1>3. db.applied = Last => db.applied >= Blob
  BY Constants
<1> QED BY <1>1, <1>2, <1>3

LEMMA VerifyStep ==
  ASSUME HostInv, NEW p \in Procs, Verify(p), UNCHANGED fileVars
  PROVE  HostInv'
<1>1. proc[p].pc = "verify" /\ Step(p, "dim", Repaired)
  BY DEF Verify, At
<1>2. db.applied = Last /\ db.current
  BY <1>1, SchemaParts DEF SchemaOk
<1>3. Later(db, Repaired)
  BY SchemaParts, RepairedOk, Recorded
<1>4. \A r : r.pc = "dim" => SchemaOk(r, Repaired, copies)
  BY <1>2, RepairedOk DEF SchemaOk
<1>5. "dim" \in SchemaLabels /\ proc[p].pc \in SchemaLabels \ {"done"}
  BY <1>1 DEF SchemaLabels
<1> QED BY <1>1, <1>3, <1>4, <1>5, SameFiles, SchemaGoto

LEMMA RepairStep ==
  ASSUME HostInv, NEW p \in Procs, Repair(p), UNCHANGED fileVars
  PROVE  HostInv'
<1> DEFINE o == proc[p]
           l == IF o.cmd = "rehash" THEN "done" ELSE "plan"
           a == IF db.applied > 0 /\ o.cmd \in {"rehash", "llmonly"}
                THEN [Repaired EXCEPT !.drift = FALSE] ELSE Repaired
           d == IF o.cmd = "llmonly" THEN WithoutVec(a) ELSE a
<1>1. o.pc = "repair" /\ Step(p, l, d)
  BY DEF Repair, At
<1>2. /\ a \in Db /\ a.applied = db.applied /\ a.current = db.current /\ a.dim = db.dim
      /\ (db.blob => a.blob)
  <2>1. Repaired \in Db
    BY RepairedOk
  <2>2. LET e == [Repaired EXCEPT !.drift = FALSE]
        IN  /\ e \in Db /\ e.applied = Repaired.applied /\ e.current = Repaired.current
            /\ e.dim = Repaired.dim /\ e.blob = Repaired.blob
    BY <2>1 DEF Db
  <2> QED BY <2>2, RepairedOk
<1> HIDE DEF a
<1>3. /\ d \in Db /\ d.applied = db.applied /\ d.current = db.current /\ d.dim = db.dim
      /\ (db.blob => d.blob)
  BY <1>2 DEF WithoutVec, Db
<1>4. l \in {"done", "plan"}
  OBVIOUS
<1> HIDE DEF d, l
<1>5. Later(db, d)
  BY <1>3, SchemaParts, Recorded
<1>6. ~o.existed
  BY <1>1, SchemaParts DEF SchemaOk
<1>7. \A r : r.pc = l /\ r.existed = o.existed /\ r.todo = o.todo => SchemaOk(r, d, copies)
  BY <1>4, <1>6 DEF SchemaOk
<1>8. l \in SchemaLabels /\ o.pc \in SchemaLabels \ {"done"}
  BY <1>1, <1>4 DEF SchemaLabels
<1> QED BY <1>1, <1>5, <1>7, <1>8, SameFiles, SchemaGoto
LEMMA SyncDimStep ==
  ASSUME HostInv, NEW p \in Procs, NEW w \in Dims \cup {0}, SyncDim(p, w, DefaultDim), UNCHANGED fileVars
  PROVE  HostInv'
<1> DEFINE n == IF w # 0 THEN w ELSE IF db.dim # 0 THEN db.dim ELSE DefaultDim
           d == [db EXCEPT !.dim = n]
<1>1. proc[p].pc = "dim" /\ Step(p, "ready", d)
  BY DEF SyncDim, At
<1>2. n \in Dims \cup {0} /\ n # 0
  BY SchemaParts, Constants DEF Db
<1> HIDE DEF n
<1>3. /\ d \in Db /\ d.applied = db.applied /\ d.current = db.current /\ d.blob = db.blob /\ d.dim = n
  BY <1>2, SchemaParts DEF Db
<1> HIDE DEF d
<1>4. Later(db, d)
  BY <1>2, <1>3, SchemaParts, Recorded
<1>5. \A r : r.pc = "ready" => SchemaOk(r, d, copies)
  <2>1. SchemaOk(proc[p], db, copies)
    BY SchemaParts
  <2> QED BY <1>1, <1>2, <1>3, <2>1 DEF SchemaOk
<1>6. "ready" \in SchemaLabels /\ proc[p].pc \in SchemaLabels \ {"done"}
  BY <1>1 DEF SchemaLabels
<1> QED BY <1>1, <1>4, <1>5, <1>6, SameFiles, SchemaGoto

LEMMA EnrichBodyStep ==
  ASSUME HostInv, NEW p \in Procs, EnrichBody(p), UNCHANGED fileVars
  PROVE  HostInv'
<1>1. proc[p].pc = "ready" /\ Step(p, "jobbegin", db)
  BY DEF EnrichBody, At
<1>2. \A r : r.pc = "jobbegin" => SchemaOk(r, db, copies)
  BY DEF SchemaOk
<1>3. Later(db, db) /\ "jobbegin" \in SchemaLabels /\ proc[p].pc \in SchemaLabels \ {"done"}
  BY <1>1, SchemaParts, LaterReflexive DEF SchemaLabels
<1> QED BY <1>1, <1>2, <1>3, SameFiles, SchemaGoto

LEMMA SchemaStepInv ==
  ASSUME HostInv, NEW p \in Procs, SchemaStep(p), UNCHANGED fileVars
  PROVE  HostInv'
BY SchemaBeginStep, ProbeStep, OpenStep, CopyAsideStep, PlanStep, ApplyStep, MarkCurrentStep,
   VerifyStep, RepairStep, EnrichBodyStep, WriteMetaStep, SyncDimStep DEF SchemaStep

-----------------------------------------------------------------------------
(* Files *)

LEMMA ConfigLoadStep ==
  ASSUME HostInv, NEW p \in Procs, NEW k \in Keys, NEW v \in Vals \cup {NoVal}, ConfigLoad(p, k, v)
  PROVE  HostInv'
<1> DEFINE o == proc[p]
           t == [map |-> [conf.map EXCEPT ![k] = v], base |-> conf.ver, key |-> k]
           r == [o EXCEPT !.pc = "done"]
           s == [o EXCEPT !.pc = "temp", !.existed = FALSE, !.copy = t]
<1>1. /\ o.pc = "run" /\ o.cmd = "config" /\ conf.ver < MaxSaves
      /\ Set(p, r) \/ Set(p, s)
      /\ UNCHANGED <<jobPath, forced, schemaVars, fileVars>>
  BY DEF ConfigLoad, Keep, With, Goto, At
<1>2. /\ o \in Process /\ ProcOk(o, db, copies, conf) /\ conf \in ConfFile
      /\ "done" \in Labels /\ "temp" \in Labels
  BY InvParts DEF Labels
<1>3. CASE Set(p, r)
  <2>1. /\ r \in Process /\ r.pc = "done" /\ r.s = o.s /\ r.max = o.max /\ r.ino = o.ino
        /\ r.locked = o.locked
    <3> HIDE DEF o
    <3> QED BY <1>2, GotoFields
  <2> HIDE DEF r
  <2>2. Quiet(o, r) /\ ProcOk(r, db, copies, conf)
    BY <1>1, <1>2, <2>1 DEF Quiet, Calm, ProcOk, LocksOk, SchemaOk, FilesOk
  <2> QED BY <1>1, <1>3, <2>2, CliQuietStep
<1>4. CASE Set(p, s)
  <2>1. t \in Saved /\ t.base = conf.ver /\ t.key = k /\ conf.ver \in Nat
        /\ \A j \in Keys \ {k} : t.map[j] = conf.map[j]
    BY <1>2 DEF ConfFile, Saved, Map
  <2> HIDE DEF t
  <2>2. /\ s \in Process /\ s.pc = "temp" /\ s.s = o.s /\ s.max = o.max /\ s.ino = o.ino
        /\ s.locked = o.locked /\ s.cmd = o.cmd /\ s.copy = t
    <3>1. t \in Scratch
      BY <2>1 DEF Scratch
    <3> HIDE DEF o
    <3> QED BY <1>2, <3>1 DEF Process
  <2> HIDE DEF s
  <2>3. Calm(o, s)
    BY <1>1, <2>2 DEF Calm
  <2>4. ProcOk(s, db, copies, conf)
    <3>1. LocksOk(s) /\ SchemaOk(s, db, copies)
      BY <1>1, <1>2, <2>2 DEF ProcOk, LocksOk, SchemaOk
    <3>2. FilesOk(s, conf)
      BY <1>1, <2>1, <2>2 DEF FilesOk
    <3> QED BY <2>2, <3>1, <3>2 DEF ProcOk
  <2>5. LocksInv(proc', jobPath', forced')
    BY <1>1, <1>4, <2>2, <2>3, InvParts, QuietLocks DEF Set
  <2>6. SaveInv(proc', conf')
    <3>1. Saving(proc') \in SUBSET Procs
      BY DEF Saving
    <3>2. Cardinality(Saving(proc')) <= Cardinality(Procs)
      BY <3>1, Constants, FS_Subset
    <3>3. Cardinality(Saving(proc')) \in Nat
      BY FiniteSaving
    <3>4. conf' = conf
      BY <1>1 DEF fileVars
    <3> QED BY <1>1, <2>1, <3>2, <3>3, <3>4, Constants DEF SaveInv
  <2>7. /\ db' = db /\ copies' = copies /\ conf' = conf /\ kept' = kept /\ acked' = acked
        /\ data' = data /\ backup' = backup
    BY <1>1 DEF schemaVars, fileVars
  <2>8. FilesInv' /\ Later(db, db') /\ copies' \subseteq 0..Last
    BY <2>7, InvParts, LaterReflexive DEF FilesInv, BackupIsSnapshot
  <2> QED BY <1>4, <2>4, <2>5, <2>6, <2>7, <2>8, StepInv DEF Set
<1> QED BY <1>1, <1>3, <1>4

LEMMA ConfigTempStep ==
  ASSUME HostInv, NEW p \in Procs, ConfigTemp(p)
  PROVE  HostInv'
<1> DEFINE o == proc[p]
           r == [o EXCEPT !.pc = "persist", !.existed = TRUE]
<1>1. o.pc = "temp" /\ Set(p, r) /\ UNCHANGED <<jobPath, forced, schemaVars, fileVars>>
  BY DEF ConfigTemp, With, At
<1>2. o \in Process /\ ProcOk(o, db, copies, conf) /\ "persist" \in Labels
  BY InvParts DEF Labels
<1>3. /\ r \in Process /\ r.pc = "persist" /\ r.s = o.s /\ r.max = o.max /\ r.ino = o.ino
      /\ r.locked = o.locked /\ r.cmd = o.cmd /\ r.copy = o.copy /\ r.existed
  <2> HIDE DEF o
  <2> QED BY <1>2 DEF Process
<1> HIDE DEF r
<1>4. Quiet(o, r) /\ ProcOk(r, db, copies, conf)
  <2>1. LocksOk(r) /\ SchemaOk(r, db, copies)
    BY <1>1, <1>2, <1>3 DEF ProcOk, LocksOk, SchemaOk
  <2>2. FilesOk(r, conf)
    BY <1>1, <1>2, <1>3 DEF ProcOk, FilesOk
  <2> QED BY <1>1, <1>3, <2>1, <2>2 DEF Quiet, Calm, ProcOk
<1> QED BY <1>1, <1>4, CliQuietStep
LEMMA ConfigPersistStep ==
  ASSUME HostInv, NEW p \in Procs, ConfigPersist(p)
  PROVE  HostInv'
<1> DEFINE o == proc[p]
           n == conf.ver + 1
           r == [o EXCEPT !.pc = "dirsync", !.copy.base = n]
<1>1. /\ o.pc = "persist" /\ Set(p, r) /\ conf' = [map |-> o.copy.map, ver |-> n, synced |-> o.existed]
      /\ UNCHANGED <<jobPath, forced, db, copies, kept, acked, data, backup>>
  BY DEF ConfigPersist, With, At, schemaVars
<1>2. o \in Process /\ ProcOk(o, db, copies, conf) /\ conf \in ConfFile /\ "dirsync" \in Labels
  BY InvParts DEF Labels
<1>3. o.existed = TRUE /\ o.cmd = "config" /\ o.copy \in Saved /\ o.copy.map \in Map
  BY <1>1, <1>2 DEF ProcOk, FilesOk, Process, Saved
<1>4. conf' \in ConfFile /\ conf'.ver = n /\ conf.ver \in Nat /\ n \in Nat /\ n > conf.ver
  <2>1. conf.ver \in Nat /\ n \in Nat /\ n > conf.ver
    BY <1>2 DEF ConfFile
  <2> HIDE DEF n, o
  <2> QED BY <1>1, <1>3, <2>1 DEF ConfFile
<1> HIDE DEF n
<1>5. /\ r \in Process /\ r.pc = "dirsync" /\ r.s = o.s /\ r.max = o.max /\ r.ino = o.ino
      /\ r.locked = o.locked /\ r.cmd = o.cmd /\ r.existed = o.existed
      /\ r.copy \in Saved /\ r.copy.base = n
  <2>1. LET c == [o.copy EXCEPT !.base = n] IN c \in Saved /\ c.base = n /\ c \in Scratch
    BY <1>3, <1>4 DEF Saved, Scratch
  <2> DEFINE c == [o.copy EXCEPT !.base = n]
  <2>2. r = [o EXCEPT !.pc = "dirsync", !.copy = c]
    OBVIOUS
  <2>3. c \in Saved /\ c.base = n /\ c \in Scratch
    BY <2>1
  <2> HIDE DEF c, o, r
  <2> QED BY <1>2, <2>2, <2>3 DEF Process
<1> HIDE DEF r
<1>6. Calm(o, r)
  BY <1>1, <1>5 DEF Calm
<1>7. ProcOk(r, db', copies', conf')
  <2>1. LocksOk(r) /\ SchemaOk(r, db', copies')
    BY <1>1, <1>2, <1>5 DEF ProcOk, LocksOk, SchemaOk
  <2>2. FilesOk(r, conf')
    BY <1>3, <1>4, <1>5 DEF FilesOk
  <2> QED BY <1>5, <2>1, <2>2 DEF ProcOk
<1>8. LocksInv(proc', jobPath', forced')
  BY <1>1, <1>5, <1>6, InvParts, QuietLocks DEF Set
<1>9. SaveInv(proc', conf')
  <2>1. /\ proc'[p] = r /\ \A q \in Procs : q # p => proc'[q] = proc[q]
    BY <1>1, <1>5, InvParts DEF Set
  <2>2. Saving(proc') = Saving(proc) \ {p} /\ p \in Saving(proc)
    BY <1>1, <1>5, <2>1 DEF Saving
  <2>3. /\ Cardinality(Saving(proc')) = Cardinality(Saving(proc)) - 1
        /\ Cardinality(Saving(proc)) \in Nat
    BY <2>2, FiniteSaving, FS_RemoveElement
  <2>4. conf.ver + Cardinality(Saving(proc)) <= MaxSaves + Cardinality(Procs)
    BY InvParts DEF SaveInv
  <2>5. n = conf.ver + 1
    BY DEF n
  <2> QED BY <1>4, <2>3, <2>4, <2>5, Constants DEF SaveInv
<1>10. FilesInv' /\ Later(db, db') /\ copies' \subseteq 0..Last
  <2>1. kept \in ConfFile /\ kept.ver <= conf.ver /\ kept.ver \in Nat
    BY InvParts DEF FilesInv, ConfFile
  <2>2. kept'.ver <= conf'.ver
    BY <1>1, <1>4, <2>1
  <2> QED BY <1>1, <1>4, <2>2, InvParts, LaterReflexive DEF FilesInv, BackupIsSnapshot
<1>11. conf'.ver > conf.ver
  BY <1>4
<1> QED BY <1>1, <1>7, <1>8, <1>9, <1>10, <1>11, StepInv DEF Set

LEMMA ConfigAckStep ==
  ASSUME HostInv, NEW p \in Procs, ConfigAck(p)
  PROVE  HostInv'
<1> DEFINE o == proc[p]
           r == [o EXCEPT !.pc = "done", !.copy = NoContent]
<1>1. /\ o.pc = "dirsync" /\ Set(p, r) /\ kept' = conf /\ acked' = Greater(acked, o.copy.base)
      /\ UNCHANGED <<jobPath, forced, db, copies, conf, data, backup>>
  BY DEF ConfigAck, With, At, schemaVars
<1>2. o \in Process /\ ProcOk(o, db, copies, conf) /\ "done" \in Labels /\ NoContent \in Scratch
  BY InvParts DEF Labels, Scratch
<1>3. o.copy.base \in Nat /\ o.copy.base <= conf.ver
  BY <1>1, <1>2 DEF ProcOk, FilesOk, Saved
<1>4. acked' \in Nat /\ acked' <= conf.ver
  <2>1. acked \in Nat /\ kept.ver \in Nat /\ conf.ver \in Nat /\ acked <= kept.ver /\ kept.ver <= conf.ver
    BY InvParts DEF FilesInv, ConfFile
  <2> QED BY <1>1, <1>3, <2>1 DEF Greater
<1>5. /\ r \in Process /\ r.pc = "done" /\ r.s = o.s /\ r.max = o.max /\ r.ino = o.ino
      /\ r.locked = o.locked
  <2> HIDE DEF o
  <2> QED BY <1>2 DEF Process
<1> HIDE DEF r
<1>6. Quiet(o, r) /\ ProcOk(r, db', copies', conf')
  BY <1>1, <1>2, <1>5 DEF Quiet, Calm, ProcOk, LocksOk, SchemaOk, FilesOk
<1>7. LocksInv(proc', jobPath', forced') /\ SaveInv(proc', conf')
  BY <1>1, <1>5, <1>6, InvParts, QuietLocks, QuietSaving DEF Set, Quiet
<1>8. FilesInv' /\ Later(db, db') /\ copies' \subseteq 0..Last
  <2>1. kept' \in ConfFile /\ kept'.ver <= conf'.ver /\ acked' <= kept'.ver
    <3>1. conf.ver \in Nat
      BY InvParts DEF ConfFile
    <3> QED BY <1>1, <1>4, <3>1, InvParts
  <2> QED BY <1>1, <1>4, <2>1, InvParts, LaterReflexive DEF FilesInv, BackupIsSnapshot
<1> QED BY <1>1, <1>6, <1>7, <1>8, StepInv DEF Set

LEMMA PowerLossStep ==
  ASSUME HostInv, PowerLoss
  PROVE  HostInv'
<1>1. /\ proc' = [p \in Procs |-> Off] /\ kept' = conf'
      /\ UNCHANGED <<jobPath, forced, db, copies, acked, data, backup>>
  BY DEF PowerLoss, schemaVars
<1>2. conf' \in {kept, conf}
  <2>1. conf.synced = TRUE
    BY InvParts DEF ConfFile
  <2> QED BY <2>1 DEF PowerLoss
<1>3. /\ conf \in ConfFile /\ kept \in ConfFile /\ conf.ver \in Nat /\ kept.ver \in Nat
      /\ kept.ver <= conf.ver /\ acked \in Nat /\ acked <= kept.ver
  BY InvParts DEF FilesInv, ConfFile
<1>4. conf' \in ConfFile /\ conf'.ver \in Nat /\ conf'.ver <= conf.ver /\ acked <= conf'.ver
  BY <1>2, <1>3
<1>5. \A p \in Procs : ProcOk(proc'[p], db', copies', conf')
  BY <1>1, OffOk
<1>6. proc' \in [Procs -> Process]
  BY <1>1, OffOk DEF ProcOk
<1>7. SlotsApart(proc') /\ LocksApart(proc')
  BY <1>1 DEF SlotsApart, LocksApart, Off
<1>8. Cardinality(Unlinked(proc', jobPath')) <= forced'
  <2>1. \A p \in Procs : proc'[p].ino = 0
    BY <1>1 DEF Off
  <2>2. Unlinked(proc', jobPath') = {}
    BY <2>1 DEF Unlinked
  <2>3. Cardinality(Unlinked(proc', jobPath')) = 0
    BY <2>2, FS_EmptySet
  <2>4. forced' = forced /\ forced \in Nat
    BY <1>1, InvParts DEF LocksInv
  <2> QED BY <2>3, <2>4
<1>9. conf'.ver + Cardinality(Saving(proc')) <= MaxSaves + Cardinality(Procs)
  <2>1. \A p \in Procs : proc'[p].pc = "off"
    BY <1>1 DEF Off
  <2>2. Saving(proc') = {}
    BY <2>1 DEF Saving
  <2>3. Cardinality(Saving(proc')) = 0
    BY <2>2, FS_EmptySet
  <2>4. conf.ver <= MaxSaves + Cardinality(Procs)
    <3>1. conf.ver + Cardinality(Saving(proc)) <= MaxSaves + Cardinality(Procs)
      BY InvParts DEF SaveInv
    <3>2. Cardinality(Saving(proc)) \in Nat /\ MaxSaves \in Nat /\ Cardinality(Procs) \in Nat
      BY FiniteSaving, Constants
    <3> QED BY <1>3, <3>1, <3>2
  <2> QED BY <1>3, <1>4, <2>3, <2>4, Constants
<1>10. /\ jobPath' \in Inodes \cup {0} /\ forced' \in Nat /\ db' \in Db /\ copies' \subseteq 0..Last
       /\ data' \in Nat /\ BackupIsSnapshot' /\ acked' \in Nat
  BY <1>1, <1>3, InvParts DEF LocksInv, FilesInv, BackupIsSnapshot
<1>11. kept' \in ConfFile /\ kept'.ver <= conf'.ver /\ acked' <= kept'.ver
  BY <1>1, <1>4
<1> QED BY <1>4, <1>5, <1>6, <1>7, <1>8, <1>9, <1>10, <1>11 DEF HostInv
\* A step of a command body, to r, that leaves database and configuration alone.
LEMMA BodyMove ==
  ASSUME HostInv, NEW p \in Procs, NEW r \in Process, Set(p, r),
         proc[p].pc \notin {"off", "slot", "job", "joblock"}, r.pc \in {"done", "pages", "raw"},
         r.s = proc[p].s, r.max = proc[p].max, r.ino = proc[p].ino, r.locked = proc[p].locked,
         ~r.locked \/ r.pc = "done", FilesOk(r, conf), BackupIsSnapshot',
         UNCHANGED <<jobPath, forced, db, copies, conf, kept, acked, data>>
  PROVE  HostInv'
<1>1. Quiet(proc[p], r)
  BY DEF Quiet, Calm
<1>2. ProcOk(r, db, copies, conf)
  <2>1. LocksOk(proc[p])
    BY InvParts DEF ProcOk
  <2>2. LocksOk(r)
    BY <2>1 DEF LocksOk
  <2>3. SchemaOk(r, db, copies)
    BY DEF SchemaOk
  <2> QED BY <2>2, <2>3 DEF ProcOk
<1>3. Later(db, db') /\ copies \subseteq copies' /\ copies' \subseteq 0..Last /\ data' \in Nat
  BY InvParts, LaterReflexive DEF FilesInv
<1>4. ProcOk(r, db', copies', conf)
  BY <1>2
<1> QED BY <1>1, <1>3, <1>4, QuietStep

\* Only job and done hold the singleton.
LEMMA NotLocked ==
  ASSUME HostInv, NEW p \in Procs, proc[p].pc \notin {"job", "done"}
  PROVE  proc[p] \in Process /\ ~proc[p].locked
BY InvParts DEF ProcOk, LocksOk

LEMMA CommitDataStep ==
  ASSUME HostInv, NEW p \in Procs, CommitData(p)
  PROVE  HostInv'
<1> DEFINE d == [db EXCEPT !.edges = TRUE]
<1>1. /\ proc[p].pc = "ready" /\ Step(p, "close", d) /\ data' = data + 1
      /\ UNCHANGED <<conf, kept, acked, backup>>
  BY DEF CommitData, WriteBody, At
<1>2. data' \in Nat
  BY <1>1, SchemaParts
<1>3. /\ d \in Db /\ d.applied = db.applied /\ d.current = db.current /\ d.blob = db.blob
      /\ d.dim = db.dim
  BY SchemaParts DEF Db
<1> HIDE DEF d
<1>4. Later(db, d)
  BY <1>3, SchemaParts, Recorded
<1>5. \A r : r.pc = "close" => SchemaOk(r, d, copies)
  BY DEF SchemaOk
<1>6. "close" \in SchemaLabels /\ proc[p].pc \in SchemaLabels \ {"done"}
  BY <1>1 DEF SchemaLabels
<1> QED BY <1>1, <1>2, <1>4, <1>5, <1>6, SchemaGoto

LEMMA CheckpointStep ==
  ASSUME HostInv, NEW p \in Procs, NEW i \in Pages, Checkpoint(p, i)
  PROVE  HostInv'
<1>1. UNCHANGED <<proc, jobPath, forced, db, copies, conf, kept, acked, data, backup>>
  BY DEF Checkpoint, cliVars, schemaVars
<1> QED BY <1>1 DEF HostInv, SlotsApart, LocksApart, BackupIsSnapshot

LEMMA CloseStep ==
  ASSUME HostInv, NEW p \in Procs, Close(p)
  PROVE  HostInv'
<1> DEFINE r == [proc[p] EXCEPT !.pc = "done"]
<1>1. /\ proc[p].pc = "close" /\ Set(p, r)
      /\ UNCHANGED <<jobPath, forced, db, copies, conf, kept, acked, data, backup>>
  BY DEF Close, Keep, Goto, At, schemaVars, fileVars
<1>2. proc[p] \in Process /\ "done" \in Labels
  BY InvParts DEF Labels
<1>3. /\ r \in Process /\ r.pc = "done" /\ r.s = proc[p].s /\ r.max = proc[p].max
      /\ r.ino = proc[p].ino /\ r.locked = proc[p].locked
  BY <1>2, GotoFields
<1> HIDE DEF r
<1>4. FilesOk(r, conf) /\ BackupIsSnapshot'
  BY <1>1, <1>3, InvParts DEF FilesOk, FilesInv, BackupIsSnapshot
<1> QED BY <1>1, <1>3, <1>4, BodyMove

LEMMA BackupBeginStep ==
  ASSUME HostInv, NEW p \in Procs, BackupBegin(p)
  PROVE  HostInv'
<1> DEFINE o == proc[p]
           r == [o EXCEPT !.pc = "pages", !.copy = <<>>]
<1>1. /\ o.pc = "ready" /\ Set(p, r)
      /\ UNCHANGED <<jobPath, forced, db, copies, conf, kept, acked, data, backup>>
  BY DEF BackupBegin, With, At, schemaVars, fileVars
<1>2. o \in Process /\ ~o.locked /\ "pages" \in Labels
  BY <1>1, NotLocked DEF Labels
<1>3. << >> \in Scratch /\ << >> \in Seq(Nat) /\ Len(<< >>) = 0
  BY DEF Scratch
<1>4. /\ r \in Process /\ r.pc = "pages" /\ r.s = o.s /\ r.max = o.max
      /\ r.ino = o.ino /\ r.locked = o.locked /\ r.copy = << >>
  <2> HIDE DEF o
  <2> QED BY <1>2, <1>3 DEF Process
<1> HIDE DEF r
<1>5. FilesOk(r, conf) /\ BackupIsSnapshot'
  BY <1>1, <1>3, <1>4, InvParts DEF FilesOk, FilesInv, BackupIsSnapshot
<1> QED BY <1>1, <1>2, <1>4, <1>5, BodyMove

LEMMA BackupStepStep ==
  ASSUME HostInv, NEW p \in Procs, BackupStep(p)
  PROVE  HostInv'
<1> DEFINE o == proc[p]
           e == IF \A i \in 1..Len(o.copy) : o.copy[i] = data THEN Append(o.copy, data) ELSE <<data>>
           r == [o EXCEPT !.copy = e]
<1>1. /\ o.pc = "pages" /\ Set(p, r)
      /\ UNCHANGED <<jobPath, forced, db, copies, conf, kept, acked, data, backup>>
  BY DEF BackupStep, With, At, schemaVars, fileVars
<1>2. o \in Process /\ ~o.locked
  BY <1>1, NotLocked
<1>3. o.copy \in Seq(Nat) /\ data \in Nat
  BY <1>1, InvParts DEF ProcOk, FilesOk, FilesInv
<1>4. e \in Seq(Nat) /\ \A i, j \in 1..Len(e) : e[i] = e[j]
  <2> DEFINE c == o.copy
  <2>1. CASE \A i \in 1..Len(c) : c[i] = data
    <3>1. e = Append(c, data) /\ c \in Seq(Nat)
      BY <1>3, <2>1
    <3> HIDE DEF c, e
    <3>2. \A i \in 1..Len(e) : e[i] = data
      BY <1>3, <2>1, <3>1
    <3> QED BY <1>3, <3>1, <3>2
  <2>2. CASE ~(\A i \in 1..Len(c) : c[i] = data)
    <3>1. e = <<data>>
      BY <2>2
    <3> HIDE DEF e
    <3> QED BY <1>3, <3>1
  <2> QED BY <2>1, <2>2
<1> HIDE DEF e
<1>5. e \in Scratch
  BY <1>4 DEF Scratch
<1>6. /\ r \in Process /\ r.pc = o.pc /\ r.s = o.s /\ r.max = o.max
      /\ r.ino = o.ino /\ r.locked = o.locked /\ r.copy = e
  <2> HIDE DEF o
  <2> QED BY <1>2, <1>5 DEF Process
<1> HIDE DEF r
<1>7. FilesOk(r, conf) /\ BackupIsSnapshot'
  BY <1>1, <1>4, <1>6, InvParts DEF FilesOk, FilesInv, BackupIsSnapshot
<1> QED BY <1>1, <1>2, <1>6, <1>7, BodyMove

LEMMA BackupPersistStep ==
  ASSUME HostInv, NEW p \in Procs, BackupPersist(p)
  PROVE  HostInv'
<1> DEFINE o == proc[p]
           r == [o EXCEPT !.pc = "done", !.copy = NoContent]
<1>1. /\ o.pc = "pages" /\ Set(p, r) /\ Len(o.copy) = Cardinality(Pages) /\ backup' = o.copy
      /\ UNCHANGED <<jobPath, forced, db, copies, conf, kept, acked, data>>
  BY DEF BackupPersist, With, At, schemaVars
<1>2. o \in Process /\ ~o.locked /\ "done" \in Labels /\ NoContent \in Scratch
  BY <1>1, NotLocked DEF Labels, Scratch
<1>3. /\ r \in Process /\ r.pc = "done" /\ r.s = o.s /\ r.max = o.max
      /\ r.ino = o.ino /\ r.locked = o.locked
  <2> HIDE DEF o
  <2> QED BY <1>2 DEF Process
<1> HIDE DEF r
<1>4. BackupIsSnapshot'
  <2>1. Cardinality(Pages) = 2
    <3>1. \A a, b \in Int : Cardinality(a..b) = IF a > b THEN 0 ELSE b - a + 1
      BY FS_Interval
    <3> DEFINE m == 1
               n == 2
    <3>2. m \in Int /\ n \in Int /\ ~(m > n) /\ n - m + 1 = 2
      OBVIOUS
    <3> HIDE DEF m, n
    <3>3. Cardinality(m..n) = 2
      BY <3>1, <3>2
    <3> QED BY <3>3 DEF m, n, Pages
  <2>2. \A i, j \in 1..Len(o.copy) : o.copy[i] = o.copy[j]
    BY <1>1, InvParts DEF ProcOk, FilesOk
  <2> QED BY <1>1, <2>1, <2>2 DEF BackupIsSnapshot, Pages
<1>5. FilesOk(r, conf)
  BY <1>3 DEF FilesOk
<1> QED BY <1>1, <1>3, <1>4, <1>5, BodyMove

LEMMA SyncStep ==
  ASSUME HostInv, NEW p \in Procs, SyncCheckpoint(p) \/ SyncCopy(p)
  PROVE  HostInv'
<1> DEFINE o == proc[p]
           r == [o EXCEPT !.pc = "raw", !.copy = 1]
           s == [o EXCEPT !.copy = o.copy + 1]
           t == [o EXCEPT !.pc = "done", !.copy = NoContent]
<1>1. UNCHANGED <<jobPath, forced, db, copies, conf, kept, acked, data, backup>>
  BY DEF SyncCheckpoint, SyncCopy, With, schemaVars
<1>2. /\ o.pc \in {"ready", "raw"}
      /\ \/ Set(p, r)
         \/ o.pc = "raw" /\ o.copy + 1 \in Pages /\ Set(p, s)
         \/ Set(p, t)
  BY DEF SyncCheckpoint, SyncCopy, With, At
<1>3. /\ o \in Process /\ ~o.locked /\ "raw" \in Labels /\ "done" \in Labels
      /\ NoContent \in Scratch /\ 1 \in Scratch
  BY <1>2, NotLocked DEF Labels, Scratch, Pages
<1>4. BackupIsSnapshot'
  BY <1>1, InvParts DEF FilesInv, BackupIsSnapshot
<1>5. CASE Set(p, r)
  <2>1. /\ r \in Process /\ r.pc = "raw" /\ r.s = o.s /\ r.max = o.max
        /\ r.ino = o.ino /\ r.locked = o.locked /\ r.copy = 1
    <3> HIDE DEF o
    <3> QED BY <1>3 DEF Process
  <2> HIDE DEF r
  <2>2. FilesOk(r, conf)
    BY <2>1 DEF FilesOk, Pages
  <2> QED BY <1>1, <1>2, <1>3, <1>4, <1>5, <2>1, <2>2, BodyMove
<1>6. CASE o.pc = "raw" /\ o.copy + 1 \in Pages /\ Set(p, s)
  <2>1. o.copy + 1 \in Scratch
    BY <1>6 DEF Scratch
  <2>2. /\ s \in Process /\ s.pc = "raw" /\ s.s = o.s /\ s.max = o.max
        /\ s.ino = o.ino /\ s.locked = o.locked /\ s.copy = o.copy + 1
    <3> HIDE DEF o
    <3> QED BY <1>3, <1>6, <2>1 DEF Process
  <2> HIDE DEF s
  <2>3. FilesOk(s, conf)
    BY <1>6, <2>2 DEF FilesOk
  <2> QED BY <1>1, <1>2, <1>3, <1>4, <1>6, <2>2, <2>3, BodyMove
<1>7. CASE Set(p, t)
  <2>1. /\ t \in Process /\ t.pc = "done" /\ t.s = o.s /\ t.max = o.max
        /\ t.ino = o.ino /\ t.locked = o.locked
    <3> HIDE DEF o
    <3> QED BY <1>3 DEF Process
  <2> HIDE DEF t
  <2>2. FilesOk(t, conf)
    BY <2>1 DEF FilesOk
  <2> QED BY <1>1, <1>2, <1>3, <1>4, <1>7, <2>1, <2>2, BodyMove
<1> QED BY <1>2, <1>5, <1>6, <1>7

LEMMA FileStepInv ==
  ASSUME HostInv, NEW p \in Procs, FileStep(p)
  PROVE  HostInv'
BY ConfigLoadStep, ConfigTempStep, ConfigPersistStep, ConfigAckStep, CommitDataStep, CloseStep,
   CheckpointStep, BackupBeginStep, BackupStepStep, BackupPersistStep, SyncStep DEF FileStep
-----------------------------------------------------------------------------
(* The invariant *)

LEMMA InitInv == ASSUME Init PROVE HostInv
<1>1. proc = [p \in Procs |-> Off] /\ jobPath = 0 /\ forced = 0 /\ copies = {}
  BY DEF Init, CliInit, SchemaInit
<1>2. /\ conf = [map |-> [k \in Keys |-> NoVal], ver |-> 0, synced |-> TRUE] /\ kept = conf
      /\ acked = 0 /\ data = 0 /\ backup = NoContent
  BY DEF Init, FileInit
<1>3. \A p \in Procs : ProcOk(proc[p], db, copies, conf)
  BY <1>1, OffOk
<1>4. proc \in [Procs -> Process]
  BY <1>1, OffOk DEF ProcOk
<1>5. SlotsApart(proc) /\ LocksApart(proc)
  BY <1>1 DEF SlotsApart, LocksApart, Off
<1>6. Cardinality(Unlinked(proc, jobPath)) = 0
  <2>1. \A p \in Procs : proc[p].ino = 0
    BY <1>1 DEF Off
  <2>2. Unlinked(proc, jobPath) = {}
    BY <2>1 DEF Unlinked
  <2> QED BY <2>2, FS_EmptySet
<1>7. Cardinality(Saving(proc)) = 0
  <2>1. \A p \in Procs : proc[p].pc = "off"
    BY <1>1 DEF Off
  <2>2. Saving(proc) = {}
    BY <2>1 DEF Saving
  <2> QED BY <2>2, FS_EmptySet
<1>8. db \in Db
  <2>1. CASE db = NoDb
    BY <2>1, Constants DEF NoDb, Db
  <2>2. CASE db # NoDb
    <3>1. PICK v \in (Blob - 1)..Last, b \in BOOLEAN, c \in BOOLEAN :
            db = [exists |-> TRUE, applied |-> v, current |-> c, blob |-> b, vec |-> v < Blob,
                  drift |-> v < Blob, edges |-> TRUE, meta |-> TRUE, dim |-> DefaultDim]
      BY <2>2 DEF Init, SchemaInit
    <3>2. v \in 0..Last /\ (v < Blob) \in BOOLEAN /\ DefaultDim \in Dims \cup {0}
      BY Constants
    <3> QED BY <3>1, <3>2 DEF Db
  <2> QED BY <2>1, <2>2
<1>9. conf \in ConfFile /\ conf.ver = 0
  BY <1>2 DEF ConfFile, Map
<1>10. BackupIsSnapshot
  BY <1>2 DEF BackupIsSnapshot
<1>11. /\ jobPath \in Inodes \cup {0} /\ forced \in Nat /\ copies \subseteq 0..Last /\ kept \in ConfFile
       /\ kept.ver <= conf.ver /\ acked \in Nat /\ acked <= kept.ver /\ data \in Nat
  BY <1>1, <1>2, <1>9
<1>12. Cardinality(Unlinked(proc, jobPath)) <= forced
  BY <1>1, <1>6
<1>13. conf.ver + Cardinality(Saving(proc)) <= MaxSaves + Cardinality(Procs)
  BY <1>7, <1>9, Constants
<1> QED BY <1>3, <1>4, <1>5, <1>8, <1>9, <1>10, <1>11, <1>12, <1>13 DEF HostInv

LEMMA NextInv == ASSUME HostInv, [Next]_vars PROVE HostInv'
<1>1. CASE UNCHANGED vars
  <2>1. UNCHANGED <<proc, jobPath, forced, db, copies, conf, kept, acked, data, backup>>
    BY <1>1 DEF vars, cliVars, schemaVars, fileVars
  <2> QED BY <2>1 DEF HostInv, SlotsApart, LocksApart, BackupIsSnapshot
<1>2. ASSUME NEW p \in Procs, ProcStep(p) PROVE HostInv'
  BY <1>2, CliStepInv, SchemaStepInv, FileStepInv DEF ProcStep
<1>3. ASSUME NEW p \in Procs, NEW c \in Cmds, NEW m \in 1..Ceiling, NEW mb \in {0, Ceiling},
             Launch(p, c, m, mb), UNCHANGED <<schemaVars, fileVars>>
      PROVE  HostInv'
  BY <1>3, LaunchStep
<1>4. ASSUME NEW p \in Procs, Elapse(p) \/ Signal(p) \/ Die(p), UNCHANGED <<schemaVars, fileVars>>
      PROVE  HostInv'
  BY <1>4, EnvironmentStep
<1> QED BY <1>1, <1>2, <1>3, <1>4, PowerLossStep DEF Next

\* The invariant of the host holds in every reachable state.
THEOREM HostInvariant == Spec => []HostInv
<1>1. Init => HostInv
  BY InitInv
<1>2. HostInv /\ [Next]_vars => HostInv'
  BY NextInv
<1> QED BY <1>1, <1>2, PTL DEF Spec

-----------------------------------------------------------------------------
(* What it implies *)

LEMMA LockedAreFew == ASSUME HostInv PROVE JobBound
<1> DEFINE J == {p \in Procs : At(p, "job")}
           T == Unlinked(proc, jobPath) \cup {jobPath}
           f == [p \in J |-> proc[p].ino]
<1>1. \A p \in J : proc[p].locked /\ proc[p].ino # 0
  BY InvParts DEF ProcOk, LocksOk, At
<1>2. f \in [J -> T]
  BY <1>1 DEF Unlinked
<1>3. \A p, q \in J : f[p] = f[q] => p = q
  BY <1>1, InvParts DEF LocksInv, LocksApart
<1>4. /\ IsFiniteSet(T) /\ Cardinality(T) \in Nat
      /\ Cardinality(T) <= Cardinality(Unlinked(proc, jobPath)) + 1
      /\ Cardinality(Unlinked(proc, jobPath)) \in Nat
  <2> DEFINE A == Unlinked(proc, jobPath)
  <2>1. IsFiniteSet(A) /\ Cardinality(A) \in Nat
    BY InvParts, FiniteUnlinked
  <2> HIDE DEF A
  <2>2. /\ IsFiniteSet(A \cup {jobPath}) /\ Cardinality(A \cup {jobPath}) \in Nat
        /\ Cardinality(A \cup {jobPath}) <= Cardinality(A) + 1
    BY <2>1, FS_AddElement
  <2> QED BY <2>1, <2>2 DEF A
<1> HIDE DEF J, T, f
<1>5. f \in Injection(J, T)
  BY <1>2, <1>3 DEF Injection, IsInjective
<1>6. IsFiniteSet(J) /\ Cardinality(J) <= Cardinality(T)
  BY <1>4, <1>5, FS_Injection
<1>7. Cardinality(J) \in Nat
  BY <1>6, FS_CardinalityType
<1>8. Cardinality(Unlinked(proc, jobPath)) <= forced /\ forced \in Nat
  BY InvParts DEF LocksInv
<1>9. Cardinality(J) <= 1 + forced
  BY <1>4, <1>6, <1>7, <1>8
<1> QED BY <1>9 DEF JobBound, J

LEMMA HostTyped == ASSUME HostInv PROVE HostTypeOK
<1>1. ASSUME NEW p \in Procs
      PROVE  /\ proc[p].cmd \in Cmds \cup {"none"} /\ proc[p].s \in 1..(Ceiling + 1)
             /\ proc[p].ino \in Inodes \cup {0} /\ proc[p].todo \subseteq 1..Last
             /\ proc[p].locked => proc[p].ino # 0
  BY InvParts DEF ProcOk, LocksOk, Process
<1>2. conf.map \in Map /\ conf.ver \in 0..(MaxSaves + Cardinality(Procs))
  <2>1. conf.map \in Map /\ conf.ver \in Nat
    BY InvParts DEF ConfFile
  <2>2. conf.ver + Cardinality(Saving(proc)) <= MaxSaves + Cardinality(Procs)
    BY InvParts DEF SaveInv
  <2>3. Cardinality(Saving(proc)) \in Nat /\ MaxSaves \in Nat /\ Cardinality(Procs) \in Nat
    BY FiniteSaving, Constants
  <2> QED BY <2>1, <2>2, <2>3
<1> QED BY <1>1, <1>2, InvParts DEF HostTypeOK, LocksInv

\* The flocks of lock.rs: never two processes in one CLI slot, everybody in a slot it asked
\* for, and no more enrich runs than one for each --force-job-singleton besides the first.
THEOREM LocksAreSound == Spec => []LocksHold
<1>1. HostInv => LocksHold
  <2> SUFFICES ASSUME HostInv PROVE LocksHold
    OBVIOUS
  <2>1. AdmissionBound
    <3>1. \A p \in Procs : /\ proc[p].max \in 1..Ceiling
                           /\ p \in Admitted => proc[p].pc \notin {"off", "slot"} /\ proc[p].s <= proc[p].max
      BY InvParts DEF Admitted, Alive, At, ProcOk, LocksOk, Process
    <3>2. \A p, q \in Admitted : proc[p].s = proc[q].s => p = q
      BY InvParts DEF Admitted, Alive, At, LocksInv, SlotsApart
    <3>3. Admitted \subseteq Procs
      BY DEF Admitted
    <3> QED BY <3>1, <3>2, <3>3 DEF AdmissionBound
  <2> QED BY <2>1, HostTyped, LockedAreFew DEF LocksHold
<1> QED BY <1>1, HostInvariant, PTL

\* The body of a command runs on a complete schema: wherever processes died in the sequence
\* of ensure_db_ready, and however several of them ran it at once.
THEOREM SchemaIsReady == Spec => []ReadyIsComplete
<1>1. HostInv => ReadyIsComplete
  BY InvParts DEF ProcOk, SchemaOk, ReadyIsComplete, At
<1> QED BY <1>1, HostInvariant, PTL

\* config.toml is whole and keeps what was acknowledged, and a backup is one committed
\* state, after any power loss.
THEOREM FilesStayWhole == Spec => []FilesWhole
<1>1. HostInv => FilesWhole
  <2> SUFFICES ASSUME HostInv PROVE FilesWhole
    OBVIOUS
  <2>1. ConfigNeverTorn
    BY InvParts, Constants DEF FilesInv, ConfFile, ConfigNeverTorn
  <2>2. AckedIsDurable
    <3>1. kept.ver \in Nat /\ acked \in Nat /\ acked <= kept.ver
      BY InvParts DEF FilesInv, ConfFile
    <3> QED BY <3>1 DEF AckedIsDurable
  <2> QED BY <2>1, <2>2, InvParts DEF FilesInv, FilesWhole
<1> QED BY <1>1, HostInvariant, PTL
-----------------------------------------------------------------------------
(* What no step may do *)

\* No step loses the rows that refer to a rebuilt table.
LEMMA EdgesKept == ASSUME HostInv, [Next]_vars PROVE EdgesSurvive
<1> SUFFICES ASSUME db.edges PROVE db'.edges
  BY DEF EdgesSurvive
<1>1. db \in Db /\ db.edges = TRUE
  BY InvParts DEF Db
<1>2. CASE db' = db
  BY <1>1, <1>2
<1>3. ASSUME NEW p \in Procs, SchemaStep(p) PROVE db'.edges
  <2>1. SchemaBegin(p) => db'.edges
    BY <1>1 DEF SchemaBegin, Step, Db
  <2>2. Probe(p) \/ CopyAside(p) \/ Plan(p) \/ EnrichBody(p) => db'.edges
    BY <1>1 DEF Probe, CopyAside, Plan, EnrichBody, Step
  <2>3. Open(p) => db'.edges
    BY <1>1 DEF Open, Step, Db
  <2>4. Apply(p) => db'.edges
    <3> SUFFICES ASSUME Apply(p) PROVE db'.edges
      OBVIOUS
    <3> DEFINE v == Smallest(proc[p].todo)
    <3>1. db' = db \/ db' = Migrated(v, FALSE)
      BY DEF Apply, Fail, Step
    <3> HIDE DEF v
    <3>2. Migrated(v, FALSE).edges
      BY <1>1 DEF Migrated, Db
    <3> QED BY <1>1, <3>1, <3>2
  <2>5. MarkCurrent(p) => db'.edges
    BY <1>1 DEF MarkCurrent, Step, Db
  <2>6. Verify(p) => db'.edges
    BY <1>1 DEF Verify, Step, Repaired, Db
  <2>7. Repair(p) => db'.edges
    <3>1. Repaired.edges = TRUE
      BY <1>1 DEF Repaired, Db
    <3> DEFINE a == [Repaired EXCEPT !.drift = FALSE]
    <3>2. a.edges = TRUE /\ [a EXCEPT !.vec = FALSE].edges = TRUE /\ [Repaired EXCEPT !.vec = FALSE].edges = TRUE
      BY <1>1 DEF Repaired, Db
    <3>3. Repair(p) => db' \in {Repaired, a, [a EXCEPT !.vec = FALSE], [Repaired EXCEPT !.vec = FALSE]}
      BY DEF Repair, Step, WithoutVec
    <3> QED BY <3>1, <3>2, <3>3
  <2>8. WriteMeta(p, DefaultDim) => db'.edges
    BY <1>1 DEF WriteMeta, Step, Db
  <2>9. ASSUME NEW o \in Dims \cup {0}, SyncDim(p, o, DefaultDim) PROVE db'.edges
    BY <1>1, <2>9 DEF SyncDim, Step, Db
  <2> QED BY <1>3, <2>1, <2>2, <2>3, <2>4, <2>5, <2>6, <2>7, <2>8, <2>9 DEF SchemaStep
<1>4. ASSUME NEW p \in Procs, FileStep(p) PROVE db'.edges
  <2>1. CommitData(p) => db'.edges
    BY <1>1 DEF CommitData, WriteBody, Step, Db
  <2>2. ~CommitData(p) => db' = db
    BY <1>4 DEF FileStep, ConfigLoad, ConfigTemp, ConfigPersist, ConfigAck, Close, Checkpoint, BackupBegin,
                BackupStep, BackupPersist, SyncCheckpoint, SyncCopy, Keep, With, schemaVars
  <2> QED BY <1>1, <2>1, <2>2
<1> QED BY <1>2, <1>3, <1>4 DEF Next, ProcStep, PowerLoss, vars, schemaVars

\* Only the rename of config.toml makes a new version.
LEMMA OnlyPersistSaves ==
  ASSUME HostInv, [Next]_vars, conf'.ver > conf.ver
  PROVE  \E p \in Procs : ConfigPersist(p) /\ proc' = [proc EXCEPT ![p] = proc'[p]]
<1>1. conf \in ConfFile /\ conf.ver \in Nat /\ kept.ver \in Nat /\ kept.ver <= conf.ver /\ conf' # conf
  <2>1. conf \in ConfFile /\ conf.ver \in Nat /\ kept.ver \in Nat /\ kept.ver <= conf.ver
    BY InvParts DEF FilesInv, ConfFile
  <2>2. conf' = conf => conf'.ver = conf.ver
    OBVIOUS
  <2>3. conf'.ver # conf.ver
    BY <2>1
  <2> QED BY <2>1, <2>2, <2>3
<1>2. ~PowerLoss
  <2> SUFFICES ASSUME PowerLoss PROVE FALSE
    OBVIOUS
  <2>1. conf.synced = TRUE
    BY <1>1 DEF ConfFile
  <2>2. conf' = kept \/ conf' = conf
    BY <2>1 DEF PowerLoss
  <2> QED BY <1>1, <2>2
<1>3. PICK p \in Procs : FileStep(p)
  BY <1>1, <1>2 DEF Next, ProcStep, vars, fileVars
<1>4. ConfigPersist(p)
  BY <1>1, <1>3 DEF FileStep, ConfigLoad, ConfigTemp, ConfigAck, CommitData, Close, Checkpoint, BackupBegin,
                    BackupStep, BackupPersist, SyncCheckpoint, SyncCopy, fileVars
<1>5. proc' = [proc EXCEPT ![p] = proc'[p]]
  <2>1. PICK r : proc' = [proc EXCEPT ![p] = r]
    BY <1>4 DEF ConfigPersist, With, Set
  <2>2. proc'[p] = r
    BY <2>1, InvParts
  <2> QED BY <2>1, <2>2
<1> QED BY <1>4, <1>5

LEMMA OthersKept == ASSUME HostInv, [Next]_vars PROVE SaveKeepsOthers
<1> SUFFICES ASSUME NEW p \in Procs, At(p, "persist"), conf'.ver > conf.ver, proc'[p] # proc[p],
                    proc[p].copy.base = conf.ver, NEW k \in Keys \ {proc[p].copy.key}
             PROVE  conf'.map[k] = conf.map[k]
  BY DEF SaveKeepsOthers
<1>1. PICK q \in Procs : ConfigPersist(q) /\ proc' = [proc EXCEPT ![q] = proc'[q]]
  BY OnlyPersistSaves
<1>2. q = p
  BY <1>1, InvParts
<1>3. conf'.map = proc[p].copy.map
  BY <1>1, <1>2 DEF ConfigPersist
<1>4. FilesOk(proc[p], conf)
  BY InvParts DEF ProcOk
<1> QED BY <1>3, <1>4 DEF FilesOk, At

LEMMA CopyLeft == ASSUME HostInv, [Next]_vars PROVE UpgradeLeavesCopy
<1> SUFFICES ASSUME NEW p \in Procs, At(p, "apply"), proc[p].existed, db'.applied > db.applied
             PROVE  \E v \in copies : v < db'.applied
  BY DEF UpgradeLeavesCopy
<1>1. PICK v \in copies : v <= db.applied
  BY SchemaParts DEF SchemaOk, At
<1>2. v \in Nat /\ db.applied \in Nat /\ db'.applied \in Nat
  <2>1. v \in 0..Last /\ db.applied \in 0..Last
    BY SchemaParts
  <2>2. db' \in Db
    BY NextInv, InvParts DEF HostInv
  <2> QED BY <2>1, <2>2, Constants DEF Db
<1> QED BY <1>1, <1>2

\* What is there already stays: rows that refer to a table a migration rebuilds, a copy of
\* the schema before an upgrade, and the other entries of config.toml.
THEOREM NothingIsOverwritten == Spec => NothingOverwritten
<1>1. HostInv /\ [Next]_vars => [EdgesSurvive /\ UpgradeLeavesCopy /\ SaveKeepsOthers]_vars
  BY EdgesKept, CopyLeft, OthersKept
<1> QED BY <1>1, HostInvariant, PTL DEF Spec, NothingOverwritten
=============================================================================
