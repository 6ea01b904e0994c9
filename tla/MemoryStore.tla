------------------------------ MODULE MemoryStore ------------------------------
(***************************************************************************)
(* The memories of one namespace and the commands that write them, each a  *)
(* process of its own: remember, remember-batch, edit, rename, forget,     *)
(* restore, purge and split-body.  A command reads outside its             *)
(* transaction, calls the embedding backend, and only then takes SQLite's  *)
(* write lock, so that other commands run between its reads and its        *)
(* writes.  One step is one autocommitted statement or one IMMEDIATE       *)
(* transaction; a transaction that fails leaves db as it was.              *)
(*                                                                         *)
(* The graph half of remember writes other tables (see EntityGraph).  The  *)
(* description travels with the body and is not told apart from it.        *)
(***************************************************************************)
EXTENDS Integers, Sequences, FiniteSets

CONSTANTS
  Names, Bodies,   \* memory names; non-empty bodies
  NoBody,          \* the empty body of a remember that only adds entities
  Child,           \* names of the two children split-body gives a name
  Parts,           \* the bodies a body over the threshold splits into
  Targets,         \* the names commands are given
  Procs,           \* command invocations
  MaxId, MaxClock, MaxCommands, MaxCrashes   \* bounds

ASSUME StoreConstants ==
  /\ NoBody \notin Bodies /\ Targets \subseteq Names /\ Targets # {}
  /\ DOMAIN Child \subseteq Names
  /\ \A n \in DOMAIN Child : /\ Child[n] \in Seq(Names \ {n}) /\ Len(Child[n]) = 2
                             /\ Child[n][1] # Child[n][2]       \* name-part-0, name-part-1
  /\ DOMAIN Parts \subseteq Bodies /\ \A b \in DOMAIN Parts : Parts[b] \in Seq(Bodies) /\ Len(Parts[b]) = 2
  /\ {MaxId, MaxCommands, MaxCrashes} \subseteq Nat /\ MaxClock \in Nat \ {0}

VARIABLES
  db,       \* the tables: mem, vers, fts, vec, next (AUTOINCREMENT)
  clock,    \* unixepoch(), in seconds
  procs,    \* the running commands
  lost,     \* history: rows whose UPDATE matched nothing although remember went on
  unembedded,  \* history: rows whose body changed without a new vector
  events    \* history: commands started, crashes

vars == <<db, clock, procs, lost, unembedded, events>>

Ids    == 1..MaxId
Times  == 0..MaxClock           \* 0 stands for NULL
NoRow  == [name |-> "none"]
Row    == [name: Names, body: Bodies, upd: Times, del: Times]
Reason == {"create", "edit", "rename", "restore"}
Version == [name: Names, body: Bodies, reason: Reason]

Db == [mem: [Ids -> Row \cup {NoRow}], vers: [Ids -> Seq(Version)],
       fts: [Ids -> SUBSET (Names \X Bodies)], vec: [Ids -> Bodies \cup {NoBody}],
       next: 1..(MaxId + 1)]

Pc == {"idle", "read", "lookup", "commit", "edit", "rename", "forget_vec",
       "forget_row", "restore", "split"}

\* seen: the row the caller read before the call and whose updated_at it passes
\* as --expected-updated-at (NoRow: not passed).  snap: the row the command read.
Proc == [pc: Pc, name: Names, arg: Names, body: Bodies \cup {NoBody}, force: BOOLEAN,
         id: 0..MaxId, seen: Row \cup {NoRow}, snap: Row \cup {NoRow}]

\* Rows, versions, index and vectors of the memory tables are of their kinds, and every
\* process is in some step of its command.
StoreTypeOK ==
  /\ db \in Db /\ clock \in 1..MaxClock
  /\ procs \in [Procs -> Proc]
  /\ lost \subseteq Ids /\ unembedded \subseteq Ids
  /\ events \in [commands: 0..MaxCommands, crashes: 0..MaxCrashes]

AnyName == CHOOSE n \in Names : TRUE
Idle == [pc |-> "idle", name |-> AnyName, arg |-> AnyName, body |-> NoBody,
         force |-> FALSE, id |-> 0, seen |-> NoRow, snap |-> NoRow]

Init ==
  /\ db = [mem |-> [i \in Ids |-> NoRow], vers |-> [i \in Ids |-> << >>],
           fts |-> [i \in Ids |-> {}], vec |-> [i \in Ids |-> NoBody], next |-> 1]
  /\ clock = 1
  /\ procs = [p \in Procs |-> Idle]
  /\ lost = {} /\ unembedded = {}
  /\ events = [commands |-> 0, crashes |-> 0]

----------------------------------------------------------------------------
(* Statements, as operators from tables to tables. *)

Exists(d, i) == i \in Ids /\ d.mem[i] # NoRow
IsLive(d, i) == Exists(d, i) /\ d.mem[i].del = 0
\* find_by_name_any_state: UNIQUE(namespace, name) spans forgotten rows too.
Holder(d, n) == {i \in Ids : Exists(d, i) /\ d.mem[i].name = n}
FindByName(d, n) == {i \in Holder(d, n) : IsLive(d, i)}

\* Every UPDATE on memories fires trg_memories_updated_at.
UpdateRow(d, i, r) == [d EXCEPT !.mem[i] = [r EXCEPT !.upd = clock]]

\* The INSERT trigger indexes the new row.
InsertRow(d, n, b) ==
  [d EXCEPT !.mem[d.next] = [name |-> n, body |-> b, upd |-> clock, del |-> 0],
            !.fts[d.next] = {<<n, b>>},
            !.next = d.next + 1]

\* memories::update: an optional timestamp guards the row, affected rows are counted.
UpdateMatches(d, i, seen) == IsLive(d, i) /\ (seen # NoRow => d.mem[i].upd = seen.upd)
UpdateBody(d, i, b, seen) ==
  IF UpdateMatches(d, i, seen) THEN UpdateRow(d, i, [d.mem[i] EXCEPT !.body = b]) ELSE d

AddVersion(d, i, n, b, why) ==
  [d EXCEPT !.vers[i] = Append(@, [name |-> n, body |-> b, reason |-> why])]

\* External-content FTS5: 'delete' removes the entry of exactly the given values.
SyncFts(d, i, old, new) == [d EXCEPT !.fts[i] = (@ \ {old}) \cup {new}]
UpsertVec(d, i, b)      == [d EXCEPT !.vec[i] = b]
DeleteVec(d, i)         == [d EXCEPT !.vec[i] = NoBody]
ClearDeletedAt(d, i)    == UpdateRow(d, i, [d.mem[i] EXCEPT !.del = 0])

SoftDelete(d, n) ==
  IF FindByName(d, n) = {} THEN d
  ELSE LET i == CHOOSE j \in FindByName(d, n) : TRUE
       IN  UpdateRow(d, i, [d.mem[i] EXCEPT !.del = clock])

\* DELETE fires the FTS trigger with the old values and cascades to versions and vectors.
DeleteRows(d, S) ==
  [d EXCEPT !.mem  = [i \in Ids |-> IF i \in S THEN NoRow ELSE @[i]],
            !.vers = [i \in Ids |-> IF i \in S THEN << >> ELSE @[i]],
            !.vec  = [i \in Ids |-> IF i \in S THEN NoBody ELSE @[i]],
            !.fts  = [i \in Ids |-> IF i \in S THEN @[i] \ {<<d.mem[i].name, d.mem[i].body>>}
                                    ELSE @[i]]]

----------------------------------------------------------------------------
(* Starting, ending and crashing. *)

Fields(r) == <<r.name, r.body>>

\* A command starts from scratch or after its caller read a memory.
Ready(p, n) == \/ procs[p].pc = "idle"
               \/ procs[p].pc = "read" /\ procs[p].name = n
Started  == events.commands < MaxCommands /\ events' = [events EXCEPT !.commands = @ + 1]
End(p)   == procs' = [procs EXCEPT ![p] = Idle]
Goto(p, r) == procs' = [procs EXCEPT ![p] = r]

\* The optimistic check before the transaction.
LockHolds(p, i) == procs[p].seen = NoRow \/ procs[p].seen.upd = db.mem[i].upd

\* `read`: the caller remembers the row to pass its updated_at to a later call.
ReadMemory(p, n) ==
  /\ procs[p].pc = "idle"
  /\ \E i \in FindByName(db, n) :
       Goto(p, [Idle EXCEPT !.pc = "read", !.name = n, !.seen = db.mem[i]])
  /\ UNCHANGED <<db, clock, lost, unembedded, events>>

\* The process is killed: an open transaction is rolled back, autocommits stay.
Crash(p) ==
  /\ procs[p].pc \notin {"idle", "read"} /\ events.crashes < MaxCrashes
  /\ End(p)
  /\ events' = [events EXCEPT !.crashes = @ + 1]
  /\ UNCHANGED <<db, clock, lost, unembedded>>

\* The embedding backend fails (and --skip-embedding-on-failure is off), or
\* validation of the body does: the command ends before its transaction.
EmbeddingFails(p) ==
  /\ procs[p].pc \in {"commit", "edit", "restore"}
  /\ End(p)
  /\ UNCHANGED <<db, clock, lost, unembedded, events>>

Tick == clock < MaxClock /\ clock' = clock + 1 /\ UNCHANGED <<db, procs, lost, unembedded, events>>

\* A transaction's end: its writes, and whether the new body got its vector.
Commit(p, d, i, embedded) ==
  /\ db' = d /\ End(p)
  /\ unembedded' = IF embedded THEN unembedded ELSE unembedded \cup {i}
  /\ UNCHANGED <<clock, events>>

\* An error inside or before the transaction: nothing is written.
Refuse(p) == End(p) /\ UNCHANGED <<db, clock, lost, unembedded, events>>

----------------------------------------------------------------------------
(* remember *)

\* A forgotten memory of that name is brought back at once by --force-merge,
\* in a statement of its own; without the flag the command is refused.
RememberBegin(p, n, b, force) ==
  /\ Started /\ Ready(p, n)
  /\ b = NoBody => force
  /\ LET ghosts == Holder(db, n) \ FindByName(db, n)
         cmd == [procs[p] EXCEPT !.pc = "lookup", !.name = n, !.body = b, !.force = force]
     IN  \/ /\ ghosts # {} /\ ~force
            /\ End(p) /\ UNCHANGED db
         \/ /\ ghosts # {} /\ force
            /\ Goto(p, cmd) /\ \E i \in ghosts : db' = ClearDeletedAt(db, i)
         \/ /\ ghosts = {}
            /\ Goto(p, cmd) /\ UNCHANGED db
  /\ UNCHANGED <<clock, lost, unembedded>>


\* Mutant: the duplicate check is dropped, an existing memory is merged into.
RememberLookupAlways(p) ==
  /\ procs[p].pc = "lookup" /\ procs[p].body # NoBody
  /\ LET found == FindByName(db, procs[p].name)
     IN  Goto(p, [procs[p] EXCEPT !.pc = "commit",
                    !.id = IF found = {} THEN 0 ELSE CHOOSE i \in found : TRUE])
  /\ UNCHANGED <<db, clock, lost, unembedded, events>>
\* The memory to merge into is looked up, and an empty body filled with its body.
RememberLookup(p) ==
  /\ procs[p].pc = "lookup"
  /\ LET c == procs[p]
         found == FindByName(db, c.name)
     IN  IF (found # {} /\ ~c.force) \/ (found = {} /\ c.body = NoBody)
         THEN End(p)
         ELSE Goto(p, [c EXCEPT !.pc = "commit",
                         !.id = IF found = {} THEN 0 ELSE CHOOSE i \in found : TRUE,
                         !.body = IF @ = NoBody THEN db.mem[CHOOSE i \in found : TRUE].body ELSE @])
  /\ UNCHANGED <<db, clock, lost, unembedded, events>>

\* Mutant: a merge writes no version.
RememberMergeUnversioned(d, c, embedded) ==
  SyncFts(UpdateBody(d, c.id, c.body, c.seen), c.id, Fields(d.mem[c.id]), <<c.name, c.body>>)

\* The update branch of the transaction.  The result of memories::update is not looked at.
RememberMerge(d, c, embedded) ==
  LET old == d.mem[c.id]
      d1  == AddVersion(SyncFts(UpdateBody(d, c.id, c.body, c.seen), c.id, Fields(old),
                                <<c.name, c.body>>), c.id, c.name, c.body, "edit")
  IN  IF embedded /\ old.body # c.body THEN UpsertVec(d1, c.id, c.body) ELSE d1

RememberCreate(d, n, b, embedded) ==
  LET d1 == AddVersion(InsertRow(d, n, b), d.next, n, b, "create")
  IN  IF embedded THEN UpsertVec(d1, d.next, b) ELSE d1

RememberCommit(p, embedded) ==
  /\ procs[p].pc = "commit"
  /\ LET c == procs[p] IN
     \/ /\ c.id # 0 /\ Exists(db, c.id)
        /\ Commit(p, RememberMerge(db, c, embedded), c.id, embedded \/ db.mem[c.id].body = c.body)
        /\ lost' = IF UpdateMatches(db, c.id, c.seen) THEN lost ELSE lost \cup {c.id}
     \/ /\ c.id = 0 /\ Holder(db, c.name) = {} /\ db.next \in Ids
        /\ Commit(p, RememberCreate(db, c.name, c.body, embedded), db.next, embedded)
        /\ UNCHANGED lost

\* The row to merge into was purged, or the name was taken since the lookup.
RememberRefused(p) ==
  /\ procs[p].pc = "commit"
  /\ IF procs[p].id = 0 THEN Holder(db, procs[p].name) # {} ELSE ~Exists(db, procs[p].id)
  /\ Refuse(p)

----------------------------------------------------------------------------
(* remember-batch: everything, the lookup included, happens inside the transaction. *)

LineRefused(d, n, force) ==
  IF FindByName(d, n) # {} THEN ~force ELSE Holder(d, n) # {}

\* What a line leaves in the transaction; a failed embedding comes after the row.
ProcessLine(d, n, b, force, embedded) ==
  IF LineRefused(d, n, force) THEN d
  ELSE IF FindByName(d, n) = {} THEN RememberCreate(d, n, b, embedded)
  ELSE LET i  == CHOOSE j \in FindByName(d, n) : TRUE
           d1 == AddVersion(SyncFts(UpdateBody(d, i, b, NoRow), i, Fields(d.mem[i]), <<n, b>>),
                            i, n, b, "edit")
       IN  IF embedded THEN UpsertVec(d1, i, b) ELSE d1

\* One line in a transaction of its own: a failure rolls it back.
BatchLine(p, n, b, force, embedded) ==
  /\ Started /\ procs[p].pc = "idle"
  /\ ~LineRefused(db, n, force) /\ db.next \in Ids
  /\ db' = ProcessLine(db, n, b, force, embedded)
  /\ unembedded' = IF embedded THEN unembedded
                   ELSE unembedded \cup Holder(db', n)
  /\ UNCHANGED <<clock, procs, lost>>

\* --transaction without --fail-fast: two lines share a transaction that commits
\* whatever the lines that failed wrote before they failed.
BatchTransaction(p, n, m, b, embedded) ==
  /\ Started /\ procs[p].pc = "idle"
  /\ db.next + 1 \in Ids
  /\ db' = ProcessLine(ProcessLine(db, n, b, TRUE, embedded), m, b, TRUE, TRUE)
  /\ unembedded' = IF embedded THEN unembedded ELSE unembedded \cup Holder(db', n)
  /\ UNCHANGED <<clock, procs, lost>>

----------------------------------------------------------------------------
(* edit, rename, restore: read, embed, then one guarded UPDATE *)

Begin(p, pc, n, arg, b, rows) ==
  /\ Started /\ Ready(p, n)
  /\ IF \E i \in rows : LockHolds(p, i)
     THEN \E i \in rows : Goto(p, [procs[p] EXCEPT !.pc = pc, !.name = n, !.arg = arg,
                                     !.body = b, !.id = i, !.snap = db.mem[i]])
     ELSE End(p)
  /\ UNCHANGED <<db, clock, lost, unembedded>>

EditBegin(p, n, b)   == Begin(p, "edit", n, n, b, FindByName(db, n))
RenameBegin(p, n, m) == n # m /\ Begin(p, "rename", n, m, NoBody, FindByName(db, n))
\* The version to go back to is read before the transaction; without --version it
\* is the latest one that is not itself a restore.
RestoreBegin(p, n, b) ==
  /\ \A i \in Holder(db, n) : \E v \in 1..Len(db.vers[i]) : db.vers[i][v].body = b
  /\ Begin(p, "restore", n, n, b, Holder(db, n))

\* The embedding is computed inside the transaction, when the text has changed.
EditCommit(p, embedded) ==
  /\ procs[p].pc = "edit"
  /\ LET c  == procs[p]
         d1 == AddVersion(SyncFts(UpdateBody(db, c.id, c.body, c.seen), c.id, Fields(c.snap),
                                  <<c.snap.name, c.body>>), c.id, c.name, c.body, "edit")
         same == c.body = c.snap.body
     IN  /\ UpdateMatches(db, c.id, c.seen)
         /\ Commit(p, IF embedded /\ ~same THEN UpsertVec(d1, c.id, c.body) ELSE d1, c.id,
                   IF same THEN db.mem[c.id].body = c.body ELSE embedded)
  /\ UNCHANGED lost

\* A live holder of the new name refuses the rename; so does a forgotten one,
\* because purging it names a table that V013 dropped.
RenameCommit(p) ==
  /\ procs[p].pc = "rename"
  /\ LET c == procs[p] IN
     /\ UpdateMatches(db, c.id, c.seen)
     /\ Holder(db, c.arg) \subseteq FindByName(db, c.arg) \cap {c.id}
     /\ Commit(p, AddVersion(SyncFts(UpdateRow(db, c.id, [db.mem[c.id] EXCEPT !.name = c.arg]),
                                     c.id, Fields(c.snap), <<c.arg, c.snap.body>>),
                             c.id, c.arg, c.snap.body, "rename"), c.id, TRUE)
  /\ UNCHANGED lost

\* The UPDATE of restore also clears deleted_at, so it matches forgotten rows.
RestoreMatches(d, c) == Exists(d, c.id) /\ (c.seen # NoRow => d.mem[c.id].upd = c.seen.upd)

RestoreCommit(p, embedded) ==
  /\ procs[p].pc = "restore"
  /\ LET c  == procs[p]
         d1 == AddVersion(UpdateRow(db, c.id, [db.mem[c.id] EXCEPT !.body = c.body, !.del = 0]),
                          c.id, c.snap.name, c.body, "restore")
         d2 == SyncFts(d1, c.id, Fields(c.snap), <<c.snap.name, c.body>>)
     IN  /\ RestoreMatches(db, c)
         /\ Commit(p, IF embedded THEN UpsertVec(d2, c.id, c.body) ELSE d2, c.id, embedded)
  /\ UNCHANGED lost

\* Zero affected rows is a conflict; an occupied target name a duplicate.
WriteRefused(p) ==
  /\ LET c == procs[p] IN
     \/ c.pc \in {"edit", "rename"} /\ ~UpdateMatches(db, c.id, c.seen)
     \/ c.pc = "rename" /\ ~(Holder(db, c.arg) \subseteq FindByName(db, c.arg) \cap {c.id})
     \/ c.pc = "restore" /\ ~RestoreMatches(db, c)
  /\ Refuse(p)

----------------------------------------------------------------------------
(* forget: three autocommitted statements; purge; split-body *)

ForgetProbe(p, n) ==
  /\ Started /\ procs[p].pc = "idle"
  /\ \E i \in FindByName(db, n) : Goto(p, [Idle EXCEPT !.pc = "forget_vec", !.name = n, !.id = i])
  /\ UNCHANGED <<db, clock, lost, unembedded>>

\* A failure of the vector's deletion is only logged.
ForgetVec(p) ==
  /\ procs[p].pc = "forget_vec"
  /\ db' \in {DeleteVec(db, procs[p].id), db}
  /\ Goto(p, [procs[p] EXCEPT !.pc = "forget_row"])
  /\ UNCHANGED <<clock, lost, unembedded, events>>

ForgetRow(p) ==
  /\ procs[p].pc = "forget_row"
  /\ db' = SoftDelete(db, procs[p].name)
  /\ End(p) /\ UNCHANGED <<clock, lost, unembedded, events>>

\* Mutant: NULL compares as a time long past.
PurgeNulls(p, cutoff) ==
  /\ Started /\ procs[p].pc = "idle"
  /\ db' = DeleteRows(db, {i \in Ids : Exists(db, i) /\ db.mem[i].del <= cutoff})
  /\ UNCHANGED <<clock, procs, lost, unembedded>>
\* execute_purge selects inside its transaction what was forgotten by the cutoff.
Purge(p, cutoff) ==
  /\ Started /\ procs[p].pc = "idle"
  /\ db' = DeleteRows(db, {i \in Ids : Exists(db, i) /\ db.mem[i].del \in 1..cutoff})
  /\ UNCHANGED <<clock, procs, lost, unembedded>>

SplitBegin(p, n) ==
  /\ Started /\ procs[p].pc = "idle" /\ n \in DOMAIN Child
  /\ \E i \in FindByName(db, n) :
       /\ db.mem[i].body \in DOMAIN Parts
       /\ Goto(p, [Idle EXCEPT !.pc = "split", !.name = n, !.id = i, !.snap = db.mem[i]])
  /\ UNCHANGED <<db, clock, lost, unembedded>>

\* The children get neither a version nor a vector; the original keeps its body.
SplitCommit(p) ==
  /\ procs[p].pc = "split"
  /\ LET c    == procs[p]
         kids == Child[c.name]
         body == Parts[c.snap.body]
         d1   == InsertRow(InsertRow(db, kids[1], body[1]), kids[2], body[2])
     IN  IF /\ Holder(db, kids[1]) = {} /\ Holder(db, kids[2]) = {}
            /\ IsLive(db, c.id)
         THEN /\ db.next + 1 \in Ids
              /\ db' = AddVersion(UpdateRow(d1, c.id, d1.mem[c.id]), c.id, c.snap.name,
                                  c.snap.body, "edit")
         ELSE UNCHANGED db
  /\ End(p) /\ UNCHANGED <<clock, lost, unembedded, events>>

----------------------------------------------------------------------------
Next ==
  \/ Tick
  \/ \E p \in Procs :
       \/ \E n \in Targets : ReadMemory(p, n) \/ ForgetProbe(p, n) \/ SplitBegin(p, n)
       \/ \E n \in Targets, b \in Bodies \cup {NoBody}, force \in BOOLEAN : RememberBegin(p, n, b, force)
       \/ RememberLookup(p) \/ RememberRefused(p)
       \/ \E e \in BOOLEAN : RememberCommit(p, e) \/ EditCommit(p, e) \/ RestoreCommit(p, e)
       \/ \E n \in Targets, b \in Bodies, force, e \in BOOLEAN : BatchLine(p, n, b, force, e)
       \/ \E n \in Targets : \E m \in Targets \ {n}, b \in Bodies, e \in BOOLEAN : BatchTransaction(p, n, m, b, e)
       \/ \E n \in Targets, b \in Bodies : EditBegin(p, n, b) \/ RestoreBegin(p, n, b)
       \/ \E n, m \in Targets : RenameBegin(p, n, m)
       \/ RenameCommit(p) \/ WriteRefused(p) \/ EmbeddingFails(p)
       \/ ForgetVec(p) \/ ForgetRow(p) \/ SplitCommit(p) \/ Crash(p)
       \/ \E cutoff \in 1..clock : Purge(p, cutoff)

Spec == Init /\ [][Next]_vars

----------------------------------------------------------------------------
(* Properties *)

\* Every live memory can be brought back to the body it has now: the body is in its
\* version history, whatever commands raced.  Only the children of split-body,
\* which get no version, are outside (split_body.rs:294-308), and with them the rows
\* a remember went on with although its UPDATE matched nothing.
Restorable ==
  \A i \in Ids \ lost : IsLive(db, i) /\ db.vers[i] # << >> =>
    \E v \in 1..Len(db.vers[i]) : db.vers[i][v].body = db.mem[i].body

\* Full-text search finds a live memory by its body, although edit, rename and restore
\* delete the index entry of a row they read before their transaction.  A remember
\* whose UPDATE matched no row is the exception: it indexes a body it did not store.
BodySearchable ==
  \A i \in Ids \ lost : IsLive(db, i) => \E e \in db.fts[i] : e[2] = db.mem[i].body

\* A stored vector is the embedding of the body its row has, except where a body was
\* written without a vector (skip-on-failure, or an edit that judged the body unchanged
\* by a row it read before another command changed it) or an UPDATE was lost.
VectorOfBody ==
  \A i \in Ids \ (lost \cup unembedded) :
    Exists(db, i) => db.vec[i] \in {NoBody, db.mem[i].body}

\* remember without --force-merge creates or is refused: however long ago it looked the
\* name up, its transaction changes no row that exists.
CreateNeverClobbers ==
  \A p \in Procs :
    procs[p].pc = "commit" /\ ~procs[p].force /\ procs'[p] # procs[p] =>
      \A i \in Ids : Exists(db, i) => db'.mem[i] = db.mem[i]

\* edit, rename and restore with --expected-updated-at replace the row their caller read,
\* or one written in the very second of the read row's timestamp.
LockedWriteWithinSecond ==
  \A p \in Procs : \A i \in Ids :
    /\ procs[p].pc \in {"edit", "rename", "restore"} /\ procs[p].seen # NoRow
    /\ procs'[p] # procs[p] /\ db'.mem[i] # db.mem[i]
    => procs[p].id = i /\ (db.mem[i] = procs[p].seen \/ db.mem[i].upd = procs[p].seen.upd)

\* remember --expected-updated-at rejects a memory that has changed: when the row is
\* not the one of that timestamp, nothing at all is written (args.rs:135-140).
RememberHonoursLock ==
  [][\A p \in Procs :
       /\ procs[p].pc = "commit" /\ procs[p].id # 0 /\ procs[p].seen # NoRow
       /\ ~UpdateMatches(db, procs[p].id, procs[p].seen) /\ procs'[p] # procs[p]
       => db' = db]_vars

\* The namespace as a user sees it: name by name.
Map == INSTANCE MemoryMap WITH
  store <- [n \in Names |->
              IF Holder(db, n) = {} THEN [state |-> "absent"]
              ELSE LET r == db.mem[CHOOSE i \in Holder(db, n) : TRUE]
                   IN  [state |-> IF r.del = 0 THEN "live" ELSE "gone", body |-> r.body]]

\* The commands implement the map of memories: no interleaving, crash or failed
\* transaction destroys a memory that was not forgotten first, changes the body of a
\* forgotten one, or shows a rename half done.
ImplementsMemoryMap == Map!MapSpec
\* Whatever commands of the store interleave or die: bodies can be restored from history,
\* and the full-text index and the vectors follow the bodies.
StoreSound == StoreTypeOK /\ Restorable /\ BodySearchable /\ VectorOfBody

\* A command that read before its transaction changes only what its caller was told of:
\* remember creates and never clobbers, locked commands replace the row that was read.
WritesAreGuarded == [][CreateNeverClobbers /\ LockedWriteWithinSecond]_vars
=============================================================================
