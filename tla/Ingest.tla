-------------------------------- MODULE Ingest --------------------------------
(***************************************************************************)
(* `ingest`: a plan gives every file a name, a pool of threads stages the  *)
(* files (split, chunk, embed) in any order and sends them through a       *)
(* bounded channel, and the main thread persists them one by one.  Other   *)
(* processes write memories meanwhile; a signal, --fail-fast or a database *)
(* that does not open cut the run short.                                   *)
(*                                                                         *)
(* A file is its base name and the bodies its sections split into.  The    *)
(* graph, vectors and URLs of a file are left out (see EntityGraph and     *)
(* MemoryStore).                                                           *)
(***************************************************************************)
EXTENDS Integers, Sequences, FiniteSets

CONSTANTS
  Names, Bodies, NoName,
  Suffixed,       \* the names unique_name tries after a base name, in order
  PartName,       \* names of the parts of a split file
  Inputs,         \* directories: sequences of files
  Stored,         \* databases the run may start from
  Threads,        \* staging threads
  Capacity,       \* bound of the channel
  MaxOthers       \* bound: writes by other processes

NoMem == [body |-> "none"]
Mem   == [body: Bodies, live: BOOLEAN, fresh: BOOLEAN]   \* fresh: created by this run, untouched since

ASSUME IngestConstants ==
  /\ NoName \notin Names /\ Capacity \in Nat \ {0} /\ MaxOthers \in Nat /\ Threads # {}
  /\ \A n \in Names : Suffixed[n] \in Seq(Names) /\ PartName[n] \in Seq(Names)
  /\ \A n \in Names : \A j, k \in DOMAIN PartName[n] : PartName[n][j] = PartName[n][k] => j = k
  /\ Inputs \subseteq Seq([base: Names \cup {NoName}, parts: Seq(Bodies)])
  /\ Stored \subseteq [Names -> Mem \cup {NoMem}]
  /\ \A s \in Stored : \A n \in Names : s[n] # NoMem => ~s[n].fresh

VARIABLES
  files, opts,    \* the directory; --force-merge, --fail-fast, --enrich-after, and whether storage opened
  plan,           \* a name for every file, NoName for a skipped one
  todo,           \* files no thread has taken yet
  thread,         \* the staging threads
  chan, open,     \* the channel; whether its receiver still exists
  main,           \* the persisting thread
  mem,            \* the live memories and the forgotten ones, by name
  report,         \* the events of every file, in order
  wrote,          \* history: which file wrote which name
  signal, others

vars == <<files, opts, plan, todo, thread, chan, open, main, mem, report, wrote, signal, others>>

Files   == DOMAIN files
Results == {"indexed", "skipped", "failed"}
Idle    == [pc |-> "idle", file |-> 0, msg |-> << >>]
Waiting == [pc |-> "recv", file |-> 0, parts |-> << >>, found |-> FALSE, dup |-> FALSE]

\* The plan, the staging threads, the events and the memories are of their kinds, and the
\* channel of stage_producer.rs never holds more than its bound.
IngestTypeOK ==
  /\ plan \in [Files -> Names \cup {NoName}] /\ todo \subseteq Files
  /\ \A t \in Threads : thread[t].pc \in {"idle", "stage", "send", "end"}
  /\ Len(chan) <= Capacity
  /\ main.pc \in {"skips", "recv", "lookup", "write", "join", "enrich", "ok", "aborted"}
  /\ mem \in [Names -> Mem \cup {NoMem}]
  /\ report \in [Files -> Seq(Results)]
  /\ wrote \subseteq Files \X Names

----------------------------------------------------------------------------
(* The plan. *)

\* unique_name: the base, or its first free suffix; names in the database do not count.
UniqueName(base, taken) ==
  IF base \notin taken THEN base
  ELSE LET free == {i \in DOMAIN Suffixed[base] : Suffixed[base][i] \notin taken}
       IN  IF free = {} THEN NoName ELSE Suffixed[base][CHOOSE i \in free : \A j \in free : i <= j]

\* build_plan, file by file in path order.
Plan(in) ==
  LET p[i \in 0..Len(in)] ==
        IF i = 0 THEN << >>
        ELSE Append(p[i - 1], IF in[i].base = NoName THEN NoName
                              ELSE UniqueName(in[i].base, {p[i - 1][j] : j \in DOMAIN p[i - 1]}))
  IN  p[Len(in)]

\* Every part of a split file has a name of its own.
ASSUME PartsHaveNames ==
  \A in \in Inputs : \A i \in DOMAIN in :
    Len(in[i].parts) > 1 /\ Plan(in)[i] # NoName => Len(in[i].parts) <= Len(PartName[Plan(in)[i]])

Init ==
  /\ files \in Inputs
  /\ opts \in [force: BOOLEAN, failFast: BOOLEAN, enrichAfter: BOOLEAN, storage: BOOLEAN]
  /\ plan = Plan(files)
  /\ todo = {i \in Files : plan[i] # NoName}
  /\ thread = [t \in Threads |-> Idle]
  /\ chan = << >> /\ open = TRUE
  /\ main = [Waiting EXCEPT !.pc = "skips"]
  /\ mem \in Stored
  /\ report = [i \in Files |-> << >>]
  /\ wrote = {} /\ signal = FALSE /\ others = 0

----------------------------------------------------------------------------
(* Staging: the pool takes the files in any order. *)

Take(t, i) ==
  /\ thread[t].pc = "idle" /\ i \in todo
  /\ todo' = todo \ {i}
  /\ thread' = [thread EXCEPT ![t] = IF signal THEN Idle ELSE [pc |-> "stage", file |-> i, msg |-> << >>]]
  /\ UNCHANGED <<files, opts, plan, chan, open, main, mem, report, wrote, signal, others>>

\* Names, sizes and text are checked before a file is split: an empty one is refused.
Readable(i) == files[i].parts # << >>
\* stage_one_body: what the main thread gets of one part.
StageOneBody(i, k) ==
  [name |-> IF Len(files[i].parts) = 1 THEN plan[i] ELSE PartName[plan[i]][k],
   body |-> files[i].parts[k]]
StagedParts(i) == [k \in DOMAIN files[i].parts |-> StageOneBody(i, k)]
\* Any error, an embedding of a body, a chunk or an entity that fails included, is one of
\* the whole file.
Stage(t, ok) ==
  /\ thread[t].pc = "stage"
  /\ LET i == thread[t].file
     IN  /\ ok => Readable(i)
         /\ thread' = [thread EXCEPT ![t].pc = "send",
                         ![t].msg = [file |-> i, ok |-> ok, parts |-> IF ok THEN StagedParts(i) ELSE << >>]]
  /\ UNCHANGED <<files, opts, plan, todo, chan, open, main, mem, report, wrote, signal, others>>

\* sync_channel: the sender waits for room; without a receiver the send fails, unheeded.
Send(t) ==
  /\ thread[t].pc = "send"
  /\ open => Len(chan) < Capacity
  /\ chan' = IF open THEN Append(chan, thread[t].msg) ELSE chan
  /\ thread' = [thread EXCEPT ![t] = Idle]
  /\ UNCHANGED <<files, opts, plan, todo, open, main, mem, report, wrote, signal, others>>

ThreadEnds(t) ==
  /\ thread[t].pc = "idle" /\ todo = {}
  /\ thread' = [thread EXCEPT ![t].pc = "end"]
  /\ UNCHANGED <<files, opts, plan, todo, chan, open, main, mem, report, wrote, signal, others>>

Produced == \A t \in Threads : thread[t].pc = "end"

----------------------------------------------------------------------------
(* Persisting. *)

Reported(i, r) == report' = [report EXCEPT ![i] = Append(@, r)]

\* Skipped slots are reported before anything is received.
ReportSkips ==
  /\ main.pc = "skips"
  /\ report' = [i \in Files |-> IF plan[i] = NoName THEN <<"skipped">> ELSE << >>]
  /\ main' = Waiting
  /\ UNCHANGED <<files, opts, plan, todo, thread, chan, open, mem, wrote, signal, others>>

\* After part 1 of parts: the next part, or the next message.
Onward == IF Len(main.parts) > 1
          THEN [main EXCEPT !.pc = "lookup", !.parts = Tail(@)]
          ELSE Waiting

\* report_failure: --fail-fast emits the summary and leaves; the receiver goes with it.
Fails(i, rest, next) ==
  /\ Reported(i, "failed")
  /\ main' = IF opts.failFast THEN [Waiting EXCEPT !.pc = "aborted"] ELSE next
  /\ chan' = IF opts.failFast THEN << >> ELSE rest
  /\ open' = ~opts.failFast

\* Mutant: the receiver outlives the loop, and run() joins the producer with the channel full.
ReceiveKeepsChannel ==
  /\ main.pc = "recv" /\ chan # << >>
  /\ LET msg == Head(chan)
     IN  \/ /\ signal
            /\ main' = [Waiting EXCEPT !.pc = "join"] /\ UNCHANGED <<open, chan, report>>
         \/ /\ ~signal /\ opts.storage /\ msg.ok
            /\ main' = [Waiting EXCEPT !.pc = "lookup", !.file = msg.file, !.parts = msg.parts]
            /\ chan' = Tail(chan) /\ UNCHANGED <<open, report>>
         \/ /\ ~signal /\ ~(opts.storage /\ msg.ok)
            /\ Fails(msg.file, Tail(chan), Waiting)
  /\ UNCHANGED <<files, opts, plan, todo, thread, mem, wrote, signal, others>>
\* The next staged file; the loop owns the receiver.
Receive ==
  /\ main.pc = "recv" /\ chan # << >>
  /\ LET msg == Head(chan)
     IN  \/ /\ signal     \* leaves the loop and drops what is in the channel
            /\ main' = [Waiting EXCEPT !.pc = "join"] /\ open' = FALSE /\ chan' = << >>
            /\ UNCHANGED report
         \/ /\ ~signal /\ opts.storage /\ msg.ok
            /\ main' = [Waiting EXCEPT !.pc = "lookup", !.file = msg.file, !.parts = msg.parts]
            /\ chan' = Tail(chan) /\ UNCHANGED <<open, report>>
         \/ /\ ~signal /\ ~(opts.storage /\ msg.ok)
            /\ Fails(msg.file, Tail(chan), Waiting)
  /\ UNCHANGED <<files, opts, plan, todo, thread, mem, wrote, signal, others>>

\* Every sender is gone and the channel is empty.
Drained ==
  /\ main.pc = "recv" /\ chan = << >> /\ Produced
  /\ main' = [Waiting EXCEPT !.pc = "join"] /\ open' = FALSE
  /\ UNCHANGED <<files, opts, plan, todo, thread, chan, mem, report, wrote, signal, others>>

Part     == main.parts[1]
IsLive(n) == mem[n] # NoMem /\ mem[n].live

\* persist_staged reads by name and by hash before its transaction.
Lookup ==
  /\ main.pc = "lookup"
  /\ main' = [main EXCEPT !.pc = "write", !.found = IsLive(Part.name),
                          !.dup = \E n \in Names : IsLive(n) /\ mem[n].body = Part.body]
  /\ UNCHANGED <<files, opts, plan, todo, thread, chan, open, mem, report, wrote, signal, others>>

\* A live holder without --force-merge, or another live memory with that body.
IsDuplicate == IF main.found THEN ~opts.force ELSE main.dup
SkipDuplicate ==
  /\ main.pc = "write" /\ IsDuplicate
  /\ Reported(main.file, "skipped")
  /\ main' = Onward
  /\ UNCHANGED <<files, opts, plan, todo, thread, chan, open, mem, wrote, signal, others>>

\* --force-merge: UPDATE of the row found; nothing changes if it was forgotten since.
Merge ==
  /\ main.pc = "write" /\ ~IsDuplicate /\ main.found
  /\ mem' = IF IsLive(Part.name)
            THEN [mem EXCEPT ![Part.name].body = Part.body, ![Part.name].fresh = FALSE]
            ELSE mem
  /\ wrote' = wrote \cup {<<main.file, Part.name>>}
  /\ Reported(main.file, "indexed")
  /\ main' = Onward
  /\ UNCHANGED <<files, opts, plan, todo, thread, chan, open, signal, others>>

\* Mutant: INSERT OR IGNORE, a name that is held goes unnoticed.
CreateOrIgnore ==
  /\ main.pc = "write" /\ ~IsDuplicate /\ ~main.found
  /\ mem' = IF mem[Part.name] = NoMem
            THEN [mem EXCEPT ![Part.name] = [body |-> Part.body, live |-> TRUE, fresh |-> TRUE]]
            ELSE mem
  /\ wrote' = wrote \cup {<<main.file, Part.name>>}
  /\ Reported(main.file, "indexed")
  /\ main' = Onward
  /\ UNCHANGED <<files, opts, plan, todo, thread, chan, open, signal, others>>
\* INSERT: UNIQUE(namespace, name) fails when the name is held, forgotten or not.
Create ==
  /\ main.pc = "write" /\ ~IsDuplicate /\ ~main.found
  /\ \/ /\ mem[Part.name] = NoMem
        /\ mem' = [mem EXCEPT ![Part.name] = [body |-> Part.body, live |-> TRUE, fresh |-> TRUE]]
        /\ wrote' = wrote \cup {<<main.file, Part.name>>}
        /\ Reported(main.file, "indexed")
        /\ main' = Onward
        /\ UNCHANGED <<chan, open>>
     \/ /\ mem[Part.name] # NoMem
        /\ Fails(main.file, chan, Onward)
        /\ UNCHANGED <<mem, wrote>>
  /\ UNCHANGED <<files, opts, plan, todo, thread, signal, others>>

\* The producer is joined, the summary emitted; --enrich-after runs enrich (see
\* EnrichDrain), whose failure is an event only.
Join ==
  /\ main.pc = "join" /\ Produced
  /\ main' = [main EXCEPT !.pc = IF opts.enrichAfter /\ \E i \in Files : \E k \in DOMAIN report[i] : report[i][k] = "indexed"
                                 THEN "enrich" ELSE "ok"]
  /\ UNCHANGED <<files, opts, plan, todo, thread, chan, open, mem, report, wrote, signal, others>>
EnrichAfter ==
  /\ main.pc = "enrich"
  /\ main' = [main EXCEPT !.pc = "ok"]
  /\ UNCHANGED <<files, opts, plan, todo, thread, chan, open, mem, report, wrote, signal, others>>

----------------------------------------------------------------------------
(* The environment. *)

Signal ==
  /\ ~signal /\ signal' = TRUE
  /\ UNCHANGED <<files, opts, plan, todo, thread, chan, open, main, mem, report, wrote, others>>

\* remember, forget and restore of another process.
OtherWrites(n) ==
  /\ others < MaxOthers /\ others' = others + 1
  /\ \/ \E b \in Bodies :
          /\ mem[n] = NoMem \/ IsLive(n)
          /\ mem' = [mem EXCEPT ![n] = [body |-> b, live |-> TRUE, fresh |-> FALSE]]
     \/ /\ mem[n] # NoMem
        /\ mem' = [mem EXCEPT ![n].live = ~@, ![n].fresh = FALSE]
  /\ UNCHANGED <<files, opts, plan, todo, thread, chan, open, main, report, wrote, signal>>

ThreadStep(t) == \/ \E i \in todo : Take(t, i)
                 \/ \E ok \in BOOLEAN : Stage(t, ok)
                 \/ Send(t) \/ ThreadEnds(t)
MainStep == ReportSkips \/ Receive \/ Drained \/ Lookup \/ SkipDuplicate \/ Merge \/ Create \/ Join \/ EnrichAfter

Next == \/ \E t \in Threads : ThreadStep(t)
        \/ MainStep
        \/ Signal
        \/ \E n \in Names : OtherWrites(n)

\* The scheduler runs every thread; embedding calls have a timeout.
Spec == Init /\ [][Next]_vars /\ WF_vars(MainStep) /\ \A t \in Threads : WF_vars(ThreadStep(t))

----------------------------------------------------------------------------
(* Properties. *)

\* A run that ends without a signal or --fail-fast has one event for every skipped or
\* failed file and one for every part of the others: whatever the order the pool
\* finished in, no file is dropped between plan, channel and database.
EveryFileReported ==
  main.pc = "ok" /\ ~signal =>
    \A i \in Files :
      IF plan[i] = NoName THEN report[i] = <<"skipped">>
      ELSE report[i] = <<"failed">> \/ Len(report[i]) = Len(files[i].parts)

\* Two files of a run never write the same memory: unique_name suffixes the names of
\* the plan.  The exception is a part of a split file, whose name the plan does not know.
FilesKeepApart ==
  \A i, j \in Files : \A n \in Names :
    <<i, n>> \in wrote /\ <<j, n>> \in wrote /\ i # j =>
      Len(files[i].parts) > 1 \/ Len(files[j].parts) > 1

\* Two memories a run created never hold the same body: find_by_hash before the INSERT
\* sees what the run itself committed, in whatever order files arrive.
NoDuplicateBodies ==
  \A m, n \in Names :
    IsLive(m) /\ IsLive(n) /\ mem[m].fresh /\ mem[n].fresh /\ mem[m].body = mem[n].body => m = n

\* With no other writer, a part reported as indexed is stored at the end of the run
\* (or another file took its name), and the body of a skipped one is stored, or its
\* name was taken.
NothingLost ==
  main.pc = "ok" /\ others = 0 =>
    \A i \in Files : plan[i] # NoName /\ report[i] # <<"failed">> =>
      \A k \in DOMAIN report[i] :
        LET part == StagedParts(i)[k]
        IN  /\ report[i][k] = "indexed" =>
                 IsLive(part.name) /\ (mem[part.name].body = part.body
                                       \/ \E j \in Files : <<j, part.name>> \in wrote /\ j # i)
            /\ report[i][k] = "skipped" =>
                 IsLive(part.name) \/ opts.force \/ \E n \in Names : IsLive(n) /\ mem[n].body = part.body

\* The run ends and its threads with it: after --fail-fast or a signal nobody receives,
\* and a thread waiting for room in the channel is let go.
IngestEnds == <>(main.pc \in {"ok", "aborted"} /\ Produced)
\* In whatever order the pool stages the files and whoever else writes: every file is
\* accounted for, files and bodies stay apart, and nothing that was reported is lost.
IngestSound == IngestTypeOK /\ EveryFileReported /\ FilesKeepApart /\ NoDuplicateBodies /\ NothingLost
=============================================================================
