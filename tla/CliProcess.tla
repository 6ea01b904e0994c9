----------------------------- MODULE CliProcess -----------------------------
(***************************************************************************)
(* One invocation of the tool, from main to its exit: admission through    *)
(* the CLI slots of lock.rs, signals, and the job singleton of enrich.     *)
(*                                                                         *)
(* Both locks are flocks, so they end with the process: a lock is a fact   *)
(* about the process that holds it, and Gone(p) gives everything back.     *)
(***************************************************************************)
EXTENDS Naturals, FiniteSets

CONSTANTS
  Procs, Cmds,
  Ceiling,          \* cli.max_instances: the clamp of --max-concurrency
  Cpus,             \* available_parallelism
  NoContent,        \* scratch of a process that has read nothing
  MaxLaunches, MaxForced, MaxDeaths      \* bounds

ASSUME CliBounds ==
  /\ Ceiling \in Nat \ {0} /\ Cpus \in Nat \ {0} /\ IsFiniteSet(Procs)
  /\ {MaxLaunches, MaxForced, MaxDeaths} \subseteq Nat

VARIABLES
  proc,       \* every process
  jobPath,    \* the inode the singleton path names, 0: none
  launches, forced, deaths   \* history: invocations, unlinked singletons, abrupt ends

cliVars == <<proc, jobPath, launches, forced, deaths>>

Inodes == 1 .. Cardinality(Procs) + 1

\* s: the slot probed or held; ino, locked: the singleton; the rest is the scratch of
\* the component the command runs in.
Off == [pc |-> "off", cmd |-> "none", max |-> 1, s |-> 1, late |-> FALSE, signalled |-> FALSE,
        ino |-> 0, locked |-> FALSE, existed |-> FALSE, todo |-> {}, copy |-> NoContent]

CliInit ==
  /\ proc = [p \in Procs |-> Off]
  /\ jobPath = 0 /\ launches = 0 /\ forced = 0 /\ deaths = 0

Alive(p)   == proc[p].pc # "off"
Set(p, r)  == proc' = [proc EXCEPT ![p] = r]
Goto(p, l) == Set(p, [proc[p] EXCEPT !.pc = l])
At(p, l)   == proc[p].pc = l

Lesser(a, b)  == IF a < b THEN a ELSE b
Greater(a, b) == IF a > b THEN a ELSE b

\* memory_guard.rs, calculate_safe_concurrency.
SafeConcurrency(mb, perTask) ==
  Lesser(Greater(Lesser(Cpus, mb \div Greater(perTask, 1)), 1), Ceiling)

\* main up to acquire_cli_slot; only embedding-heavy commands look at the free memory.
Launch(p, cmd, requested, mb) ==
  /\ ~Alive(p) /\ launches < MaxLaunches
  /\ launches' = launches + 1
  /\ LET m == IF cmd = "init" THEN Lesser(requested, SafeConcurrency(mb, 1)) ELSE requested
     IN  Set(p, [Off EXCEPT !.pc = "slot", !.cmd = cmd, !.max = Lesser(m, Ceiling)])
  /\ UNCHANGED <<jobPath, forced, deaths>>

SlotHeld(s) == \E p \in Procs : Alive(p) /\ ~At(p, "slot") /\ proc[p].s = s

\* try_any_slot, one slot: the flock of cli-slot-<s>.lock.
TrySlot(p) ==
  /\ At(p, "slot") /\ proc[p].s <= proc[p].max
  /\ IF SlotHeld(proc[p].s) THEN Set(p, [proc[p] EXCEPT !.s = @ + 1])
     ELSE Set(p, [proc[p] EXCEPT !.pc = "run", !.late = FALSE])
  /\ UNCHANGED <<jobPath, launches, forced, deaths>>

\* acquire_cli_slot: every slot was taken; AllSlotsFull once the wait is over.
PollSlot(p) ==
  /\ At(p, "slot") /\ proc[p].s > proc[p].max
  /\ Set(p, IF proc[p].late THEN Off ELSE [proc[p] EXCEPT !.s = 1])
  /\ UNCHANGED <<jobPath, launches, forced, deaths>>

\* --wait-lock or --wait-job-singleton has run out.
Elapse(p) ==
  /\ proc[p].pc \in {"slot", "jobopen", "joblock"} /\ ~proc[p].late
  /\ Set(p, [proc[p] EXCEPT !.late = TRUE])
  /\ UNCHANGED <<jobPath, launches, forced, deaths>>

\* The handler is registered after admission: an earlier signal, and a second one, end
\* the process; the first one only asks it to finish.
Signal(p) ==
  /\ Alive(p) /\ deaths < MaxDeaths /\ deaths' = deaths + 1
  /\ IF At(p, "slot") \/ proc[p].signalled THEN Set(p, Off)
     ELSE Set(p, [proc[p] EXCEPT !.signalled = TRUE])
  /\ UNCHANGED <<jobPath, launches, forced>>

\* kill -9 or a panic; it may come between any two steps of a command.
Die(p) ==
  /\ Alive(p) /\ deaths < MaxDeaths /\ deaths' = deaths + 1
  /\ Set(p, Off)
  /\ UNCHANGED <<jobPath, launches, forced>>

\* main returns, with the result of the command or the shutdown code.
Exit(p) ==
  /\ At(p, "done") /\ Set(p, Off)
  /\ UNCHANGED <<jobPath, launches, forced, deaths>>

----------------------------------------------------------------------------
(* acquire_job_singleton, once the database of the run is ready *)

JobBegin(p) ==
  /\ At(p, "jobbegin") /\ Goto(p, "jobopen")
  /\ UNCHANGED <<jobPath, launches, forced, deaths>>

\* --force-job-singleton removes the path, whoever holds the inode.
JobForce(p) ==
  /\ At(p, "jobbegin") /\ jobPath # 0
  /\ forced < MaxForced /\ forced' = forced + 1
  /\ jobPath' = 0 /\ Goto(p, "jobopen")
  /\ UNCHANGED <<launches, deaths>>

\* Opens the inode the path names, or creates one.
JobOpen(p) ==
  /\ At(p, "jobopen")
  /\ \E i \in Inodes :
       /\ IF jobPath # 0 THEN i = jobPath ELSE \A q \in Procs : proc[q].ino # i
       /\ jobPath' = i
       /\ Set(p, [proc[p] EXCEPT !.pc = "joblock", !.ino = i])
  /\ UNCHANGED <<launches, forced, deaths>>

JobHeld(i) == \E p \in Procs : proc[p].locked /\ proc[p].ino = i

\* Mutant: an error of try_lock_exclusive that is not contention is ignored.
JobLockIgnored(p) ==
  /\ At(p, "joblock")
  /\ Set(p, [proc[p] EXCEPT !.pc = "job", !.locked = TRUE])
  /\ UNCHANGED <<jobPath, launches, forced, deaths>>
\* try_lock_exclusive; contended: give up, or open the path anew after a pause.
JobLock(p) ==
  /\ At(p, "joblock")
  /\ Set(p, IF ~JobHeld(proc[p].ino) THEN [proc[p] EXCEPT !.pc = "job", !.locked = TRUE]
            ELSE IF proc[p].late THEN [proc[p] EXCEPT !.pc = "done", !.ino = 0]
            ELSE [proc[p] EXCEPT !.pc = "jobopen", !.ino = 0])
  /\ UNCHANGED <<jobPath, launches, forced, deaths>>

\* The enrichment itself is module EnrichDrain.
JobDone(p) ==
  /\ At(p, "job") /\ Goto(p, "done")
  /\ UNCHANGED <<jobPath, launches, forced, deaths>>

CliStep(p) ==
  \/ TrySlot(p) \/ PollSlot(p) \/ Exit(p)
  \/ JobBegin(p) \/ JobForce(p) \/ JobOpen(p) \/ JobLock(p) \/ JobDone(p)

----------------------------------------------------------------------------
(* Properties *)

Admitted == {p \in Procs : Alive(p) /\ ~At(p, "slot")}

\* Admission: however invocations with different --max-concurrency wait, die and retry,
\* no two hold the same slot, everybody sits in a slot it asked for, and there is always
\* one to ask for, even when the memory guard finds no free memory.
AdmissionBound ==
  /\ \A p, q \in Admitted : proc[p].s = proc[q].s => p = q
  /\ \A p \in Procs : Alive(p) => proc[p].max \in 1..Ceiling
  /\ \A p \in Admitted : proc[p].s <= proc[p].max

\* The singleton: at most one enrich run, and one more for every time an operator forced
\* the path away; losing a race on a path that was removed never grants another.
JobBound == Cardinality({p \in Procs : At(p, "job")}) <= 1 + forced
=============================================================================
