------------------------------ MODULE LlmSlots ------------------------------
(***************************************************************************)
(* The host-wide semaphore of llm_slots.rs that limits concurrent LLM      *)
(* calls: slot files 0..Max-1, taken with create_new and given back by     *)
(* unlinking the path.  The flock of a slot file is never contended, since *)
(* only the process that created an inode locks it, so exclusion rests on  *)
(* the existence of the path alone, and everybody may unlink a path.       *)
(*                                                                         *)
(* Every process sweeps stale slots at startup (reaper.rs) and before each *)
(* acquisition: it reads a pid, asks the kernel whether it is alive, and   *)
(* unlinks the collected paths afterwards.                                 *)
(***************************************************************************)
EXTENDS Naturals, FiniteSets

CONSTANTS
  Procs,       \* processes, one guard each; a process is its pid
  NoPid, NoFile,
  Max,         \* --llm-max-host-concurrency
  PidReuse,    \* may the kernel reuse a pid that a slot file still names?
  MaxDeaths, MaxOperator   \* bounds on abrupt deaths and operator commands

ASSUME ProcsAssumption == NoPid \notin Procs
ASSUME MaxAssumption   == Max \in Nat \ {0}
ASSUME SlotBounds      ==
  /\ PidReuse \in BOOLEAN
  /\ {MaxDeaths, MaxOperator} \subseteq Nat
ASSUME NoFileAssumption == NoFile \notin [pid: Procs, written: BOOLEAN]

Slots == 0 .. Max - 1

VARIABLES
  file,        \* what each slot path names: an inode (its creator, pid written yet?)
  proc,        \* state of every process
  deaths, operator,
  disturbed    \* history: a process has ended or the operator has removed a file

slotVars == <<file, proc, deaths, operator, disturbed>>

Inode == [pid: Procs, written: BOOLEAN]

\* s: the loop index, and the slot_id of the guard; seen: the pid just read.
Proc == [pc: {"off", "idle", "sweep", "check", "try", "write", "hold"}, s: 0 .. Max,
         seen: Procs \cup {NoPid}, stale: SUBSET Slots, want: BOOLEAN, late: BOOLEAN]

OffProc == [pc |-> "off", s |-> 0, seen |-> NoPid, stale |-> {}, want |-> FALSE,
            late |-> FALSE]

\* The slot files and the processes of llm_slots.rs are of their kinds: in particular the
\* scan for a slot never runs past the last one.
SlotTypeOK ==
  /\ file \in [Slots -> Inode \cup {NoFile}]
  /\ proc \in [Procs -> Proc]
  /\ deaths \in Nat
  /\ operator \in Nat
  /\ disturbed \in BOOLEAN

SlotInit ==
  /\ file = [s \in Slots |-> NoFile]
  /\ proc = [p \in Procs |-> OffProc]
  /\ deaths = 0
  /\ operator = 0
  /\ disturbed = FALSE

-----------------------------------------------------------------------------
Alive(p) == proc[p].pc # "off"

Set(p, r) == proc' = [proc EXCEPT ![p] = r]

SweepRec(want) == [OffProc EXCEPT !.pc = "sweep", !.want = want]

Quiet == UNCHANGED <<deaths, operator, disturbed>>

\* main: the reaper sweeps before the command runs.
Start(p) ==
  /\ ~Alive(p)
  /\ PidReuse \/ \A s \in Slots : file[s] # NoFile => file[s].pid # p
  /\ Set(p, SweepRec(FALSE))
  /\ UNCHANGED file /\ Quiet

\* acquire_llm_slot: sweep again, then look for a free slot.
Acquire(p) ==
  /\ proc[p].pc = "idle"
  /\ Set(p, SweepRec(TRUE))
  /\ UNCHANGED file /\ Quiet

\* find_stale_slots: a file without a pid line is passed over.
ReadSlot(p) ==
  LET s == proc[p].s
  IN  /\ proc[p].pc = "sweep" /\ s < Max
      /\ IF file[s] # NoFile /\ file[s].written
         THEN Set(p, [proc[p] EXCEPT !.pc = "check", !.seen = file[s].pid])
         ELSE Set(p, [proc[p] EXCEPT !.s = s + 1])
      /\ UNCHANGED file /\ Quiet

\* Mutant: the non-unix stub, which takes every pid for alive.
CheckPidWindows(p) ==
  /\ proc[p].pc = "check"
  /\ Set(p, [proc[p] EXCEPT !.pc = "sweep", !.s = @ + 1, !.seen = NoPid])
  /\ UNCHANGED file /\ Quiet

\* kill(pid, 0), after the file was read.
CheckPid(p) ==
  /\ proc[p].pc = "check"
  /\ Set(p, [proc[p] EXCEPT !.pc = "sweep", !.s = @ + 1, !.seen = NoPid,
               !.stale = IF Alive(proc[p].seen) THEN @ ELSE @ \cup {proc[p].s}])
  /\ UNCHANGED file /\ Quiet

\* force_release of one collected slot: unlinks whatever the path names by now.
RemoveStale(p) ==
  /\ proc[p].pc = "sweep" /\ proc[p].s = Max
  /\ \E t \in proc[p].stale :
       /\ \A u \in proc[p].stale : t <= u
       /\ file' = [file EXCEPT ![t] = NoFile]
       /\ Set(p, [proc[p] EXCEPT !.stale = @ \ {t}])
  /\ Quiet

SweepDone(p) ==
  /\ proc[p].pc = "sweep" /\ proc[p].s = Max /\ proc[p].stale = {}
  /\ Set(p, [proc[p] EXCEPT !.pc = IF proc[p].want THEN "try" ELSE "idle", !.s = 0])
  /\ UNCHANGED file /\ Quiet

\* Mutant: open without create_new.
TryAnySlot(p) ==
  /\ proc[p].pc = "try" /\ proc[p].s < Max
  /\ file' = [file EXCEPT ![proc[p].s] = [pid |-> p, written |-> FALSE]]
  /\ Set(p, [proc[p] EXCEPT !.pc = "write"])
  /\ Quiet

\* create_new, then try_lock_exclusive on the new inode.
TrySlot(p) ==
  LET s == proc[p].s
  IN  /\ proc[p].pc = "try" /\ s < Max
      /\ IF file[s] = NoFile
         THEN /\ file' = [file EXCEPT ![s] = [pid |-> p, written |-> FALSE]]
              /\ Set(p, [proc[p] EXCEPT !.pc = "write"])
         ELSE /\ file' = file
              /\ Set(p, [proc[p] EXCEPT !.s = s + 1])
      /\ Quiet

\* The pid goes to the inode this process created, linked or not.
WritePid(p) ==
  LET s == proc[p].s
  IN  /\ proc[p].pc = "write"
      /\ file' = IF file[s] # NoFile /\ file[s].pid = p
                 THEN [file EXCEPT ![s].written = TRUE] ELSE file
      /\ Set(p, [proc[p] EXCEPT !.pc = "hold"])
      /\ Quiet

\* Mutant: the timeout is never looked at.
PollForever(p) ==
  /\ proc[p].pc = "try" /\ proc[p].s = Max
  /\ Set(p, [proc[p] EXCEPT !.s = 0])
  /\ UNCHANGED file /\ Quiet

\* Mutant: the next round does not start over.
PollNoRestart(p) ==
  /\ proc[p].pc = "try" /\ proc[p].s = Max
  /\ Set(p, IF proc[p].late THEN [OffProc EXCEPT !.pc = "idle"]
            ELSE [proc[p] EXCEPT !.s = @ + 1])
  /\ UNCHANGED file /\ Quiet

\* All slots are taken: LockBusy after the wait, or another round.
Poll(p) ==
  /\ proc[p].pc = "try" /\ proc[p].s = Max
  /\ Set(p, IF proc[p].late THEN [OffProc EXCEPT !.pc = "idle"]
            ELSE [proc[p] EXCEPT !.s = 0])
  /\ UNCHANGED file /\ Quiet

\* The wait of an acquisition is over.
Elapse(p) ==
  /\ proc[p].pc = "try" /\ ~proc[p].late
  /\ Set(p, [proc[p] EXCEPT !.late = TRUE])
  /\ UNCHANGED file /\ Quiet

\* LlmSlotGuard::drop unlinks the path, whoever created what it names.
DropGuard(p) ==
  /\ proc[p].pc = "hold"
  /\ file' = [file EXCEPT ![proc[p].s] = NoFile]
  /\ Set(p, [OffProc EXCEPT !.pc = "idle"])
  /\ Quiet

Exit(p) ==
  /\ proc[p].pc = "idle"
  /\ Set(p, OffProc)
  /\ disturbed' = TRUE
  /\ UNCHANGED <<file, deaths, operator>>

\* kill -9, process::exit on a second signal, or a panic (panic = "abort"):
\* no destructor runs.
Die(p) ==
  /\ Alive(p)
  /\ deaths < MaxDeaths
  /\ deaths' = deaths + 1
  /\ Set(p, OffProc)
  /\ disturbed' = TRUE
  /\ UNCHANGED <<file, operator>>

\* slots release --slot-id, or one slot of slots cleanup: no look at the pid.
OperatorRemove(s) ==
  /\ file[s] # NoFile
  /\ operator < MaxOperator
  /\ operator' = operator + 1
  /\ file' = [file EXCEPT ![s] = NoFile]
  /\ disturbed' = TRUE
  /\ UNCHANGED <<proc, deaths>>

ProcStep(p) == \/ Start(p) \/ Acquire(p) \/ ReadSlot(p) \/ CheckPid(p) \/ RemoveStale(p)
               \/ SweepDone(p) \/ TrySlot(p) \/ WritePid(p) \/ Poll(p) \/ DropGuard(p)
               \/ Exit(p)

SlotNext == \/ \E p \in Procs : ProcStep(p) \/ Elapse(p) \/ Die(p)
            \/ \E s \in Slots : OperatorRemove(s)

SlotSpec == SlotInit /\ [][SlotNext]_slotVars

\* Processes run, calls return (the clients time out), waits elapse, and the
\* tool is invoked again and again.
SlotFairSpec ==
  SlotSpec /\ \A p \in Procs : WF_slotVars(ProcStep(p)) /\ WF_slotVars(Elapse(p))

-----------------------------------------------------------------------------
(* Properties *)

Guards  == {p \in Procs : proc[p].pc \in {"write", "hold"}}
Holders == {p \in Procs : proc[p].pc = "hold"}

\* Until a process ends or the operator steps in, however often slots are taken,
\* given back, swept and waited for, at most Max processes are inside an LLM call.
SlotLimitWhileAllLive == ~disturbed => Cardinality(Holders) <= Max

\* Under SlotFairSpec: a slot whose recorded holder is dead is given back by
\* some later sweep, so kill -9 never costs capacity for good.
DeadSlotRecovered ==
  \A s \in Slots, p \in Procs :
    (file[s] = [pid |-> p, written |-> TRUE] /\ ~Alive(p))
      ~> (file[s] # [pid |-> p, written |-> TRUE] \/ Alive(p))

\* Under SlotFairSpec: acquire_llm_slot returns, with a slot or with LockBusy.
AcquireReturns == \A p \in Procs : (proc[p].pc = "try") ~> (proc[p].pc # "try")
=============================================================================
