-------------------------- MODULE EnrichCallProofs --------------------------
(***************************************************************************)
(* The calls of enrich to the model: the host-wide slots that bound how    *)
(* many there are at a time, and the handlers around them.                 *)
(*                                                                         *)
(* Slots: type correctness of the semaphore, and its limit for any number  *)
(* of processes and slots, as long as no process has ended and the         *)
(* operator has not removed a slot file.                                   *)
(*                                                                         *)
(* Handlers: whatever happens between their reads, the call and the        *)
(* statements that write the answer, live text stays searchable,           *)
(* descriptions stay grounded, relationships stay unique, the backlog is   *)
(* what the scans enqueue, and types change only where they may.           *)
(***************************************************************************)
EXTENDS LlmSlots, EnrichHandlers, FiniteSetTheorems, TLAPS

-----------------------------------------------------------------------------
(* Slots *)

\* A guard's index is a slot: `write` is reached only from an index below Max,
\* and a process that reads a pid is looking at a slot.
IndexInv ==
  \A p \in Procs : proc[p].pc \in {"write", "hold", "check"} => proc[p].s \in Slots

\* While nothing has disturbed the semaphore, every guard's path names its own
\* inode, every file names a live process, and no sweep has collected anything.
OwnSlotInv ==
  ~disturbed =>
    /\ \A p \in Guards : file[proc[p].s] # NoFile /\ file[proc[p].s].pid = p
    /\ \A s \in Slots : file[s] # NoFile => Alive(file[s].pid)
    /\ \A p \in Procs : /\ proc[p].stale = {}
                        /\ proc[p].pc = "check" => proc[p].seen \in Procs
                                                   /\ Alive(proc[p].seen)

SlotInv == SlotTypeOK /\ IndexInv

-----------------------------------------------------------------------------
\* Slots are the numbers below Max.
LEMMA SlotsTypes ==
  /\ Slots \subseteq 0 .. Max /\ Max \in 0 .. Max /\ 0 \in 0 .. Max
  /\ \A s \in 0 .. Max : s < Max => s \in Slots
  /\ \A s \in Slots : s + 1 \in 0 .. Max
BY MaxAssumption DEF Slots

\* At the start no slot is taken.
LEMMA SlotInitInv == SlotInit => SlotInv /\ OwnSlotInv
<1> SUFFICES ASSUME SlotInit PROVE SlotInv /\ OwnSlotInv
  OBVIOUS
<1>1. OffProc \in Proc
  BY SlotsTypes DEF OffProc, Proc
<1>2. SlotTypeOK
  BY <1>1 DEF SlotInit, SlotTypeOK
<1>3. \A p \in Procs : proc[p].pc = "off" /\ proc[p].stale = {}
  BY DEF SlotInit, OffProc
<1>4. IndexInv /\ Guards = {}
  BY <1>3 DEF IndexInv, Guards
<1>5. OwnSlotInv
  BY <1>3, <1>4 DEF SlotInit, OwnSlotInv
<1> QED BY <1>2, <1>4, <1>5 DEF SlotInv

\* Changing one process to a well-typed record keeps the process table typed.
LEMMA SetType ==
  ASSUME proc \in [Procs -> Proc], IndexInv, NEW p \in Procs, NEW r \in Proc, Set(p, r),
         r.pc \in {"write", "hold", "check"} => r.s \in Slots
  PROVE  proc' \in [Procs -> Proc] /\ IndexInv'
BY DEF Set, IndexInv

\* A process step keeps types and indices.
LEMMA ProcStepInv ==
  ASSUME SlotInv, NEW p \in Procs, ProcStep(p) \/ Elapse(p)
  PROVE  SlotInv'
<1> USE SlotsTypes
<1>p. proc \in [Procs -> Proc] /\ proc[p] \in Proc /\ IndexInv
  BY DEF SlotInv, SlotTypeOK
<1>f. file \in [Slots -> Inode \cup {NoFile}] /\ \A s \in Slots : file[s] # NoFile => file[s] \in Inode
  BY DEF SlotInv, SlotTypeOK
<1>h. Quiet => (deaths \in Nat /\ operator \in Nat /\ disturbed \in BOOLEAN)'
  BY DEF Quiet, SlotInv, SlotTypeOK
<1>o. OffProc \in Proc /\ [OffProc EXCEPT !.pc = "idle"] \in Proc
      /\ \A b \in BOOLEAN : SweepRec(b) \in Proc
  BY DEF OffProc, Proc, SweepRec
<1>1. CASE Start(p) \/ Acquire(p)
  <2>1. \E b \in BOOLEAN : Set(p, SweepRec(b))
    BY <1>1 DEF Start, Acquire
  <2>2. \A b \in BOOLEAN : SweepRec(b).pc = "sweep"
    BY DEF SweepRec, OffProc
  <2>3. proc' \in [Procs -> Proc] /\ IndexInv'
    BY <2>1, <2>2, <1>p, <1>o, SetType
  <2> QED BY <2>3, <1>f, <1>h, <1>1 DEF Start, Acquire, SlotInv, SlotTypeOK
<1>2. CASE ReadSlot(p)
  <2>1. proc[p].s \in Slots /\ proc[p].s + 1 \in 0 .. Max
    BY <1>2, <1>p DEF ReadSlot, Proc
  <2>2. CASE file[proc[p].s] # NoFile /\ file[proc[p].s].written
    <3>1. file[proc[p].s].pid \in Procs
      BY <2>1, <2>2, <1>f DEF Inode
    <3>2. [proc[p] EXCEPT !.pc = "check", !.seen = file[proc[p].s].pid] \in Proc
      BY <3>1, <1>p DEF Proc
    <3>3. proc' \in [Procs -> Proc] /\ IndexInv'
      BY <3>2, <1>p, <2>1, <2>2, <1>2, SetType DEF ReadSlot, Proc
    <3> QED BY <3>3, <1>f, <1>h, <1>2 DEF ReadSlot, SlotInv, SlotTypeOK
  <2>3. CASE ~(file[proc[p].s] # NoFile /\ file[proc[p].s].written)
    <3>1. [proc[p] EXCEPT !.s = proc[p].s + 1] \in Proc
      BY <2>1, <1>p DEF Proc
    <3>2. proc' \in [Procs -> Proc] /\ IndexInv'
      BY <3>1, <1>p, <2>3, <1>2, SetType DEF ReadSlot, Proc
    <3> QED BY <3>2, <1>f, <1>h, <1>2 DEF ReadSlot, SlotInv, SlotTypeOK
  <2> QED BY <2>2, <2>3
<1>3. CASE CheckPid(p)
  <2>1. proc[p].s \in Slots /\ proc[p].s + 1 \in 0 .. Max
    BY <1>3, <1>p DEF CheckPid, IndexInv
  <2> DEFINE st == IF Alive(proc[p].seen) THEN proc[p].stale
                   ELSE proc[p].stale \cup {proc[p].s}
             r == [proc[p] EXCEPT !.pc = "sweep", !.s = @ + 1, !.seen = NoPid, !.stale = st]
  <2>2. st \in SUBSET Slots
    BY <2>1, <1>p DEF Proc
  <2>3. Set(p, r)
    BY <1>3 DEF CheckPid
  <2> HIDE DEF st
  <2>4. r \in Proc /\ r.pc = "sweep"
    BY <2>1, <2>2, <1>p DEF Proc
  <2>5. proc' \in [Procs -> Proc] /\ IndexInv'
    BY <2>3, <2>4, <1>p, SetType
  <2> QED BY <2>5, <1>f, <1>h, <1>3 DEF CheckPid, SlotInv, SlotTypeOK
<1>4. CASE RemoveStale(p)
  <2>1. PICK t \in proc[p].stale : /\ file' = [file EXCEPT ![t] = NoFile]
                                  /\ Set(p, [proc[p] EXCEPT !.stale = @ \ {t}])
    BY <1>4 DEF RemoveStale
  <2>2. [proc[p] EXCEPT !.stale = @ \ {t}] \in Proc
    BY <1>p DEF Proc
  <2>3. proc' \in [Procs -> Proc] /\ IndexInv'
    BY <2>1, <2>2, <1>p, <1>4, SetType DEF RemoveStale, Proc
  <2> QED BY <2>1, <2>3, <1>f, <1>h, <1>4 DEF RemoveStale, SlotInv, SlotTypeOK
<1>5. CASE SweepDone(p)
  <2> DEFINE r == [proc[p] EXCEPT !.pc = IF proc[p].want THEN "try" ELSE "idle", !.s = 0]
  <2>1. r \in Proc /\ r.pc \in {"try", "idle"}
    BY <1>p DEF Proc
  <2>2. proc' \in [Procs -> Proc] /\ IndexInv'
    BY <2>1, <1>p, <1>5, SetType DEF SweepDone
  <2> QED BY <2>2, <1>f, <1>h, <1>5 DEF SweepDone, SlotInv, SlotTypeOK
<1>6. CASE TrySlot(p)
  <2>1. proc[p].s \in Slots /\ proc[p].s + 1 \in 0 .. Max
    BY <1>6, <1>p DEF TrySlot, Proc
  <2>2. /\ [proc[p] EXCEPT !.pc = "write"] \in Proc
        /\ [proc[p] EXCEPT !.s = proc[p].s + 1] \in Proc
        /\ [proc[p] EXCEPT !.pc = "write"].s = proc[p].s
        /\ [proc[p] EXCEPT !.s = proc[p].s + 1].pc = proc[p].pc
        /\ proc[p].pc = "try"
    BY <2>1, <1>p, <1>6 DEF Proc, TrySlot
  <2>3. proc' \in [Procs -> Proc] /\ IndexInv'
    BY <2>1, <2>2, <1>p, <1>6, SetType DEF TrySlot
  <2>n. [pid |-> p, written |-> FALSE] \in Inode
    BY DEF Inode
  <2>4. file' \in [Slots -> Inode \cup {NoFile}]
    BY <1>f, <2>1, <2>n, <1>6 DEF TrySlot
  <2> QED BY <2>3, <2>4, <1>h, <1>6 DEF TrySlot, SlotInv, SlotTypeOK
<1>7. CASE WritePid(p)
  <2>1. proc[p].s \in Slots
    BY <1>7, <1>p DEF WritePid, IndexInv
  <2>2. [proc[p] EXCEPT !.pc = "hold"] \in Proc /\ [proc[p] EXCEPT !.pc = "hold"].s = proc[p].s
    BY <1>p DEF Proc
  <2>3. proc' \in [Procs -> Proc] /\ IndexInv'
    BY <2>1, <2>2, <1>p, <1>7, SetType DEF WritePid
  <2>4. file' \in [Slots -> Inode \cup {NoFile}]
    BY <1>f, <2>1, <1>7 DEF WritePid, Inode
  <2> QED BY <2>3, <2>4, <1>h, <1>7 DEF WritePid, SlotInv, SlotTypeOK
<1>8. CASE Poll(p)
  <2> DEFINE r == IF proc[p].late THEN [OffProc EXCEPT !.pc = "idle"]
                  ELSE [proc[p] EXCEPT !.s = 0]
  <2>1. r \in Proc /\ r.pc \in {"idle", "try"}
    BY <1>o, <1>p, <1>8 DEF Proc, Poll, OffProc
  <2>2. proc' \in [Procs -> Proc] /\ IndexInv'
    BY <2>1, <1>p, <1>8, SetType DEF Poll
  <2> QED BY <2>2, <1>f, <1>h, <1>8 DEF Poll, SlotInv, SlotTypeOK
<1>9. CASE DropGuard(p)
  <2>1. [OffProc EXCEPT !.pc = "idle"].pc = "idle"
    BY DEF OffProc
  <2>2. proc' \in [Procs -> Proc] /\ IndexInv'
    BY <2>1, <1>o, <1>p, <1>9, SetType DEF DropGuard
  <2> QED BY <2>2, <1>f, <1>h, <1>9 DEF DropGuard, SlotInv, SlotTypeOK
<1>10. CASE Exit(p)
  <2>1. proc' \in [Procs -> Proc] /\ IndexInv'
    BY <1>o, <1>p, <1>10, SetType DEF Exit, OffProc
  <2> QED BY <2>1, <1>f, <1>10 DEF Exit, SlotInv, SlotTypeOK
<1>11. CASE Elapse(p)
  <2>1. [proc[p] EXCEPT !.late = TRUE] \in Proc
        /\ [proc[p] EXCEPT !.late = TRUE].pc = proc[p].pc
        /\ [proc[p] EXCEPT !.late = TRUE].s = proc[p].s
    BY <1>p DEF Proc
  <2>2. proc' \in [Procs -> Proc] /\ IndexInv'
    BY <2>1, <1>p, <1>11, SetType DEF Elapse, IndexInv
  <2> QED BY <2>2, <1>f, <1>h, <1>11 DEF Elapse, SlotInv, SlotTypeOK
<1> QED
  BY <1>1, <1>2, <1>3, <1>4, <1>5, <1>6, <1>7, <1>8, <1>9, <1>10, <1>11 DEF ProcStep

\* Every step keeps the types.
LEMMA NextInv == SlotInv /\ [SlotNext]_slotVars => SlotInv'
<1> SUFFICES ASSUME SlotInv, [SlotNext]_slotVars PROVE SlotInv'
  OBVIOUS
<1>1. CASE \E p \in Procs : ProcStep(p) \/ Elapse(p)
  BY <1>1, ProcStepInv
<1>2. ASSUME NEW p \in Procs, Die(p) PROVE SlotInv'
  <2>1. OffProc \in Proc /\ OffProc.pc = "off"
    BY SlotsTypes DEF OffProc, Proc
  <2>2. proc' \in [Procs -> Proc] /\ IndexInv'
    BY <2>1, <1>2, SetType DEF Die, SlotInv, SlotTypeOK
  <2> QED BY <2>2, <1>2 DEF Die, SlotInv, SlotTypeOK
<1>3. ASSUME NEW s \in Slots, OperatorRemove(s) PROVE SlotInv'
  BY <1>3 DEF OperatorRemove, SlotInv, SlotTypeOK, IndexInv
<1>4. CASE UNCHANGED slotVars
  BY <1>4 DEF slotVars, SlotInv, SlotTypeOK, IndexInv
<1> QED BY <1>1, <1>2, <1>3, <1>4 DEF SlotNext

\* Every reachable state of the semaphore is well typed.
THEOREM SlotTypeCorrect == SlotSpec => []SlotTypeOK
<1>1. SlotInit => SlotInv
  BY SlotInitInv
<1>2. SlotInv => SlotTypeOK
  BY DEF SlotInv
<1> QED BY <1>1, <1>2, NextInv, PTL DEF SlotSpec

-----------------------------------------------------------------------------
(* The limit *)

\* A step of p that leaves the files alone, keeps p alive, gives p no new slot
\* and collects nothing preserves OwnSlotInv.
LEMMA QuietStep ==
  ASSUME SlotInv, OwnSlotInv, NEW p \in Procs, NEW r \in Proc, Set(p, r),
         file' = file, disturbed' = disturbed,
         r.pc # "off", r.stale = {} \/ disturbed,
         r.pc \in {"write", "hold"} => p \in Guards /\ r.s = proc[p].s,
         r.pc = "check" => disturbed \/ (r.seen \in Procs /\ Alive(r.seen))
  PROVE  OwnSlotInv'
<1> SUFFICES ASSUME ~disturbed PROVE OwnSlotInv'
  BY DEF OwnSlotInv
<1>p. proc' = [proc EXCEPT ![p] = r] /\ proc \in [Procs -> Proc]
  BY DEF Set, SlotInv, SlotTypeOK
<1>1. \A q \in Procs : Alive(q) => Alive(q)'
  BY <1>p DEF Alive
<1>2. \A q \in Guards' : q \in Guards /\ proc'[q].s = proc[q].s
  BY <1>p DEF Guards
<1>3. \A q \in Guards' : file'[proc'[q].s] # NoFile /\ file'[proc'[q].s].pid = q
  BY <1>2 DEF OwnSlotInv
<1>4. \A s \in Slots : file[s] # NoFile => file[s].pid \in Procs
  BY DEF SlotInv, SlotTypeOK, Inode
<1>5. \A s \in Slots : file'[s] # NoFile => proc'[file'[s].pid].pc # "off"
  BY <1>1, <1>4, <1>p DEF OwnSlotInv, Alive
<1>6. \A q \in Procs : /\ proc'[q].stale = {}
                       /\ proc'[q].pc = "check" => /\ proc'[q].seen \in Procs
                                                   /\ proc'[proc'[q].seen].pc # "off"
  BY <1>1, <1>p DEF OwnSlotInv, Alive
<1> QED BY <1>3, <1>5, <1>6 DEF OwnSlotInv, Alive

\* Every step of undisturbed processes leaves each guard its own slot file.
LEMMA NextOwnSlot == SlotInv /\ OwnSlotInv /\ [SlotNext]_slotVars => OwnSlotInv'
<1> SUFFICES ASSUME SlotInv, OwnSlotInv, [SlotNext]_slotVars, ~disturbed'
             PROVE  OwnSlotInv'
  BY DEF OwnSlotInv
<1> USE SlotsTypes
<1>1. CASE UNCHANGED slotVars
  BY <1>1 DEF slotVars, OwnSlotInv, Guards, Alive
<1>2. ASSUME NEW p \in Procs, ProcStep(p) \/ Elapse(p) PROVE OwnSlotInv'
  <2>p. proc \in [Procs -> Proc] /\ proc[p] \in Proc /\ SlotInv' /\ IndexInv
    BY <1>2, ProcStepInv DEF SlotInv, SlotTypeOK
  <2>q. ~disturbed /\ disturbed' = disturbed
    <3>1. ~Exit(p)
      BY DEF Exit
    <3>2. Quiet
      BY <3>1, <1>2 DEF ProcStep, Start, Acquire, ReadSlot, CheckPid, RemoveStale, SweepDone,
                        TrySlot, WritePid, Poll, Elapse, DropGuard
    <3> QED BY <3>2 DEF Quiet
  <2>s. proc[p].stale = {} /\ proc'[p] \in Proc /\ OffProc.stale = {}
    BY <2>p, <2>q DEF OwnSlotInv, SlotInv, SlotTypeOK, OffProc
  <2>f. file \in [Slots -> Inode \cup {NoFile}]
        /\ \A s \in Slots : file[s] # NoFile => file[s] \in Inode /\ Alive(file[s].pid)
    BY <2>q DEF SlotInv, SlotTypeOK, OwnSlotInv
  <2>1. CASE /\ file' = file
             /\ \E r \in Proc : /\ Set(p, r) /\ r.pc # "off" /\ r.stale = {}
                                /\ r.pc \in {"write", "hold"} => p \in Guards /\ r.s = proc[p].s
                                /\ r.pc = "check" => r.seen \in Procs /\ Alive(r.seen)
    <3>1. PICK r \in Proc : /\ Set(p, r) /\ r.pc # "off" /\ r.stale = {}
                            /\ r.pc \in {"write", "hold"} => p \in Guards /\ r.s = proc[p].s
                            /\ r.pc = "check" => r.seen \in Procs /\ Alive(r.seen)
      BY <2>1
    <3> QED BY <3>1, <2>1, <2>q, QuietStep
  <2>2. CASE Start(p) \/ Acquire(p)
    <3>1. PICK b \in BOOLEAN : Set(p, SweepRec(b))
      BY <2>2 DEF Start, Acquire
    <3>2. SweepRec(b) \in Proc /\ SweepRec(b).pc = "sweep" /\ SweepRec(b).stale = {}
      BY DEF SweepRec, OffProc, Proc
    <3> QED BY <3>1, <3>2, <2>1, <2>2 DEF Start, Acquire
  <2>3. CASE ReadSlot(p)
    <3>1. proc[p].s \in Slots /\ proc[p].s + 1 \in 0 .. Max
      BY <2>3, <2>p DEF ReadSlot, Proc
    <3>2. CASE file[proc[p].s] # NoFile /\ file[proc[p].s].written
      <4> DEFINE r == [proc[p] EXCEPT !.pc = "check", !.seen = file[proc[p].s].pid]
      <4>1. file[proc[p].s].pid \in Procs /\ Alive(file[proc[p].s].pid)
        BY <3>1, <3>2, <2>f DEF Inode
      <4>2. Set(p, r) /\ file' = file
        BY <3>2, <2>3 DEF ReadSlot
      <4>3. r \in Proc /\ r.pc = "check" /\ r.stale = {} /\ r.seen = file[proc[p].s].pid
        BY <2>p, <2>s, <4>1 DEF Proc
      <4> HIDE DEF r
      <4> QED BY <4>1, <4>2, <4>3, <2>1
    <3>3. CASE ~(file[proc[p].s] # NoFile /\ file[proc[p].s].written)
      <4> DEFINE r == [proc[p] EXCEPT !.s = proc[p].s + 1]
      <4>1. Set(p, r) /\ file' = file
        BY <3>3, <2>3 DEF ReadSlot
      <4>2. r \in Proc /\ r.pc = "sweep" /\ r.stale = {}
        BY <2>p, <2>s, <2>3, <3>1 DEF Proc, ReadSlot
      <4> HIDE DEF r
      <4> QED BY <4>1, <4>2, <2>1
    <3> QED BY <3>2, <3>3
  <2>4. CASE CheckPid(p)
    <3> DEFINE r == [proc[p] EXCEPT !.pc = "sweep", !.s = @ + 1, !.seen = NoPid, !.stale = {}]
    <3>1. Alive(proc[p].seen) /\ proc[p].s + 1 \in 0 .. Max
      BY <2>4, <2>q, <2>p DEF CheckPid, OwnSlotInv, IndexInv
    <3>2. [proc[p] EXCEPT !.pc = "sweep", !.s = @ + 1, !.seen = NoPid,
             !.stale = IF Alive(proc[p].seen) THEN @ ELSE @ \cup {proc[p].s}] = r
      BY <3>1, <2>s, <2>p DEF Proc
    <3>3. Set(p, r) /\ file' = file
      BY <3>2, <2>4 DEF CheckPid
    <3>4. r \in Proc /\ r.pc = "sweep" /\ r.stale = {}
      BY <2>p, <3>1 DEF Proc
    <3> HIDE DEF r
    <3> QED BY <3>3, <3>4, <2>1
  <2>5. CASE RemoveStale(p)
    BY <2>5, <2>s DEF RemoveStale
  <2>6. CASE SweepDone(p)
    <3> DEFINE r == [proc[p] EXCEPT !.pc = IF proc[p].want THEN "try" ELSE "idle", !.s = 0]
    <3>1. Set(p, r) /\ file' = file
      BY <2>6 DEF SweepDone
    <3>2. r \in Proc /\ r.pc \in {"try", "idle"} /\ r.stale = {}
      BY <2>p, <2>s DEF Proc
    <3> HIDE DEF r
    <3> QED BY <3>1, <3>2, <2>1
  <2>7. CASE Poll(p)
    <3> DEFINE r == IF proc[p].late THEN [OffProc EXCEPT !.pc = "idle"]
                    ELSE [proc[p] EXCEPT !.s = 0]
    <3>1. Set(p, r) /\ file' = file
      BY <2>7 DEF Poll
    <3>2. r \in Proc /\ r.pc \in {"try", "idle"} /\ r.stale = {}
      BY <2>p, <2>s, <2>7 DEF Proc, OffProc, Poll
    <3> HIDE DEF r
    <3> QED BY <3>1, <3>2, <2>1
  <2>8. CASE Elapse(p)
    <3> DEFINE r == [proc[p] EXCEPT !.late = TRUE]
    <3>1. Set(p, r) /\ file' = file
      BY <2>8 DEF Elapse
    <3>2. r \in Proc /\ r.pc = "try" /\ r.stale = {}
      BY <2>p, <2>s, <2>8 DEF Proc, Elapse
    <3> HIDE DEF r
    <3> QED BY <3>1, <3>2, <2>1
  <2>9. CASE TrySlot(p) /\ file[proc[p].s] # NoFile
    <3> DEFINE r == [proc[p] EXCEPT !.s = proc[p].s + 1]
    <3>1. Set(p, r) /\ file' = file
      BY <2>9 DEF TrySlot
    <3>2. r \in Proc /\ r.pc = "try" /\ r.stale = {}
      BY <2>p, <2>s, <2>9 DEF Proc, TrySlot
    <3> HIDE DEF r
    <3> QED BY <3>1, <3>2, <2>1
  <2>10. CASE TrySlot(p) /\ file[proc[p].s] = NoFile
    <3>1. proc[p].s \in Slots /\ proc' = [proc EXCEPT ![p] = [proc[p] EXCEPT !.pc = "write"]]
          /\ [proc[p] EXCEPT !.pc = "write"].pc = "write" /\ [proc[p] EXCEPT !.pc = "write"].stale = {}
      BY <2>10, <2>p, <2>s DEF TrySlot, Set, Proc
    <3>2. \A q \in Procs : Alive(q) => Alive(q)'
      BY <3>1, <2>p DEF Alive
    <3>3. \A q \in Guards' : q = p \/ (q \in Guards /\ proc'[q] = proc[q] /\ proc[q].s # proc[p].s)
      BY <3>1, <2>p, <2>10, <2>q DEF Guards, OwnSlotInv
    <3>4. \A q \in Guards' : file'[proc'[q].s] # NoFile /\ file'[proc'[q].s].pid = q
      <4>1. file' = [file EXCEPT ![proc[p].s] = [pid |-> p, written |-> FALSE]]
        BY <2>10 DEF TrySlot
      <4>n. [pid |-> p, written |-> FALSE] \in Inode
        BY DEF Inode
      <4>2. [pid |-> p, written |-> FALSE] # NoFile
        BY <4>n, NoFileAssumption DEF Inode
      <4>3. \A q \in Guards : proc[q].s \in Slots
        BY <2>p DEF Guards, IndexInv
      <4>4. proc'[p].s = proc[p].s
        BY <3>1, <2>p DEF Proc
      <4> QED BY <3>1, <3>3, <4>1, <4>2, <4>3, <4>4, <2>f, <2>q DEF OwnSlotInv
    <3>5. \A s \in Slots : file'[s] # NoFile => proc'[file'[s].pid].pc # "off"
      <4>1. file' = [file EXCEPT ![proc[p].s] = [pid |-> p, written |-> FALSE]]
        BY <2>10 DEF TrySlot
      <4> QED BY <3>1, <3>2, <4>1, <2>f, <2>p DEF Alive, Inode
    <3>6. \A q \in Procs : /\ proc'[q].stale = {}
                           /\ proc'[q].pc = "check" => /\ proc'[q].seen \in Procs
                                                       /\ proc'[proc'[q].seen].pc # "off"
      BY <3>1, <3>2, <2>p, <2>q DEF OwnSlotInv, Alive
    <3> QED BY <3>4, <3>5, <3>6 DEF OwnSlotInv, Alive
  <2>11. CASE WritePid(p)
    <3>1. proc[p].s \in Slots /\ proc' = [proc EXCEPT ![p] = [proc[p] EXCEPT !.pc = "hold"]]
          /\ [proc[p] EXCEPT !.pc = "hold"].pc = "hold" /\ [proc[p] EXCEPT !.pc = "hold"].stale = {}
      BY <2>11, <2>p, <2>s DEF WritePid, Set, Proc, IndexInv
    <3>2. \A q \in Procs : Alive(q) => Alive(q)'
      BY <3>1, <2>p DEF Alive
    <3>3. \A q \in Guards' : q = p \/ (q \in Guards /\ proc'[q] = proc[q] /\ proc[q].s # proc[p].s)
      BY <3>1, <2>p, <2>11, <2>q DEF Guards, OwnSlotInv, WritePid
    <3>4. \A q \in Guards' : file'[proc'[q].s] # NoFile /\ file'[proc'[q].s].pid = q
      <4>1. p \in Guards /\ file[proc[p].s] # NoFile /\ file[proc[p].s].pid = p
        BY <2>11, <2>q DEF WritePid, Guards, OwnSlotInv
      <4>2. file' = [file EXCEPT ![proc[p].s].written = TRUE]
        BY <4>1, <2>11 DEF WritePid
      <4>3. \A q \in Guards : proc[q].s \in Slots
        BY <2>p DEF Guards, IndexInv
      <4>4. proc'[p].s = proc[p].s
        BY <3>1, <2>p DEF Proc
      <4>5. file[proc[p].s] \in Inode
        BY <4>1, <3>1, <2>f
      <4>6. file'[proc[p].s] \in Inode /\ file'[proc[p].s].pid = p
        BY <4>1, <4>2, <4>5, <3>1, <2>f DEF Inode
      <4>7. file'[proc[p].s] # NoFile
        BY <4>6, NoFileAssumption DEF Inode
      <4>8. ASSUME NEW q \in Guards', q # p
            PROVE  file'[proc'[q].s] # NoFile /\ file'[proc'[q].s].pid = q
        <5>1. /\ q \in Guards /\ proc'[q] = proc[q] /\ proc[q].s # proc[p].s
              /\ proc[q].s \in Slots
          BY <3>3, <4>3, <4>8
        <5>2. file'[proc[q].s] = file[proc[q].s]
          BY <4>2, <5>1, <2>f
        <5> QED BY <5>1, <5>2, <2>q DEF OwnSlotInv
      <4> QED BY <4>4, <4>6, <4>7, <4>8
    <3>5. \A s \in Slots : file'[s] # NoFile => proc'[file'[s].pid].pc # "off"
      <4>1. \A s \in Slots : file'[s] # NoFile => file[s] # NoFile /\ file'[s].pid = file[s].pid
        BY <2>11, <3>1, <2>f DEF WritePid, Inode
      <4> QED BY <3>2, <4>1, <2>f DEF Alive, Inode
    <3>6. \A q \in Procs : /\ proc'[q].stale = {}
                           /\ proc'[q].pc = "check" => /\ proc'[q].seen \in Procs
                                                       /\ proc'[proc'[q].seen].pc # "off"
      BY <3>1, <3>2, <2>p, <2>q DEF OwnSlotInv, Alive
    <3> QED BY <3>4, <3>5, <3>6 DEF OwnSlotInv, Alive
  <2>12. CASE DropGuard(p)
    <3>1. proc[p].s \in Slots /\ proc' = [proc EXCEPT ![p] = [OffProc EXCEPT !.pc = "idle"]]
          /\ [OffProc EXCEPT !.pc = "idle"].pc = "idle" /\ [OffProc EXCEPT !.pc = "idle"].stale = {}
      BY <2>12, <2>p, <2>s DEF DropGuard, Set, OffProc, IndexInv
    <3>2. \A q \in Procs : Alive(q) => Alive(q)'
      BY <3>1, <2>p DEF Alive
    <3>3. \A q \in Guards' : q = p \/ (q \in Guards /\ proc'[q] = proc[q] /\ proc[q].s # proc[p].s)
      BY <3>1, <2>p, <2>12, <2>q DEF Guards, OwnSlotInv, DropGuard
    <3>4. \A q \in Guards' : file'[proc'[q].s] # NoFile /\ file'[proc'[q].s].pid = q
      <4>1. p \notin Guards'
        BY <3>1, <2>p DEF Guards
      <4>2. \A q \in Guards : proc[q].s \in Slots
        BY <2>p DEF Guards, IndexInv
      <4> QED BY <3>1, <3>3, <4>1, <4>2, <2>12, <2>f, <2>q DEF OwnSlotInv, DropGuard
    <3>5. \A s \in Slots : file'[s] # NoFile => proc'[file'[s].pid].pc # "off"
      BY <3>1, <3>2, <2>12, <2>f DEF DropGuard, Alive, Inode
    <3>6. \A q \in Procs : /\ proc'[q].stale = {}
                           /\ proc'[q].pc = "check" => /\ proc'[q].seen \in Procs
                                                       /\ proc'[proc'[q].seen].pc # "off"
      BY <3>1, <3>2, <2>p, <2>q DEF OwnSlotInv, Alive
    <3> QED BY <3>4, <3>5, <3>6 DEF OwnSlotInv, Alive
  <2>13. CASE Exit(p)
    BY <2>13 DEF Exit
  <2> QED
    BY <1>2, <2>2, <2>3, <2>4, <2>5, <2>6, <2>7, <2>8, <2>9, <2>10, <2>11, <2>12, <2>13
    DEF ProcStep
<1>3. ASSUME NEW p \in Procs, Die(p) PROVE OwnSlotInv'
  BY <1>3 DEF Die
<1>4. ASSUME NEW s \in Slots, OperatorRemove(s) PROVE OwnSlotInv'
  BY <1>4 DEF OperatorRemove
<1> QED BY <1>1, <1>2, <1>3, <1>4 DEF SlotNext

\* A guard's slot number tells the guards apart, and there are Max numbers.
LEMMA OwnSlotsBoundHolders == SlotInv /\ OwnSlotInv => SlotLimitWhileAllLive
<1> SUFFICES ASSUME SlotInv, OwnSlotInv, ~disturbed
             PROVE  Cardinality(Holders) <= Max
  BY DEF SlotLimitWhileAllLive
<1> DEFINE f == [p \in Holders |-> proc[p].s]
<1>1. f \in [Holders -> Slots]
  BY DEF Holders, SlotInv, IndexInv
<1>2. \A p, q \in Holders : f[p] = f[q] => p = q
  <2>1. \A p \in Holders : p \in Guards /\ file[proc[p].s].pid = p
    BY DEF Holders, Guards, OwnSlotInv
  <2> QED BY <2>1
<1>3. f \in Injection(Holders, Slots)
  BY <1>1, <1>2, Zenon DEF Injection, IsInjective
<1>4. IsFiniteSet(Slots) /\ Cardinality(Slots) = Max
  BY FS_Interval, MaxAssumption DEF Slots
<1>5. Cardinality(Holders) <= Cardinality(Slots)
  BY <1>3, <1>4, FS_Injection
<1> QED BY <1>4, <1>5

\* The semaphore keeps its limit for every number of processes and slots, over
\* any sequence of acquisitions, releases, sweeps and waits in which no process
\* ends and the operator removes nothing.
THEOREM SlotLimitHolds == SlotSpec => []SlotLimitWhileAllLive
<1>1. SlotInit => SlotInv /\ OwnSlotInv
  BY SlotInitInv
<1>2. SlotInv /\ OwnSlotInv /\ [SlotNext]_slotVars => (SlotInv /\ OwnSlotInv)'
  BY NextInv, NextOwnSlot
<1> QED BY <1>1, <1>2, OwnSlotsBoundHolders, PTL DEF SlotSpec
-----------------------------------------------------------------------------
(* Handlers: the inductive invariant *)

\* What a handler keeps of a memory, and of an entity.
MemoryRow == [n: Namespaces, body: Bodies, desc: Descs]
EntityRow == [sufficient: BOOLEAN, type: Labels, rule: Rules \cup {NoRule}]
IsText(t) == t.body \in Bodies /\ t.desc \in Descs

KeyOk(r) ==
  /\ r.op \in Ops
  /\ r.op \in MemoryOps => r.key = Home
  /\ r.op \in EntityOps => r.key \in Entities
  /\ r.op = "entity-connect" => r.key \in Pairs

\* One handler.  An item of the two operations that write descriptions comes with evidence.
Handler(r) ==
  /\ r.pc \in {"idle", "claimed", "asked", "update", "sync", "insert"}
  /\ IF r.pc = "idle" THEN r = Idle ELSE KeyOk(r)
  /\ r.pc = "asked" => /\ r = [pc |-> "asked", op |-> r.op, key |-> r.key, row |-> r.row]
                       /\ r.op \in MemoryOps => r.row \in MemoryRow
                       /\ r.op \in EntityOps => /\ r.row \in EntityRow
                                                /\ IF r.op = "entity-type-validate" THEN r.row.rule \in Rules ELSE r.row.sufficient
  /\ r.pc = "update" => r.op \in MemoryOps /\ r.row \in MemoryRow
  /\ r.pc \in {"sync", "insert"} => /\ r.op \in MemoryOps /\ r.n \in Namespaces /\ IsText(r.old) /\ IsText(r.new)
                                    /\ r = [pc |-> r.pc, op |-> r.op, key |-> r.key, n |-> r.n, old |-> r.old, new |-> r.new]

MemOk(m)   == m \in [Namespaces -> [body: Bodies, desc: Descs, domain: BOOLEAN, live: BOOLEAN]]
IndexOk(x) == x \in [Namespaces -> SUBSET (Bodies \cup Descs)]
EntOk(t)   == /\ t \in [Entities -> Ent \cup {NoEnt}]
              /\ \A e \in Entities : t[e] = NoEnt \/ t[e].desc \notin {"ungrounded", "jargon"}
RelOk(R)   == /\ R \subseteq Rel
              /\ \A r, q \in R : r.id = q.id \/ (r.s = q.s /\ r.t = q.t /\ r.relation = q.relation) => r = q
Tables ==
  /\ MemOk(mem) /\ IndexOk(index) /\ ver \in [Namespaces -> [body: Bodies, desc: Descs]]
  /\ EntOk(ent) /\ bound \subseteq Namespaces \X Entities /\ RelOk(rel) /\ seen \subseteq Pairs

\* Handlers at work share the operation and have different items: at most one is about memories.
Apart(ws) ==
  \A v, w \in Workers : v # w /\ ws[v].pc # "idle" /\ ws[w].pc # "idle" => ws[v].op = ws[w].op /\ ws[v].key # ws[w].key
HandlersOk(ws) == ws = [w \in Workers |-> ws[w]] /\ (\A w \in Workers : Handler(ws[w])) /\ Apart(ws)

\* What a handler between the statements of its answer still relies on, unless somebody wrote
\* the memory meanwhile: the rest of its index update brings in what is there.
HalfOk(r, m, x, past) ==
  /\ r.pc = "sync" /\ r.n \notin past /\ m[r.n].live => {m[r.n].body, m[r.n].desc} \subseteq SyncFts(x[r.n], r.old, r.new)
  /\ r.pc = "insert" /\ r.n \notin past /\ m[r.n].live =>
       {m[r.n].body, m[r.n].desc} \subseteq x[r.n] \cup {r.new.body, r.new.desc}
TextInv == LiveTextSearchable /\ \A w \in Workers : HalfOk(worker[w], mem, index, lost)

HandlerInv == Tables /\ HandlersOk(worker) /\ TextInv

-----------------------------------------------------------------------------
(* Handlers: rows *)

\* No entity is NoEnt.
LEMMA EntShape ==
  ASSUME NEW x \in Ent
  PROVE  x # NoEnt
<1>1. "desc" \in DOMAIN x /\ DOMAIN NoEnt = {"type"}
  BY DEF Ent, NoEnt
<1> QED BY <1>1

\* The operations are of four sorts.
LEMMA Sorts ==
  /\ MemoryOps \cap EntityOps = {} /\ MemoryOps \cap RelOps = {} /\ EntityOps \cap RelOps = {}
  /\ "entity-connect" \notin MemoryOps \cup EntityOps \cup RelOps
  /\ Ops = MemoryOps \cup EntityOps \cup RelOps \cup {"entity-connect"}
BY DEF MemoryOps, EntityOps, RelOps, Ops

\* Only idle handlers are Idle.
LEMMA IdleHandler ==
  /\ Idle.pc = "idle" /\ Handler(Idle)
  /\ \A r : Handler(r) => (r = Idle <=> r.pc = "idle")
BY DEF Idle, Handler

\* Relationships are as many as their ids.
LEMMA RelFinite ==
  ASSUME NEW R, RelOk(R), NEW H \in SUBSET R
  PROVE  /\ IsFiniteSet(H) /\ Cardinality(H) \in Nat
         /\ Cardinality({r.id : r \in H}) = Cardinality(H)
<1> DEFINE f == [r \in H |-> r.id]
           T == {r.id : r \in H}
<1>1. \A r \in H : r.id \in 1..MaxRel
  BY DEF RelOk, Rel
<1>2. IsFiniteSet(1..MaxRel)
  <2>1. MaxRel \in Int /\ 1 \in Int
    BY HandlerConstants
  <2> QED BY <2>1, FS_Interval
<1>3. f \in Injection(H, 1..MaxRel)
  <2>1. f \in [H -> 1..MaxRel]
    BY <1>1
  <2>2. \A r, q \in H : f[r] = f[q] => r = q
    BY DEF RelOk
  <2> HIDE DEF f
  <2> QED BY <2>1, <2>2 DEF Injection, IsInjective
<1>4. IsFiniteSet(H) /\ Cardinality(H) \in Nat
  <2> HIDE DEF f
  <2> QED BY <1>2, <1>3, FS_Injection, FS_CardinalityType
<1>5. f \in Bijection(H, T)
  <2>1. f \in [H -> T] /\ \A t \in T : \E r \in H : f[r] = t
    OBVIOUS
  <2>2. \A r, q \in H : f[r] = f[q] => r = q
    BY DEF RelOk
  <2> HIDE DEF f, T
  <2> QED BY <2>1, <2>2 DEF Bijection, Injection, Surjection, IsInjective
<1>6. Cardinality(T) = Cardinality(H)
  <2>1. ExistsBijection(H, T)
    BY <1>5 DEF ExistsBijection
  <2> HIDE DEF T
  <2> QED BY <1>4, <2>1, FS_Bijection
<1> QED BY <1>4, <1>6

\* Below the bound there is a free id.
LEMMA FreeId ==
  ASSUME NEW R, RelOk(R), Cardinality(R) < MaxRel
  PROVE  \E i \in 1..MaxRel : \A q \in R : q.id # i
<1> SUFFICES ASSUME \A i \in 1..MaxRel : \E q \in R : q.id = i PROVE FALSE
  OBVIOUS
<1>1. {q.id : q \in R} = 1..MaxRel
  BY DEF RelOk, Rel
<1>2. Cardinality(1..MaxRel) = MaxRel
  <2>1. MaxRel \in Nat
    BY HandlerConstants
  <2>2. Cardinality(1..MaxRel) = IF 1 > MaxRel THEN 0 ELSE MaxRel - 1 + 1
    BY <2>1, FS_Interval
  <2> QED BY <2>1, <2>2
<1>3. Cardinality(1..MaxRel) = Cardinality(R) /\ Cardinality(R) \in Nat /\ MaxRel \in Nat
  BY <1>1, RelFinite, HandlerConstants
<1> QED BY <1>2, <1>3

\* The upsert of a relationship keeps ids and triples apart.
LEMMA UpsertOk ==
  ASSUME RelOk(rel), RoomForRel, NEW s \in Entities, NEW t \in Entities, NEW r \in {Generic, "uses"}, NEW h \in BOOLEAN
  PROVE  RelOk(UpsertRelationship(s, t, r, h))
<1> DEFINE same == {q \in rel : q.s = s /\ q.t = t /\ q.relation = r}
           with(q) == [q EXCEPT !.high = h]
           new == {with(q) : q \in same}
           i == CHOOSE n \in 1..MaxRel : \A q \in rel : q.id # n
           one == [id |-> i, s |-> s, t |-> t, relation |-> r, high |-> h]
<1>1. CASE same # {}
  <2>1. \A q \in same : /\ with(q) \in Rel /\ with(q).id = q.id /\ with(q).s = q.s
                         /\ with(q).t = q.t /\ with(q).relation = q.relation
    BY DEF RelOk, Rel
  <2>2. \A p \in new : \E q \in same : p = with(q)
    OBVIOUS
  <2>3. \A p, q \in same : p = q
    BY DEF RelOk
  <2>4. RelOk((rel \ same) \cup new)
    <3>0. \A p \in new : p \in Rel
      <4> HIDE DEF with, same, new
      <4> QED BY <2>1, <2>2
    <3>1. (rel \ same) \cup new \in SUBSET Rel
      <4> HIDE DEF new
      <4> QED BY <3>0 DEF RelOk
    <3>2. \A p, q \in new : p = q
      BY <2>2, <2>3
    <3>3. ASSUME NEW p \in rel \ same, NEW q \in new, p.id = q.id \/ (p.s = q.s /\ p.t = q.t /\ p.relation = q.relation)
          PROVE  FALSE
      <4>1. PICK z \in same : q = with(z)
        <5> HIDE DEF with, same
        <5> QED BY <2>2
      <4>2. q.id = z.id /\ q.s = z.s /\ q.t = z.t /\ q.relation = z.relation
        <5> HIDE DEF with, same
        <5> QED BY <2>1, <4>1
      <4>3. p \in rel /\ z \in rel /\ p # z
        OBVIOUS
      <4> HIDE DEF same
      <4> QED BY <3>3, <4>2, <4>3 DEF RelOk
    <3>4. \A p, q \in rel \ same : p.id = q.id \/ (p.s = q.s /\ p.t = q.t /\ p.relation = q.relation) => p = q
      BY DEF RelOk
    <3> HIDE DEF same, new
    <3> QED BY <3>1, <3>2, <3>3, <3>4 DEF RelOk
  <2> QED BY <1>1, <2>4 DEF UpsertRelationship
<1>2. CASE same = {}
  <2>1. i \in 1..MaxRel /\ \A q \in rel : q.id # i
    BY FreeId DEF RoomForRel
  <2> HIDE DEF i
  <2>2. one \in Rel /\ one.id = i /\ one.s = s /\ one.t = t /\ one.relation = r
    BY <2>1 DEF Rel
  <2>3. \A q \in rel : ~(q.id = one.id \/ (q.s = one.s /\ q.t = one.t /\ q.relation = one.relation))
    BY <1>2, <2>1, <2>2
  <2> HIDE DEF one
  <2>4. RelOk(rel \cup {one})
    BY <2>2, <2>3 DEF RelOk
  <2> QED BY <1>2, <2>4 DEF UpsertRelationship, i, one
<1> QED BY <1>1, <1>2

\* A table of entities in which the same exist, with the same types and descriptions.
SameNames(t, u) == \A e \in Entities : /\ u[e] = NoEnt <=> t[e] = NoEnt
                                       /\ u[e] # NoEnt => u[e].type = t[e].type
\* The degrees are the only thing that is recalculated.
LEMMA RecalculateOk ==
  ASSUME NEW t, EntOk(t), NEW R, RelOk(R), NEW E
  PROVE  EntOk(RecalculateDegree(t, R, E)) /\ SameNames(t, RecalculateDegree(t, R, E))
<1> DEFINE n(e) == Cardinality({r \in R : e \in {r.s, r.t}})
           u == RecalculateDegree(t, R, E)
<1>1. ASSUME NEW e \in Entities
      PROVE  /\ u[e] \in Ent \cup {NoEnt}
             /\ u[e] = NoEnt <=> t[e] = NoEnt
             /\ u[e] # NoEnt => u[e].type = t[e].type /\ u[e].desc = t[e].desc
  <2>1. n(e) \in Nat
    <3>1. {r \in R : e \in {r.s, r.t}} \in SUBSET R
      OBVIOUS
    <3> QED BY <3>1, RelFinite
  <2>2. u[e] = IF e \in E /\ t[e] # NoEnt THEN [t[e] EXCEPT !.degree = n(e)] ELSE t[e]
    BY DEF RecalculateDegree
  <2> HIDE DEF n, u
  <2>3. CASE e \in E /\ t[e] # NoEnt
    <3>1. t[e] \in Ent
      BY <2>3 DEF EntOk
    <3>2. u[e] \in Ent /\ u[e].type = t[e].type /\ u[e].desc = t[e].desc
      BY <2>1, <2>2, <2>3, <3>1 DEF Ent
    <3> QED BY <2>3, <3>2, EntShape
  <2>4. CASE ~(e \in E /\ t[e] # NoEnt)
    BY <2>2, <2>4 DEF EntOk
  <2> QED BY <2>3, <2>4
<1>2. u = [e \in Entities |-> u[e]]
  BY DEF RecalculateDegree
<1> HIDE DEF u
<1>3. EntOk(u) /\ SameNames(t, u)
  BY <1>1, <1>2 DEF EntOk, SameNames
<1> QED BY <1>3 DEF u

\* Extraction adds entities and gives a type only to what is a "concept".
LEMMA PreservingOk ==
  ASSUME EntOk(ent), NEW E, NEW label \in Labels
  PROVE  LET u == UpsertEntitiesPreservingType(E, label)
         IN  /\ EntOk(u)
             /\ \A e \in Entities : Exists(e) => u[e] # NoEnt /\ (ent[e].type = "concept" \/ u[e].type = ent[e].type)
<1> DEFINE u == UpsertEntitiesPreservingType(E, label)
           none == [type |-> label, desc |-> "", noted |-> FALSE, degree |-> 0]
<1>0. none \in Ent /\ none.desc = ""
  BY DEF Ent
<1>1. ASSUME NEW e \in Entities
      PROVE  /\ u[e] \in Ent \cup {NoEnt} /\ (u[e] = NoEnt \/ u[e].desc \notin {"ungrounded", "jargon"})
             /\ Exists(e) => u[e] # NoEnt /\ (ent[e].type = "concept" \/ u[e].type = ent[e].type)
  <2>1. u[e] = IF e \notin E THEN ent[e] ELSE IF ~Exists(e) THEN none
               ELSE [ent[e] EXCEPT !.type = IF ent[e].type = "concept" THEN label ELSE ent[e].type]
    BY DEF UpsertEntitiesPreservingType
  <2> HIDE DEF u, none
  <2>2. CASE e \notin E
    BY <2>1, <2>2 DEF EntOk, Exists
  <2>3. CASE e \in E /\ ~Exists(e)
    BY <1>0, <2>1, <2>3
  <2>4. CASE e \in E /\ Exists(e)
    <3>1. ent[e] \in Ent /\ ent[e].desc \notin {"ungrounded", "jargon"}
      BY <2>4 DEF EntOk, Exists
    <3>2. /\ u[e] \in Ent /\ u[e].desc = ent[e].desc
          /\ u[e].type = IF ent[e].type = "concept" THEN label ELSE ent[e].type
      BY <2>1, <2>4, <3>1 DEF Ent
    <3> QED BY <2>4, <3>1, <3>2, EntShape
  <2> QED BY <2>2, <2>3, <2>4
<1>2. u = [e \in Entities |-> u[e]]
  BY DEF UpsertEntitiesPreservingType
<1> HIDE DEF u
<1>3. EntOk(u)
  BY <1>1, <1>2 DEF EntOk
<1> QED BY <1>1, <1>3 DEF u

\* The vocabulary has the labels there are, and a nearest one.
LEMMA NearestOk ==
  ASSUME NEW v \in Vocabularies, NEW label \in Labels
  PROVE  Nearest(v, label) \in v /\ Nearest(v, label) \in Labels
BY HandlerConstants DEF Nearest

-----------------------------------------------------------------------------
(* Handlers: what the run checks of one state *)

\* The predicates that count a backlog select what the scans select.
LEMMA BacklogsAgree == Tables => BacklogAgrees
<1> SUFFICES ASSUME Tables,
                    NEW op \in {"memory-bindings", "body-enrich", "description-enrich", "weight-calibrate", "relation-reclassify"} \cup EntityOps
             PROVE  Backlog(op) = Cardinality(Scan(op, DefaultMinChars))
  BY DEF BacklogAgrees
<1>1. CASE op = "memory-bindings"
  <2>1. Scan(op, DefaultMinChars) = ScanUnboundMemories
    BY <1>1 DEF Scan, MemoryOps, EntityOps, ScanMemories
  <2>2. Backlog(op) = Cardinality({n \in {Home} : mem[n].live /\ ~\E e \in Entities : <<n, e>> \in bound})
    BY <1>1 DEF Backlog
  <2>3. {n \in {Home} : mem[n].live /\ ~\E e \in Entities : <<n, e>> \in bound} = ScanUnboundMemories
    BY DEF ScanUnboundMemories, Memories
  <2> QED BY <2>1, <2>2, <2>3
<1>2. CASE op = "body-enrich"
  <2>1. Scan(op, DefaultMinChars) = ScanShortBodyMemories(DefaultMinChars)
    BY <1>2 DEF Scan, MemoryOps, EntityOps, ScanMemories
  <2>2. Backlog(op) = Cardinality({n \in {Home} : mem[n].live /\ Chars[mem[n].body] < DefaultMinChars})
    BY <1>2 DEF Backlog
  <2>3. {n \in {Home} : mem[n].live /\ Chars[mem[n].body] < DefaultMinChars} = ScanShortBodyMemories(DefaultMinChars)
    BY DEF ScanShortBodyMemories, Memories
  <2> QED BY <2>1, <2>2, <2>3
<1>3. CASE op = "description-enrich"
  <2>1. Scan(op, DefaultMinChars) = ScanGenericDescriptions
    BY <1>3 DEF Scan, MemoryOps, EntityOps, ScanMemories
  <2>2. Backlog(op) = Cardinality({n \in {Home} : mem[n].live /\ mem[n].desc = "generic"})
    BY <1>3 DEF Backlog
  <2>3. {n \in {Home} : mem[n].live /\ mem[n].desc = "generic"} = ScanGenericDescriptions
    BY DEF ScanGenericDescriptions, Memories
  <2> QED BY <2>1, <2>2, <2>3
<1>4. CASE op = "weight-calibrate"
  <2> DEFINE H == {q \in rel : q.high}
  <2>1. Scan(op, DefaultMinChars) = {r.id : r \in H}
    BY <1>4 DEF Scan, MemoryOps, EntityOps, ScanWeightCandidates
  <2>2. Backlog(op) = Cardinality(H)
    BY <1>4 DEF Backlog
  <2>3. H \in SUBSET rel /\ RelOk(rel)
    BY DEF Tables
  <2> HIDE DEF H
  <2> QED BY <2>1, <2>2, <2>3, RelFinite
<1>5. CASE op = "relation-reclassify"
  <2> DEFINE H == {q \in rel : q.relation = Generic}
  <2>1. Scan(op, DefaultMinChars) = {r.id : r \in H}
    BY <1>5 DEF Scan, MemoryOps, EntityOps, ScanGenericRelations
  <2>2. Backlog(op) = Cardinality(H)
    BY <1>5 DEF Backlog
  <2>3. H \in SUBSET rel /\ RelOk(rel)
    BY DEF Tables
  <2> HIDE DEF H
  <2> QED BY <2>1, <2>2, <2>3, RelFinite
<1>6. CASE op = "entity-descriptions"
  <2>1. Scan(op, DefaultMinChars) = ScanEntities(op)
    BY <1>6 DEF Scan, MemoryOps, EntityOps
  <2>2. Backlog(op) = Cardinality({e \in Entities : Exists(e) /\ IsEmptyDesc(e)})
    BY <1>6 DEF Backlog
  <2>3. ScanEntities(op) = {e \in Entities : Exists(e) /\ IsEmptyDesc(e)}
    BY <1>6 DEF ScanEntities
  <2> QED BY <2>1, <2>2, <2>3
<1>7. CASE op = "force-redescribe"
  <2> DEFINE L(e) == Exists(e) /\ LowQuality(ent[e].desc) /\ (ent[e].desc = "" => ~ent[e].noted)
  <2>1. Scan(op, DefaultMinChars) = ScanEntities(op)
    BY <1>7 DEF Scan, MemoryOps, EntityOps
  <2>2. Backlog(op) = Cardinality({e \in Entities : L(e)})
    BY <1>7 DEF Backlog
  <2>3. ScanEntities(op) = {e \in Entities : Exists(e) /\ (IsEmptyDesc(e) \/ (LowQuality(ent[e].desc) /\ ent[e].desc # ""))}
    BY <1>7 DEF ScanEntities
  <2>4. \A e \in Entities : L(e) <=> Exists(e) /\ (IsEmptyDesc(e) \/ (LowQuality(ent[e].desc) /\ ent[e].desc # ""))
    BY DEF IsEmptyDesc, LowQuality
  <2> HIDE DEF L
  <2>5. {e \in Entities : L(e)} = ScanEntities(op)
    BY <2>3, <2>4
  <2> QED BY <2>1, <2>2, <2>5
<1>8. CASE op = "entity-type-validate"
  <2>1. Scan(op, DefaultMinChars) = ScanEntities(op)
    BY <1>8 DEF Scan, MemoryOps, EntityOps
  <2>2. Backlog(op) = Cardinality({e \in Entities : Exists(e)})
    BY <1>8 DEF Backlog
  <2>3. ScanEntities(op) = {e \in Entities : Exists(e)}
    BY <1>8 DEF ScanEntities
  <2> QED BY <2>1, <2>2, <2>3
<1> QED BY <1>1, <1>2, <1>3, <1>4, <1>5, <1>6, <1>7, <1>8 DEF EntityOps

\* The invariant implies what the run checks.
LEMMA HandlersSound == HandlerInv => OpsSound
<1> SUFFICES ASSUME HandlerInv PROVE OpsSound
  OBVIOUS
<1>1. OpsTypeOK
  BY DEF HandlerInv, Tables, HandlersOk, Handler, OpsTypeOK, MemOk, IndexOk, EntOk, RelOk
<1>2. DescribedIsGrounded
  BY DEF HandlerInv, Tables, EntOk, DescribedIsGrounded, Exists
<1>3. BacklogAgrees
  BY BacklogsAgree DEF HandlerInv
<1> QED BY <1>1, <1>2, <1>3 DEF HandlerInv, TextInv, OpsSound

\* At the start everything is as one command left it, and no handler is at work.
LEMMA HandlersInit == Init => HandlerInv
<1> SUFFICES ASSUME Init PROVE HandlerInv
  OBVIOUS
<1>1. MemOk(mem) /\ IndexOk(index) /\ ver \in [Namespaces -> [body: Bodies, desc: Descs]]
  BY DEF Init, MemOk, IndexOk, Bodies, Descs
<1>2. EntOk(ent) /\ bound \subseteq Namespaces \X Entities
  BY HandlerConstants DEF Init, EntOk
<1>3. RelOk(rel) /\ seen \subseteq Pairs
  BY DEF Init, RelOk
<1>4. \A w \in Workers : worker[w] = Idle /\ worker[w].pc = "idle"
  BY DEF Init, Idle
<1>5. HandlersOk(worker)
  <2>1. worker = [w \in Workers |-> worker[w]]
    BY DEF Init
  <2> QED BY <1>4, <2>1, IdleHandler DEF HandlersOk, Apart
<1>6. LiveTextSearchable
  BY DEF Init, LiveTextSearchable, Found
<1>7. \A w \in Workers : HalfOk(worker[w], mem, index, lost)
  BY <1>4 DEF HalfOk
<1> QED BY <1>1, <1>2, <1>3, <1>5, <1>6, <1>7 DEF HandlerInv, Tables, TextInv

-----------------------------------------------------------------------------
(* Handlers: the steps *)

\* What a handler was has a key; only one at work is about memories.
LEMMA HandlerAt ==
  ASSUME HandlersOk(worker), NEW w \in Workers
  PROVE  /\ Handler(worker[w])
         /\ worker[w].pc # "idle" => KeyOk(worker[w])
         /\ worker[w].pc # "idle" /\ worker[w].op \in MemoryOps => \A v \in Workers \ {w} : worker[v].pc = "idle"
<1>1. \A v \in Workers : Handler(worker[v]) /\ (worker[v].pc # "idle" => KeyOk(worker[v]))
  BY DEF HandlersOk, Handler
<1>2. ASSUME worker[w].pc # "idle", worker[w].op \in MemoryOps, NEW v \in Workers \ {w}, worker[v].pc # "idle"
      PROVE  FALSE
  BY <1>1, <1>2 DEF HandlersOk, Apart, KeyOk
<1> QED BY <1>1, <1>2

\* A handler goes on with its item, or ends.
LEMMA HandlerMoves ==
  ASSUME HandlersOk(worker), NEW w \in Workers, NEW r, worker' = [worker EXCEPT ![w] = r], Handler(r),
         r.pc # "idle" => worker[w].pc # "idle" /\ r.op = worker[w].op /\ r.key = worker[w].key
  PROVE  HandlersOk(worker')
<1>1. worker' = [v \in Workers |-> IF v = w THEN r ELSE worker[v]]
  BY DEF HandlersOk
<1> QED BY <1>1 DEF HandlersOk, Apart

Half(r) == r.pc \in {"sync", "insert"}
\* A memory is half written by nobody but a handler between its statements.
LEMMA HalfWrittenBy ==
  ASSUME NEW w, NEW n, HalfWritten(w, n)
  PROVE  Half(worker[w])
BY DEF HalfWritten, Half

\* A memory leaves `lost` when it is found again and nobody has it half written.
LEMMA LostLeft ==
  ASSUME NEW cut, Tracked(cut), NEW n \in Namespaces, n \notin lost'
  PROVE  /\ Found(n)' \/ (n \notin lost /\ n \notin Raced /\ n \notin cut)
         /\ \A w \in Workers : HalfWritten(w, n)' => n \notin lost /\ n \notin Raced /\ n \notin cut
<1>1. n \in lost \cup Raced \cup cut => Found(n)' /\ \A w \in Workers : ~HalfWritten(w, n)'
  BY DEF Tracked
<1> QED BY <1>1

\* A handler that has not moved still relies on the same, if the index of its memory has lost
\* nothing or somebody wrote the memory.
LEMMA HalfKept ==
  ASSUME NEW cut, Tracked(cut), NEW v \in Workers, worker'[v] = worker[v], Handler(worker[v]),
         HalfOk(worker[v], mem, index, lost),
         Half(worker[v]) => mem'[worker[v].n] # mem[worker[v].n] \/ index[worker[v].n] \subseteq index'[worker[v].n]
  PROVE  HalfOk(worker'[v], mem', index', lost')
<1> DEFINE r == worker[v]
           n == r.n
<1>1. SUFFICES ASSUME Half(r), n \notin lost', mem'[n].live
               PROVE  /\ r.pc = "sync" => {mem'[n].body, mem'[n].desc} \subseteq SyncFts(index'[n], r.old, r.new)
                      /\ r.pc = "insert" => {mem'[n].body, mem'[n].desc} \subseteq index'[n] \cup {r.new.body, r.new.desc}
  BY DEF HalfOk, Half
<1>2. n \in Namespaces /\ HalfWritten(v, n)' /\ HalfWritten(v, n)
  BY <1>1 DEF Handler, Half, HalfWritten
<1>3. n \notin lost /\ n \notin Raced
  BY <1>1, <1>2, LostLeft
<1>4. mem'[n] = mem[n] /\ index[n] \subseteq index'[n]
  BY <1>1, <1>2, <1>3 DEF Raced
<1> HIDE DEF n
<1>5. /\ r.pc = "sync" => {mem[n].body, mem[n].desc} \subseteq SyncFts(index[n], r.old, r.new)
      /\ r.pc = "insert" => {mem[n].body, mem[n].desc} \subseteq index[n] \cup {r.new.body, r.new.desc}
  BY <1>1, <1>3, <1>4 DEF HalfOk, n
<1> HIDE DEF r
<1> QED BY <1>4, <1>5 DEF SyncFts

\* A step that writes no text and no index, of a handler between no statements.
LEMMA TextKept ==
  ASSUME TextInv, HandlersOk(worker), NEW w \in Workers, NEW r, worker' = [worker EXCEPT ![w] = r], ~Half(r), ~Half(worker[w]),
         \A n \in Namespaces : mem'[n].body = mem[n].body /\ mem'[n].desc = mem[n].desc /\ mem'[n].live = mem[n].live,
         index' = index, Tracked({})
  PROVE  TextInv'
<1>1. \A v \in Workers : worker'[v] = IF v = w THEN r ELSE worker[v]
  BY DEF HandlersOk
<1>3. LiveTextSearchable'
  <2>1. SUFFICES ASSUME NEW n \in Namespaces, mem'[n].live, n \notin lost', \A v \in Workers : ~HalfWritten(v, n)'
                 PROVE  Found(n)'
    BY DEF LiveTextSearchable
  <2>2. \A v \in Workers : ~HalfWritten(v, n)
    BY <1>1, <2>1 DEF HalfWritten, Half
  <2>3. Found(n)' \/ n \notin lost
    BY <2>1, LostLeft
  <2> QED BY <2>1, <2>2, <2>3 DEF TextInv, LiveTextSearchable, Found
<1>4. ASSUME NEW v \in Workers PROVE HalfOk(worker'[v], mem', index', lost')
  <2>1. CASE v = w
    BY <1>1, <2>1 DEF HalfOk, Half
  <2>2. CASE v # w
    <3>1. worker'[v] = worker[v] /\ HalfOk(worker[v], mem, index, lost) /\ Handler(worker[v])
      BY <1>1, <2>2 DEF TextInv, HandlersOk
    <3> QED BY <3>1, HalfKept
  <2> QED BY <2>1, <2>2
<1> QED BY <1>3, <1>4 DEF TextInv

\* A step that moves no handler, text or index entry.
LEMMA TextStill ==
  ASSUME TextInv, HandlersOk(worker), worker' = worker, mem' = mem, index' = index, Tracked({})
  PROVE  TextInv'
<1>1. LiveTextSearchable'
  <2>1. SUFFICES ASSUME NEW n \in Namespaces, mem[n].live, n \notin lost', \A v \in Workers : ~HalfWritten(v, n)
                 PROVE  Found(n)'
    BY DEF LiveTextSearchable, HalfWritten
  <2>2. Found(n)' \/ n \notin lost
    BY <2>1, LostLeft
  <2> QED BY <2>1, <2>2 DEF TextInv, LiveTextSearchable, Found
<1>2. ASSUME NEW v \in Workers PROVE HalfOk(worker'[v], mem', index', lost')
  BY HalfKept DEF TextInv, HandlersOk
<1> QED BY <1>1, <1>2 DEF TextInv

\* The same, together with the tables.
LEMMA HandlerSteps ==
  ASSUME HandlerInv, NEW w \in Workers, NEW r, worker' = [worker EXCEPT ![w] = r], Handler(r), ~Half(r), ~Half(worker[w]),
         r.pc # "idle" => worker[w].pc # "idle" /\ r.op = worker[w].op /\ r.key = worker[w].key,
         UNCHANGED <<mem, index, ver>>, EntOk(ent'), bound' \subseteq Namespaces \X Entities, RelOk(rel'), seen' \subseteq Pairs, Tracked({})
  PROVE  HandlerInv'
<1>1. Tables'
  BY DEF HandlerInv, Tables
<1>2. HandlersOk(worker')
  BY HandlerMoves DEF HandlerInv
<1>3. TextInv'
  BY TextKept DEF HandlerInv
<1> QED BY <1>1, <1>2, <1>3 DEF HandlerInv

\* A handler that ends, having changed entities and relationships at most.
LEMMA HandlerEnds ==
  ASSUME HandlerInv, NEW w \in Workers, Ends(w), ~Half(worker[w]), UNCHANGED <<mem, index, ver>>,
         EntOk(ent'), bound' \subseteq Namespaces \X Entities, RelOk(rel'), seen' \subseteq Pairs, Tracked({})
  PROVE  HandlerInv'
<1>1. ~Half(Idle)
  BY DEF Idle, Half
<1> QED BY <1>1, IdleHandler, HandlerSteps DEF Ends

\* An item is claimed that no other handler has.
LEMMA ClaimStep ==
  ASSUME HandlerInv, NEW w \in Workers, NEW op \in Ops, NEW min, NEW key, Claim(w, op, min, key), Tracked({})
  PROVE  HandlerInv'
<1> DEFINE r == [pc |-> "claimed", op |-> op, key |-> key]
<1>1. r.pc = "claimed" /\ r.op = op /\ r.key = key
  OBVIOUS
<1>2. KeyOk(r)
  <2>0. key \in Scan(op, min)
    BY DEF Claim
  <2>1. CASE op \in MemoryOps
    <3>1. ScanMemories(op, min) \subseteq {Home}
      BY DEF ScanMemories, ScanUnboundMemories, ScanBoundMemoriesForAugment, ScanShortBodyMemories,
             ScanGenericDescriptions, Memories
    <3>2. Scan(op, min) = ScanMemories(op, min)
      BY <2>1, Sorts DEF Scan, MemoryOps, EntityOps, RelOps
    <3> QED BY <1>1, <2>0, <2>1, <3>1, <3>2, Sorts DEF KeyOk
  <2>2. CASE op \in EntityOps
    <3>1. Scan(op, min) = ScanEntities(op)
      BY <2>2, Sorts DEF Scan, MemoryOps, EntityOps, RelOps
    <3> QED BY <1>1, <2>0, <2>2, <3>1, Sorts DEF KeyOk, ScanEntities
  <2>3. CASE op \in RelOps
    BY <1>1, <2>3, Sorts DEF KeyOk
  <2>4. CASE op = "entity-connect"
    <3>1. Scan(op, min) = CooccurringPairs \cup HubIslandPairs
      BY <2>4 DEF Scan, MemoryOps, EntityOps
    <3>2. Scan(op, min) \subseteq Pairs
      BY <3>1 DEF CooccurringPairs, HubIslandPairs
    <3> QED BY <1>1, <2>0, <2>4, <3>2, Sorts DEF KeyOk
  <2> QED BY <2>1, <2>2, <2>3, <2>4, Sorts
<1>3. /\ worker[w] = Idle /\ worker' = [worker EXCEPT ![w] = r] /\ UNCHANGED <<db, commands>>
      /\ \A v \in Workers : worker[v] # Idle => worker[v].op = op /\ worker[v].key # key
  BY DEF Claim
<1> HIDE DEF r
<1>4. Handler(r) /\ ~Half(r) /\ ~Half(worker[w])
  BY <1>1, <1>2, <1>3, IdleHandler DEF Handler, Half
<1>5. HandlersOk(worker')
  <2>1. worker' = [v \in Workers |-> IF v = w THEN r ELSE worker[v]]
    BY <1>3 DEF HandlerInv, HandlersOk
  <2>2. \A v \in Workers : worker[v].pc # "idle" => worker[v].op = op /\ worker[v].key # key
    BY <1>3, IdleHandler
  <2> QED BY <1>1, <1>4, <2>1, <2>2 DEF HandlerInv, HandlersOk, Apart
<1>6. TextInv'
  BY <1>3, <1>4, TextKept DEF HandlerInv, db
<1> QED BY <1>3, <1>5, <1>6 DEF HandlerInv, Tables, db

\* A handler reads its item, or finds it gone: nothing is written.
LEMMA ReadsStep ==
  ASSUME HandlerInv, NEW w \in Workers, Reads(w), Tracked({})
  PROVE  HandlerInv'
<1>1. /\ worker[w].pc = "claimed" /\ UNCHANGED <<db, calls, commands>>
      /\ Handler(worker[w]) /\ KeyOk(worker[w])
  BY HandlerAt DEF HandlerInv, Reads, ReadMemory, ReadEntity, ReadRelationship, ReadPair
<1>2. ~Half(worker[w]) /\ EntOk(ent') /\ bound' \subseteq Namespaces \X Entities /\ RelOk(rel') /\ seen' \subseteq Pairs
      /\ UNCHANGED <<mem, index, ver>>
  BY <1>1 DEF Half, db, HandlerInv, Tables
<1>3. CASE Ends(w)
  BY <1>2, <1>3, HandlerEnds
<1>4. ASSUME NEW row, Asks(w, row), worker[w].op \in MemoryOps => row \in MemoryRow,
             worker[w].op \in EntityOps => /\ row \in EntityRow
                                           /\ IF worker[w].op = "entity-type-validate" THEN row.rule \in Rules ELSE row.sufficient
      PROVE  HandlerInv'
  <2> DEFINE r == [pc |-> "asked", op |-> worker[w].op, key |-> worker[w].key, row |-> row]
  <2>1. worker' = [worker EXCEPT ![w] = r]
    BY <1>4 DEF Asks
  <2>2. r.pc = "asked" /\ r.op = worker[w].op /\ r.key = worker[w].key /\ r.row = row
        /\ r = [pc |-> "asked", op |-> r.op, key |-> r.key, row |-> r.row]
    OBVIOUS
  <2> HIDE DEF r
  <2>3. Handler(r) /\ ~Half(r)
    BY <1>1, <1>4, <2>2 DEF Handler, KeyOk, Half
  <2> QED BY <1>1, <1>2, <2>1, <2>2, <2>3, HandlerSteps
<1>5. CASE ReadMemory(w)
  <2>1. ASSUME NEW n \in Lookup(worker[w].op) PROVE [n |-> n, body |-> mem[n].body, desc |-> mem[n].desc] \in MemoryRow
    BY DEF Lookup, HandlerInv, Tables, MemOk, MemoryRow
  <2>2. worker[w].op \notin EntityOps
    BY <1>5, Sorts DEF ReadMemory
  <2> QED BY <1>3, <1>4, <1>5, <2>1, <2>2 DEF ReadMemory
<1>6. CASE ReadEntity(w)
  <2> DEFINE e == worker[w].key
  <2>1. worker[w].op \in EntityOps /\ worker[w].op \notin MemoryOps /\ e \in Entities
    BY <1>1, <1>6, Sorts DEF ReadEntity, KeyOk
  <2>2. ASSUME ~Ends(w) PROVE HandlerInv'
    <3>1. Exists(e) /\ (Sufficient(e) \/ worker[w].op = "entity-type-validate")
      BY <1>6, <2>2 DEF ReadEntity
    <3> DEFINE S == IF worker[w].op = "entity-type-validate" THEN Rules ELSE {NoRule}
    <3>2. PICK rule \in S : Asks(w, [sufficient |-> Sufficient(e), type |-> ent[e].type, rule |-> rule])
      BY <1>6, <2>2 DEF ReadEntity
    <3>3. Sufficient(e) \in BOOLEAN /\ ent[e].type \in Labels
      BY <2>1, <3>1 DEF Sufficient, Exists, HandlerInv, Tables, EntOk, Ent
    <3> DEFINE row == [sufficient |-> Sufficient(e), type |-> ent[e].type, rule |-> rule]
    <3>4. row \in EntityRow /\ row.sufficient = Sufficient(e) /\ row.rule \in S
      BY <3>3 DEF EntityRow
    <3> HIDE DEF row
    <3>5. Asks(w, row)
      BY <3>2 DEF row
    <3> QED BY <1>4, <2>1, <3>1, <3>4, <3>5
  <2> QED BY <1>3, <2>2
<1>7. CASE ReadRelationship(w) \/ ReadPair(w)
  <2>1. worker[w].op \notin MemoryOps \cup EntityOps
    BY <1>7, Sorts DEF ReadRelationship, ReadPair
  <2> QED BY <1>3, <1>4, <1>7, <2>1 DEF ReadRelationship, ReadPair
<1> QED BY <1>5, <1>6, <1>7 DEF Reads

\* A call that fails, and graph-audit.
LEMMA GivesUpStep ==
  ASSUME HandlerInv, NEW w \in Workers, CallFails(w) \/ GraphAudit(w), Tracked({})
  PROVE  HandlerInv'
BY HandlerEnds DEF CallFails, GraphAudit, Asked, GivesUp, Half, db, HandlerInv, Tables

\* What a handler that was answered is, by its operation.
LEMMA AskedHandler ==
  ASSUME HandlerInv, NEW w \in Workers, worker[w].pc = "asked"
  PROVE  /\ worker[w].op \in MemoryOps => worker[w].row \in MemoryRow
         /\ worker[w].op \in EntityOps => /\ worker[w].row \in EntityRow /\ worker[w].key \in Entities
                                          /\ IF worker[w].op = "entity-type-validate"
                                             THEN worker[w].row.rule \in Rules ELSE worker[w].row.sufficient
         /\ worker[w].op = "entity-connect" => worker[w].key \in Pairs
         /\ worker[w] = [pc |-> "asked", op |-> worker[w].op, key |-> worker[w].key, row |-> worker[w].row]
         /\ ~Half(worker[w]) /\ KeyOk(worker[w])
BY HandlerAt DEF HandlerInv, Handler, KeyOk, Half

\* Extraction: entities and relationships of an answer, with or without bindings.
LEMMA ExtractsStep ==
  ASSUME HandlerInv, NEW w \in Workers, NEW E \in SUBSET Entities, NEW label \in {"concept", "gadget"},
         NEW s \in Entities, NEW t \in Entities, NEW r \in {Generic, "uses"},
         PersistMemoryBindings(w, E, label, s, t, r) \/ DeepResearchSynth(w, E, label, s, t, r), Tracked({})
  PROVE  HandlerInv'
<1> DEFINE up == UpsertEntitiesPreservingType(E, label)
           R  == IF s # t /\ up[s] # NoEnt /\ up[t] # NoEnt THEN UpsertRelationship(s, t, r, TRUE) ELSE rel
<1>2. worker[w].pc = "asked" /\ worker[w].op \in MemoryOps /\ RoomForRel /\ Ends(w) /\ UNCHANGED <<mem, index, ver, seen>>
  BY DEF PersistMemoryBindings, DeepResearchSynth, Asked, MemoryOps
<1>3. ~Half(worker[w]) /\ worker[w].row \in MemoryRow
  BY <1>2, AskedHandler
<1>4. EntOk(up)
  BY PreservingOk DEF HandlerInv, Tables, Labels
<1>5. RelOk(R)
  BY <1>2, UpsertOk DEF HandlerInv, Tables
<1>6. /\ rel' = R /\ (ent' = up \/ ent' = RecalculateDegree(up, R, IF R # rel THEN {s, t} ELSE {}))
      /\ bound' = bound \/ bound' = bound \cup ({worker[w].row.n} \X E)
  BY DEF PersistMemoryBindings, DeepResearchSynth
<1> HIDE DEF up, R
<1>7. EntOk(ent') /\ RelOk(rel')
  BY <1>4, <1>5, <1>6, RecalculateOk
<1>8. bound' \subseteq Namespaces \X Entities /\ seen' \subseteq Pairs
  BY <1>2, <1>3, <1>6 DEF MemoryRow, HandlerInv, Tables
<1> QED BY <1>2, <1>3, <1>7, <1>8, HandlerEnds

\* A description that is kept is grounded, since there was evidence.
LEMMA DescriptionStep ==
  ASSUME HandlerInv, NEW w \in Workers, NEW d1 \in Drafts, NEW d2 \in Drafts, EntityDescription(w, d1, d2), Tracked({})
  PROVE  HandlerInv'
<1> DEFINE e == worker[w].key
           d == FinalDraft(d1, d2, worker[w].row.sufficient)
<1>1. worker[w].pc = "asked" /\ worker[w].op \in EntityOps /\ worker[w].op # "entity-type-validate" /\ Ends(w)
      /\ UNCHANGED <<mem, index, ver, bound, rel, seen>>
      /\ ent' = IF d # "none" /\ Exists(e) THEN [ent EXCEPT ![e].desc = d, ![e].noted = FALSE] ELSE ent
  BY DEF EntityDescription, Asked, EntityOps
<1>2. ~Half(worker[w]) /\ e \in Entities /\ worker[w].row.sufficient
  BY <1>1, AskedHandler
<1>3. d \in {"none", "grounded"}
  BY <1>2 DEF FinalDraft, Accepted, Drafts
<1>4. EntOk(ent')
  <2>1. CASE ~(d # "none" /\ Exists(e))
    BY <1>1, <2>1 DEF HandlerInv, Tables
  <2>2. CASE d # "none" /\ Exists(e)
    <3>1. ent \in [Entities -> Ent \cup {NoEnt}] /\ ent[e] \in Ent
      BY <1>2, <2>2 DEF Exists, HandlerInv, Tables, EntOk
    <3> DEFINE x == [ent[e] EXCEPT !.desc = d, !.noted = FALSE]
    <3>2. x \in Ent /\ x.desc = "grounded"
      BY <1>3, <2>2, <3>1 DEF Ent
    <3>3. ent' = [ent EXCEPT ![e] = x]
      <4> HIDE DEF d
      <4> QED BY <1>1, <2>2
    <3> HIDE DEF x
    <3>4. \A f \in Entities : ent'[f] = IF f = e THEN x ELSE ent[f]
      BY <3>1, <3>3
    <3> HIDE DEF d, e
    <3> QED BY <3>1, <3>2, <3>3, <3>4 DEF HandlerInv, Tables, EntOk
  <2> QED BY <2>1, <2>2
<1> QED BY <1>1, <1>2, <1>4, HandlerEnds DEF HandlerInv, Tables

\* A type that is written is a label, the answer's or the nearest of the vocabulary.
LEMMA ValidateStep ==
  ASSUME HandlerInv, NEW w \in Workers, NEW label \in Labels, EntityTypeValidate(w, label), Tracked({})
  PROVE  HandlerInv'
<1> DEFINE e == worker[w].key
           policy == worker[w].row.rule.policy
           allowed == worker[w].row.rule.allowed
           unknown == label \notin allowed
           written == IF unknown /\ policy = "fallback" THEN Nearest(allowed, label) ELSE label
           note == unknown /\ policy = "fallback"
<1>1. worker[w].pc = "asked" /\ worker[w].op \in EntityOps /\ Ends(w) /\ UNCHANGED <<mem, index, ver, bound, rel, seen>>
      /\ \/ ent' = ent
         \/ Exists(e) /\ ent' = [ent EXCEPT ![e].type = written, ![e].noted = @ \/ note]
  BY DEF EntityTypeValidate, Asked, EntityOps
<1>2. ~Half(worker[w]) /\ e \in Entities /\ allowed \in Vocabularies
  BY <1>1, AskedHandler DEF Asked, EntityTypeValidate, Rules
<1>3. written \in Labels /\ note \in BOOLEAN
  BY <1>2, NearestOk
<1> HIDE DEF written, note, e
<1>4. EntOk(ent')
  <2>1. CASE ent' = ent
    BY <2>1 DEF HandlerInv, Tables
  <2>2. CASE Exists(e) /\ ent' = [ent EXCEPT ![e].type = written, ![e].noted = @ \/ note]
    <3>1. ent \in [Entities -> Ent \cup {NoEnt}] /\ ent[e] \in Ent /\ ent[e].desc \notin {"ungrounded", "jargon"}
      BY <1>2, <2>2 DEF Exists, HandlerInv, Tables, EntOk
    <3> DEFINE x == [ent[e] EXCEPT !.type = written, !.noted = @ \/ note]
    <3>2. x \in Ent /\ x.desc = ent[e].desc
      <4>1. ent[e].noted \in BOOLEAN
        BY <3>1 DEF Ent
      <4>2. (ent[e].noted \/ note) \in BOOLEAN
        BY <1>3, <4>1
      <4> QED BY <1>3, <3>1, <4>2 DEF Ent
    <3>3. ent' = [ent EXCEPT ![e] = x]
      BY <2>2
    <3> HIDE DEF x
    <3>4. \A f \in Entities : ent'[f] = IF f = e THEN x ELSE ent[f]
      BY <3>1, <3>3
    <3> QED BY <3>1, <3>2, <3>3, <3>4 DEF HandlerInv, Tables, EntOk
  <2> QED BY <1>1, <2>1, <2>2
<1> QED BY <1>1, <1>2, <1>4, HandlerEnds DEF HandlerInv, Tables

\* A weight leaves ids and triples alone.
LEMMA CalibrateStep ==
  ASSUME HandlerInv, NEW w \in Workers, NEW h \in BOOLEAN, WeightCalibrate(w, h), Tracked({})
  PROVE  HandlerInv'
<1> DEFINE k == worker[w].key
           new(r) == IF r.id = k THEN [r EXCEPT !.high = h] ELSE r
<1>1. worker[w].pc = "asked" /\ Ends(w) /\ UNCHANGED <<mem, index, ver, ent, bound, seen>> /\ rel' = {new(r) : r \in rel}
  BY DEF WeightCalibrate, Asked
<1>2. RelOk(rel')
  <2>1. RelOk(rel)
    BY DEF HandlerInv, Tables
  <2>2. \A r \in rel : new(r) \in Rel /\ new(r).id = r.id /\ new(r).s = r.s /\ new(r).t = r.t /\ new(r).relation = r.relation
    BY <2>1 DEF RelOk, Rel
  <2> HIDE DEF new
  <2>3. \A p \in rel' : \E r \in rel : p = new(r)
    BY <1>1
  <2>4. rel' \subseteq Rel
    BY <2>2, <2>3
  <2>5. ASSUME NEW p \in rel', NEW q \in rel', p.id = q.id \/ (p.s = q.s /\ p.t = q.t /\ p.relation = q.relation)
        PROVE  p = q
    <3>1. PICK a \in rel : p = new(a)
      BY <2>3
    <3>2. PICK b \in rel : q = new(b)
      BY <2>3
    <3>3. a = b
      BY <2>1, <2>2, <2>5, <3>1, <3>2 DEF RelOk
    <3> QED BY <3>1, <3>2, <3>3
  <2> QED BY <2>4, <2>5 DEF RelOk
<1> QED BY <1>1, <1>2, AskedHandler, HandlerEnds DEF HandlerInv, Tables

\* The relation of a pair is changed unless the pair has that relation already.
LEMMA ReclassifyStep ==
  ASSUME HandlerInv, NEW w \in Workers, NEW r \in {Generic, "uses"}, NEW h \in BOOLEAN, RelationReclassify(w, r, h), Tracked({})
  PROVE  HandlerInv'
<1> DEFINE k == worker[w].key
           mine == {q \in rel : q.id = k}
           new(q) == [q EXCEPT !.relation = r, !.high = h]
           clash == \E q \in mine, o \in rel : o.id # q.id /\ o.s = q.s /\ o.t = q.t /\ o.relation = r
<1>1. worker[w].pc = "asked" /\ Ends(w) /\ UNCHANGED <<mem, index, ver, ent, bound, seen>>
      /\ rel' = IF clash THEN rel ELSE (rel \ mine) \cup {new(q) : q \in mine}
  BY DEF RelationReclassify, Asked
<1>2. RelOk(rel)
  BY DEF HandlerInv, Tables
<1>3. RelOk(rel')
  <2>1. CASE clash
    BY <1>1, <1>2, <2>1
  <2>2. CASE ~clash
    <3>1. \A q \in mine : new(q) \in Rel /\ new(q).id = q.id /\ new(q).s = q.s /\ new(q).t = q.t /\ new(q).relation = r
      BY <1>2 DEF RelOk, Rel
    <3>2. \A p, q \in mine : p = q
      BY <1>2 DEF RelOk
    <3>3. \A q \in mine : \A o \in rel : ~(o.id # q.id /\ o.s = q.s /\ o.t = q.t /\ o.relation = r)
      BY <2>2
    <3>4. mine \in SUBSET rel /\ \A o \in rel \ mine : \A q \in mine : o.id # q.id
      OBVIOUS
    <3>5. rel' = (rel \ mine) \cup {new(q) : q \in mine}
      BY <1>1, <2>2
    <3> HIDE DEF new, mine, clash
    <3>6. \A p \in rel' : p \in rel \ mine \/ \E q \in mine : p = new(q)
      BY <3>5
    <3>7. rel' \subseteq Rel
      BY <1>2, <3>1, <3>6 DEF RelOk
    <3>8. ASSUME NEW o \in rel \ mine, NEW q \in mine
          PROVE  o.id # new(q).id /\ ~(o.s = new(q).s /\ o.t = new(q).t /\ o.relation = new(q).relation)
      BY <3>1, <3>3, <3>4
    <3>9. ASSUME NEW p \in rel', NEW q \in rel', p.id = q.id \/ (p.s = q.s /\ p.t = q.t /\ p.relation = q.relation)
          PROVE  p = q
      <4>1. CASE p \in rel \ mine /\ q \in rel \ mine
        BY <1>2, <3>9, <4>1 DEF RelOk
      <4>2. CASE p \in rel \ mine /\ q \notin rel \ mine
        BY <3>6, <3>8, <3>9, <4>2
      <4>3. CASE p \notin rel \ mine /\ q \in rel \ mine
        <5>1. PICK a \in mine : p = new(a)
          BY <3>6, <4>3
        <5> QED BY <3>8, <3>9, <4>3, <5>1
      <4>4. CASE p \notin rel \ mine /\ q \notin rel \ mine
        BY <3>2, <3>6, <4>4
      <4> QED BY <4>1, <4>2, <4>3, <4>4
    <3> QED BY <3>7, <3>9 DEF RelOk
  <2> QED BY <2>1, <2>2
<1> QED BY <1>1, <1>3, AskedHandler, HandlerEnds DEF HandlerInv, Tables

\* The two ends of a pair are entities.
LEMMA PairEnds ==
  ASSUME NEW p \in Pairs
  PROVE  p[1] \in Entities /\ p[2] \in Entities
BY DEF Pairs

\* A pair is judged, with or without a relationship.
LEMMA ConnectStep ==
  ASSUME HandlerInv, NEW w \in Workers, NEW v \in {"none", "uses"}, NEW b, EntityConnect(w, v, b), Tracked({})
  PROVE  HandlerInv'
<1> DEFINE p == worker[w].key
<1>1. /\ worker[w].pc = "asked" /\ worker[w].op = "entity-connect" /\ RoomForRel /\ Ends(w)
      /\ UNCHANGED <<mem, index, ver, ent, bound>>
      /\ rel' = rel \/ (v # "none" /\ rel' = UpsertRelationship(p[1], p[2], v, TRUE))
      /\ seen' = seen \/ seen' = seen \cup {p}
  BY DEF EntityConnect, Asked
<1>2. p \in Pairs
  BY <1>1, AskedHandler
<1>3. RelOk(rel) /\ seen \subseteq Pairs
  BY DEF HandlerInv, Tables
<1>4. RelOk(rel')
  BY <1>1, <1>2, <1>3, PairEnds, UpsertOk DEF Generic
<1> QED BY <1>1, <1>2, <1>3, <1>4, AskedHandler, HandlerEnds DEF HandlerInv, Tables

-----------------------------------------------------------------------------
(* Handlers: the statements that write a memory *)

\* The domain of a memory is not in the index.
LEMMA DomainStep ==
  ASSUME HandlerInv, NEW w \in Workers, DomainClassify(w), Tracked({})
  PROVE  HandlerInv'
<1> DEFINE n == worker[w].row.n
           x == [mem[n] EXCEPT !.domain = TRUE]
<1>1. /\ worker[w].pc = "asked" /\ worker[w].op \in MemoryOps /\ Ends(w)
      /\ mem' = [mem EXCEPT ![n] = x] /\ UNCHANGED <<index, ver, ent, bound, rel, seen>>
  BY DEF DomainClassify, Asked, MemoryOps
<1>2. n \in Namespaces /\ ~Half(worker[w])
  BY <1>1, AskedHandler DEF MemoryRow
<1>3. MemOk(mem) /\ mem[n] \in [body: Bodies, desc: Descs, domain: BOOLEAN, live: BOOLEAN]
  BY <1>2 DEF HandlerInv, Tables, MemOk
<1>4. /\ x \in [body: Bodies, desc: Descs, domain: BOOLEAN, live: BOOLEAN]
      /\ x.body = mem[n].body /\ x.desc = mem[n].desc /\ x.live = mem[n].live
  BY <1>3
<1> HIDE DEF n, x
<1>5. \A m \in Namespaces : mem'[m] = IF m = n THEN x ELSE mem[m]
  BY <1>1, <1>3 DEF MemOk
<1>6. MemOk(mem')
  BY <1>1, <1>3, <1>4 DEF MemOk
<1>7. \A m \in Namespaces : mem'[m].body = mem[m].body /\ mem'[m].desc = mem[m].desc /\ mem'[m].live = mem[m].live
  BY <1>4, <1>5
<1>8. HandlersOk(worker')
  BY <1>1, HandlerMoves, IdleHandler DEF Ends, HandlerInv
<1>9. TextInv'
  BY <1>1, <1>2, <1>7, TextKept, IdleHandler DEF Ends, HandlerInv, Half
<1> QED BY <1>1, <1>6, <1>8, <1>9 DEF HandlerInv, Tables

\* body-enrich reads the row again: what it holds is there.
LEMMA RereadStep ==
  ASSUME HandlerInv, NEW w \in Workers, RereadBody(w), Tracked({})
  PROVE  HandlerInv'
<1> DEFINE n == worker[w].row.n
           row == [n |-> n, body |-> mem[n].body, desc |-> mem[n].desc]
           r == [worker[w] EXCEPT !.pc = "update", !.row = row]
           v == [body |-> "enriched", desc |-> mem[n].desc]
<1>1. /\ worker[w].pc = "asked" /\ worker[w].op \in MemoryOps
      /\ ver' = [ver EXCEPT ![n] = v]
      /\ worker' = [worker EXCEPT ![w].pc = "update", ![w].row = row]
      /\ UNCHANGED <<mem, index, ent, bound, rel, seen>>
  BY DEF RereadBody, Asked, MemoryOps
<1>2. n \in Namespaces /\ KeyOk(worker[w])
      /\ worker[w] = [pc |-> "asked", op |-> worker[w].op, key |-> worker[w].key, row |-> worker[w].row]
  BY <1>1, AskedHandler DEF MemoryRow
<1>3. mem[n] \in [body: Bodies, desc: Descs, domain: BOOLEAN, live: BOOLEAN]
  BY <1>2 DEF HandlerInv, Tables, MemOk
<1>4. row \in MemoryRow /\ row.n = n /\ row.body = mem[n].body /\ row.desc = mem[n].desc
      /\ v \in [body: Bodies, desc: Descs]
  BY <1>2, <1>3 DEF MemoryRow, Bodies
<1>5. worker' = [worker EXCEPT ![w] = r]
  <2> HIDE DEF row
  <2> QED BY <1>1
<1>6. Handler(r) /\ r.pc = "update" /\ r.op = worker[w].op /\ r.key = worker[w].key /\ r.row = row
  <2>1. r.pc = "update" /\ r.op = worker[w].op /\ r.key = worker[w].key /\ r.row = row
    <3> HIDE DEF row
    <3> QED BY <1>2
  <2> HIDE DEF row, r
  <2> QED BY <1>1, <1>2, <1>4, <2>1 DEF Handler, KeyOk
<1> HIDE DEF r, v, row, n
<1>7. HandlersOk(worker')
  BY <1>1, <1>5, <1>6, HandlerMoves DEF HandlerInv
<1>8. TextInv'
  BY <1>1, <1>2, <1>5, <1>6, TextKept, AskedHandler DEF HandlerInv, Half
<1>9. Tables'
  BY <1>1, <1>4 DEF HandlerInv, Tables
<1> QED BY <1>7, <1>8, <1>9 DEF HandlerInv

\* The index update brings the new fields in and takes no other text out.
LEMMA SyncBrings ==
  ASSUME NEW x, NEW old, NEW new
  PROVE  {new.body, new.desc} \subseteq SyncFts(x, old, new)
BY DEF SyncFts

\* A statement of a handler, the only one at work on memories, that writes one memory and leaves
\* its index update to a later one: memories others have half written stay among the lost.
LEMMA WritesRow ==
  ASSUME HandlerInv, NEW w \in Workers, worker[w].pc # "idle", worker[w].op \in MemoryOps,
         NEW r, worker' = [worker EXCEPT ![w] = r], Handler(r), r.pc = "sync", r.op = worker[w].op, r.key = worker[w].key,
         NEW n \in Namespaces, r.n = n, NEW x \in [body: Bodies, desc: Descs, domain: BOOLEAN, live: BOOLEAN],
         mem' = [mem EXCEPT ![n] = x], ~Half(worker[w]),
         UNCHANGED <<index, ver, ent, bound, rel, seen>>, Tracked({}),
         n \notin lost /\ x.live => {x.body, x.desc} \subseteq SyncFts(index[n], r.old, r.new)
  PROVE  HandlerInv'
<1>1. MemOk(mem) /\ \A v \in Workers \ {w} : worker[v].pc = "idle"
  BY HandlerAt DEF HandlerInv, Tables
<1>2. \A m \in Namespaces : mem'[m] = IF m = n THEN x ELSE mem[m]
  BY <1>1 DEF MemOk
<1>3. MemOk(mem')
  BY <1>1 DEF MemOk
<1>4. HandlersOk(worker')
  BY HandlerMoves DEF HandlerInv
<1>5. \A u \in Workers : worker'[u] = IF u = w THEN r ELSE worker[u]
  BY DEF HandlerInv, HandlersOk
<1>6. HalfWritten(w, n)' /\ (n \notin lost' => n \notin lost)
  BY <1>5, LostLeft DEF HalfWritten
<1>7. LiveTextSearchable'
  <2>1. SUFFICES ASSUME NEW m \in Namespaces, mem'[m].live, m \notin lost', \A u \in Workers : ~HalfWritten(u, m)'
                 PROVE  Found(m)'
    BY DEF LiveTextSearchable
  <2>2. m # n
    BY <1>6, <2>1
  <2>3. \A u \in Workers : ~HalfWritten(u, m)
    BY <1>1 DEF HalfWritten, Half
  <2>4. Found(m)' \/ m \notin lost
    BY <2>1, LostLeft
  <2> QED BY <1>2, <2>1, <2>2, <2>3, <2>4 DEF HandlerInv, TextInv, LiveTextSearchable, Found
<1>8. ASSUME NEW u \in Workers PROVE HalfOk(worker'[u], mem', index', lost')
  <2>1. CASE u = w
    BY <1>2, <1>5, <1>6, <2>1 DEF HalfOk
  <2>2. CASE u # w
    BY <1>1, <1>5, <2>2 DEF HalfOk
  <2> QED BY <2>1, <2>2
<1> QED BY <1>3, <1>4, <1>7, <1>8 DEF HandlerInv, TextInv, Tables

\* What the handlers write and what they look up are of the tables.
LEMMA WrittenRow ==
  ASSUME HandlerInv, NEW n \in Namespaces, NEW b \in Bodies, NEW d \in Descs
  PROVE  /\ mem[n] \in [body: Bodies, desc: Descs, domain: BOOLEAN, live: BOOLEAN]
         /\ [mem[n] EXCEPT !.body = b, !.desc = d] \in [body: Bodies, desc: Descs, domain: BOOLEAN, live: BOOLEAN]
         /\ [mem[n] EXCEPT !.body = b, !.desc = d].body = b
         /\ [mem[n] EXCEPT !.body = b, !.desc = d].desc = d
         /\ [mem[n] EXCEPT !.body = b, !.desc = d].live = mem[n].live
BY DEF HandlerInv, Tables, MemOk

\* The handler before its index update.
LEMMA SyncHandler ==
  ASSUME NEW op, NEW key, NEW n \in Namespaces, NEW old, NEW new, IsText(old), IsText(new), op \in MemoryOps,
         NEW r, r = [pc |-> "sync", op |-> op, key |-> key, n |-> n, old |-> old, new |-> new],
         NEW q, KeyOk(q), q.op = op, q.key = key
  PROVE  /\ Handler(r) /\ r.pc = "sync" /\ r.op = op /\ r.key = key /\ r.n = n /\ r.old = old /\ r.new = new
<1>1. r.pc = "sync" /\ r.op = op /\ r.key = key /\ r.n = n /\ r.old = old /\ r.new = new
  OBVIOUS
<1> QED BY <1>1 DEF Handler, KeyOk

\* memories::update of body-enrich.  The row it writes back is the one it has read again, or
\* somebody wrote the memory since.
LEMMA UpdateBodyStep ==
  ASSUME HandlerInv, NEW w \in Workers, UpdateBody(w), Tracked({})
  PROVE  HandlerInv'
<1> DEFINE row == worker[w].row
           n == row.n
           new == [body |-> "enriched", desc |-> row.desc]
           r == [pc |-> "sync", op |-> worker[w].op, key |-> worker[w].key, n |-> n, old |-> row, new |-> new]
           y == [mem[n] EXCEPT !.body = "enriched", !.desc = row.desc]
           x == IF mem[n].live THEN y ELSE mem[n]
<1>1. worker[w].pc = "update" /\ worker' = [worker EXCEPT ![w] = r] /\ UNCHANGED <<index, ver, ent, bound, rel, seen>>
      /\ mem' = IF mem[n].live THEN [mem EXCEPT ![n] = y] ELSE mem
  BY DEF UpdateBody
<1>2. worker[w].op \in MemoryOps /\ row \in MemoryRow /\ KeyOk(worker[w])
  BY <1>1, HandlerAt DEF HandlerInv, Handler
<1>3. n \in Namespaces /\ IsText(row) /\ IsText(new) /\ new.body = "enriched" /\ new.desc = row.desc
      /\ row.desc \in Descs /\ "enriched" \in Bodies
  BY <1>2 DEF MemoryRow, IsText, Bodies
<1>4. /\ x \in [body: Bodies, desc: Descs, domain: BOOLEAN, live: BOOLEAN] /\ x.live = mem[n].live
      /\ x.live => x.body = "enriched" /\ x.desc = row.desc
  BY <1>3, WrittenRow
<1>5. mem' = [mem EXCEPT ![n] = x]
  <2>1. MemOk(mem)
    BY DEF HandlerInv, Tables
  <2> QED BY <1>1, <2>1 DEF MemOk
<1>6. Handler(r) /\ r.pc = "sync" /\ r.op = worker[w].op /\ r.key = worker[w].key /\ r.n = n /\ r.old = row /\ r.new = new
  <2> HIDE DEF n, new, row
  <2> QED BY <1>2, <1>3, SyncHandler
<1>7. {new.body, new.desc} \subseteq SyncFts(index[n], row, new)
  BY SyncBrings
<1>8. x.live => {x.body, x.desc} \subseteq SyncFts(index[n], r.old, r.new)
  <2> HIDE DEF x, r, n, row, new
  <2> QED BY <1>3, <1>4, <1>6, <1>7
<1>9. ~Half(worker[w])
  BY <1>1 DEF Half
<1>10. worker' = [worker EXCEPT ![w] = r] /\ worker[w].pc # "idle"
  BY <1>1
<1> HIDE DEF x, y, r, n, row, new
<1>11. UNCHANGED <<index, ver, ent, bound, rel, seen>>
  BY <1>1
<1>12. n \notin lost /\ x.live => {x.body, x.desc} \subseteq SyncFts(index[n], r.old, r.new)
  BY <1>8
<1>13. x \in [body: Bodies, desc: Descs, domain: BOOLEAN, live: BOOLEAN]
  BY <1>4
<1> QED BY <1>2, <1>3, <1>5, <1>6, <1>9, <1>10, <1>11, <1>12, <1>13, WritesRow, ZenonT(60)

\* While its only handler waits for an answer, a live memory is found by what it says.
LEMMA FoundWhileAsked ==
  ASSUME HandlerInv, NEW w \in Workers, worker[w].pc = "asked", worker[w].op \in MemoryOps,
         NEW n \in Namespaces, mem[n].live, n \notin lost
  PROVE  mem[n].body \in index[n] /\ mem[n].desc \in index[n]
<1>1. \A v \in Workers : ~HalfWritten(v, n)
  BY HandlerAt DEF HandlerInv, HalfWritten
<1> QED BY <1>1 DEF HandlerInv, TextInv, LiveTextSearchable, Found

\* No text is a body and a description.
LEMMA TextKinds == Bodies \cap Descs = {} /\ "enriched" \in Bodies /\ "extracted" \in Bodies /\ "described" \in Descs
BY DEF Bodies, Descs

\* The description is written over a row that may have changed during the call; the index update
\* takes out what was read before it, which is never the body that came in meanwhile.
LEMMA UpdateDescriptionStep ==
  ASSUME HandlerInv, NEW w \in Workers, UpdateDescription(w), Tracked({})
  PROVE  HandlerInv'
<1> DEFINE row == worker[w].row
           n == row.n
           new == [row EXCEPT !.desc = "described"]
           r == [pc |-> "sync", op |-> worker[w].op, key |-> worker[w].key, n |-> n, old |-> row, new |-> new]
           x == [mem[n] EXCEPT !.desc = "described"]
<1>1. /\ worker[w].pc = "asked" /\ worker[w].op \in MemoryOps
      /\ worker' = [worker EXCEPT ![w] = r] /\ UNCHANGED <<index, ver, ent, bound, rel, seen>>
      /\ mem' = [mem EXCEPT ![n] = x]
  BY DEF UpdateDescription, Asked, MemoryOps
<1>2. row \in MemoryRow /\ KeyOk(worker[w])
  BY <1>1, AskedHandler
<1>3. /\ n \in Namespaces /\ IsText(row) /\ IsText(new) /\ new.body = row.body /\ new.desc = "described"
      /\ row.body \in Bodies /\ row.desc \in Descs
  BY <1>2, TextKinds DEF MemoryRow, IsText
<1>4. /\ x \in [body: Bodies, desc: Descs, domain: BOOLEAN, live: BOOLEAN] /\ x.live = mem[n].live
      /\ x.body = mem[n].body /\ x.desc = "described" /\ mem[n].body \in Bodies
  BY <1>3, TextKinds DEF HandlerInv, Tables, MemOk
<1>5. Handler(r) /\ r.pc = "sync" /\ r.op = worker[w].op /\ r.key = worker[w].key /\ r.n = n /\ r.old = row /\ r.new = new
  <2> HIDE DEF n, new, row
  <2> QED BY <1>1, <1>2, <1>3, SyncHandler
<1>6. worker[w].pc # "idle" /\ ~Half(worker[w]) /\ worker' = [worker EXCEPT ![w] = r]
      /\ UNCHANGED <<index, ver, ent, bound, rel, seen>> /\ mem' = [mem EXCEPT ![n] = x]
  BY <1>1 DEF Half
<1> HIDE DEF x, r, n, row, new
<1>7. n \notin lost /\ x.live => {x.body, x.desc} \subseteq SyncFts(index[n], r.old, r.new)
  <2>1. SUFFICES ASSUME n \notin lost, mem[n].live PROVE {x.body, x.desc} \subseteq SyncFts(index[n], row, new)
    BY <1>4, <1>5
  <2>2. mem[n].body \in index[n]
    BY <1>1, <1>3, <2>1, FoundWhileAsked
  <2>3. mem[n].body # row.desc
    BY <1>3, <1>4, TextKinds
  <2> QED BY <1>3, <1>4, <2>2, <2>3 DEF SyncFts
<1>8. x \in [body: Bodies, desc: Descs, domain: BOOLEAN, live: BOOLEAN]
  BY <1>4
<1>9. UNCHANGED <<index, ver, ent, bound, rel, seen>>
  BY <1>6
<1>10. worker[w].pc # "idle" /\ ~Half(worker[w])
  BY <1>6
<1>11. worker' = [worker EXCEPT ![w] = r] /\ mem' = [mem EXCEPT ![n] = x] /\ worker[w].op \in MemoryOps /\ n \in Namespaces
  BY <1>1, <1>3, <1>6
<1> QED BY <1>5, <1>7, <1>8, <1>9, <1>10, <1>11, WritesRow, ZenonT(60)

\* The same of the body that body-extract writes.
LEMMA BodyExtractStep ==
  ASSUME HandlerInv, NEW w \in Workers, BodyExtract(w), Tracked({})
  PROVE  HandlerInv'
<1> DEFINE row == worker[w].row
           n == row.n
           new == [row EXCEPT !.body = "extracted"]
           r == [pc |-> "sync", op |-> worker[w].op, key |-> worker[w].key, n |-> n, old |-> row, new |-> new]
           x == [mem[n] EXCEPT !.body = "extracted"]
<1>1. /\ worker[w].pc = "asked" /\ worker[w].op \in MemoryOps
      /\ worker' = [worker EXCEPT ![w] = r] /\ UNCHANGED <<index, ver, ent, bound, rel, seen>>
      /\ mem' = [mem EXCEPT ![n] = x]
  BY DEF BodyExtract, Asked, MemoryOps
<1>2. row \in MemoryRow /\ KeyOk(worker[w])
  BY <1>1, AskedHandler
<1>3. /\ n \in Namespaces /\ IsText(row) /\ IsText(new) /\ new.body = "extracted" /\ new.desc = row.desc
      /\ row.body \in Bodies /\ row.desc \in Descs
  BY <1>2, TextKinds DEF MemoryRow, IsText
<1>4. /\ x \in [body: Bodies, desc: Descs, domain: BOOLEAN, live: BOOLEAN] /\ x.live = mem[n].live
      /\ x.desc = mem[n].desc /\ x.body = "extracted" /\ mem[n].desc \in Descs
  BY <1>3, TextKinds DEF HandlerInv, Tables, MemOk
<1>5. Handler(r) /\ r.pc = "sync" /\ r.op = worker[w].op /\ r.key = worker[w].key /\ r.n = n /\ r.old = row /\ r.new = new
  <2> HIDE DEF n, new, row
  <2> QED BY <1>1, <1>2, <1>3, SyncHandler
<1>6. worker[w].pc # "idle" /\ ~Half(worker[w]) /\ worker' = [worker EXCEPT ![w] = r]
      /\ UNCHANGED <<index, ver, ent, bound, rel, seen>> /\ mem' = [mem EXCEPT ![n] = x]
  BY <1>1 DEF Half
<1> HIDE DEF x, r, n, row, new
<1>7. n \notin lost /\ x.live => {x.body, x.desc} \subseteq SyncFts(index[n], r.old, r.new)
  <2>1. SUFFICES ASSUME n \notin lost, mem[n].live PROVE {x.body, x.desc} \subseteq SyncFts(index[n], row, new)
    BY <1>4, <1>5
  <2>2. mem[n].desc \in index[n]
    BY <1>1, <1>3, <2>1, FoundWhileAsked
  <2>3. mem[n].desc # row.body
    BY <1>3, <1>4, TextKinds
  <2> QED BY <1>3, <1>4, <2>2, <2>3 DEF SyncFts
<1>8. x \in [body: Bodies, desc: Descs, domain: BOOLEAN, live: BOOLEAN]
  BY <1>4
<1>9. UNCHANGED <<index, ver, ent, bound, rel, seen>>
  BY <1>6
<1>10. worker[w].pc # "idle" /\ ~Half(worker[w])
  BY <1>6
<1>11. worker' = [worker EXCEPT ![w] = r] /\ mem' = [mem EXCEPT ![n] = x] /\ worker[w].op \in MemoryOps /\ n \in Namespaces
  BY <1>1, <1>3, <1>6
<1> QED BY <1>5, <1>7, <1>8, <1>9, <1>10, <1>11, WritesRow, ZenonT(60)

\* The first statement of the index update takes out what was read; what the second one brings
\* in is still to come.
LEMMA TakeOutStep ==
  ASSUME HandlerInv, NEW w \in Workers, TakeOut(w), Tracked({})
  PROVE  HandlerInv'
<1> DEFINE q == worker[w]
           n == q.n
           x == index[n] \ {q.old.body, q.old.desc}
           r == [pc |-> "insert", op |-> q.op, key |-> q.key, n |-> q.n, old |-> q.old, new |-> q.new]
<1>1. /\ q.pc = "sync" /\ worker' = [worker EXCEPT ![w].pc = "insert"] /\ index' = [index EXCEPT ![n] = x]
      /\ UNCHANGED <<mem, ver, ent, bound, rel, seen>>
  BY DEF TakeOut
<1>2. /\ q.op \in MemoryOps /\ n \in Namespaces /\ IsText(q.old) /\ IsText(q.new) /\ KeyOk(q)
      /\ q = [pc |-> q.pc, op |-> q.op, key |-> q.key, n |-> q.n, old |-> q.old, new |-> q.new]
      /\ \A v \in Workers \ {w} : worker[v].pc = "idle"
  BY <1>1, HandlerAt DEF HandlerInv, Handler
<1>3. [q EXCEPT !.pc = "insert"] = r
  <2> HIDE DEF q
  <2> QED BY <1>2
<1>4. worker' = [worker EXCEPT ![w] = r]
  <2>1. worker' = [worker EXCEPT ![w] = [q EXCEPT !.pc = "insert"]]
    BY <1>1
  <2> QED BY <1>3, <2>1
<1>5. r.pc = "insert" /\ r.op = q.op /\ r.key = q.key /\ r.n = n /\ r.old = q.old /\ r.new = q.new
      /\ r = [pc |-> r.pc, op |-> r.op, key |-> r.key, n |-> r.n, old |-> r.old, new |-> r.new]
  OBVIOUS
<1>6. IndexOk(index) /\ x \in SUBSET (Bodies \cup Descs)
  BY <1>2 DEF HandlerInv, Tables, IndexOk
<1>7. n \notin lost /\ mem[n].live => {mem[n].body, mem[n].desc} \subseteq x \cup {q.new.body, q.new.desc}
  <2>1. n \notin lost /\ mem[n].live => {mem[n].body, mem[n].desc} \subseteq SyncFts(index[n], q.old, q.new)
    BY <1>1 DEF HandlerInv, TextInv, HalfOk
  <2> QED BY <2>1 DEF SyncFts
<1> HIDE DEF x, n, r
<1>8. Handler(r)
  BY <1>2, <1>5 DEF Handler, KeyOk
<1>9. HandlersOk(worker')
  BY <1>1, <1>4, <1>5, <1>8, HandlerMoves DEF HandlerInv
<1>10. \A v \in Workers : worker'[v] = IF v = w THEN r ELSE worker[v]
  BY <1>4 DEF HandlerInv, HandlersOk
<1>11. \A m \in Namespaces : index'[m] = IF m = n THEN x ELSE index[m]
  BY <1>1, <1>6 DEF IndexOk
<1>12. IndexOk(index')
  BY <1>1, <1>6 DEF IndexOk
<1>13. \A k \in Namespaces : k = n => HalfWritten(w, k)' /\ (k \notin lost' => k \notin lost)
  <2>1. SUFFICES ASSUME NEW k \in Namespaces, k = n PROVE HalfWritten(w, k)' /\ (k \notin lost' => k \notin lost)
    OBVIOUS
  <2>2. HalfWritten(w, k)'
    BY <1>5, <1>10, <2>1 DEF HalfWritten
  <2> QED BY <2>2, LostLeft
<1>14. LiveTextSearchable'
  <2>1. SUFFICES ASSUME NEW m \in Namespaces, mem'[m].live, m \notin lost', \A v \in Workers : ~HalfWritten(v, m)'
                 PROVE  Found(m)'
    BY DEF LiveTextSearchable
  <2>2. m # n
    BY <1>13, <2>1
  <2>3. \A v \in Workers : ~HalfWritten(v, m)
    BY <1>2, <2>2 DEF HalfWritten, n
  <2>4. Found(m)' \/ m \notin lost
    BY <2>1, LostLeft
  <2> QED BY <1>1, <1>11, <2>1, <2>2, <2>3, <2>4 DEF HandlerInv, TextInv, LiveTextSearchable, Found
<1>15. ASSUME NEW v \in Workers PROVE HalfOk(worker'[v], mem', index', lost')
  <2>1. CASE v = w
    BY <1>1, <1>2, <1>5, <1>7, <1>10, <1>11, <1>13, <2>1 DEF HalfOk
  <2>2. CASE v # w
    BY <1>2, <1>10, <2>2 DEF HalfOk
  <2> QED BY <2>1, <2>2
<1> QED BY <1>1, <1>9, <1>12, <1>14, <1>15 DEF HandlerInv, TextInv, Tables

\* The second statement brings in what the handler wrote, unless somebody wrote the memory since.
LEMMA PutInStep ==
  ASSUME HandlerInv, NEW w \in Workers, PutIn(w), Tracked({})
  PROVE  HandlerInv'
<1> DEFINE n == worker[w].n
           x == index[n] \cup {worker[w].new.body, worker[w].new.desc}
<1>1. /\ worker[w].pc = "insert" /\ Ends(w) /\ index' = [index EXCEPT ![n] = x]
      /\ UNCHANGED <<mem, ver, ent, bound, rel, seen>>
  BY DEF PutIn
<1>2. /\ worker[w].op \in MemoryOps /\ n \in Namespaces /\ IsText(worker[w].new)
      /\ \A v \in Workers \ {w} : worker[v].pc = "idle"
  BY <1>1, HandlerAt DEF HandlerInv, Handler
<1>3. IndexOk(index) /\ x \in SUBSET (Bodies \cup Descs)
  BY <1>2 DEF HandlerInv, Tables, IndexOk, IsText
<1>4. n \notin lost /\ mem[n].live => {mem[n].body, mem[n].desc} \subseteq x
  BY <1>1 DEF HandlerInv, TextInv, HalfOk
<1> HIDE DEF x, n
<1>5. \A m \in Namespaces : index'[m] = IF m = n THEN x ELSE index[m]
  BY <1>1, <1>3 DEF IndexOk
<1>6. IndexOk(index')
  BY <1>1, <1>3 DEF IndexOk
<1>7. HandlersOk(worker') /\ \A v \in Workers : worker'[v].pc = "idle"
  <2>1. HandlersOk(worker')
    BY <1>1, HandlerMoves, IdleHandler DEF Ends, HandlerInv
  <2>2. \A v \in Workers : worker'[v] = IF v = w THEN Idle ELSE worker[v]
    BY <1>1 DEF Ends, HandlerInv, HandlersOk
  <2> QED BY <1>2, <2>1, <2>2, IdleHandler
<1>8. LiveTextSearchable'
  <2>1. SUFFICES ASSUME NEW m \in Namespaces, mem[m].live, m \notin lost'
                 PROVE  Found(m)'
    BY <1>1 DEF LiveTextSearchable
  <2>2. Found(m)' \/ m \notin lost
    BY <2>1, LostLeft
  <2>3. CASE m = n
    BY <1>1, <1>4, <1>5, <2>1, <2>2, <2>3 DEF Found
  <2>4. CASE m # n
    <3>1. \A v \in Workers : ~HalfWritten(v, m)
      BY <1>1, <1>2, <2>4 DEF HalfWritten, n
    <3> QED BY <1>1, <1>5, <2>1, <2>2, <2>4, <3>1 DEF HandlerInv, TextInv, LiveTextSearchable, Found
  <2> QED BY <2>3, <2>4
<1>9. \A v \in Workers : HalfOk(worker'[v], mem', index', lost')
  BY <1>7 DEF HalfOk
<1> QED BY <1>1, <1>6, <1>7, <1>8, <1>9 DEF HandlerInv, TextInv, Tables

\* A handler that stops between its statements leaves its memory among the lost.
LEMMA WriteFailsStep ==
  ASSUME HandlerInv, NEW w \in Workers, WriteFails(w), Tracked({n \in Namespaces : HalfWritten(w, n)})
  PROVE  HandlerInv'
<1> DEFINE cut == {n \in Namespaces : HalfWritten(w, n)}
<1>1. Ends(w) /\ UNCHANGED <<mem, index, ver, ent, bound, rel, seen>>
  BY DEF WriteFails, GivesUp, db
<1>2. HandlersOk(worker')
  BY <1>1, HandlerMoves, IdleHandler DEF Ends, HandlerInv
<1>3. \A v \in Workers : worker'[v] = IF v = w THEN Idle ELSE worker[v]
  BY <1>1 DEF Ends, HandlerInv, HandlersOk
<1>4. LiveTextSearchable'
  <2>1. SUFFICES ASSUME NEW m \in Namespaces, mem[m].live, m \notin lost', \A v \in Workers : ~HalfWritten(v, m)'
                 PROVE  Found(m)'
    BY <1>1 DEF LiveTextSearchable
  <2>2. Found(m)' \/ (m \notin lost /\ m \notin cut)
    BY <2>1, LostLeft
  <2>3. m \notin cut => \A v \in Workers : ~HalfWritten(v, m)
    BY <1>3, <2>1 DEF HalfWritten
  <2> QED BY <1>1, <2>1, <2>2, <2>3 DEF HandlerInv, TextInv, LiveTextSearchable, Found
<1>5. ASSUME NEW v \in Workers PROVE HalfOk(worker'[v], mem', index', lost')
  <2>1. CASE v = w
    BY <1>3, <2>1, IdleHandler DEF HalfOk
  <2>2. CASE v # w
    <3>1. worker'[v] = worker[v] /\ HalfOk(worker[v], mem, index, lost) /\ Handler(worker[v])
      BY <1>3, <2>2 DEF HandlerInv, TextInv, HandlersOk
    <3> QED BY <1>1, <3>1, HalfKept
  <2> QED BY <2>1, <2>2
<1> QED BY <1>1, <1>2, <1>4, <1>5 DEF HandlerInv, TextInv, Tables

-----------------------------------------------------------------------------
(* Handlers: commands of other processes *)

\* A command that writes a memory: with its index entry, unless the memory is forgotten.  A handler
\* that has it half written leaves it among the lost, or sees nothing changed and an index that grew.
LEMMA CommandWrites ==
  ASSUME HandlerInv, NEW n \in Namespaces, NEW x \in [body: Bodies, desc: Descs, domain: BOOLEAN, live: BOOLEAN],
         mem' = [mem EXCEPT ![n] = x], NEW ix \in SUBSET (Bodies \cup Descs), index' = [index EXCEPT ![n] = ix],
         ver' \in [Namespaces -> [body: Bodies, desc: Descs]], ent' = ent, bound' = bound, rel' = rel, seen' = seen,
         worker' = worker, Tracked({}), x.live => {x.body, x.desc} \subseteq ix, x = mem[n] => index[n] \subseteq ix
  PROVE  HandlerInv'
<1>1. MemOk(mem) /\ IndexOk(index)
  BY DEF HandlerInv, Tables
<1>2. \A m \in Namespaces : /\ mem'[m] = IF m = n THEN x ELSE mem[m]
                            /\ index'[m] = IF m = n THEN ix ELSE index[m]
  BY <1>1 DEF MemOk, IndexOk
<1>3. MemOk(mem') /\ IndexOk(index')
  BY <1>1 DEF MemOk, IndexOk
<1>5. LiveTextSearchable'
  <2>1. SUFFICES ASSUME NEW m \in Namespaces, mem'[m].live, m \notin lost', \A w \in Workers : ~HalfWritten(w, m)
                 PROVE  Found(m)'
    BY DEF LiveTextSearchable, HalfWritten
  <2>2. Found(m)' \/ m \notin lost
    BY <2>1, LostLeft
  <2>3. CASE m = n
    BY <1>2, <2>1, <2>3 DEF Found
  <2>4. CASE m # n
    BY <1>2, <2>1, <2>2, <2>4 DEF HandlerInv, TextInv, LiveTextSearchable, Found
  <2> QED BY <2>3, <2>4
<1>6. ASSUME NEW w \in Workers PROVE HalfOk(worker'[w], mem', index', lost')
  <2>1. HalfOk(worker[w], mem, index, lost) /\ Handler(worker[w])
    BY DEF HandlerInv, TextInv, HandlersOk
  <2>2. ASSUME Half(worker[w])
        PROVE  mem'[worker[w].n] # mem[worker[w].n] \/ index[worker[w].n] \subseteq index'[worker[w].n]
    <3>1. worker[w].n \in Namespaces
      BY <2>1, <2>2 DEF Handler, Half
    <3> QED BY <1>2, <3>1
  <2> QED BY <2>1, <2>2, HalfKept
<1>7. HandlersOk(worker')
  BY DEF HandlerInv
<1> QED BY <1>3, <1>5, <1>6, <1>7 DEF HandlerInv, TextInv, Tables

\* edit, forget and restore.
LEMMA EditBodyStep ==
  ASSUME HandlerInv, NEW n \in Namespaces, EditBody(n), worker' = worker, Tracked({})
  PROVE  HandlerInv'
<1> DEFINE x == [mem[n] EXCEPT !.body = "edited"]
           ix == SyncFts(index[n], mem[n], x)
           v == [body |-> "edited", desc |-> mem[n].desc]
<1>1. /\ mem' = [mem EXCEPT ![n] = x] /\ ver' = [ver EXCEPT ![n] = v]
      /\ ent' = ent /\ bound' = bound /\ rel' = rel /\ seen' = seen
  BY DEF EditBody
<1>2. MemOk(mem) /\ IndexOk(index) /\ mem[n] \in [body: Bodies, desc: Descs, domain: BOOLEAN, live: BOOLEAN]
      /\ index[n] \in SUBSET (Bodies \cup Descs) /\ ver \in [Namespaces -> [body: Bodies, desc: Descs]]
  BY DEF HandlerInv, Tables, MemOk, IndexOk
<1>3. /\ x \in [body: Bodies, desc: Descs, domain: BOOLEAN, live: BOOLEAN] /\ x.body = "edited" /\ x.desc = mem[n].desc
      /\ v \in [body: Bodies, desc: Descs] /\ x.body \in Bodies /\ x.desc \in Descs
  BY <1>2 DEF Bodies
<1>4. index' = [index EXCEPT ![n] = ix]
  <2>1. mem'[n] = x
    BY <1>1, <1>2 DEF MemOk
  <2> HIDE DEF x
  <2> QED BY <2>1 DEF EditBody
<1> HIDE DEF x, v
<1>5. ix \in SUBSET (Bodies \cup Descs)
  BY <1>2, <1>3 DEF SyncFts
<1>6. {x.body, x.desc} \subseteq ix
  BY SyncBrings
<1>7. x = mem[n] => index[n] \subseteq ix
  BY DEF SyncFts
<1>8. ver' \in [Namespaces -> [body: Bodies, desc: Descs]]
  BY <1>1, <1>2, <1>3
<1> HIDE DEF ix
<1> QED BY <1>1, <1>3, <1>4, <1>5, <1>6, <1>7, <1>8, CommandWrites

\* forget leaves the index as it is.
LEMMA ForgetStep ==
  ASSUME HandlerInv, NEW n \in Namespaces, Forget(n), worker' = worker, Tracked({})
  PROVE  HandlerInv'
<1> DEFINE x == [mem[n] EXCEPT !.live = FALSE]
<1>1. /\ mem[n].live /\ mem' = [mem EXCEPT ![n] = x]
      /\ index' = index /\ ver' = ver /\ ent' = ent /\ bound' = bound /\ rel' = rel /\ seen' = seen
  BY DEF Forget
<1>2. IndexOk(index) /\ mem[n] \in [body: Bodies, desc: Descs, domain: BOOLEAN, live: BOOLEAN]
      /\ index[n] \in SUBSET (Bodies \cup Descs) /\ ver \in [Namespaces -> [body: Bodies, desc: Descs]]
  BY DEF HandlerInv, Tables, MemOk, IndexOk
<1>3. x \in [body: Bodies, desc: Descs, domain: BOOLEAN, live: BOOLEAN] /\ ~x.live
  BY <1>2
<1>4. index' = [index EXCEPT ![n] = index[n]]
  BY <1>1, <1>2 DEF IndexOk
<1> HIDE DEF x
<1>5. ver' \in [Namespaces -> [body: Bodies, desc: Descs]]
  BY <1>1, <1>2
<1> QED BY <1>1, <1>2, <1>3, <1>4, <1>5, CommandWrites

\* restore brings the last version back, with its index entry.
LEMMA RestoreStep ==
  ASSUME HandlerInv, NEW n \in Namespaces, Restore(n), worker' = worker, Tracked({})
  PROVE  HandlerInv'
<1> DEFINE x == [mem[n] EXCEPT !.live = TRUE, !.body = ver[n].body, !.desc = ver[n].desc]
           ix == SyncFts(index[n], mem[n], ver[n])
<1>1. /\ mem' = [mem EXCEPT ![n] = x] /\ index' = [index EXCEPT ![n] = ix]
      /\ ver' = ver /\ ent' = ent /\ bound' = bound /\ rel' = rel /\ seen' = seen
  BY DEF Restore
<1>2. mem[n] \in [body: Bodies, desc: Descs, domain: BOOLEAN, live: BOOLEAN]
      /\ index[n] \in SUBSET (Bodies \cup Descs) /\ ver \in [Namespaces -> [body: Bodies, desc: Descs]]
      /\ ver[n] \in [body: Bodies, desc: Descs]
  BY DEF HandlerInv, Tables, MemOk, IndexOk
<1>3. /\ x \in [body: Bodies, desc: Descs, domain: BOOLEAN, live: BOOLEAN] /\ x.body = ver[n].body /\ x.desc = ver[n].desc
      /\ ver[n].body \in Bodies /\ ver[n].desc \in Descs
  BY <1>2
<1> HIDE DEF x
<1>4. ix \in SUBSET (Bodies \cup Descs)
  BY <1>2, <1>3 DEF SyncFts
<1>5. {x.body, x.desc} \subseteq ix
  BY <1>3 DEF SyncFts
<1>6. x = mem[n] => index[n] \subseteq ix
  BY <1>3 DEF SyncFts
<1>7. ver' \in [Namespaces -> [body: Bodies, desc: Descs]]
  BY <1>1, <1>2
<1> HIDE DEF ix
<1> QED BY <1>1, <1>3, <1>4, <1>5, <1>6, <1>7, CommandWrites

\* delete-entity: what is left is as it was, but for degrees.
LEMMA DeleteEntityStep ==
  ASSUME HandlerInv, NEW e \in Entities, DeleteEntity(e), worker' = worker, Tracked({})
  PROVE  HandlerInv'
<1> DEFINE t == [ent EXCEPT ![e] = NoEnt]
           D == UNION {{r.s, r.t} : r \in Incident(e)}
<1>1. /\ rel' = rel \ Incident(e) /\ ent' = RecalculateDegree(t, rel', D)
      /\ bound' \subseteq bound /\ seen' \subseteq seen
      /\ mem' = mem /\ index' = index /\ ver' = ver
  BY DEF DeleteEntity
<1>2. RelOk(rel')
  BY <1>1 DEF HandlerInv, Tables, RelOk
<1>3. EntOk(t)
  BY DEF HandlerInv, Tables, EntOk
<1> HIDE DEF t, D
<1>4. EntOk(ent')
  <2>1. \A R : RelOk(R) => EntOk(RecalculateDegree(t, R, D))
    BY <1>3, RecalculateOk
  <2> QED BY <1>1, <1>2, <2>1
<1>5. TextInv'
  BY <1>1, TextStill DEF HandlerInv
<1> QED BY <1>1, <1>2, <1>4, <1>5 DEF HandlerInv, Tables

-----------------------------------------------------------------------------
(* Handlers: the theorems *)

\* The answer of a call, whatever it says.
LEMMA AnsweredStep ==
  ASSUME HandlerInv, NEW w \in Workers, Answered(w), Tracked({})
  PROVE  HandlerInv'
<1>1. CASE Extracts(w)
  <2>1. ASSUME NEW E \in SUBSET Entities, NEW label \in {"concept", "gadget"}, NEW s \in Entities, NEW t \in Entities,
               NEW r \in {Generic, "uses"},
               PersistMemoryBindings(w, E, label, s, t, r) \/ DeepResearchSynth(w, E, label, s, t, r)
        PROVE  HandlerInv'
    BY <2>1, ExtractsStep
  <2> DEFINE A(E, label, s, t, r) == PersistMemoryBindings(w, E, label, s, t, r) \/ DeepResearchSynth(w, E, label, s, t, r)
  <2>2. \E E \in SUBSET Entities : \E label \in {"concept", "gadget"} : \E s \in Entities : \E t \in Entities :
          \E r \in {Generic, "uses"} : A(E, label, s, t, r)
    BY <1>1, SMTT(60) DEF Extracts
  <2>3. \A E \in SUBSET Entities : \A label \in {"concept", "gadget"} : \A s \in Entities : \A t \in Entities :
          \A r \in {Generic, "uses"} : A(E, label, s, t, r) => HandlerInv'
    BY <2>1
  <2> HIDE DEF A
  <2> QED BY <2>2, <2>3
<1>2. CASE \E d1, d2 \in Drafts : (d1 # "jargon" => d2 = "declined") /\ EntityDescription(w, d1, d2)
  BY <1>2, DescriptionStep
<1>3. CASE \E label \in Labels : EntityTypeValidate(w, label)
  BY <1>3, ValidateStep
<1>4. CASE \E h \in BOOLEAN : WeightCalibrate(w, h) \/ \E r \in {Generic, "uses"} : RelationReclassify(w, r, h)
  BY <1>4, CalibrateStep, ReclassifyStep
<1>5. CASE EntityConnect(w, "none", TRUE) \/ \E b \in BOOLEAN : EntityConnect(w, "uses", b)
  BY <1>5, ConnectStep
<1>6. CASE DomainClassify(w) \/ GraphAudit(w)
  BY <1>6, DomainStep, GivesUpStep
<1>7. CASE RereadBody(w) \/ UpdateDescription(w) \/ BodyExtract(w)
  BY <1>7, RereadStep, UpdateDescriptionStep, BodyExtractStep
<1> QED BY <1>1, <1>2, <1>3, <1>4, <1>5, <1>6, <1>7 DEF Answered

\* A command of another process.
LEMMA CommandStep ==
  ASSUME HandlerInv, Commands, Tracked({})
  PROVE  HandlerInv'
<1>1. ASSUME NEW n \in Namespaces, Command(EditBody(n)) \/ Command(Forget(n)) \/ Command(Restore(n)) PROVE HandlerInv'
  BY <1>1, EditBodyStep, ForgetStep, RestoreStep DEF Command
<1>2. ASSUME NEW e \in Entities, Command(DeleteEntity(e)) PROVE HandlerInv'
  BY <1>2, DeleteEntityStep DEF Command
<1> QED BY <1>1, <1>2 DEF Commands

\* Every step keeps the invariant.
LEMMA HandlersNext == HandlerInv /\ [Next]_vars => HandlerInv'
<1> SUFFICES ASSUME HandlerInv, [Next]_vars PROVE HandlerInv'
  OBVIOUS
<1>1. CASE UNCHANGED vars
  BY <1>1 DEF vars, HandlerInv, Tables, TextInv, LiveTextSearchable, HalfWritten, Found
<1>2. ASSUME NEW w \in Workers, WriteFails(w), Tracked({n \in Namespaces : HalfWritten(w, n)}) PROVE HandlerInv'
  BY <1>2, WriteFailsStep
<1>3. CASE Step /\ Tracked({})
  <2>1. Step /\ Tracked({})
    BY <1>3
  <2>2. CASE Commands
    BY <2>1, <2>2, CommandStep
  <2>3. ASSUME NEW w \in Workers, NEW op \in Ops, NEW min, NEW k, Claim(w, op, min, k) PROVE HandlerInv'
    BY <2>1, <2>3, ClaimStep
  <2>4. ASSUME NEW w \in Workers, Reads(w) PROVE HandlerInv'
    BY <2>1, <2>4, ReadsStep
  <2>5. ASSUME NEW w \in Workers, Answered(w) PROVE HandlerInv'
    BY <2>1, <2>5, AnsweredStep
  <2>6. ASSUME NEW w \in Workers, CallFails(w) PROVE HandlerInv'
    BY <2>1, <2>6, GivesUpStep
  <2>7. ASSUME NEW w \in Workers, Writes(w) PROVE HandlerInv'
    BY <2>1, <2>7, UpdateBodyStep, TakeOutStep, PutInStep DEF Writes
  <2>8. ASSUME NEW w \in Workers, ClaimPair(w) PROVE HandlerInv'
    BY <2>3, <2>8 DEF ClaimPair, Ops
  <2>9. ASSUME NEW w \in Workers, NEW op \in Ops, ClaimItem(w, op) PROVE HandlerInv'
    BY <2>3, <2>9 DEF ClaimItem
  <2> QED BY <2>1, <2>2, <2>4, <2>5, <2>6, <2>7, <2>8, <2>9 DEF Step
<1> QED BY <1>1, <1>2, <1>3 DEF Next

\* The inductive invariant of the call handlers.
THEOREM HandlersInvariant == Spec => []HandlerInv
BY HandlersInit, HandlersNext, PTL DEF Spec

\* Whatever workers, other workers and commands do between the reads of a handler, the call and
\* the statements that write its answer: live text is found, descriptions are grounded, ids and
\* triples of relationships are unique, and the backlog of --status is what the scans would enqueue.
THEOREM OpsAreSound == Spec => []OpsSound
BY HandlersInvariant, HandlersSound, PTL

\* What holds of a step that changes no type of an entity.
SameTypes == \A e \in Entities : Exists(e) /\ ent'[e] # NoEnt => ent'[e].type = ent[e].type
VocabularyStep == TypesAreKept /\ RetypedInVocabulary

\* Such a step changes types only as it may.
LEMMA SameTypesKept == SameTypes => VocabularyStep
BY DEF SameTypes, VocabularyStep, TypesAreKept, RetypedInVocabulary

\* Extraction gives a type to what is a "concept", in a handler that is not asked to.
LEMMA ExtractsKeepsTypes ==
  ASSUME HandlerInv, NEW w \in Workers, NEW E \in SUBSET Entities, NEW label \in {"concept", "gadget"},
         NEW s \in Entities, NEW t \in Entities, NEW r \in {Generic, "uses"},
         PersistMemoryBindings(w, E, label, s, t, r) \/ DeepResearchSynth(w, E, label, s, t, r)
  PROVE  VocabularyStep
<1> DEFINE up == UpsertEntitiesPreservingType(E, label)
           R  == IF s # t /\ up[s] # NoEnt /\ up[t] # NoEnt THEN UpsertRelationship(s, t, r, TRUE) ELSE rel
<1>1. /\ worker[w].pc = "asked" /\ worker[w].op \in MemoryOps /\ RoomForRel /\ Ends(w)
      /\ ent' = up \/ ent' = RecalculateDegree(up, R, IF R # rel THEN {s, t} ELSE {})
  BY DEF PersistMemoryBindings, DeepResearchSynth, Asked, MemoryOps
<1>2. /\ EntOk(up)
      /\ \A e \in Entities : Exists(e) => up[e] # NoEnt /\ (ent[e].type = "concept" \/ up[e].type = ent[e].type)
  BY PreservingOk DEF HandlerInv, Tables, Labels
<1>3. RelOk(R)
  BY <1>1, UpsertOk DEF HandlerInv, Tables
<1> HIDE DEF up, R
<1>4. SameNames(up, ent')
  <2>1. SameNames(up, up)
    BY DEF SameNames
  <2> QED BY <1>1, <1>2, <1>3, <2>1, RecalculateOk
<1>5. TypesAreKept
  BY <1>2, <1>4 DEF TypesAreKept, SameNames
<1>6. ASSUME NEW v \in Workers, Asked(v, {"entity-type-validate"}) PROVE worker'[v] = worker[v]
  <2>1. v # w
    BY <1>1, <1>6 DEF Asked, MemoryOps
  <2> QED BY <1>1, <2>1 DEF Ends, HandlerInv, HandlersOk
<1>7. RetypedInVocabulary
  BY <1>6 DEF RetypedInVocabulary
<1> QED BY <1>5, <1>7 DEF VocabularyStep

\* A description leaves the type alone.
LEMMA DescriptionKeepsTypes ==
  ASSUME HandlerInv, NEW w \in Workers, NEW d1, NEW d2, EntityDescription(w, d1, d2)
  PROVE  SameTypes
<1> DEFINE k == worker[w].key
           d == FinalDraft(d1, d2, worker[w].row.sufficient)
           x == [ent[k] EXCEPT !.desc = d, !.noted = FALSE]
<1>1. worker[w].pc = "asked" /\ worker[w].op \in EntityOps
      /\ (ent' = ent \/ (Exists(k) /\ ent' = [ent EXCEPT ![k] = x]))
  <2> HIDE DEF d
  <2> QED BY DEF EntityDescription, Asked, EntityOps, d
<1>2. k \in Entities
  BY <1>1, AskedHandler
<1>3. Exists(k) => x.type = ent[k].type
  BY <1>2 DEF Exists, HandlerInv, Tables, EntOk, Ent
<1> HIDE DEF x, k
<1>4. \A e \in Entities : ent'[e] = ent[e] \/ (Exists(k) /\ e = k /\ ent'[e] = x)
  BY <1>1, <1>2 DEF HandlerInv, Tables, EntOk
<1> QED BY <1>3, <1>4 DEF SameTypes

\* entity-type-validate changes the type of its own item, to a label of the vocabulary unless
\* the policy keeps unknown ones.
LEMMA ValidateKeepsVocabulary ==
  ASSUME HandlerInv, NEW w \in Workers, NEW label \in Labels, EntityTypeValidate(w, label)
  PROVE  VocabularyStep
<1> DEFINE k == worker[w].key
           policy == worker[w].row.rule.policy
           allowed == worker[w].row.rule.allowed
           unknown == label \notin allowed
           written == IF unknown /\ policy = "fallback" THEN Nearest(allowed, label) ELSE label
           note == unknown /\ policy = "fallback"
           x == [ent[k] EXCEPT !.type = written, !.noted = @ \/ note]
<1>1. Asked(w, {"entity-type-validate"}) /\ Ends(w)
      /\ (ent' = ent \/ (Exists(k) /\ ~(unknown /\ policy = "strict") /\ ent' = [ent EXCEPT ![k] = x]))
  BY DEF EntityTypeValidate
<1>2. k \in Entities /\ policy \in Policies /\ allowed \in Vocabularies
  BY <1>1, AskedHandler DEF Asked, EntityOps, Rules
<1>3. ~(unknown /\ policy = "strict") /\ policy # "keep" => written \in allowed
  BY <1>2, NearestOk DEF Policies
<1>4. Exists(k) => x.type = written
  BY <1>2 DEF Exists, HandlerInv, Tables, EntOk, Ent
<1> HIDE DEF x, k, written
<1>5. \A e \in Entities : ent'[e] = ent[e] \/ (Exists(k) /\ ~(unknown /\ policy = "strict") /\ e = k /\ ent'[e] = x)
  BY <1>1, <1>2 DEF HandlerInv, Tables, EntOk
<1>6. TypesAreKept
  BY <1>1, <1>5 DEF TypesAreKept, k
<1>7. \A v \in Workers : v # w => worker'[v] = worker[v]
  BY <1>1 DEF Ends, HandlerInv, HandlersOk
<1>8. RetypedInVocabulary
  BY <1>3, <1>4, <1>5, <1>7 DEF RetypedInVocabulary
<1> QED BY <1>6, <1>8 DEF VocabularyStep

\* delete-entity leaves the types of the others alone.
LEMMA DeleteKeepsTypes ==
  ASSUME HandlerInv, NEW k \in Entities, DeleteEntity(k)
  PROVE  SameTypes
<1> DEFINE t == [ent EXCEPT ![k] = NoEnt]
           D == UNION {{r.s, r.t} : r \in Incident(k)}
<1>1. rel' = rel \ Incident(k) /\ ent' = RecalculateDegree(t, rel', D)
  BY DEF DeleteEntity
<1>2. RelOk(rel')
  BY <1>1 DEF HandlerInv, Tables, RelOk
<1>3. EntOk(t) /\ \A e \in Entities : t[e] = IF e = k THEN NoEnt ELSE ent[e]
  BY DEF HandlerInv, Tables, EntOk
<1> HIDE DEF t, D
<1>4. SameNames(t, ent')
  <2>1. \A R : RelOk(R) => SameNames(t, RecalculateDegree(t, R, D))
    BY <1>3, RecalculateOk
  <2> QED BY <1>1, <1>2, <2>1
<1> QED BY <1>3, <1>4 DEF SameTypes, SameNames

\* The same for the answer of any extraction.
LEMMA AnyExtractKeepsTypes ==
  ASSUME HandlerInv, NEW w \in Workers, Extracts(w)
  PROVE  VocabularyStep
<1> DEFINE A(E, label, s, t, r) == PersistMemoryBindings(w, E, label, s, t, r) \/ DeepResearchSynth(w, E, label, s, t, r)
<1>1. \E E \in SUBSET Entities : \E label \in {"concept", "gadget"} : \E s \in Entities : \E t \in Entities :
        \E r \in {Generic, "uses"} : A(E, label, s, t, r)
  BY SMTT(60) DEF Extracts
<1>2. \A E \in SUBSET Entities : \A label \in {"concept", "gadget"} : \A s \in Entities : \A t \in Entities :
        \A r \in {Generic, "uses"} : A(E, label, s, t, r) => VocabularyStep
  BY ExtractsKeepsTypes
<1> HIDE DEF A
<1> QED BY <1>1, <1>2

\* Every step changes types only as it may.
LEMMA VocabularyNext == HandlerInv /\ [Next]_vars => [TypesAreKept /\ RetypedInVocabulary]_vars
<1> SUFFICES ASSUME HandlerInv, Next PROVE VocabularyStep
  BY DEF VocabularyStep
<1>1. ent' = ent => VocabularyStep
  BY SameTypesKept DEF SameTypes
<1>2. ASSUME NEW w \in Workers, Extracts(w) PROVE VocabularyStep
  BY <1>2, AnyExtractKeepsTypes
<1>3. ASSUME NEW w \in Workers, NEW d1, NEW d2, EntityDescription(w, d1, d2) PROVE VocabularyStep
  BY <1>3, DescriptionKeepsTypes, SameTypesKept
<1>4. ASSUME NEW w \in Workers, NEW label \in Labels, EntityTypeValidate(w, label) PROVE VocabularyStep
  BY <1>4, ValidateKeepsVocabulary
<1>5. ASSUME NEW w \in Workers,
             \/ \E h \in BOOLEAN : WeightCalibrate(w, h) \/ \E r \in {Generic, "uses"} : RelationReclassify(w, r, h)
             \/ EntityConnect(w, "none", TRUE) \/ \E b \in BOOLEAN : EntityConnect(w, "uses", b)
      PROVE  VocabularyStep
  BY <1>1, <1>5 DEF WeightCalibrate, RelationReclassify, EntityConnect
<1>6. ASSUME NEW w \in Workers,
             DomainClassify(w) \/ GraphAudit(w) \/ RereadBody(w) \/ UpdateDescription(w) \/ BodyExtract(w) \/ Writes(w) \/ CallFails(w)
             \/ WriteFails(w)
      PROVE  VocabularyStep
  BY <1>1, <1>6 DEF DomainClassify, GraphAudit, RereadBody, UpdateDescription, BodyExtract, Writes, UpdateBody, TakeOut, PutIn,
                    CallFails, WriteFails, GivesUp, db
<1>7. ASSUME NEW w \in Workers, Answered(w) PROVE VocabularyStep
  BY <1>2, <1>3, <1>4, <1>5, <1>6, <1>7 DEF Answered
<1>8. ASSUME NEW w \in Workers, Reads(w) PROVE VocabularyStep
  BY <1>1, <1>8 DEF Reads, ReadMemory, ReadEntity, ReadRelationship, ReadPair, db
<1>9. ASSUME NEW w, NEW op, NEW min, NEW k, Claim(w, op, min, k) PROVE VocabularyStep
  BY <1>1, <1>9 DEF Claim, db
<1>10. CASE Commands
  BY <1>1, <1>10, DeleteKeepsTypes, SameTypesKept DEF Commands, Command, EditBody, Forget, Restore
<1> QED BY <1>6, <1>7, <1>8, <1>9, <1>10 DEF Next, Step, ClaimPair, ClaimItem

\* Types are changed by the operation that is asked to, and within its vocabulary.
THEOREM VocabularyIsKept == Spec => VocabularyKept
BY HandlersInvariant, VocabularyNext, PTL DEF VocabularyKept, Spec
=============================================================================
