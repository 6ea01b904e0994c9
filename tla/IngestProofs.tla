----------------------------- MODULE IngestProofs -----------------------------
(***************************************************************************)
(* Proofs about Ingest for every directory, pool of threads, channel bound *)
(* and number of other writers: every file is accounted for, and what was  *)
(* reported is stored.                                                     *)
(***************************************************************************)
EXTENDS Ingest, WellFoundedInduction, TLAPS

-----------------------------------------------------------------------------
(* The plan *)

File == [base: Names \cup {NoName}, parts: Seq(Bodies)]

LEMMA InputShape ==
  ASSUME NEW in \in Inputs
  PROVE  in \in Seq(File) /\ Len(in) \in Nat /\ DOMAIN in = 1..Len(in)
<1>1. Inputs \subseteq Seq(File)
  BY IngestConstants, Zenon DEF File
<1> QED BY <1>1

\* The least element of a set of numbers.
LEMMA Least ==
  ASSUME NEW T \in SUBSET Nat, T # {}
  PROVE  \E x \in T : \A y \in T : x <= y
<1>1. PICK x \in T : \A y \in T : <<y, x>> \notin OpToRel(<, Nat)
  <2>1. IsWellFoundedOn(OpToRel(<, Nat), Nat)
    BY NatLessThanWellFounded
  <2> QED BY <2>1, WFMin
<1>2. ASSUME NEW y \in T PROVE x <= y
  <2>1. y < x => <<y, x>> \in OpToRel(<, Nat)
    BY DEF OpToRel
  <2>2. ~(y < x) /\ x \in Nat /\ y \in Nat
    BY <1>1, <2>1
  <2> QED BY <2>2
<1> QED BY <1>2

\* What holds at 0, and at n when it holds at n - 1, holds up to m.
LEMMA UpTo ==
  ASSUME NEW m \in Nat, NEW S, 0 \in S, \A n \in 1..m : n - 1 \in S => n \in S
  PROVE  \A n \in 0..m : n \in S
<1> SUFFICES ASSUME (0..m) \ S # {} PROVE FALSE
  OBVIOUS
<1>1. PICK x \in (0..m) \ S : \A y \in (0..m) \ S : x <= y
  <2>1. (0..m) \ S \in SUBSET Nat
    OBVIOUS
  <2> QED BY <2>1, Least
<1>2. x \in 1..m /\ x - 1 \in 0..m /\ ~(x <= x - 1)
  BY <1>1
<1> QED BY <1>1, <1>2

\* unique_name finds a name that is not taken, or none.
LEMMA UniqueNameIsFree ==
  ASSUME NEW b \in Names, NEW taken
  PROVE  /\ UniqueName(b, taken) \in Names \cup {NoName}
         /\ UniqueName(b, taken) # NoName => UniqueName(b, taken) \notin taken
<1> DEFINE free == {i \in DOMAIN Suffixed[b] : Suffixed[b][i] \notin taken}
           first == CHOOSE i \in free : \A j \in free : i <= j
<1>1. Suffixed[b] \in Seq(Names)
  BY IngestConstants
<1>2. free # {} => first \in free
  <2>1. free \in SUBSET Nat
    BY <1>1
  <2> HIDE DEF free
  <2> QED BY <2>1, Least
<1>3. CASE b \notin taken
  BY <1>3 DEF UniqueName
<1>4. CASE b \in taken
  <2>1. UniqueName(b, taken) = IF free = {} THEN NoName ELSE Suffixed[b][first]
    BY <1>4 DEF UniqueName
  <2>2. \A i \in free : Suffixed[b][i] \in Names /\ Suffixed[b][i] \notin taken
    BY <1>1
  <2> HIDE DEF free, first
  <2> QED BY <1>2, <2>1, <2>2
<1> QED BY <1>3, <1>4

\* One file of the plan, after the names p.
Named(f, p) == Append(p, IF f.base = NoName THEN NoName
                         ELSE UniqueName(f.base, {p[j] : j \in DOMAIN p}))
\* Names of a plan: each at most once.
Distinct(p) ==
  /\ p \in Seq(Names \cup {NoName})
  /\ \A i, j \in DOMAIN p : p[i] = p[j] /\ p[i] # NoName => i = j

LEMMA NamedApart ==
  ASSUME NEW f \in File, NEW p, Distinct(p)
  PROVE  Distinct(Named(f, p)) /\ Len(Named(f, p)) = Len(p) + 1
<1> DEFINE taken == {p[j] : j \in DOMAIN p}
           n == IF f.base = NoName THEN NoName ELSE UniqueName(f.base, taken)
<1>1. n \in Names \cup {NoName} /\ (n # NoName => n \notin taken)
  BY UniqueNameIsFree DEF File
<1>2. p \in Seq(Names \cup {NoName})
  BY DEF Distinct
<1>3. \A j \in DOMAIN p : n # NoName => p[j] # n
  BY <1>1
<1>4. Named(f, p) = Append(p, n)
  BY DEF Named
<1> HIDE DEF n, taken
<1> DEFINE q == Append(p, n)
<1>5. /\ q \in Seq(Names \cup {NoName}) /\ Len(q) = Len(p) + 1
      /\ \A i \in 1..Len(p) : q[i] = p[i]
      /\ q[Len(p) + 1] = n
  BY <1>1, <1>2
<1>6. \A i \in DOMAIN q : i \in 1..Len(p) \/ i = Len(p) + 1
  BY <1>2, <1>5
<1>7. DOMAIN p = 1..Len(p)
  BY <1>2
<1> HIDE DEF q
<1>8. ASSUME NEW i \in DOMAIN q, NEW j \in DOMAIN q, q[i] = q[j], q[i] # NoName PROVE i = j
  <2>1. CASE i \in 1..Len(p) /\ j \in 1..Len(p)
    BY <1>5, <1>7, <1>8, <2>1 DEF Distinct
  <2>2. CASE i \in 1..Len(p) /\ j = Len(p) + 1
    BY <1>3, <1>5, <1>7, <1>8, <2>2
  <2>3. CASE i = Len(p) + 1 /\ j \in 1..Len(p)
    BY <1>3, <1>5, <1>7, <1>8, <2>3
  <2> QED BY <1>6, <2>1, <2>2, <2>3
<1> QED BY <1>4, <1>5, <1>8 DEF Distinct, q

\* build_plan is defined for every prefix of the directory.
Prefixes(in, m, g) == g = [i \in 0..m |-> IF i = 0 THEN << >> ELSE Named(in[i], g[i - 1])]
LEMMA PlanExists ==
  ASSUME NEW in \in Inputs
  PROVE  \E g : Prefixes(in, Len(in), g)
<1> DEFINE S == {m \in Nat : \E g : Prefixes(in, m, g)}
<1>1. 0 \in S
  <2> DEFINE g == [i \in 0..0 |-> << >>]
  <2>1. Prefixes(in, 0, g)
    BY DEF Prefixes
  <2> QED BY <2>1
<1>2. Len(in) \in Nat
  BY InputShape
<1>3. ASSUME NEW m \in 1..Len(in), m - 1 \in S PROVE m \in S
  <2>1. PICK g : Prefixes(in, m - 1, g)
    BY <1>3
  <2> DEFINE h == [i \in 0..m |-> IF i = m THEN Named(in[m], g[m - 1]) ELSE g[i]]
  <2>2. ASSUME NEW i \in 0..m
        PROVE  h[i] = IF i = 0 THEN << >> ELSE Named(in[i], h[i - 1])
    <3>1. CASE i = m
      <4>1. h[m - 1] = g[m - 1] /\ h[m] = Named(in[m], g[m - 1]) /\ m # 0
        OBVIOUS
      <4> QED BY <3>1, <4>1
    <3>2. CASE i # m
      <4>1. i \in 0..(m - 1) /\ h[i] = g[i]
        BY <3>2
      <4>2. i # 0 => i - 1 \in 0..m /\ i - 1 # m /\ h[i - 1] = g[i - 1]
        BY <3>2
      <4>3. g[i] = IF i = 0 THEN << >> ELSE Named(in[i], g[i - 1])
        BY <2>1, <4>1 DEF Prefixes
      <4> QED BY <4>1, <4>2, <4>3
    <3> QED BY <3>1, <3>2
  <2>3. Prefixes(in, m, h)
    BY <2>2 DEF Prefixes
  <2> QED BY <2>3
<1> HIDE DEF S
<1>4. \A m \in 0..Len(in) : m \in S
  BY <1>1, <1>2, <1>3, UpTo
<1>5. Len(in) \in S
  BY <1>2, <1>4
<1> QED BY <1>5 DEF S

\* build_plan, for a directory of any length: every file gets a name or none, and unique_name
\* never gives two files the same one.
THEOREM PlanApart ==
  ASSUME NEW in \in Inputs
  PROVE  Distinct(Plan(in)) /\ DOMAIN Plan(in) = DOMAIN in
<1> DEFINE p == CHOOSE g : Prefixes(in, Len(in), g)
<1>1. Prefixes(in, Len(in), p)
  BY PlanExists
<1>2. Plan(in) = p[Len(in)]
  BY DEF Plan, Prefixes, Named
<1>3. in \in Seq(File) /\ Len(in) \in Nat /\ DOMAIN in = 1..Len(in)
  BY InputShape
<1> HIDE DEF p
<1> DEFINE S == {m \in Nat : Distinct(p[m]) /\ Len(p[m]) = m}
<1>4. 0 \in S
  <2>1. p[0] = << >>
    BY <1>1, <1>3 DEF Prefixes
  <2>2. Distinct(<< >>) /\ Len(<< >>) = 0
    BY DEF Distinct
  <2> QED BY <2>1, <2>2
<1>5. ASSUME NEW m \in 1..Len(in), m - 1 \in S PROVE m \in S
  <2>1. p[m] = Named(in[m], p[m - 1])
    BY <1>1, <1>3 DEF Prefixes
  <2>2. in[m] \in File
    BY <1>3
  <2> QED BY <1>5, <2>1, <2>2, NamedApart
<1>6. Len(in) \in 0..Len(in)
  BY <1>3
<1> HIDE DEF S
<1>7. Len(in) \in S
  BY <1>3, <1>4, <1>5, <1>6, UpTo
<1>8. Distinct(Plan(in)) /\ Len(Plan(in)) = Len(in)
  BY <1>2, <1>7 DEF S
<1> QED BY <1>3, <1>8 DEF Distinct
-----------------------------------------------------------------------------
(* The inductive invariant *)

Parts   == [name: Names, body: Bodies]
Planned == {i \in Files : plan[i] # NoName}
Msg     == [file: Files, ok: BOOLEAN, parts: Seq(Parts)]
Thread  == [pc: {"idle", "stage", "send", "end"}, file: Files \cup {0}, msg: Msg \cup {<< >>}]
Main    == [pc: {"skips", "recv", "lookup", "write", "join", "enrich", "ok", "aborted"},
            file: Files \cup {0}, parts: Seq(Parts), found: BOOLEAN, dup: BOOLEAN]

\* What the run was started with.
Fixed ==
  /\ files \in Inputs /\ plan = Plan(files)
  /\ opts \in [force: BOOLEAN, failFast: BOOLEAN, enrichAfter: BOOLEAN, storage: BOOLEAN]

\* The invariant is about the state named by the parameters, so that a step can be
\* judged with the directory of the run as it is: td, th, ch, op stand for todo, thread,
\* chan, open; mn for main; mm, rp, wr, sg, ot for mem, report, wrote, signal, others.
Kinds(td, th, ch, op, mn, mm, rp, wr, sg, ot) ==
  /\ td \subseteq Planned /\ th \in [Threads -> Thread]
  /\ ch \in Seq(Msg) /\ Len(ch) <= Capacity /\ op \in BOOLEAN
  /\ mn \in Main /\ mm \in [Names -> Mem \cup {NoMem}]
  /\ rp \in [Files -> Seq(Results)] /\ wr \subseteq Planned \X Names
  /\ sg \in BOOLEAN /\ ot \in Nat

Active(r) == r.pc \in {"stage", "send"}
Busy(mn)  == mn.pc \in {"lookup", "write"}

\* A message carries all the parts of its file, or none.
MsgOk(m) == m \in Msg /\ m.file \in Planned /\ (m.ok => m.parts = StagedParts(m.file) /\ m.parts # << >>)

\* A file that has not reached the database is in one place, with nothing reported of it.
Waits(i, td, mn, rp) == i \in Planned \ td /\ rp[i] = << >> /\ (Busy(mn) => i # mn.file)
Staging(td, th, ch, op, mn, rp) ==
  /\ \A t \in Threads :
       /\ Active(th[t]) => Waits(th[t].file, td, mn, rp)
       /\ th[t].pc = "send" => MsgOk(th[t].msg) /\ th[t].msg.file = th[t].file
       /\ th[t].pc = "end" => td = {}
  /\ \A t, u \in Threads : Active(th[t]) /\ Active(th[u]) /\ th[t].file = th[u].file => t = u
  /\ \A c \in 1..Len(ch) :
       /\ MsgOk(ch[c]) /\ Waits(ch[c].file, td, mn, rp)
       /\ \A t \in Threads : Active(th[t]) => th[t].file # ch[c].file
  /\ \A c, d \in 1..Len(ch) : ch[c].file = ch[d].file => c = d
  /\ \A i \in td : Waits(i, {}, mn, rp)
  /\ ~op => mn.pc \in {"join", "enrich", "ok", "aborted"}

\* The parts that are left of the file being persisted.
Persisting(mn, rp) ==
  Busy(mn) => LET i == mn.file IN
    /\ i \in Planned /\ mn.parts # << >>
    /\ Len(rp[i]) + Len(mn.parts) = Len(files[i].parts)
    /\ \A j \in 1..Len(mn.parts) : mn.parts[j] = StagedParts(i)[Len(rp[i]) + j]

\* What Lookup found still holds in the write, as far as the other writers let it.
Live(mm, n) == mm[n] # NoMem /\ mm[n].live
LookedUp(mn, mm, ot) ==
  mn.pc = "write" =>
    /\ ot = 0 /\ mn.found => Live(mm, mn.parts[1].name)
    /\ ot = 0 /\ mn.dup => \E n \in Names : Live(mm, n) /\ mm[n].body = mn.parts[1].body
    /\ ~mn.found /\ ~mn.dup =>
         \A n \in Names : Live(mm, n) /\ mm[n].fresh => mm[n].body # mn.parts[1].body

\* Every planned file is settled or on its way, unless the run was cut short.
Settled(i, rp) == rp[i] = <<"failed">> \/ Len(rp[i]) = Len(files[i].parts)
OnItsWay(i, td, th, ch, mn) ==
  \/ i \in td
  \/ \E t \in Threads : Active(th[t]) /\ th[t].file = i
  \/ \E c \in 1..Len(ch) : ch[c].file = i
  \/ Busy(mn) /\ mn.file = i
Accounted(td, th, ch, mn, rp, sg) ==
  /\ \A i \in Files \ Planned : mn.pc # "skips" => rp[i] = <<"skipped">>
  /\ mn.pc = "skips" => \A i \in Files : rp[i] = << >>
  /\ ~sg /\ mn.pc # "aborted" => \A i \in Planned : Settled(i, rp) \/ OnItsWay(i, td, th, ch, mn)
  /\ ~sg /\ mn.pc \in {"join", "enrich", "ok"} => \A i \in Planned : Settled(i, rp)

\* The body of a part that was indexed is stored, unless another file or writer took its name.
Kept(i, part, mm, wr, ot) ==
  /\ <<i, part.name>> \in wr
  /\ ot = 0 => Live(mm, part.name) /\ (mm[part.name].body = part.body
                                      \/ \E j \in Files : <<j, part.name>> \in wr /\ j # i)
\* A part that was skipped had a live memory in its place.
Spared(part, mm, ot) ==
  ot = 0 => Live(mm, part.name) \/ opts.force \/ \E n \in Names : Live(mm, n) /\ mm[n].body = part.body
Outcomes(mm, rp, wr, ot) ==
  \A i \in Planned : \A k \in DOMAIN rp[i] :
    /\ rp[i][k] = "indexed" => k \in DOMAIN files[i].parts /\ Kept(i, StagedParts(i)[k], mm, wr, ot)
    /\ rp[i][k] = "skipped" => k \in DOMAIN files[i].parts /\ Spared(StagedParts(i)[k], mm, ot)

OwnNames(wr) == \A i \in Planned, n \in Names : <<i, n>> \in wr /\ Len(files[i].parts) <= 1 => n = plan[i]

BodiesApart(mm) ==
  \A m, n \in Names :
    Live(mm, m) /\ Live(mm, n) /\ mm[m].fresh /\ mm[n].fresh /\ mm[m].body = mm[n].body => m = n

Invariant(td, th, ch, op, mn, mm, rp, wr, sg, ot) ==
  /\ Kinds(td, th, ch, op, mn, mm, rp, wr, sg, ot) /\ Staging(td, th, ch, op, mn, rp)
  /\ Persisting(mn, rp) /\ LookedUp(mn, mm, ot) /\ Accounted(td, th, ch, mn, rp, sg)
  /\ Outcomes(mm, rp, wr, ot) /\ OwnNames(wr) /\ BodiesApart(mm)

IngestInv == Fixed /\ Invariant(todo, thread, chan, open, main, mem, report, wrote, signal, others)

-----------------------------------------------------------------------------
(* The directory *)

\* A file of the directory, its name and the parts it is staged as.
LEMMA FileFacts ==
  ASSUME Fixed
  PROVE  /\ Files = 1..Len(files) /\ Len(files) \in Nat
         /\ plan \in [Files -> Names \cup {NoName}] /\ plan \in Seq(Names \cup {NoName})
         /\ \A i \in Files : files[i] \in File
         /\ \A i, j \in Planned : plan[i] = plan[j] => i = j
<1>1. files \in Seq(File) /\ Len(files) \in Nat /\ Files = 1..Len(files)
  BY InputShape DEF Fixed, Files
<1>2. Distinct(plan) /\ DOMAIN plan = Files
  BY PlanApart DEF Fixed, Files
<1>3. plan \in [Files -> Names \cup {NoName}]
  BY <1>2 DEF Distinct
<1> QED BY <1>1, <1>2, <1>3 DEF Distinct, Planned

LEMMA PartFacts ==
  ASSUME Fixed, NEW i \in Planned
  PROVE  /\ StagedParts(i) \in Seq(Parts) /\ Len(StagedParts(i)) = Len(files[i].parts)
         /\ DOMAIN files[i].parts = 1..Len(files[i].parts) /\ Len(files[i].parts) \in Nat
         /\ \A k \in DOMAIN files[i].parts : StagedParts(i)[k] \in Parts
         /\ \A j, k \in DOMAIN files[i].parts : StagedParts(i)[j].name = StagedParts(i)[k].name => j = k
         /\ Len(files[i].parts) <= 1 => \A k \in DOMAIN files[i].parts : StagedParts(i)[k].name = plan[i]
<1> DEFINE ps == files[i].parts
           n == plan[i]
<1>1. ps \in Seq(Bodies) /\ n \in Names /\ i \in DOMAIN files /\ files \in Inputs /\ Plan(files)[i] = n
  BY FileFacts DEF Planned, File, Fixed, Files
<1>2. DOMAIN ps = 1..Len(ps) /\ Len(ps) \in Nat
  BY <1>1
<1>3. StagedParts(i) = [k \in 1..Len(ps) |->
                          [name |-> IF Len(ps) = 1 THEN n ELSE PartName[n][k], body |-> ps[k]]]
  BY <1>2 DEF StagedParts, StageOneBody
<1>4. Len(ps) > 1 => Len(ps) <= Len(PartName[n])
  <2>1. n # NoName
    BY DEF Planned
  <2> HIDE DEF ps, n
  <2> QED BY <1>1, <2>1, PartsHaveNames DEF ps
<1>5. /\ PartName[n] \in Seq(Names)
      /\ \A j, k \in DOMAIN PartName[n] : PartName[n][j] = PartName[n][k] => j = k
  BY <1>1, IngestConstants
<1> HIDE DEF ps, n
<1>6. ASSUME NEW k \in 1..Len(ps)
      PROVE  /\ StagedParts(i)[k].name = IF Len(ps) = 1 THEN n ELSE PartName[n][k]
             /\ Len(ps) # 1 => k \in DOMAIN PartName[n] /\ PartName[n][k] \in Names
             /\ StagedParts(i)[k] \in Parts
  <2>1. StagedParts(i)[k] = [name |-> IF Len(ps) = 1 THEN n ELSE PartName[n][k], body |-> ps[k]]
    BY <1>3
  <2>2. Len(ps) # 1 => k \in DOMAIN PartName[n] /\ PartName[n][k] \in Names
    BY <1>2, <1>4, <1>5
  <2> QED BY <1>1, <2>1, <2>2 DEF Parts
<1>7. StagedParts(i) \in Seq(Parts) /\ Len(StagedParts(i)) = Len(ps)
  <2>1. StagedParts(i) \in [1..Len(ps) -> Parts]
    BY <1>3, <1>6
  <2> QED BY <1>2, <2>1
<1>8. \A j, k \in 1..Len(ps) : StagedParts(i)[j].name = StagedParts(i)[k].name => j = k
  <2> SUFFICES ASSUME NEW j \in 1..Len(ps), NEW k \in 1..Len(ps),
                      StagedParts(i)[j].name = StagedParts(i)[k].name
               PROVE  j = k
    OBVIOUS
  <2>1. CASE Len(ps) = 1
    BY <2>1
  <2>2. CASE Len(ps) # 1
    <3>1. StagedParts(i)[j].name = PartName[n][j] /\ StagedParts(i)[k].name = PartName[n][k]
      BY <1>6, <2>2
    <3> QED BY <1>5, <1>6, <2>2, <3>1
  <2> QED BY <2>1, <2>2
<1>9. Len(ps) <= 1 => \A k \in 1..Len(ps) : StagedParts(i)[k].name = n
  <2> SUFFICES ASSUME Len(ps) <= 1, NEW k \in 1..Len(ps) PROVE StagedParts(i)[k].name = n
    OBVIOUS
  <2>1. Len(ps) = 1
    BY <1>2
  <2> QED BY <1>6, <2>1
<1> QED BY <1>2, <1>6, <1>7, <1>8, <1>9 DEF ps, n

\* The run keeps its directory.
LEMMA SameRun ==
  ASSUME Fixed, UNCHANGED <<files, opts, plan>>,
         Invariant(todo', thread', chan', open', main', mem', report', wrote', signal', others')
  PROVE  IngestInv'
<1>1. Fixed' /\ Planned' = Planned /\ Files' = Files /\ Msg' = Msg /\ Thread' = Thread /\ Main' = Main
  BY DEF Fixed, Files, Planned, Msg, Thread, Main
<1>2. Kinds(todo, thread, chan, open, main, mem, report, wrote, signal, others)'
  BY <1>1 DEF Invariant, Kinds
<1>3. Staging(todo, thread, chan, open, main, report)'
  <2>1. \A i : StagedParts(i)' = StagedParts(i)
    BY DEF Fixed, StagedParts, StageOneBody
  <2>2. \A m : MsgOk(m)' <=> MsgOk(m)
    BY <1>1, <2>1 DEF MsgOk
  <2> QED BY <1>1, <2>2 DEF Invariant, Staging, Waits
<1>4. Persisting(main, report)' /\ OwnNames(wrote)'
  BY <1>1 DEF Invariant, Persisting, OwnNames, StagedParts, StageOneBody
<1>5. LookedUp(main, mem, others)' /\ BodiesApart(mem)'
  BY DEF Invariant, LookedUp, BodiesApart
<1>6. Accounted(todo, thread, chan, main, report, signal)'
  BY <1>1 DEF Invariant, Accounted, Settled, OnItsWay
<1>7. Outcomes(mem, report, wrote, others)'
  <2> SUFFICES ASSUME NEW i \in Planned, NEW k \in DOMAIN report'[i]
               PROVE  /\ report'[i][k] = "indexed" =>
                           k \in DOMAIN files'[i].parts /\ Kept(i, StagedParts(i)[k], mem, wrote, others)'
                      /\ report'[i][k] = "skipped" =>
                           k \in DOMAIN files'[i].parts /\ Spared(StagedParts(i)[k], mem, others)'
    BY <1>1 DEF Outcomes
  <2>1. /\ report'[i][k] = "indexed" =>
             k \in DOMAIN files[i].parts /\ Kept(i, StagedParts(i)[k], mem', wrote', others')
        /\ report'[i][k] = "skipped" =>
             k \in DOMAIN files[i].parts /\ Spared(StagedParts(i)[k], mem', others')
    BY DEF Invariant, Outcomes
  <2>2. StagedParts(i)' = StagedParts(i)
    BY DEF StagedParts, StageOneBody
  <2>3. Kept(i, StagedParts(i)[k], mem', wrote', others') => Kept(i, StagedParts(i)[k], mem, wrote, others)'
    BY <1>1, <2>2 DEF Kept
  <2>4. Spared(StagedParts(i)[k], mem', others') => Spared(StagedParts(i)[k], mem, others)'
    BY <2>2 DEF Spared
  <2> QED BY <2>1, <2>3, <2>4
<1> QED BY <1>1, <1>2, <1>3, <1>4, <1>5, <1>6, <1>7 DEF IngestInv, Invariant
-----------------------------------------------------------------------------
(* Staging *)

\* A step of a thread changes neither the main thread nor what it has stored.
LEMMA ThreadFrame ==
  ASSUME IngestInv, UNCHANGED <<files, opts, plan, open, main, mem, report, wrote, signal, others>>,
         todo' \subseteq Planned, thread' \in [Threads -> Thread], chan' \in Seq(Msg), Len(chan') <= Capacity,
         Staging(todo', thread', chan', open, main, report),
         ~signal => \A i \in Planned : OnItsWay(i, todo, thread, chan, main)
                                         => OnItsWay(i, todo', thread', chan', main)
                                            \/ main.pc \in {"join", "enrich", "ok", "aborted"}
  PROVE  IngestInv'
<1>1. Invariant(todo, thread, chan, open, main, mem, report, wrote, signal, others) /\ Fixed
  BY DEF IngestInv
<1>2. Kinds(todo', thread', chan', open, main, mem, report, wrote, signal, others)
  BY <1>1 DEF Invariant, Kinds
<1>3. Accounted(todo', thread', chan', main, report, signal)
  BY <1>1 DEF Invariant, Accounted
<1>4. Invariant(todo', thread', chan', open, main, mem, report, wrote, signal, others)
  BY <1>1, <1>2, <1>3 DEF Invariant
<1> QED BY <1>1, <1>4, SameRun

LEMMA Parted ==
  ASSUME IngestInv
  PROVE  /\ Fixed /\ Kinds(todo, thread, chan, open, main, mem, report, wrote, signal, others)
         /\ Staging(todo, thread, chan, open, main, report) /\ Persisting(main, report)
         /\ LookedUp(main, mem, others) /\ Accounted(todo, thread, chan, main, report, signal)
         /\ Outcomes(mem, report, wrote, others) /\ OwnNames(wrote) /\ BodiesApart(mem)
         /\ Files = 1..Len(files) /\ Len(files) \in Nat /\ Planned \subseteq Files /\ Capacity \in Nat \ {0}
BY FileFacts, IngestConstants DEF IngestInv, Invariant, Planned

LEMMA TakeStep ==
  ASSUME IngestInv, NEW t \in Threads, NEW i \in todo, Take(t, i)
  PROVE  IngestInv'
<1> DEFINE r == IF signal THEN Idle ELSE [pc |-> "stage", file |-> i, msg |-> << >>]
<1>1. /\ thread[t].pc = "idle" /\ todo' = todo \ {i} /\ thread' = [thread EXCEPT ![t] = r] /\ chan' = chan
      /\ UNCHANGED <<files, opts, plan, open, main, mem, report, wrote, signal, others>>
  BY DEF Take
<1>2. /\ i \in Planned /\ i \in Files /\ thread \in [Threads -> Thread] /\ signal \in BOOLEAN
      /\ todo \subseteq Planned /\ chan \in Seq(Msg) /\ Len(chan) <= Capacity
  BY Parted DEF Kinds
<1>3. r \in Thread /\ r.pc \in {"idle", "stage"} /\ (r.pc = "stage" => r.file = i) /\ (~signal => r.pc = "stage")
  BY <1>2 DEF Thread, Idle
<1> HIDE DEF r
<1>4. thread' \in [Threads -> Thread] /\ thread'[t] = r /\ \A u \in Threads : u # t => thread'[u] = thread[u]
  BY <1>1, <1>2, <1>3
<1>5. Staging(todo, thread, chan, open, main, report)
  BY Parted
<1>6. Waits(i, todo', main, report)
  BY <1>1, <1>2, <1>5 DEF Staging, Waits
<1>7. \A j : Waits(j, todo, main, report) => Waits(j, todo', main, report)
  BY <1>1 DEF Waits
<1>8. Staging(todo', thread', chan, open, main, report)
  <2>1. ASSUME NEW u \in Threads
        PROVE  /\ Active(thread'[u]) => Waits(thread'[u].file, todo', main, report)
               /\ thread'[u].pc = "send" => MsgOk(thread'[u].msg) /\ thread'[u].msg.file = thread'[u].file
               /\ thread'[u].pc = "end" => todo' = {}
    BY <1>1, <1>3, <1>4, <1>5, <1>6, <1>7 DEF Staging, Active
  <2>2. \A u, v \in Threads : Active(thread'[u]) /\ Active(thread'[v]) /\ thread'[u].file = thread'[v].file => u = v
    <3>1. \A u \in Threads : Active(thread[u]) => thread[u].file # i
      BY <1>5 DEF Staging, Waits
    <3> QED BY <1>3, <1>4, <1>5, <3>1 DEF Staging, Active
  <2>3. ASSUME NEW c \in 1..Len(chan)
        PROVE  /\ MsgOk(chan[c]) /\ Waits(chan[c].file, todo', main, report)
               /\ \A u \in Threads : Active(thread'[u]) => thread'[u].file # chan[c].file
    <3>1. chan[c].file # i
      BY <1>5 DEF Staging, Waits
    <3> QED BY <1>3, <1>4, <1>5, <1>7, <3>1 DEF Staging, Active
  <2>4. \A j \in todo' : Waits(j, {}, main, report)
    BY <1>1, <1>5 DEF Staging
  <2> QED BY <1>5, <2>1, <2>2, <2>3, <2>4 DEF Staging
<1>9. ASSUME ~signal, NEW j \in Planned, OnItsWay(j, todo, thread, chan, main)
      PROVE  OnItsWay(j, todo', thread', chan, main)
  <2>1. CASE j = i
    BY <1>3, <1>4, <1>9, <2>1 DEF OnItsWay, Active
  <2>2. CASE j # i
    <3>1. \A u \in Threads : Active(thread[u]) => u # t /\ thread'[u] = thread[u]
      BY <1>1, <1>4 DEF Active
    <3> QED BY <1>1, <1>9, <2>2, <3>1 DEF OnItsWay
  <2> QED BY <2>1, <2>2
<1>10. todo' \subseteq Planned
  BY <1>1, <1>2
<1> QED BY <1>1, <1>2, <1>4, <1>8, <1>9, <1>10, ThreadFrame

LEMMA StageStep ==
  ASSUME IngestInv, NEW t \in Threads, NEW ok \in BOOLEAN, Stage(t, ok)
  PROVE  IngestInv'
<1> DEFINE o == thread[t]
           i == o.file
           m == [file |-> i, ok |-> ok, parts |-> IF ok THEN StagedParts(i) ELSE << >>]
           r == [o EXCEPT !.pc = "send", !.msg = m]
<1>1. /\ o.pc = "stage" /\ (ok => files[i].parts # << >>) /\ thread' = [thread EXCEPT ![t] = r]
      /\ todo' = todo /\ chan' = chan
      /\ UNCHANGED <<files, opts, plan, open, main, mem, report, wrote, signal, others>>
  BY DEF Stage, Readable
<1>2. /\ thread \in [Threads -> Thread] /\ todo \subseteq Planned /\ chan \in Seq(Msg) /\ Len(chan) <= Capacity
      /\ Staging(todo, thread, chan, open, main, report)
  BY Parted DEF Kinds
<1>3. i \in Planned /\ i \in Files /\ o \in Thread
  BY <1>1, <1>2, Parted DEF Staging, Active, Waits
<1>4. m \in Msg /\ MsgOk(m) /\ m.file = i
  <2>1. StagedParts(i) \in Seq(Parts) /\ Len(StagedParts(i)) = Len(files[i].parts)
    BY <1>3, Parted, PartFacts
  <2>2. ok => StagedParts(i) # << >>
    <3>1. files[i].parts \in Seq(Bodies)
      BY <1>3, FileFacts, Parted DEF File
    <3> QED BY <1>1, <2>1, <3>1
  <2> QED BY <1>3, <2>1, <2>2 DEF Msg, MsgOk
<1> HIDE DEF m
<1>5. r \in Thread /\ r.pc = "send" /\ r.file = i /\ r.msg = m
  <2> HIDE DEF o
  <2> QED BY <1>3, <1>4 DEF Thread, i
<1> HIDE DEF r
<1>6. thread' \in [Threads -> Thread] /\ thread'[t] = r /\ \A u \in Threads : u # t => thread'[u] = thread[u]
  BY <1>1, <1>2, <1>5
<1>7. \A u \in Threads : /\ Active(thread'[u]) = Active(thread[u])
                         /\ Active(thread[u]) => thread'[u].file = thread[u].file
                         /\ thread'[u].pc = "end" => thread[u].pc = "end"
  BY <1>1, <1>5, <1>6 DEF Active
<1>8. Staging(todo, thread', chan, open, main, report)
  <2>1. \A u \in Threads : thread'[u].pc = "send" => MsgOk(thread'[u].msg) /\ thread'[u].msg.file = thread'[u].file
    BY <1>2, <1>4, <1>5, <1>6 DEF Staging
  <2> QED BY <1>2, <1>7, <2>1 DEF Staging
<1>9. \A j \in Planned : OnItsWay(j, todo, thread, chan, main) => OnItsWay(j, todo, thread', chan, main)
  BY <1>7 DEF OnItsWay
<1> QED BY <1>1, <1>2, <1>6, <1>8, <1>9, ThreadFrame

LEMMA EndsStep ==
  ASSUME IngestInv, NEW t \in Threads, ThreadEnds(t)
  PROVE  IngestInv'
<1> DEFINE o == thread[t]
           r == [o EXCEPT !.pc = "end"]
<1>1. /\ o.pc = "idle" /\ todo = {} /\ thread' = [thread EXCEPT ![t] = r]
      /\ todo' = todo /\ chan' = chan
      /\ UNCHANGED <<files, opts, plan, open, main, mem, report, wrote, signal, others>>
  BY DEF ThreadEnds
<1>2. /\ thread \in [Threads -> Thread] /\ todo \subseteq Planned /\ chan \in Seq(Msg) /\ Len(chan) <= Capacity
      /\ Staging(todo, thread, chan, open, main, report)
  BY Parted DEF Kinds
<1>3. r \in Thread /\ r.pc = "end"
  <2>1. o \in Thread
    BY <1>2
  <2> HIDE DEF o
  <2> QED BY <2>1 DEF Thread
<1> HIDE DEF r
<1>4. thread' \in [Threads -> Thread] /\ thread'[t] = r /\ \A u \in Threads : u # t => thread'[u] = thread[u]
  BY <1>1, <1>2, <1>3
<1>5. \A u \in Threads : /\ Active(thread'[u]) = Active(thread[u])
                         /\ Active(thread[u]) => thread'[u] = thread[u]
                         /\ thread'[u].pc = "send" => thread'[u] = thread[u]
  BY <1>1, <1>3, <1>4 DEF Active
<1>6. Staging(todo, thread', chan, open, main, report)
  BY <1>1, <1>2, <1>5 DEF Staging
<1>7. \A j \in Planned : OnItsWay(j, todo, thread, chan, main) => OnItsWay(j, todo, thread', chan, main)
  BY <1>5 DEF OnItsWay
<1> QED BY <1>1, <1>2, <1>4, <1>6, <1>7, ThreadFrame
LEMMA SendStep ==
  ASSUME IngestInv, NEW t \in Threads, Send(t)
  PROVE  IngestInv'
<1> DEFINE o == thread[t]
           i == o.file
           m == o.msg
<1>1. /\ o.pc = "send" /\ (open => Len(chan) < Capacity) /\ thread' = [thread EXCEPT ![t] = Idle]
      /\ chan' = IF open THEN Append(chan, m) ELSE chan
      /\ todo' = todo
      /\ UNCHANGED <<files, opts, plan, open, main, mem, report, wrote, signal, others>>
  BY DEF Send
<1>2. /\ thread \in [Threads -> Thread] /\ todo \subseteq Planned /\ chan \in Seq(Msg) /\ Len(chan) <= Capacity
      /\ Staging(todo, thread, chan, open, main, report) /\ Capacity \in Nat /\ open \in BOOLEAN
  BY Parted DEF Kinds
<1>3. i \in Planned /\ i \in Files /\ o \in Thread /\ MsgOk(m) /\ m.file = i /\ Waits(i, todo, main, report)
  BY <1>1, <1>2, Parted DEF Staging, Active, Waits
<1>4. m \in Msg
  BY <1>3 DEF MsgOk
<1>5. Idle \in Thread /\ Idle.pc = "idle"
  BY DEF Thread, Idle
<1>6. /\ thread' \in [Threads -> Thread] /\ thread'[t] = Idle /\ \A u \in Threads : u # t => thread'[u] = thread[u]
      /\ Active(thread[t]) /\ thread[t].file = i
  BY <1>1, <1>2, <1>5 DEF Active
<1> HIDE DEF o, i, m
<1>7. \A u \in Threads : /\ Active(thread'[u]) => u # t /\ thread'[u] = thread[u]
                         /\ thread'[u].pc = "send" => u # t /\ thread'[u] = thread[u]
                         /\ thread'[u].pc = "end" => thread[u].pc = "end"
  BY <1>5, <1>6 DEF Active
<1>8. CASE open
  <2>1. /\ chan' \in Seq(Msg) /\ Len(chan') = Len(chan) + 1 /\ Len(chan) \in Nat
        /\ chan'[Len(chan) + 1] = m /\ \A c \in 1..Len(chan) : chan'[c] = chan[c]
    BY <1>1, <1>2, <1>4, <1>8
  <2>2. Len(chan') <= Capacity
    BY <1>1, <1>2, <1>8, <2>1
  <2>3. \A c \in 1..Len(chan') : c \in 1..Len(chan) \/ c = Len(chan) + 1
    BY <2>1
  <2>4. \A c \in 1..Len(chan) : chan[c].file # i
    BY <1>2, <1>6 DEF Staging
  <2>5. \A u \in Threads : Active(thread'[u]) => thread'[u].file # i
    BY <1>2, <1>6, <1>7 DEF Staging
  <2>6. Staging(todo, thread', chan', open, main, report)
    <3>1. ASSUME NEW c \in 1..Len(chan')
          PROVE  /\ MsgOk(chan'[c]) /\ Waits(chan'[c].file, todo, main, report)
                 /\ \A u \in Threads : Active(thread'[u]) => thread'[u].file # chan'[c].file
      <4>1. CASE c = Len(chan) + 1
        BY <1>3, <2>1, <2>5, <4>1
      <4>2. CASE c \in 1..Len(chan)
        BY <1>2, <1>7, <2>1, <4>2 DEF Staging
      <4> QED BY <2>3, <4>1, <4>2
    <3>2. ASSUME NEW c \in 1..Len(chan'), NEW d \in 1..Len(chan'), chan'[c].file = chan'[d].file PROVE c = d
      <4>1. CASE c \in 1..Len(chan) /\ d \in 1..Len(chan)
        BY <1>2, <2>1, <3>2, <4>1 DEF Staging
      <4>2. CASE c = Len(chan) + 1 /\ d \in 1..Len(chan)
        BY <1>3, <2>1, <2>4, <3>2, <4>2
      <4>3. CASE c \in 1..Len(chan) /\ d = Len(chan) + 1
        BY <1>3, <2>1, <2>4, <3>2, <4>3
      <4> QED BY <2>3, <4>1, <4>2, <4>3
    <3> QED BY <1>2, <1>7, <3>1, <3>2 DEF Staging
  <2>7. ASSUME NEW j \in Planned, OnItsWay(j, todo, thread, chan, main)
        PROVE  OnItsWay(j, todo, thread', chan', main)
    <3>1. CASE j = i
      <4>1. Len(chan) + 1 \in 1..Len(chan')
        BY <2>1
      <4> QED BY <1>3, <2>1, <3>1, <4>1 DEF OnItsWay
    <3>2. CASE j # i
      <4>1. \A c \in 1..Len(chan) : c \in 1..Len(chan')
        BY <2>1
      <4>2. \A u \in Threads : thread[u].file = j => thread'[u] = thread[u]
        BY <1>6, <3>2
      <4> QED BY <2>1, <2>7, <4>1, <4>2 DEF OnItsWay
    <3> QED BY <3>1, <3>2
  <2> QED BY <1>1, <1>2, <1>6, <2>1, <2>2, <2>6, <2>7, ThreadFrame
<1>9. CASE ~open
  <2>1. main.pc \in {"join", "enrich", "ok", "aborted"}
    BY <1>2, <1>9 DEF Staging
  <2>2. chan' = chan
    BY <1>1, <1>9
  <2>3. Staging(todo, thread', chan, open, main, report)
    BY <1>2, <1>7 DEF Staging
  <2> QED BY <1>1, <1>2, <1>6, <2>1, <2>2, <2>3, ThreadFrame
<1> QED BY <1>2, <1>8, <1>9
-----------------------------------------------------------------------------
(* The file in hand *)

\* No thread, no message and no wait is about file i.
Absent(i, td, th, ch) ==
  /\ i \notin td
  /\ \A t \in Threads : Active(th[t]) => th[t].file # i
  /\ \A c \in 1..Len(ch) : ch[c].file # i

LEMMA InHand ==
  ASSUME IngestInv
  PROVE  /\ Busy(main) => Absent(main.file, todo, thread, chan)
         /\ ~Busy(main) => Absent(0, todo, thread, chan)
<1>1. Staging(todo, thread, chan, open, main, report) /\ todo \subseteq Planned
  BY Parted DEF Kinds
<1>2. 0 \notin Planned
  BY Parted DEF Planned
<1> QED BY <1>1, <1>2 DEF Staging, Waits, Absent

\* The main thread may change what it says of the file in hand, and put it down.
LEMMA StagingFrame ==
  ASSUME NEW i, Staging(todo, thread, chan', open, main, report), Absent(i, todo, thread, chan'),
         \A j \in Planned \ {i} : report'[j] = report[j],
         Busy(main') => main'.file = i,
         ~open' => main'.pc \in {"join", "enrich", "ok", "aborted"}
  PROVE  Staging(todo, thread, chan', open', main', report')
<1>1. \A j : j # i /\ Waits(j, todo, main, report) => Waits(j, todo, main', report')
  BY DEF Waits
<1>2. \A j : j # i /\ Waits(j, {}, main, report) => Waits(j, {}, main', report')
  BY DEF Waits
<1> QED BY <1>1, <1>2 DEF Staging, Absent

\* The first message of the channel, taken out.
LEMMA HeadOut ==
  ASSUME NEW ch \in Seq(Msg), ch # << >>, NEW op, NEW mn, NEW rp, Staging(todo, thread, ch, op, mn, rp)
  PROVE  /\ Staging(todo, thread, Tail(ch), op, mn, rp) /\ Absent(Head(ch).file, todo, thread, Tail(ch))
         /\ MsgOk(Head(ch)) /\ Waits(Head(ch).file, todo, mn, rp)
         /\ Tail(ch) \in Seq(Msg) /\ Len(Tail(ch)) <= Len(ch)
         /\ \A c \in 1..Len(ch) : ch[c] = Head(ch) \/ \E d \in 1..Len(Tail(ch)) : Tail(ch)[d] = ch[c]
<1> DEFINE rest == Tail(ch)
<1>1. /\ rest \in Seq(Msg) /\ Len(ch) \in Nat \ {0} /\ Len(rest) = Len(ch) - 1 /\ Head(ch) = ch[1]
      /\ \A d \in 1..Len(rest) : rest[d] = ch[d + 1] /\ d + 1 \in 1..Len(ch) /\ d + 1 # 1
  OBVIOUS
<1>2. 1 \in 1..Len(ch) /\ Len(rest) <= Len(ch)
  BY <1>1
<1>3. \A c \in 1..Len(ch) : c = 1 \/ (c - 1 \in 1..Len(rest) /\ rest[c - 1] = ch[c])
  BY <1>1
<1> HIDE DEF rest
<1>4. \A c, d \in 1..Len(rest) : rest[c].file = rest[d].file => c = d
  <2> SUFFICES ASSUME NEW c \in 1..Len(rest), NEW d \in 1..Len(rest), rest[c].file = rest[d].file PROVE c = d
    OBVIOUS
  <2>1. c + 1 = d + 1
    BY <1>1 DEF Staging
  <2> QED BY <2>1
<1>5. Staging(todo, thread, rest, op, mn, rp)
  <2>1. \A d \in 1..Len(rest) :
          /\ MsgOk(rest[d]) /\ Waits(rest[d].file, todo, mn, rp)
          /\ \A t \in Threads : Active(thread[t]) => thread[t].file # rest[d].file
    <3> SUFFICES ASSUME NEW d \in 1..Len(rest)
                 PROVE  /\ MsgOk(rest[d]) /\ Waits(rest[d].file, todo, mn, rp)
                        /\ \A t \in Threads : Active(thread[t]) => thread[t].file # rest[d].file
      OBVIOUS
    <3>1. rest[d] = ch[d + 1] /\ d + 1 \in 1..Len(ch)
      BY <1>1
    <3> QED BY <3>1, Zenon DEF Staging
  <2> QED BY <1>4, <2>1, Zenon DEF Staging
<1>6. Absent(Head(ch).file, todo, thread, rest)
  <2>1. Waits(ch[1].file, todo, mn, rp) /\ \A t \in Threads : Active(thread[t]) => thread[t].file # ch[1].file
    BY <1>2, Zenon DEF Staging
  <2>2. ASSUME NEW d \in 1..Len(rest) PROVE rest[d].file # ch[1].file
    <3>1. rest[d] = ch[d + 1] /\ d + 1 \in 1..Len(ch) /\ d + 1 # 1
      BY <1>1
    <3> QED BY <1>2, <3>1, Zenon DEF Staging
  <2>3. Head(ch) = ch[1]
    BY <1>1
  <2> QED BY <2>1, <2>2, <2>3 DEF Waits, Absent
<1>7. MsgOk(Head(ch)) /\ Waits(Head(ch).file, todo, mn, rp)
  BY <1>1, <1>2 DEF Staging
<1> QED BY <1>1, <1>2, <1>3, <1>5, <1>6, <1>7 DEF rest

\* A channel that is dropped.
LEMMA NoChannel ==
  ASSUME NEW ch, NEW op, NEW mn, NEW rp, Staging(todo, thread, ch, op, mn, rp)
  PROVE  /\ Staging(todo, thread, << >>, op, mn, rp) /\ << >> \in Seq(Msg) /\ Len(<< >>) = 0
         /\ \A i : Absent(i, todo, thread, ch) => Absent(i, todo, thread, << >>)
<1>1. Len(<< >>) = 0 /\ 1..0 = {} /\ << >> \in Seq(Msg)
  OBVIOUS
<1> DEFINE none == << >>
<1>2. 1..Len(none) = {}
  BY <1>1
<1> HIDE DEF none
<1>3. Staging(todo, thread, none, op, mn, rp) /\ \A i : Absent(i, todo, thread, ch) => Absent(i, todo, thread, none)
  BY <1>2 DEF Staging, Absent
<1> QED BY <1>1, <1>3 DEF none

\* One more event of file i.
LEMMA OneEvent ==
  ASSUME NEW rp \in [Files -> Seq(Results)], NEW i \in Files, NEW r \in Results, NEW rp2,
         rp2 = [rp EXCEPT ![i] = Append(@, r)]
  PROVE  /\ rp2 \in [Files -> Seq(Results)] /\ Len(rp2[i]) = Len(rp[i]) + 1 /\ Len(rp[i]) \in Nat
         /\ \A j \in Files \ {i} : rp2[j] = rp[j]
         /\ \A k \in DOMAIN rp2[i] : \/ k \in DOMAIN rp[i] /\ rp2[i][k] = rp[i][k]
                                     \/ k = Len(rp[i]) + 1 /\ rp2[i][k] = r
         /\ rp[i] = << >> => rp2[i] = <<r>>
         /\ DOMAIN rp[i] = 1..Len(rp[i])
<1> DEFINE s == rp[i]
           s2 == Append(s, r)
<1>1. s \in Seq(Results) /\ s2 \in Seq(Results) /\ Len(s2) = Len(s) + 1 /\ Len(s) \in Nat /\ DOMAIN s = 1..Len(s)
  OBVIOUS
<1>2. rp2[i] = s2 /\ \A j \in Files \ {i} : rp2[j] = rp[j]
  OBVIOUS
<1>3. \A k \in DOMAIN s2 : (k \in DOMAIN s /\ s2[k] = s[k]) \/ (k = Len(s) + 1 /\ s2[k] = r)
  BY <1>1
<1>4. s = << >> => s2 = <<r>>
  OBVIOUS
<1>5. rp2 \in [Files -> Seq(Results)]
  BY <1>1
<1> QED BY <1>1, <1>2, <1>3, <1>4, <1>5
\* An event of the file in hand leaves the others where they were.
LEMMA EventKeepsAccount ==
  ASSUME IngestInv, NEW i \in Planned,
         main.pc \in {"recv", "lookup", "write"}, main'.pc \in {"recv", "lookup", "aborted"},
         \A j \in Files \ {i} : report'[j] = report[j],
         main'.pc # "aborted" =>
           /\ \A j \in Planned \ {i} : OnItsWay(j, todo, thread, chan, main) => OnItsWay(j, todo, thread, chan', main')
           /\ Settled(i, report') \/ (Busy(main') /\ main'.file = i)
  PROVE  Accounted(todo, thread, chan', main', report', signal)
<1>1. Accounted(todo, thread, chan, main, report, signal) /\ Planned \subseteq Files
  BY Parted
<1>2. \A j \in Files \ Planned : report'[j] = <<"skipped">>
  BY <1>1 DEF Accounted
<1>3. ASSUME ~signal, main'.pc # "aborted", NEW j \in Planned
      PROVE  Settled(j, report') \/ OnItsWay(j, todo, thread, chan', main')
  <2>1. CASE j = i
    BY <1>3, <2>1 DEF OnItsWay
  <2>2. CASE j # i
    <3>1. Settled(j, report) \/ OnItsWay(j, todo, thread, chan, main)
      BY <1>1, <1>3 DEF Accounted
    <3>2. Settled(j, report) => Settled(j, report')
      BY <1>1, <2>2 DEF Settled
    <3> QED BY <1>3, <2>2, <3>1, <3>2
  <2> QED BY <2>1, <2>2
<1> QED BY <1>2, <1>3 DEF Accounted

LEMMA EventKeepsOutcomes ==
  ASSUME IngestInv, NEW i \in Planned, NEW r \in Results, NEW mm2, NEW wr2, NEW rp2,
         rp2 = [report EXCEPT ![i] = Append(@, r)],
         r = "indexed" => Len(report[i]) + 1 \in DOMAIN files[i].parts
                          /\ Kept(i, StagedParts(i)[Len(report[i]) + 1], mm2, wr2, others),
         r = "skipped" => Len(report[i]) + 1 \in DOMAIN files[i].parts
                          /\ Spared(StagedParts(i)[Len(report[i]) + 1], mm2, others),
         \A j \in Planned : \A k \in DOMAIN report[j] :
           /\ report[j][k] = "indexed" /\ Kept(j, StagedParts(j)[k], mem, wrote, others)
                => Kept(j, StagedParts(j)[k], mm2, wr2, others)
           /\ report[j][k] = "skipped" /\ Spared(StagedParts(j)[k], mem, others)
                => Spared(StagedParts(j)[k], mm2, others)
  PROVE  Outcomes(mm2, rp2, wr2, others)
<1>1. /\ Outcomes(mem, report, wrote, others) /\ Planned \subseteq Files
      /\ report \in [Files -> Seq(Results)]
  BY Parted DEF Kinds
<1>2. /\ \A j \in Files \ {i} : rp2[j] = report[j]
      /\ \A k \in DOMAIN rp2[i] : \/ k \in DOMAIN report[i] /\ rp2[i][k] = report[i][k]
                                  \/ k = Len(report[i]) + 1 /\ rp2[i][k] = r
  <2>1. i \in Files
    BY <1>1
  <2> QED BY <1>1, <2>1, OneEvent
<1>3. ASSUME NEW j \in Planned, NEW k \in DOMAIN report[j]
      PROVE  /\ report[j][k] = "indexed" => k \in DOMAIN files[j].parts /\ Kept(j, StagedParts(j)[k], mm2, wr2, others)
             /\ report[j][k] = "skipped" => k \in DOMAIN files[j].parts /\ Spared(StagedParts(j)[k], mm2, others)
  BY <1>1 DEF Outcomes
<1>4. ASSUME NEW j \in Planned, NEW k \in DOMAIN rp2[j]
      PROVE  /\ rp2[j][k] = "indexed" => k \in DOMAIN files[j].parts /\ Kept(j, StagedParts(j)[k], mm2, wr2, others)
             /\ rp2[j][k] = "skipped" => k \in DOMAIN files[j].parts /\ Spared(StagedParts(j)[k], mm2, others)
  <2>1. CASE j # i
    BY <1>1, <1>2, <1>3, <2>1
  <2>2. CASE j = i
    BY <1>2, <1>3, <2>2
  <2> QED BY <2>1, <2>2
<1> QED BY <1>4 DEF Outcomes

\* What is known of a part in hand.
LEMMA InHandFacts ==
  ASSUME IngestInv, Busy(main)
  PROVE  /\ main.file \in Planned /\ main.file \in Files /\ main \in Main /\ report[main.file] \in Seq(Results)
         /\ main.parts # << >> /\ Len(main.parts) \in Nat \ {0} /\ main.parts \in Seq(Parts)
         /\ Len(report[main.file]) \in Nat
         /\ Len(report[main.file]) + Len(main.parts) = Len(files[main.file].parts)
         /\ Len(report[main.file]) + 1 \in DOMAIN files[main.file].parts
         /\ main.parts[1] = StagedParts(main.file)[Len(report[main.file]) + 1]
         /\ main.parts[1] \in Parts
         /\ Waiting \in Main /\ main.pc \in {"lookup", "write"}
         /\ DOMAIN files[main.file].parts = 1..Len(files[main.file].parts)
<1> DEFINE i == main.file
<1>1. /\ i \in Planned /\ main.parts # << >> /\ main \in Main /\ i \in Files /\ report \in [Files -> Seq(Results)]
      /\ Len(report[i]) + Len(main.parts) = Len(files[i].parts)
      /\ \A j \in 1..Len(main.parts) : main.parts[j] = StagedParts(i)[Len(report[i]) + j]
  BY Parted DEF Kinds, Persisting
<1>2. main.parts \in Seq(Parts) /\ main.pc \in {"lookup", "write"}
  BY <1>1 DEF Main, Busy
<1>3. Len(main.parts) \in Nat \ {0} /\ main.parts[1] \in Parts /\ 1 \in 1..Len(main.parts)
  BY <1>1, <1>2
<1>4. report[i] \in Seq(Results) /\ Len(report[i]) \in Nat
  BY <1>1
<1>5. DOMAIN files[i].parts = 1..Len(files[i].parts)
  BY <1>1, Parted, PartFacts
<1>6. Waiting \in Main
  BY DEF Waiting, Main
<1> HIDE DEF i
<1>7. Len(report[i]) + 1 \in DOMAIN files[i].parts
  BY <1>1, <1>3, <1>4, <1>5
<1> QED BY <1>1, <1>2, <1>3, <1>4, <1>5, <1>6, <1>7 DEF i

LEMMA TailFacts ==
  ASSUME NEW S, NEW s \in Seq(S), Len(s) > 1
  PROVE  /\ Tail(s) \in Seq(S) /\ Tail(s) # << >> /\ Len(Tail(s)) = Len(s) - 1
         /\ \A j \in 1..Len(Tail(s)) : Tail(s)[j] = s[j + 1] /\ j + 1 \in 1..Len(s) /\ j \in Nat
<1>1. Len(s) \in Nat /\ s # << >> /\ Tail(s) \in Seq(S) /\ Len(Tail(s)) = Len(s) - 1
  OBVIOUS
<1>2. \A j \in 1..Len(Tail(s)) : Tail(s)[j] = s[j + 1]
  OBVIOUS
<1>3. \A j \in 1..Len(Tail(s)) : j + 1 \in 1..Len(s) /\ j \in Nat
  BY <1>1
<1>4. Tail(s) # << >>
  <2> DEFINE rest == Tail(s)
  <2>1. Len(<< >>) = 0
    OBVIOUS
  <2>2. Len(rest) # 0
    BY <1>1
  <2> HIDE DEF rest
  <2>3. rest # << >>
    BY <2>1, <2>2, Zenon
  <2> QED BY <2>3 DEF rest
<1> QED BY <1>1, <1>2, <1>3, <1>4

\* The rest of a file, after one of its parts.
LEMMA OnwardFacts ==
  ASSUME IngestInv, Busy(main)
  PROVE  /\ Onward \in Main /\ Onward.pc \in {"recv", "lookup"}
         /\ IF Len(main.parts) > 1
              THEN /\ Onward.pc = "lookup" /\ Onward.file = main.file
                   /\ Onward.parts # << >> /\ Len(Onward.parts) = Len(main.parts) - 1
                   /\ \A j \in 1..Len(Onward.parts) :
                        Onward.parts[j] = StagedParts(main.file)[Len(report[main.file]) + 1 + j]
              ELSE Onward.pc = "recv"
<1>1. /\ main \in Main /\ main.parts \in Seq(Parts) /\ Len(main.parts) \in Nat \ {0} /\ Waiting \in Main
      /\ Len(report[main.file]) \in Nat /\ main.file \in Planned
      /\ \A j \in 1..Len(main.parts) : main.parts[j] = StagedParts(main.file)[Len(report[main.file]) + j]
  BY InHandFacts, Parted DEF Persisting
<1>2. CASE Len(main.parts) > 1
  <2> DEFINE ps == Tail(main.parts)
             n  == Len(report[main.file])
  <2>1. /\ ps \in Seq(Parts) /\ ps # << >> /\ Len(ps) = Len(main.parts) - 1
        /\ \A j \in 1..Len(ps) : ps[j] = main.parts[j + 1] /\ j + 1 \in 1..Len(main.parts) /\ j \in Nat
    BY <1>1, <1>2, TailFacts
  <2>2. \A j \in 1..Len(ps) : ps[j] = StagedParts(main.file)[n + 1 + j]
    <3> SUFFICES ASSUME NEW j \in 1..Len(ps) PROVE ps[j] = StagedParts(main.file)[n + 1 + j]
      OBVIOUS
    <3>1. ps[j] = main.parts[j + 1] /\ j + 1 \in 1..Len(main.parts) /\ j \in Nat
      BY <2>1
    <3>2. main.parts[j + 1] = StagedParts(main.file)[n + (j + 1)]
      BY <1>1, <3>1
    <3>3. n + (j + 1) = n + 1 + j
      <4>1. n \in Nat
        BY <1>1
      <4> HIDE DEF n
      <4> QED BY <3>1, <4>1
    <3> QED BY <3>1, <3>2, <3>3
  <2>3. Onward = [main EXCEPT !.pc = "lookup", !.parts = ps]
    BY <1>2 DEF Onward
  <2> HIDE DEF ps, n
  <2>4. Onward \in Main /\ Onward.pc = "lookup" /\ Onward.file = main.file /\ Onward.parts = ps
    BY <1>1, <2>1, <2>3 DEF Main
  <2> QED BY <1>2, <2>1, <2>2, <2>4 DEF n
<1>3. CASE ~(Len(main.parts) > 1)
  <2>1. Onward = Waiting /\ Waiting.pc = "recv"
    BY <1>3 DEF Onward, Waiting
  <2> QED BY <1>1, <1>3, <2>1
<1> QED BY <1>2, <1>3
-----------------------------------------------------------------------------
(* Persisting *)

\* A part is reported and the main thread goes on to the next.
LEMMA PartDone ==
  ASSUME IngestInv, Busy(main), NEW r \in Results, Reported(main.file, r), main' = Onward,
         UNCHANGED <<files, opts, plan, todo, thread, chan, open, signal, others>>,
         mem' \in [Names -> Mem \cup {NoMem}], wrote' \subseteq Planned \X Names,
         Outcomes(mem', report', wrote', others), OwnNames(wrote'), BodiesApart(mem')
  PROVE  IngestInv'
<1> DEFINE i == main.file
           n == Len(report[i])
<1>1. /\ i \in Planned /\ i \in Files /\ Len(main.parts) \in Nat \ {0} /\ n \in Nat
      /\ n + Len(main.parts) = Len(files[i].parts) /\ main.pc \in {"lookup", "write"}
  BY InHandFacts
<1>2. /\ Kinds(todo, thread, chan, open, main, mem, report, wrote, signal, others) /\ Fixed
      /\ Staging(todo, thread, chan, open, main, report)
  BY Parted
<1>3. /\ report' \in [Files -> Seq(Results)] /\ Len(report'[i]) = n + 1
      /\ \A j \in Files \ {i} : report'[j] = report[j]
  <2>1. report' = [report EXCEPT ![i] = Append(@, r)]
    BY DEF Reported
  <2> QED BY <1>1, <1>2, <2>1, OneEvent DEF Kinds
<1>4. /\ Onward \in Main /\ Onward.pc \in {"recv", "lookup"}
      /\ Len(main.parts) > 1 =>
           /\ Onward.pc = "lookup" /\ Onward.file = i
           /\ Onward.parts # << >> /\ Len(Onward.parts) = Len(main.parts) - 1
           /\ \A j \in 1..Len(Onward.parts) : Onward.parts[j] = StagedParts(i)[n + 1 + j]
      /\ ~(Len(main.parts) > 1) => Onward.pc = "recv"
  BY OnwardFacts
<1> HIDE DEF i, n
<1>5. Kinds(todo, thread, chan, open, main', mem', report', wrote', signal, others)
  BY <1>2, <1>3, <1>4 DEF Kinds
<1>6. Absent(i, todo, thread, chan) /\ open
  <2>1. main.pc \notin {"join", "enrich", "ok", "aborted"}
    BY <1>1
  <2> QED BY <1>2, <2>1, InHand DEF i, Kinds, Staging
<1>7. Busy(Onward) => Len(main.parts) > 1 /\ Onward.file = i
  BY <1>4 DEF Busy
<1>8. Staging(todo, thread, chan, open, main', report')
  <2>1. Planned \subseteq Files
    BY Parted
  <2> QED BY <1>2, <1>3, <1>6, <1>7, <2>1, StagingFrame
<1>9. Persisting(main', report')
  <2> SUFFICES ASSUME Busy(Onward) PROVE Persisting(Onward, report')
    BY DEF Persisting
  <2>1. Len(main.parts) > 1 /\ Onward.file = i
    BY <1>7
  <2>2. Len(report'[i]) + Len(Onward.parts) = Len(files[i].parts)
    <3>1. Len(report'[i]) = n + 1 /\ Len(Onward.parts) = Len(main.parts) - 1
      BY <1>3, <1>4, <2>1
    <3>2. n \in Nat /\ Len(main.parts) \in Nat /\ n + Len(main.parts) = Len(files[i].parts)
      BY <1>1
    <3>3. \A a, b \in Nat : (a + 1) + (b - 1) = a + b
      OBVIOUS
    <3>4. (n + 1) + (Len(main.parts) - 1) = n + Len(main.parts)
      BY <3>2, <3>3
    <3> QED BY <3>1, <3>2, <3>4, Zenon
  <2> QED BY <1>1, <1>3, <1>4, <2>1, <2>2 DEF Persisting
<1>10. LookedUp(main', mem', others)
  BY <1>4 DEF LookedUp
<1>11. Accounted(todo, thread, chan, main', report', signal)
  <2>1. \A j \in Planned \ {i} : OnItsWay(j, todo, thread, chan, main) => OnItsWay(j, todo, thread, chan, main')
    BY DEF OnItsWay, i
  <2>2. Settled(i, report') \/ (Busy(main') /\ main'.file = i)
    <3>1. CASE Len(main.parts) > 1
      BY <1>4, <3>1 DEF Busy
    <3>2. CASE ~(Len(main.parts) > 1)
      <4>1. Len(report'[i]) = Len(files[i].parts)
        BY <1>1, <1>3, <3>2
      <4> QED BY <4>1 DEF Settled
    <3> QED BY <3>1, <3>2
  <2>3. main.pc \in {"recv", "lookup", "write"} /\ main'.pc \in {"recv", "lookup", "aborted"}
    BY <1>1, <1>4
  <2> QED BY <1>1, <1>3, <2>1, <2>2, <2>3, EventKeepsAccount
<1>12. Invariant(todo', thread', chan', open', main', mem', report', wrote', signal', others')
  BY <1>5, <1>8, <1>9, <1>10, <1>11 DEF Invariant
<1> QED BY <1>2, <1>12, SameRun

\* --fail-fast: the run ends where it is.
LEMMA AbortStep ==
  ASSUME IngestInv, NEW i \in Planned, main.pc \in {"recv", "lookup", "write"}, Reported(i, "failed"),
         main' = [Waiting EXCEPT !.pc = "aborted"], chan' = << >>, ~open', open' \in BOOLEAN,
         Absent(i, todo, thread, << >>),
         UNCHANGED <<files, opts, plan, todo, thread, mem, wrote, signal, others>>
  PROVE  IngestInv'
<1>1. /\ Kinds(todo, thread, chan, open, main, mem, report, wrote, signal, others) /\ Fixed
      /\ Staging(todo, thread, chan, open, main, report) /\ OwnNames(wrote) /\ BodiesApart(mem)
      /\ i \in Files /\ Planned \subseteq Files /\ Capacity \in Nat
  BY Parted
<1>2. report' = [report EXCEPT ![i] = Append(@, "failed")] /\ "failed" \in Results
  BY DEF Reported, Results
<1>3. report' \in [Files -> Seq(Results)] /\ \A j \in Files \ {i} : report'[j] = report[j]
  BY <1>1, <1>2, OneEvent DEF Kinds
<1>4. main' \in Main /\ main'.pc = "aborted"
  <2>1. Waiting \in Main
    BY DEF Waiting, Main
  <2> QED BY <2>1 DEF Main
<1>5. Staging(todo, thread, << >>, open, main, report) /\ << >> \in Seq(Msg) /\ Len(<< >>) = 0
  BY <1>1, NoChannel
<1>6. chan' \in Seq(Msg) /\ Len(chan') = 0 /\ Len(chan') <= Capacity
  BY <1>1, <1>5
<1>7. Staging(todo, thread, chan', open, main, report) /\ Absent(i, todo, thread, chan')
  BY <1>5
<1>8. Kinds(todo, thread, chan', open', main', mem, report', wrote, signal, others)
  BY <1>1, <1>3, <1>4, <1>6 DEF Kinds
<1>9. Staging(todo, thread, chan', open', main', report')
  <2>1. ~Busy(main')
    BY <1>4 DEF Busy
  <2> QED BY <1>1, <1>3, <1>4, <1>7, <2>1, StagingFrame
<1>10. Persisting(main', report') /\ LookedUp(main', mem, others)
  BY <1>4 DEF Persisting, LookedUp, Busy
<1>11. Accounted(todo, thread, chan', main', report', signal)
  BY <1>3, <1>4, EventKeepsAccount
<1>12. Outcomes(mem, report', wrote, others)
  BY <1>2, EventKeepsOutcomes
<1>13. Invariant(todo', thread', chan', open', main', mem', report', wrote', signal', others')
  BY <1>1, <1>8, <1>9, <1>10, <1>11, <1>12 DEF Invariant
<1> QED BY <1>1, <1>13, SameRun
\* The loop is left, and what follows it: nothing is in hand, nothing is written.
LEMMA LoopEnds ==
  ASSUME IngestInv, main.pc \in {"recv", "join", "enrich"}, main' \in Main, main'.pc \in {"join", "enrich", "ok"},
         open' \in BOOLEAN, chan' \in {chan, << >>}, ~signal => \A i \in Planned : Settled(i, report),
         UNCHANGED <<files, opts, plan, todo, thread, mem, report, wrote, signal, others>>
  PROVE  IngestInv'
<1>1. /\ Kinds(todo, thread, chan, open, main, mem, report, wrote, signal, others) /\ Fixed
      /\ Staging(todo, thread, chan, open, main, report) /\ OwnNames(wrote) /\ BodiesApart(mem)
      /\ Outcomes(mem, report, wrote, others) /\ Capacity \in Nat
      /\ Accounted(todo, thread, chan, main, report, signal) /\ Planned \subseteq Files
  BY Parted
<1>2. ~Busy(main) /\ ~Busy(main')
  BY DEF Busy
<1>3. /\ chan' \in Seq(Msg) /\ Len(chan') <= Capacity
      /\ Staging(todo, thread, chan', open, main, report) /\ Absent(0, todo, thread, chan')
  <2>1. Absent(0, todo, thread, chan) /\ chan \in Seq(Msg) /\ Len(chan) <= Capacity
    BY <1>1, <1>2, InHand DEF Kinds
  <2>2. /\ << >> \in Seq(Msg) /\ Len(<< >>) = 0
        /\ Staging(todo, thread, << >>, open, main, report) /\ Absent(0, todo, thread, << >>)
    BY <1>1, <2>1, NoChannel
  <2>3. CASE chan' = chan
    BY <1>1, <2>1, <2>3
  <2>4. CASE chan' = << >>
    BY <1>1, <2>2, <2>4
  <2> QED BY <2>3, <2>4
<1>4. Kinds(todo, thread, chan', open', main', mem, report, wrote, signal, others)
  BY <1>1, <1>3 DEF Kinds
<1>5. Staging(todo, thread, chan', open', main', report')
  BY <1>2, <1>3, StagingFrame
<1>6. Persisting(main', report) /\ LookedUp(main', mem, others)
  BY <1>2 DEF Persisting, LookedUp, Busy
<1>7. Accounted(todo, thread, chan', main', report, signal)
  BY <1>1 DEF Accounted
<1>8. Invariant(todo', thread', chan', open', main', mem', report', wrote', signal', others')
  BY <1>1, <1>4, <1>5, <1>6, <1>7 DEF Invariant
<1> QED BY <1>1, <1>8, SameRun

LEMMA DrainedStep ==
  ASSUME IngestInv, Drained
  PROVE  IngestInv'
<1>1. /\ main.pc = "recv" /\ chan = << >> /\ Produced /\ ~open' /\ main' = [Waiting EXCEPT !.pc = "join"]
      /\ UNCHANGED <<files, opts, plan, todo, thread, chan, mem, report, wrote, signal, others>> /\ open' \in BOOLEAN
  BY DEF Drained
<1>2. main' \in Main /\ main'.pc = "join"
  <2>1. Waiting \in Main
    BY DEF Waiting, Main
  <2> QED BY <1>1, <2>1 DEF Main
<1>3. /\ Staging(todo, thread, chan, open, main, report) /\ Accounted(todo, thread, chan, main, report, signal)
      /\ \E t \in Threads : TRUE
  BY Parted, IngestConstants
<1>4. todo = {} /\ \A t \in Threads : ~Active(thread[t])
  BY <1>1, <1>3 DEF Produced, Staging, Active
<1>5. 1..Len(chan) = {}
  <2>1. Len(<< >>) = 0 /\ 1..0 = {}
    OBVIOUS
  <2> QED BY <1>1, <2>1
<1>6. \A i : ~OnItsWay(i, todo, thread, chan, main)
  BY <1>1, <1>4, <1>5 DEF OnItsWay, Busy
<1>7. ~signal => \A i \in Planned : Settled(i, report)
  BY <1>1, <1>3, <1>6 DEF Accounted
<1> QED BY <1>1, <1>2, <1>7, LoopEnds

LEMMA JoinStep ==
  ASSUME IngestInv, Join \/ EnrichAfter
  PROVE  IngestInv'
<1>1. /\ main.pc \in {"join", "enrich"}
      /\ UNCHANGED <<files, opts, plan, todo, thread, chan, open, mem, report, wrote, signal, others>>
      /\ \E p \in {"enrich", "ok"} : main' = [main EXCEPT !.pc = p]
  BY DEF Join, EnrichAfter
<1>2. main \in Main /\ open \in BOOLEAN /\ Accounted(todo, thread, chan, main, report, signal)
  BY Parted DEF Kinds
<1>3. main' \in Main /\ main'.pc \in {"enrich", "ok"}
  BY <1>1, <1>2 DEF Main
<1>4. ~signal => \A i \in Planned : Settled(i, report)
  BY <1>1, <1>2 DEF Accounted
<1> QED BY <1>1, <1>2, <1>3, <1>4, LoopEnds

LEMMA SkipsStep ==
  ASSUME IngestInv, ReportSkips
  PROVE  IngestInv'
<1>1. /\ main.pc = "skips" /\ main' = Waiting
      /\ report' = [i \in Files |-> IF plan[i] = NoName THEN <<"skipped">> ELSE << >>]
      /\ UNCHANGED <<files, opts, plan, todo, thread, chan, open, mem, wrote, signal, others>>
  BY DEF ReportSkips
<1>2. /\ Kinds(todo, thread, chan, open, main, mem, report, wrote, signal, others) /\ Fixed
      /\ Staging(todo, thread, chan, open, main, report) /\ OwnNames(wrote) /\ BodiesApart(mem)
      /\ Outcomes(mem, report, wrote, others) /\ Planned \subseteq Files
      /\ Accounted(todo, thread, chan, main, report, signal)
  BY Parted
<1>3. Waiting \in Main /\ Waiting.pc = "recv"
  BY DEF Waiting, Main
<1>4. ~Busy(main) /\ ~Busy(main') /\ main'.pc = "recv"
  BY <1>1, <1>3 DEF Busy
<1>5. /\ \A i \in Planned : report'[i] = report[i]
      /\ \A i \in Files \ Planned : report'[i] = <<"skipped">>
      /\ report' \in [Files -> Seq(Results)]
  <2>1. << >> \in Seq(Results) /\ <<"skipped">> \in Seq(Results)
    BY DEF Results
  <2>2. \A i \in Files : report[i] = << >>
    BY <1>1, <1>2 DEF Accounted
  <2> QED BY <1>1, <1>2, <2>1, <2>2 DEF Planned
<1>6. Kinds(todo, thread, chan, open, main', mem, report', wrote, signal, others)
  BY <1>1, <1>2, <1>3, <1>5 DEF Kinds
<1>7. open /\ Absent(0, todo, thread, chan)
  BY <1>1, <1>2, <1>4, InHand DEF Staging, Kinds
<1>8. Staging(todo, thread, chan', open', main', report')
  BY <1>1, <1>2, <1>4, <1>5, <1>7, StagingFrame
<1>9. Persisting(main', report') /\ LookedUp(main', mem, others)
  BY <1>4 DEF Persisting, LookedUp
<1>10. Accounted(todo, thread, chan, main', report', signal)
  <2>1. ASSUME NEW i \in Planned PROVE /\ Settled(i, report) => Settled(i, report')
                                       /\ OnItsWay(i, todo, thread, chan, main) => OnItsWay(i, todo, thread, chan, main')
    BY <1>4, <1>5 DEF Settled, OnItsWay
  <2> QED BY <1>1, <1>2, <1>4, <1>5, <2>1 DEF Accounted
<1>11. Outcomes(mem, report', wrote, others)
  BY <1>2, <1>5 DEF Outcomes
<1>12. Invariant(todo', thread', chan', open', main', mem', report', wrote', signal', others')
  BY <1>1, <1>2, <1>6, <1>8, <1>9, <1>10, <1>11 DEF Invariant
<1> QED BY <1>1, <1>2, <1>12, SameRun

LEMMA LookupStep ==
  ASSUME IngestInv, Lookup
  PROVE  IngestInv'
<1> DEFINE part == main.parts[1]
           f == IsLive(part.name)
           d == \E n \in Names : IsLive(n) /\ mem[n].body = part.body
<1>1. /\ main.pc = "lookup" /\ main' = [main EXCEPT !.pc = "write", !.found = f, !.dup = d]
      /\ UNCHANGED <<files, opts, plan, todo, thread, chan, open, mem, report, wrote, signal, others>>
  BY DEF Lookup, Part
<1>2. /\ Kinds(todo, thread, chan, open, main, mem, report, wrote, signal, others) /\ Fixed
      /\ Staging(todo, thread, chan, open, main, report) /\ OwnNames(wrote) /\ BodiesApart(mem)
      /\ Outcomes(mem, report, wrote, others) /\ Persisting(main, report)
      /\ Accounted(todo, thread, chan, main, report, signal)
  BY Parted
<1>3. f \in BOOLEAN /\ d \in BOOLEAN
  <2>1. f \in BOOLEAN
    <3>1. part.name \in Names /\ mem \in [Names -> Mem \cup {NoMem}]
      BY <1>1, <1>2, InHandFacts DEF Busy, Parts, Kinds
    <3> HIDE DEF part
    <3>2. mem[part.name] = NoMem \/ mem[part.name].live \in BOOLEAN
      BY <3>1 DEF Mem
    <3> QED BY <3>2 DEF IsLive
  <2> QED BY <2>1, Zenon
<1>4. /\ f => Live(mem, part.name)
      /\ d => \E n \in Names : Live(mem, n) /\ mem[n].body = part.body
      /\ ~d => \A n \in Names : Live(mem, n) => mem[n].body # part.body
  BY DEF IsLive, Live
<1>5. main \in Main /\ Busy(main)
  BY <1>1, <1>2 DEF Kinds, Busy
<1> HIDE DEF f, d
<1>6. /\ main' \in Main /\ main'.pc = "write" /\ main'.file = main.file /\ main'.parts = main.parts
      /\ main'.found = f /\ main'.dup = d
  BY <1>1, <1>3, <1>5 DEF Main
<1>7. Kinds(todo, thread, chan, open, main', mem, report, wrote, signal, others)
  BY <1>2, <1>6 DEF Kinds
<1>8. open /\ Absent(main.file, todo, thread, chan) /\ Busy(main')
  BY <1>1, <1>2, <1>5, <1>6, InHand DEF Staging, Kinds, Busy
<1>9. Staging(todo, thread, chan', open', main', report')
  BY <1>1, <1>2, <1>6, <1>8, StagingFrame
<1>10. Persisting(main', report)
  BY <1>2, <1>5, <1>6 DEF Persisting
<1>11. LookedUp(main', mem, others)
  BY <1>4, <1>6 DEF LookedUp
<1>12. Accounted(todo, thread, chan, main', report, signal)
  <2>1. \A i \in Planned : OnItsWay(i, todo, thread, chan, main) => OnItsWay(i, todo, thread, chan, main')
    BY <1>6, <1>8 DEF OnItsWay
  <2> QED BY <1>1, <1>2, <1>6, <2>1 DEF Accounted
<1>13. Invariant(todo', thread', chan', open', main', mem', report', wrote', signal', others')
  BY <1>1, <1>2, <1>7, <1>9, <1>10, <1>11, <1>12 DEF Invariant
<1> QED BY <1>1, <1>2, <1>13, SameRun
\* The next message: the run is over, a file is in hand, or it failed.
LEMMA ReceiveStep ==
  ASSUME IngestInv, Receive
  PROVE  IngestInv'
<1> DEFINE msg == Head(chan)
           i == msg.file
<1>1. /\ main.pc = "recv" /\ chan # << >>
      /\ UNCHANGED <<files, opts, plan, todo, thread, mem, wrote, signal, others>>
  BY DEF Receive
<1>2. /\ Kinds(todo, thread, chan, open, main, mem, report, wrote, signal, others) /\ Fixed
      /\ Staging(todo, thread, chan, open, main, report) /\ OwnNames(wrote) /\ BodiesApart(mem)
      /\ Outcomes(mem, report, wrote, others) /\ Planned \subseteq Files /\ Capacity \in Nat
      /\ Accounted(todo, thread, chan, main, report, signal)
  BY Parted
<1>3. /\ Staging(todo, thread, Tail(chan), open, main, report) /\ Absent(i, todo, thread, Tail(chan))
      /\ MsgOk(msg) /\ Waits(i, todo, main, report) /\ Tail(chan) \in Seq(Msg) /\ Len(Tail(chan)) <= Len(chan)
      /\ \A c \in 1..Len(chan) : chan[c] = msg \/ \E d \in 1..Len(Tail(chan)) : Tail(chan)[d] = chan[c]
      /\ chan \in Seq(Msg)
  BY <1>1, <1>2, HeadOut DEF Kinds
<1>4. i \in Planned /\ i \in Files /\ report[i] = << >> /\ msg \in Msg /\ Waiting \in Main /\ ~Busy(main)
  BY <1>1, <1>2, <1>3 DEF MsgOk, Waits, Busy, Waiting, Main
<1>5. Tail(chan) \in Seq(Msg) /\ Len(Tail(chan)) <= Capacity /\ open
  <2>1. Len(chan) <= Capacity /\ Len(chan) \in Nat /\ Len(Tail(chan)) \in Nat
    BY <1>2, <1>3 DEF Kinds
  <2> QED BY <1>1, <1>2, <1>3, <2>1 DEF Kinds, Staging
<1>6. \A j \in Planned \ {i} : OnItsWay(j, todo, thread, chan, main) => OnItsWay(j, todo, thread, Tail(chan), main)
  BY <1>3 DEF OnItsWay
<1> HIDE DEF msg, i
<1>7. CASE /\ signal
           /\ main' = [Waiting EXCEPT !.pc = "join"] /\ open' = FALSE /\ chan' = << >> /\ UNCHANGED report
  <2>1. main' \in Main /\ main'.pc = "join"
    BY <1>4, <1>7 DEF Main
  <2> QED BY <1>1, <1>7, <2>1, LoopEnds
<1>8. CASE /\ ~signal /\ opts.storage /\ msg.ok
           /\ main' = [Waiting EXCEPT !.pc = "lookup", !.file = msg.file, !.parts = msg.parts]
           /\ chan' = Tail(chan) /\ UNCHANGED <<open, report>>
  <2>1. msg.parts = StagedParts(i) /\ msg.parts # << >> /\ msg.parts \in Seq(Parts)
    BY <1>3, <1>4, <1>8 DEF MsgOk, Msg, i
  <2>2. main' \in Main /\ main'.pc = "lookup" /\ main'.file = i /\ main'.parts = msg.parts
    BY <1>4, <1>8, <2>1 DEF Main, i
  <2>3. Busy(main')
    BY <2>2 DEF Busy
  <2>4. Kinds(todo, thread, chan', open, main', mem, report, wrote, signal, others)
    BY <1>2, <1>5, <1>8, <2>2 DEF Kinds
  <2>5. Staging(todo, thread, chan', open', main', report')
    BY <1>3, <1>5, <1>8, <2>2, StagingFrame
  <2>6. Persisting(main', report)
    <3>1. /\ Len(StagedParts(i)) = Len(files[i].parts) /\ Len(files[i].parts) \in Nat
          /\ Len(<< >>) = 0
      BY <1>2, <1>4, PartFacts
    <3>2. /\ Len(report[i]) = 0 /\ \A j \in 1..Len(msg.parts) : 0 + j = j
      BY <1>4, <2>1, <3>1
    <3>3. Len(report[i]) + Len(msg.parts) = Len(files[i].parts)
      BY <2>1, <3>1, <3>2
    <3> QED BY <1>4, <2>1, <2>2, <3>2, <3>3 DEF Persisting
  <2>7. LookedUp(main', mem, others)
    BY <2>2 DEF LookedUp
  <2>8. Accounted(todo, thread, chan', main', report', signal)
    <3>1. \A j \in Planned \ {i} : OnItsWay(j, todo, thread, chan, main) => OnItsWay(j, todo, thread, chan', main')
      BY <1>4, <1>6, <1>8 DEF OnItsWay
    <3> QED BY <1>1, <1>4, <1>8, <2>2, <2>3, <3>1, EventKeepsAccount
  <2>9. Invariant(todo', thread', chan', open', main', mem', report', wrote', signal', others')
    BY <1>1, <1>2, <1>8, <2>4, <2>5, <2>6, <2>7, <2>8 DEF Invariant
  <2> QED BY <1>1, <1>2, <2>9, SameRun
<1>9. CASE ~signal /\ ~(opts.storage /\ msg.ok) /\ Fails(msg.file, Tail(chan), Waiting)
  <2>1. Reported(i, "failed")
    BY <1>9 DEF Fails, i
  <2>2. CASE opts.failFast
    <3>1. main' = [Waiting EXCEPT !.pc = "aborted"] /\ chan' = << >> /\ open' = FALSE
      BY <1>9, <2>2 DEF Fails
    <3>2. Absent(i, todo, thread, << >>)
      BY <1>3, NoChannel
    <3> QED BY <1>1, <1>4, <2>1, <3>1, <3>2, AbortStep
  <2>3. CASE ~opts.failFast
    <3>1. main' = Waiting /\ chan' = Tail(chan) /\ open' = TRUE
      BY <1>9, <2>3 DEF Fails
    <3>2. report' = [report EXCEPT ![i] = Append(@, "failed")] /\ "failed" \in Results
      BY <2>1 DEF Reported, Results
    <3>3. /\ report' \in [Files -> Seq(Results)] /\ report'[i] = <<"failed">>
          /\ \A j \in Files \ {i} : report'[j] = report[j]
      BY <1>2, <1>4, <3>2, OneEvent DEF Kinds
    <3>4. main'.pc = "recv" /\ ~Busy(main') /\ main' \in Main
      BY <1>4, <3>1 DEF Waiting, Busy
    <3>5. Kinds(todo, thread, chan', open', main', mem, report', wrote, signal, others)
      BY <1>2, <1>5, <3>1, <3>3, <3>4 DEF Kinds
    <3>6. Staging(todo, thread, chan', open', main', report')
      BY <1>2, <1>3, <3>1, <3>3, <3>4, StagingFrame
    <3>7. Persisting(main', report') /\ LookedUp(main', mem, others)
      BY <3>4 DEF Persisting, LookedUp
    <3>8. Accounted(todo, thread, chan', main', report', signal)
      <4>1. \A j \in Planned \ {i} : OnItsWay(j, todo, thread, chan, main) => OnItsWay(j, todo, thread, chan', main')
        BY <1>4, <1>6, <3>1 DEF OnItsWay
      <4>2. Settled(i, report')
        BY <3>3 DEF Settled
      <4> QED BY <1>1, <1>4, <3>3, <3>4, <4>1, <4>2, EventKeepsAccount
    <3>9. Outcomes(mem, report', wrote, others)
      BY <1>4, <3>2, EventKeepsOutcomes
    <3>10. Invariant(todo', thread', chan', open', main', mem', report', wrote', signal', others')
      BY <1>1, <1>2, <3>5, <3>6, <3>7, <3>8, <3>9 DEF Invariant
    <3> QED BY <1>1, <1>2, <3>10, SameRun
  <2> QED BY <2>2, <2>3
<1> QED BY <1>7, <1>8, <1>9 DEF Receive, msg

LEMMA SkipStep ==
  ASSUME IngestInv, SkipDuplicate
  PROVE  IngestInv'
<1> DEFINE i == main.file
           part == main.parts[1]
<1>1. /\ main.pc = "write" /\ IsDuplicate /\ Reported(i, "skipped") /\ main' = Onward
      /\ UNCHANGED <<files, opts, plan, todo, thread, chan, open, mem, wrote, signal, others>>
  BY DEF SkipDuplicate
<1>2. /\ Kinds(todo, thread, chan, open, main, mem, report, wrote, signal, others) /\ Fixed
      /\ OwnNames(wrote) /\ BodiesApart(mem) /\ LookedUp(main, mem, others)
  BY Parted
<1>3. Busy(main) /\ "skipped" \in Results
  BY <1>1 DEF Busy, Results
<1>4. /\ i \in Planned /\ Len(report[i]) + 1 \in DOMAIN files[i].parts
      /\ part = StagedParts(i)[Len(report[i]) + 1] /\ main.found \in BOOLEAN /\ main.dup \in BOOLEAN
      /\ opts.force \in BOOLEAN
  BY <1>2, <1>3, InHandFacts DEF Main, Fixed
<1>5. Spared(part, mem, others)
  BY <1>1, <1>2, <1>4 DEF Spared, LookedUp, IsDuplicate
<1> HIDE DEF part
<1>6. Outcomes(mem, report', wrote, others)
  <2>1. report' = [report EXCEPT ![i] = Append(@, "skipped")]
    BY <1>1 DEF Reported
  <2> HIDE DEF i
  <2> QED BY <1>3, <1>4, <1>5, <2>1, EventKeepsOutcomes
<1>7. mem' \in [Names -> Mem \cup {NoMem}] /\ wrote' \subseteq Planned \X Names
  BY <1>1, <1>2 DEF Kinds
<1>8. Outcomes(mem', report', wrote', others) /\ OwnNames(wrote') /\ BodiesApart(mem')
  BY <1>1, <1>2, <1>6
<1> QED BY <1>1, <1>3, <1>7, <1>8, PartDone
\* What --force-merge makes of a row.
LEMMA Merged ==
  ASSUME NEW m \in Mem, NEW b \in Bodies, m.live, NEW r, r = [m EXCEPT !.body = b, !.fresh = FALSE]
  PROVE  r \in Mem /\ r.live /\ r.body = b /\ ~r.fresh
<1>1. r.live = m.live /\ r.body = b /\ r.fresh = FALSE
  BY DEF Mem
<1>2. r \in Mem
  BY DEF Mem
<1> QED BY <1>1, <1>2

\* The name of the part in hand: the file may write it, and no earlier part of it has it.
LEMMA WriteFacts ==
  ASSUME IngestInv, main.pc = "write"
  PROVE  /\ Busy(main) /\ main.parts[1].name \in Names /\ main.parts[1].body \in Bodies
         /\ wrote \cup {<<main.file, main.parts[1].name>>} \subseteq Planned \X Names
         /\ OwnNames(wrote \cup {<<main.file, main.parts[1].name>>})
         /\ \A k \in DOMAIN report[main.file] :
              k \in DOMAIN files[main.file].parts => StagedParts(main.file)[k].name # main.parts[1].name
<1> DEFINE i == main.file
           part == main.parts[1]
           n == Len(report[i]) + 1
<1>1. Busy(main)
  BY DEF Busy
<1>2. /\ Kinds(todo, thread, chan, open, main, mem, report, wrote, signal, others) /\ Fixed /\ OwnNames(wrote)
      /\ i \in Planned /\ i \in Files /\ n \in DOMAIN files[i].parts /\ part = StagedParts(i)[n] /\ part \in Parts
      /\ report[i] \in Seq(Results) /\ Len(report[i]) \in Nat
  BY <1>1, Parted, InHandFacts
<1>3. /\ \A j, k \in DOMAIN files[i].parts : StagedParts(i)[j].name = StagedParts(i)[k].name => j = k
      /\ Len(files[i].parts) <= 1 => part.name = plan[i]
  BY <1>2, PartFacts
<1>4. n \notin DOMAIN report[i]
  BY <1>2
<1>5. part.name \in Names /\ part.body \in Bodies
  BY <1>2 DEF Parts
<1> HIDE DEF part, n, i
<1>6. wrote \cup {<<i, part.name>>} \subseteq Planned \X Names
  BY <1>2, <1>5 DEF Kinds
<1>7. OwnNames(wrote \cup {<<i, part.name>>})
  BY <1>2, <1>3 DEF OwnNames
<1>8. ASSUME NEW k \in DOMAIN report[i], k \in DOMAIN files[i].parts PROVE StagedParts(i)[k].name # part.name
  BY <1>2, <1>3, <1>4, <1>8
<1> QED BY <1>1, <1>5, <1>6, <1>7, <1>8 DEF part, i

LEMMA MergeStep ==
  ASSUME IngestInv, Merge
  PROVE  IngestInv'
<1> DEFINE i == main.file
           part == main.parts[1]
           wr2 == wrote \cup {<<i, part.name>>}
<1>1. /\ main.pc = "write" /\ ~IsDuplicate /\ main.found /\ Reported(i, "indexed") /\ main' = Onward
      /\ mem' = IF IsLive(part.name)
                THEN [mem EXCEPT ![part.name].body = part.body, ![part.name].fresh = FALSE] ELSE mem
      /\ wrote' = wr2
      /\ UNCHANGED <<files, opts, plan, todo, thread, chan, open, signal, others>>
  BY DEF Merge, Part
<1>2. /\ mem \in [Names -> Mem \cup {NoMem}] /\ BodiesApart(mem) /\ LookedUp(main, mem, others)
      /\ Outcomes(mem, report, wrote, others) /\ Planned \subseteq Files
  BY Parted DEF Kinds
<1>3. /\ Busy(main) /\ part.name \in Names /\ part.body \in Bodies /\ wr2 \subseteq Planned \X Names /\ OwnNames(wr2)
      /\ \A k \in DOMAIN report[i] : k \in DOMAIN files[i].parts => StagedParts(i)[k].name # part.name
  BY <1>1, WriteFacts
<1>4. /\ i \in Planned /\ i \in Files /\ Len(report[i]) + 1 \in DOMAIN files[i].parts
      /\ part = StagedParts(i)[Len(report[i]) + 1]
  BY <1>3, InHandFacts
<1>5. opts.force /\ "indexed" \in Results /\ (others = 0 => Live(mem, part.name))
  BY <1>1, <1>2 DEF IsDuplicate, Results, LookedUp
<1>6. wrote \subseteq wr2 /\ <<i, part.name>> \in wr2
  OBVIOUS
<1> HIDE DEF part, i, wr2
<1>7. /\ mem' \in [Names -> Mem \cup {NoMem}] /\ \A n \in Names : n # part.name => mem'[n] = mem[n]
      /\ Live(mem, part.name) => /\ mem'[part.name] # NoMem /\ mem'[part.name].live
                                 /\ mem'[part.name].body = part.body /\ ~mem'[part.name].fresh
      /\ ~Live(mem, part.name) => mem' = mem
  <2>1. CASE Live(mem, part.name)
    <3> DEFINE r == [mem[part.name] EXCEPT !.body = part.body, !.fresh = FALSE]
    <3>1. mem[part.name] \in Mem /\ mem[part.name].live
      BY <1>2, <1>3, <2>1 DEF Live
    <3>2. mem' = [mem EXCEPT ![part.name] = r]
      BY <1>1, <1>2, <1>3, <2>1 DEF IsLive, Live
    <3>3. r \in Mem /\ r.live /\ r.body = part.body /\ ~r.fresh
      BY <1>3, <3>1, Merged
    <3> HIDE DEF r
    <3>4. r # NoMem
      BY <3>3 DEF NoMem, Mem
    <3> QED BY <1>2, <1>3, <2>1, <3>2, <3>3, <3>4
  <2>2. CASE ~Live(mem, part.name)
    BY <1>1, <1>2, <2>2 DEF IsLive, Live
  <2> QED BY <2>1, <2>2
<1>8. \A n \in Names : Live(mem, n) => Live(mem', n)
  BY <1>7 DEF Live
<1>9. Kept(i, part, mem', wr2, others)
  BY <1>5, <1>6, <1>7 DEF Kept, Live
<1>10. ASSUME NEW j \in Planned, NEW k \in DOMAIN report[j], report[j][k] = "indexed",
              Kept(j, StagedParts(j)[k], mem, wrote, others)
       PROVE  Kept(j, StagedParts(j)[k], mem', wr2, others)
  <2> DEFINE old == StagedParts(j)[k]
  <2>1. k \in DOMAIN files[j].parts /\ <<j, old.name>> \in wrote /\ old.name \in Names
    <3>1. k \in DOMAIN files[j].parts
      BY <1>2, <1>10 DEF Outcomes
    <3>2. Fixed
      BY Parted
    <3> QED BY <1>10, <3>1, <3>2, PartFacts DEF Parts, Kept
  <2>2. CASE old.name # part.name
    <3>1. mem'[old.name] = mem[old.name]
      BY <1>7, <2>1, <2>2
    <3> HIDE DEF old
    <3>2. Kept(j, old, mem, wrote, others)
      BY <1>10 DEF old
    <3> QED BY <1>6, <3>1, <3>2 DEF Kept, Live, old
  <2>3. CASE old.name = part.name
    <3>1. j # i
      BY <1>3, <2>1, <2>3
    <3> HIDE DEF old
    <3>2. <<j, old.name>> \in wr2 /\ <<i, old.name>> \in wr2 /\ i \in Files
      BY <1>4, <1>6, <2>1, <2>3
    <3>3. others = 0 => Live(mem', old.name)
      BY <1>3, <1>5, <1>8, <2>3
    <3> QED BY <3>1, <3>2, <3>3 DEF Kept, old
  <2> QED BY <2>2, <2>3
<1>11. \A p : Spared(p, mem', others)
  BY <1>5 DEF Spared
<1>12. Outcomes(mem', report', wr2, others)
  <2>1. report' = [report EXCEPT ![i] = Append(@, "indexed")]
    BY <1>1 DEF Reported
  <2> QED BY <1>4, <1>5, <1>9, <1>10, <1>11, <2>1, EventKeepsOutcomes
<1>13. BodiesApart(mem')
  BY <1>2, <1>7 DEF BodiesApart, Live
<1> QED BY <1>1, <1>3, <1>5, <1>7, <1>12, <1>13, PartDone DEF i

LEMMA CreateStep ==
  ASSUME IngestInv, Create
  PROVE  IngestInv'
<1> DEFINE i == main.file
           part == main.parts[1]
           wr2 == wrote \cup {<<i, part.name>>}
           r == [body |-> part.body, live |-> TRUE, fresh |-> TRUE]
<1>1. /\ main.pc = "write" /\ ~IsDuplicate /\ ~main.found
      /\ UNCHANGED <<files, opts, plan, todo, thread, signal, others>>
  BY DEF Create
<1>2. /\ mem \in [Names -> Mem \cup {NoMem}] /\ BodiesApart(mem) /\ LookedUp(main, mem, others)
      /\ Outcomes(mem, report, wrote, others) /\ Planned \subseteq Files
      /\ wrote \subseteq Planned \X Names /\ OwnNames(wrote)
      /\ Staging(todo, thread, chan, open, main, report) /\ open \in BOOLEAN
  BY Parted DEF Kinds
<1>3. /\ Busy(main) /\ part.name \in Names /\ part.body \in Bodies /\ wr2 \subseteq Planned \X Names /\ OwnNames(wr2)
  BY <1>1, WriteFacts
<1>4. /\ i \in Planned /\ i \in Files /\ Len(report[i]) + 1 \in DOMAIN files[i].parts
      /\ part = StagedParts(i)[Len(report[i]) + 1]
  BY <1>3, InHandFacts
<1>5. open /\ "indexed" \in Results /\ "failed" \in Results /\ ~main.dup
  BY <1>1, <1>2 DEF Staging, Results, IsDuplicate
<1>6. wrote \subseteq wr2 /\ <<i, part.name>> \in wr2
  OBVIOUS
<1>7. r \in Mem /\ r # NoMem /\ r.live /\ r.fresh /\ r.body = part.body
  <2>1. r \in Mem
    BY <1>3 DEF Mem
  <2> QED BY <2>1 DEF NoMem, Mem
<1>8. CASE /\ mem[part.name] = NoMem /\ mem' = [mem EXCEPT ![part.name] = r] /\ wrote' = wr2
           /\ Reported(i, "indexed") /\ main' = Onward /\ UNCHANGED <<chan, open>>
  <2> HIDE DEF part, i, wr2, r
  <2>1. /\ mem' \in [Names -> Mem \cup {NoMem}] /\ mem'[part.name] = r
        /\ \A n \in Names : n # part.name => mem'[n] = mem[n]
        /\ ~Live(mem, part.name) /\ Live(mem', part.name)
    <3>1. /\ mem' \in [Names -> Mem \cup {NoMem}] /\ mem'[part.name] = r
          /\ \A n \in Names : n # part.name => mem'[n] = mem[n]
      BY <1>2, <1>3, <1>7, <1>8
    <3> QED BY <1>7, <1>8, <3>1 DEF Live
  <2>2. \A n \in Names : Live(mem, n) => n # part.name /\ Live(mem', n) /\ mem'[n] = mem[n]
    BY <2>1 DEF Live
  <2>3. Kept(i, part, mem', wr2, others)
    BY <1>6, <1>7, <2>1 DEF Kept
  <2>4. ASSUME NEW j \in Planned, NEW k \in DOMAIN report[j], report[j][k] = "indexed",
               Kept(j, StagedParts(j)[k], mem, wrote, others)
        PROVE  Kept(j, StagedParts(j)[k], mem', wr2, others)
    <3> DEFINE old == StagedParts(j)[k]
    <3>1. <<j, old.name>> \in wrote /\ old.name \in Names
      <4>1. <<j, old.name>> \in wrote
        BY <2>4 DEF Kept
      <4> QED BY <1>2, <4>1
    <3>2. Kept(j, old, mem, wrote, others)
      BY <2>4
    <3> HIDE DEF old
    <3>3. Kept(j, old, mem', wr2, others)
      BY <1>6, <2>2, <3>1, <3>2 DEF Kept
    <3> QED BY <3>3 DEF old
  <2>5. \A p : p.name \in Names /\ Spared(p, mem, others) => Spared(p, mem', others)
    BY <2>2 DEF Spared
  <2>6. ASSUME NEW j \in Planned, NEW k \in DOMAIN report[j], report[j][k] = "skipped",
               Spared(StagedParts(j)[k], mem, others)
        PROVE  Spared(StagedParts(j)[k], mem', others)
    <3>1. k \in DOMAIN files[j].parts /\ Fixed
      BY <1>2, <2>6, Parted DEF Outcomes
    <3>2. StagedParts(j)[k].name \in Names
      BY <3>1, PartFacts DEF Parts
    <3> QED BY <2>5, <2>6, <3>2
  <2>7. Outcomes(mem', report', wr2, others)
    <3>1. report' = [report EXCEPT ![i] = Append(@, "indexed")]
      BY <1>8 DEF Reported
    <3> QED BY <1>4, <1>5, <2>3, <2>4, <2>6, <3>1, EventKeepsOutcomes
  <2>8. BodiesApart(mem')
    <3>1. \A n \in Names : Live(mem, n) /\ mem[n].fresh => mem[n].body # part.body
      BY <1>1, <1>2, <1>5 DEF LookedUp, part
    <3>2. ASSUME NEW n \in Names, n # part.name, Live(mem', n), mem'[n].fresh
          PROVE  Live(mem, n) /\ mem[n].fresh /\ mem'[n].body = mem[n].body /\ mem[n].body # part.body
      BY <2>1, <3>1, <3>2 DEF Live
    <3>3. mem'[part.name].body = part.body
      BY <1>7, <2>1
    <3>4. \A m, n \in Names : m # part.name /\ n # part.name /\ Live(mem', m) /\ Live(mem', n) /\ mem'[m].fresh
                              /\ mem'[n].fresh /\ mem'[m].body = mem'[n].body => m = n
      BY <1>2, <3>2 DEF BodiesApart
    <3> QED BY <3>2, <3>3, <3>4 DEF BodiesApart
  <2> QED BY <1>1, <1>3, <1>5, <1>8, <2>1, <2>7, <2>8, PartDone DEF i
<1>9. CASE Fails(i, chan, Onward) /\ UNCHANGED <<mem, wrote>>
  <2>1. Reported(i, "failed") /\ report' = [report EXCEPT ![i] = Append(@, "failed")]
    BY <1>9 DEF Fails, Reported
  <2>2. CASE opts.failFast
    <3>1. main' = [Waiting EXCEPT !.pc = "aborted"] /\ chan' = << >> /\ open' = FALSE
      BY <1>9, <2>2 DEF Fails
    <3>2. Absent(i, todo, thread, << >>)
      BY <1>2, <1>3, InHand, NoChannel
    <3> HIDE DEF i, part, wr2, r
    <3> QED BY <1>1, <1>4, <1>9, <2>1, <3>1, <3>2, AbortStep
  <2>3. CASE ~opts.failFast
    <3>1. main' = Onward /\ chan' = chan /\ open' = open
      BY <1>5, <1>9, <2>3 DEF Fails
    <3> HIDE DEF i, part, wr2, r
    <3>2. Outcomes(mem, report', wrote, others)
      BY <1>4, <1>5, <2>1, EventKeepsOutcomes
    <3>3. Outcomes(mem', report', wrote', others) /\ OwnNames(wrote') /\ BodiesApart(mem')
      BY <1>2, <1>9, <3>2
    <3> QED BY <1>1, <1>2, <1>3, <1>5, <1>9, <2>1, <3>1, <3>3, PartDone DEF i
  <2> QED BY <2>2, <2>3
<1> QED BY <1>8, <1>9 DEF Create, Part
-----------------------------------------------------------------------------
(* The environment *)

LEMMA SignalStep ==
  ASSUME IngestInv, Signal
  PROVE  IngestInv'
<1>1. /\ signal' = TRUE
      /\ UNCHANGED <<files, opts, plan, todo, thread, chan, open, main, mem, report, wrote, others>>
  BY DEF Signal
<1>2. Invariant(todo, thread, chan, open, main, mem, report, wrote, signal, others) /\ Fixed
  BY DEF IngestInv
<1>3. /\ Kinds(todo, thread, chan, open, main, mem, report, wrote, TRUE, others)
      /\ Accounted(todo, thread, chan, main, report, TRUE)
  BY <1>2 DEF Invariant, Kinds, Accounted
<1>4. Invariant(todo', thread', chan', open', main', mem', report', wrote', signal', others')
  BY <1>1, <1>2, <1>3 DEF Invariant
<1> QED BY <1>1, <1>2, <1>4, SameRun

LEMMA OtherStep ==
  ASSUME IngestInv, NEW n \in Names, OtherWrites(n)
  PROVE  IngestInv'
<1>1. /\ others' = others + 1
      /\ UNCHANGED <<files, opts, plan, todo, thread, chan, open, main, report, wrote, signal>>
  BY DEF OtherWrites
<1>2. Invariant(todo, thread, chan, open, main, mem, report, wrote, signal, others) /\ Fixed
  BY DEF IngestInv
<1>3. /\ mem \in [Names -> Mem \cup {NoMem}] /\ others \in Nat /\ BodiesApart(mem) /\ LookedUp(main, mem, others)
      /\ Outcomes(mem, report, wrote, others)
  BY <1>2 DEF Invariant, Kinds
<1>4. others' \in Nat /\ others' # 0
  BY <1>1, <1>3
<1>5. /\ mem' \in [Names -> Mem \cup {NoMem}]
      /\ \A m \in Names : Live(mem', m) /\ mem'[m].fresh => Live(mem, m) /\ mem'[m] = mem[m]
  <2>1. ASSUME NEW r \in Mem, mem' = [mem EXCEPT ![n] = r], ~r.fresh
        PROVE  /\ mem' \in [Names -> Mem \cup {NoMem}]
               /\ \A m \in Names : Live(mem', m) /\ mem'[m].fresh => Live(mem, m) /\ mem'[m] = mem[m]
    <3>1. /\ mem' \in [Names -> Mem \cup {NoMem}] /\ mem'[n] = r
          /\ \A m \in Names : m # n => mem'[m] = mem[m]
      BY <1>3, <2>1
    <3> QED BY <2>1, <3>1 DEF Live
  <2>2. ASSUME NEW b \in Bodies, mem' = [mem EXCEPT ![n] = [body |-> b, live |-> TRUE, fresh |-> FALSE]]
        PROVE  \E r \in Mem : mem' = [mem EXCEPT ![n] = r] /\ ~r.fresh
    <3> DEFINE r == [body |-> b, live |-> TRUE, fresh |-> FALSE]
    <3>1. r \in Mem /\ ~r.fresh
      BY DEF Mem
    <3> QED BY <2>2, <3>1
  <2>3. ASSUME mem[n] # NoMem, mem' = [mem EXCEPT ![n].live = ~@, ![n].fresh = FALSE]
        PROVE  \E r \in Mem : mem' = [mem EXCEPT ![n] = r] /\ ~r.fresh
    <3> DEFINE r == [mem[n] EXCEPT !.live = ~@, !.fresh = FALSE]
    <3>1. mem[n] \in Mem
      BY <1>3, <2>3
    <3>2. r \in Mem /\ ~r.fresh
      BY <3>1 DEF Mem
    <3>3. mem' = [mem EXCEPT ![n] = r]
      BY <1>3, <2>3
    <3> QED BY <3>2, <3>3
  <2>4. \/ \E b \in Bodies : mem' = [mem EXCEPT ![n] = [body |-> b, live |-> TRUE, fresh |-> FALSE]]
        \/ mem[n] # NoMem /\ mem' = [mem EXCEPT ![n].live = ~@, ![n].fresh = FALSE]
    BY DEF OtherWrites
  <2>5. \E r \in Mem : mem' = [mem EXCEPT ![n] = r] /\ ~r.fresh
    BY <2>2, <2>3, <2>4
  <2> QED BY <2>1, <2>5
<1>6. Kinds(todo, thread, chan, open, main, mem', report, wrote, signal, others')
  BY <1>2, <1>4, <1>5 DEF Invariant, Kinds
<1>7. BodiesApart(mem') /\ LookedUp(main, mem', others')
  BY <1>3, <1>4, <1>5 DEF BodiesApart, LookedUp
<1>8. Outcomes(mem', report, wrote, others')
  BY <1>3, <1>4 DEF Outcomes, Kept, Spared
<1>9. Invariant(todo', thread', chan', open', main', mem', report', wrote', signal', others')
  BY <1>1, <1>2, <1>6, <1>7, <1>8 DEF Invariant
<1> QED BY <1>1, <1>2, <1>9, SameRun

-----------------------------------------------------------------------------
(* The theorem *)

LEMMA IngestInitInv ==
  ASSUME Init
  PROVE  IngestInv
<1>1. /\ Fixed /\ todo = Planned /\ thread = [t \in Threads |-> Idle] /\ chan = << >> /\ open = TRUE
      /\ main = [Waiting EXCEPT !.pc = "skips"] /\ mem \in Stored
      /\ report = [i \in Files |-> << >>] /\ wrote = {} /\ signal = FALSE /\ others = 0
  BY DEF Init, Fixed, Planned
<1>2. Planned \subseteq Files /\ Files = 1..Len(files) /\ Capacity \in Nat
  BY <1>1, FileFacts, IngestConstants DEF Planned
<1>3. /\ mem \in [Names -> Mem \cup {NoMem}]
      /\ \A n \in Names : Live(mem, n) => ~mem[n].fresh
  <2>1. Stored \subseteq [Names -> Mem \cup {NoMem}] /\ \A s \in Stored : \A n \in Names : s[n] # NoMem => ~s[n].fresh
    BY IngestConstants, Zenon
  <2> QED BY <1>1, <2>1 DEF Live
<1>4. main \in Main /\ main.pc = "skips"
  <2>1. Waiting \in Main
    BY DEF Waiting, Main
  <2> QED BY <1>1, <2>1 DEF Main
<1>5. thread \in [Threads -> Thread] /\ \A t \in Threads : thread[t].pc = "idle"
  <2>1. Idle \in Thread /\ Idle.pc = "idle"
    BY DEF Idle, Thread
  <2> QED BY <1>1, <2>1
<1>6. chan \in Seq(Msg) /\ Len(chan) = 0 /\ 1..Len(chan) = {}
  <2>1. << >> \in Seq(Msg) /\ Len(<< >>) = 0 /\ 1..0 = {}
    OBVIOUS
  <2> QED BY <1>1, <2>1
<1>7. report \in [Files -> Seq(Results)] /\ \A i \in Files : report[i] = << >> /\ DOMAIN report[i] = {}
  <2>1. << >> \in Seq(Results) /\ DOMAIN << >> = {}
    OBVIOUS
  <2> QED BY <1>1, <2>1
<1>8. Kinds(todo, thread, chan, open, main, mem, report, wrote, signal, others)
  <2>1. Len(chan) <= Capacity
    BY <1>2, <1>6
  <2> QED BY <1>1, <1>3, <1>4, <1>5, <1>6, <1>7, <2>1 DEF Kinds
<1>9. ~Busy(main) /\ \A t \in Threads : ~Active(thread[t])
  BY <1>4, <1>5 DEF Busy, Active
<1>10. Staging(todo, thread, chan, open, main, report)
  <2>1. \A i \in todo : Waits(i, {}, main, report)
    BY <1>1, <1>2, <1>7, <1>9 DEF Waits
  <2> QED BY <1>1, <1>5, <1>6, <1>9, <2>1 DEF Staging
<1>11. Persisting(main, report) /\ LookedUp(main, mem, others)
  BY <1>4, <1>9 DEF Persisting, LookedUp
<1>12. Accounted(todo, thread, chan, main, report, signal)
  BY <1>1, <1>4, <1>7 DEF Accounted, OnItsWay
<1>13. Outcomes(mem, report, wrote, others) /\ OwnNames(wrote) /\ BodiesApart(mem)
  BY <1>1, <1>2, <1>3, <1>7 DEF Outcomes, OwnNames, BodiesApart
<1> QED BY <1>1, <1>8, <1>10, <1>11, <1>12, <1>13 DEF IngestInv, Invariant

LEMMA IngestNextInv ==
  ASSUME IngestInv, [Next]_vars
  PROVE  IngestInv'
<1>1. CASE UNCHANGED vars
  <2>1. /\ UNCHANGED <<files, opts, plan, todo, thread, chan, open, main, mem, report, wrote, signal, others>>
    BY <1>1 DEF vars
  <2>2. Invariant(todo', thread', chan', open', main', mem', report', wrote', signal', others') /\ Fixed
    BY <2>1 DEF IngestInv
  <2> QED BY <2>1, <2>2, SameRun
<1>2. ASSUME NEW t \in Threads, ThreadStep(t) PROVE IngestInv'
  BY <1>2, TakeStep, StageStep, SendStep, EndsStep DEF ThreadStep
<1>3. CASE MainStep
  BY <1>3, SkipsStep, ReceiveStep, DrainedStep, LookupStep, SkipStep, MergeStep, CreateStep, JoinStep DEF MainStep
<1> QED BY <1>1, <1>2, <1>3, SignalStep, OtherStep DEF Next

\* Whatever the order the pool finishes in and whoever else writes, a file that is planned is
\* in one place, its events match its parts, and what they say is true of the database.
THEOREM IngestInvariant == Spec => []IngestInv
<1>1. Init => IngestInv
  BY IngestInitInv
<1>2. IngestInv /\ [Next]_vars => IngestInv'
  BY IngestNextInv
<1> QED BY <1>1, <1>2, PTL DEF Spec

\* Every file of a run that is not cut short is reported once, or once a part; files and
\* bodies stay apart; and with no other writer, what was reported is stored.
THEOREM IngestIsSound == Spec => []IngestSound
<1>1. IngestInv => IngestSound
  <2> SUFFICES ASSUME IngestInv PROVE IngestSound
    OBVIOUS
  <2>1. /\ Kinds(todo, thread, chan, open, main, mem, report, wrote, signal, others) /\ Fixed
        /\ Outcomes(mem, report, wrote, others) /\ Planned \subseteq Files /\ OwnNames(wrote) /\ BodiesApart(mem)
        /\ Accounted(todo, thread, chan, main, report, signal)
    BY Parted
  <2>2. /\ plan \in [Files -> Names \cup {NoName}] /\ \A i, j \in Planned : plan[i] = plan[j] => i = j
    BY <2>1, FileFacts
  <2>3. IngestTypeOK
    <3>1. \A t \in Threads : thread[t].pc \in {"idle", "stage", "send", "end"}
      BY <2>1 DEF Kinds, Thread
    <3>2. main.pc \in {"skips", "recv", "lookup", "write", "join", "enrich", "ok", "aborted"}
      BY <2>1 DEF Kinds, Main
    <3>3. wrote \subseteq Files \X Names /\ todo \subseteq Files
      BY <2>1 DEF Kinds
    <3> QED BY <2>1, <2>2, <3>1, <3>2, <3>3 DEF Kinds, IngestTypeOK
  <2>4. EveryFileReported
    BY <2>1 DEF Accounted, Settled, Planned, EveryFileReported
  <2>5. FilesKeepApart
    <3> SUFFICES ASSUME NEW i \in Files, NEW j \in Files, NEW n \in Names, <<i, n>> \in wrote, <<j, n>> \in wrote,
                        i # j, ~(Len(files[i].parts) > 1), ~(Len(files[j].parts) > 1)
                 PROVE  FALSE
      BY DEF FilesKeepApart
    <3>1. i \in Planned /\ j \in Planned
      BY <2>1 DEF Kinds
    <3>2. Len(files[i].parts) <= 1 /\ Len(files[j].parts) <= 1
      <4>1. Len(files[i].parts) \in Nat /\ Len(files[j].parts) \in Nat
        BY <2>1, <3>1, PartFacts
      <4> QED BY <4>1
    <3>3. n = plan[i] /\ n = plan[j]
      BY <2>1, <3>1, <3>2 DEF OwnNames
    <3> QED BY <2>2, <3>1, <3>3
  <2>6. NoDuplicateBodies
    BY <2>1 DEF BodiesApart, NoDuplicateBodies, Live, IsLive
  <2>7. NothingLost
    <3> SUFFICES ASSUME others = 0, NEW i \in Files, plan[i] # NoName, NEW k \in DOMAIN report[i]
                 PROVE  LET part == StagedParts(i)[k]
                        IN  /\ report[i][k] = "indexed" =>
                                 IsLive(part.name) /\ (mem[part.name].body = part.body
                                                       \/ \E j \in Files : <<j, part.name>> \in wrote /\ j # i)
                            /\ report[i][k] = "skipped" =>
                                 IsLive(part.name) \/ opts.force
                                 \/ \E n \in Names : IsLive(n) /\ mem[n].body = part.body
      BY DEF NothingLost
    <3>1. i \in Planned
      BY DEF Planned
    <3>2. /\ report[i][k] = "indexed" => Kept(i, StagedParts(i)[k], mem, wrote, others)
          /\ report[i][k] = "skipped" => Spared(StagedParts(i)[k], mem, others)
      BY <2>1, <3>1 DEF Outcomes
    <3> QED BY <3>2 DEF Kept, Spared, Live, IsLive
  <2> QED BY <2>3, <2>4, <2>5, <2>6, <2>7 DEF IngestSound
<1> QED BY <1>1, IngestInvariant, PTL
=============================================================================
