----------------------------- MODULE ReEmbedProofs -----------------------------
(***************************************************************************)
(* Proofs about ReEmbed for any memories, entities, texts, workers, page   *)
(* and batch sizes: vectors match the texts of their rows, and the paged   *)
(* scan misses no row.                                                     *)
(***************************************************************************)
EXTENDS ReEmbed, FiniteSetTheorems, WellFoundedInduction, TLAPS

-----------------------------------------------------------------------------
(* Sets of numbers *)

\* A non-empty set of numbers has a least member.
LEMMA Least ==
  ASSUME NEW T \in SUBSET Nat, T # {}
  PROVE  \E x \in T : \A y \in T : x <= y
<1>1. PICK x \in T : \A y \in T : <<y, x>> \notin OpToRel(<, Nat)
  <2>1. IsWellFoundedOn(OpToRel(<, Nat), Nat)
    BY NatLessThanWellFounded
  <2> QED BY <2>1, WFMin
<1>2. ASSUME NEW y \in T PROVE x <= y
  <2>1. y < x => <<y, x>> \in OpToRel(<, Nat)
    BY DEF OpToRel
  <2>2. ~(y < x) /\ x \in Nat /\ y \in Nat
    BY <1>1, <2>1
  <2> QED BY <2>2
<1> QED BY <1>2

\* What holds at 0, and at n when it holds at n - 1, holds up to m.
LEMMA UpTo ==
  ASSUME NEW m \in Nat, NEW S, 0 \in S, \A n \in 1..m : n - 1 \in S => n \in S
  PROVE  \A n \in 0..m : n \in S
<1> SUFFICES ASSUME (0..m) \ S # {} PROVE FALSE
  OBVIOUS
<1>1. PICK x \in (0..m) \ S : \A y \in (0..m) \ S : x <= y
  <2>1. (0..m) \ S \in SUBSET Nat
    OBVIOUS
  <2> QED BY <2>1, Least
<1>2. x \in 1..m /\ x - 1 \in 0..m /\ ~(x <= x - 1)
  BY <1>1
<1> QED BY <1>1, <1>2

\* The elements of S up to x.
Below(S, x) == {y \in S : y <= x}

\* The rank of an element grows with the element.
LEMMA BelowFacts ==
  ASSUME NEW S \in SUBSET Nat, IsFiniteSet(S), NEW x \in S
  PROVE  /\ Cardinality(Below(S, x)) \in 1..Cardinality(S)
         /\ \A z \in S : x < z => Cardinality(Below(S, x)) < Cardinality(Below(S, z))
<1>1. Below(S, x) \in SUBSET S /\ x \in Below(S, x)
  BY DEF Below
<1>2. /\ IsFiniteSet(Below(S, x)) /\ Cardinality(Below(S, x)) <= Cardinality(S)
      /\ Cardinality(S) \in Nat /\ Cardinality(Below(S, x)) \in Nat /\ Cardinality(Below(S, x)) # 0
  BY <1>1, FS_Subset, FS_CardinalityType, FS_EmptySet
<1>3. ASSUME NEW z \in S, x < z PROVE Cardinality(Below(S, x)) < Cardinality(Below(S, z))
  <2>1. Below(S, z) \in SUBSET S
    BY DEF Below
  <2>2. IsFiniteSet(Below(S, z)) /\ Cardinality(Below(S, z)) \in Nat
    BY <2>1, FS_Subset, FS_CardinalityType
  <2>3. Below(S, x) \in SUBSET Below(S, z)
    <3>1. \A y \in S : y <= x => y <= z
      BY <1>3
    <3> QED BY <3>1 DEF Below
  <2>4. Below(S, x) # Below(S, z)
    BY <1>3 DEF Below
  <2>5. /\ Cardinality(Below(S, x)) <= Cardinality(Below(S, z))
        /\ Cardinality(Below(S, z)) = Cardinality(Below(S, x)) => Below(S, z) = Below(S, x)
    BY <2>2, <2>3, FS_Subset
  <2> QED BY <1>2, <2>2, <2>4, <2>5
<1> QED BY <1>2, <1>3

\* Counting from below numbers the elements of a set.
LEMMA Ranks ==
  ASSUME NEW S \in SUBSET Nat, IsFiniteSet(S)
  PROVE  /\ \A i \in 1..Cardinality(S) : \E x \in S : Cardinality(Below(S, x)) = i
         /\ \A x, z \in S : Cardinality(Below(S, x)) = Cardinality(Below(S, z)) => x = z
<1> DEFINE n == Cardinality(S)
           rank == [x \in S |-> Cardinality(Below(S, x))]
<1>1. n \in Nat
  BY FS_CardinalityType
<1>2. rank \in [S -> 1..n] /\ \A x \in S : rank[x] = Cardinality(Below(S, x))
  BY BelowFacts
<1>3. ASSUME NEW x \in S, NEW z \in S, rank[x] = rank[z] PROVE x = z
  <2>1. Cardinality(Below(S, x)) = Cardinality(Below(S, z)) /\ Cardinality(Below(S, x)) \in Nat
    BY <1>3, BelowFacts, <1>1
  <2>2. ~(x < z) /\ ~(z < x)
    BY <2>1, BelowFacts
  <2> QED BY <2>2
<1> HIDE DEF rank
<1>4. \A i \in 1..n : \E x \in S : rank[x] = i
  <2>1. rank \in Injection(S, 1..n)
    BY <1>2, <1>3 DEF Injection, IsInjective
  <2>2. IsFiniteSet(1..n) /\ Cardinality(1..n) = n
    <3> HIDE DEF n
    <3>1. \A a, b \in Int : IsFiniteSet(a..b) /\ Cardinality(a..b) = IF a > b THEN 0 ELSE b - a + 1
      BY FS_Interval
    <3>2. 1 \in Int /\ n \in Int
      BY <1>1
    <3>3. IsFiniteSet(1..n) /\ Cardinality(1..n) = IF 1 > n THEN 0 ELSE n - 1 + 1
      BY <3>1, <3>2
    <3> QED BY <1>1, <3>3
  <2>3. rank \in Surjection(S, 1..n)
    BY <2>1, <2>2, FS_Injection
  <2> QED BY <2>3 DEF Surjection
<1>5. \A x, z \in S : Cardinality(Below(S, x)) = Cardinality(Below(S, z)) => x = z
  BY <1>2, <1>3
<1>6. \A i \in 1..n : \E x \in S : Cardinality(Below(S, x)) = i
  BY <1>2, <1>4
<1> QED BY <1>5, <1>6

\* Some element has the highest rank.
LEMMA FullRank ==
  ASSUME NEW S \in SUBSET Nat, IsFiniteSet(S), S # {}
  PROVE  \E x \in S : Cardinality(Below(S, x)) = Cardinality(S)
<1>1. Cardinality(S) \in Nat /\ Cardinality(S) # 0
  BY FS_CardinalityType, FS_EmptySet
<1>2. Cardinality(S) \in 1..Cardinality(S)
  BY <1>1
<1> QED BY <1>2, Ranks

\* The order of ids in a page or a batch.
LEMMA SortedFacts ==
  ASSUME NEW S \in SUBSET Nat, IsFiniteSet(S)
  PROVE  /\ Sorted(S) \in Seq(S) /\ Sorted(S) \in Seq(Nat) /\ Len(Sorted(S)) = Cardinality(S) /\ Cardinality(S) \in Nat
         /\ DOMAIN Sorted(S) = 1..Cardinality(S)
         /\ \A x \in S : \E i \in 1..Cardinality(S) : Sorted(S)[i] = x
<1> DEFINE n == Cardinality(S)
<1>1. n \in Nat
  BY FS_CardinalityType
<1>2. Sorted(S) = [i \in 1..n |-> CHOOSE x \in S : Cardinality(Below(S, x)) = i]
  BY DEF Sorted, Below
<1>3. \A x \in S : Cardinality(Below(S, x)) \in 1..n
  BY BelowFacts
<1> HIDE DEF n
<1>4. ASSUME NEW i \in 1..n PROVE Sorted(S)[i] \in S /\ Cardinality(Below(S, Sorted(S)[i])) = i
  <2>1. \E x \in S : Cardinality(Below(S, x)) = i
    BY Ranks DEF n
  <2>2. Sorted(S)[i] = CHOOSE x \in S : Cardinality(Below(S, x)) = i
    BY <1>2
  <2> QED BY <2>1, <2>2
<1>5. Sorted(S) \in [1..n -> S] /\ Sorted(S) \in [1..n -> Nat]
  BY <1>2, <1>4
<1>6. ASSUME NEW x \in S PROVE \E i \in 1..n : Sorted(S)[i] = x
  <2>1. Cardinality(Below(S, x)) \in 1..n
    BY <1>3
  <2>2. \A z \in S : Cardinality(Below(S, x)) = Cardinality(Below(S, z)) => x = z
    BY Ranks
  <2> QED BY <1>4, <2>1, <2>2
<1>7. Sorted(S) \in Seq(S) /\ Sorted(S) \in Seq(Nat) /\ Len(Sorted(S)) = n /\ DOMAIN Sorted(S) = 1..n
  BY <1>1, <1>5
<1> QED BY <1>1, <1>6, <1>7 DEF n

\* Every set of ids has a greatest one.
LEMMA MaxFacts ==
  ASSUME NEW S \in SUBSET Nat, IsFiniteSet(S), S # {}
  PROVE  Max(S) \in S /\ \A y \in S : y <= Max(S)
<1>1. PICK x \in S : Cardinality(Below(S, x)) = Cardinality(S)
  BY FullRank
<1>2. Below(S, x) = S
  <2>1. Below(S, x) \in SUBSET S
    BY DEF Below
  <2> QED BY <1>1, <2>1, FS_Subset
<1>3. \A y \in S : y \in Below(S, x)
  BY <1>2
<1>4. \A y \in S : y <= x
  BY <1>3 DEF Below
<1>5. \A y \in S : x >= y
  BY <1>4
<1>6. Max(S) \in S /\ \A y \in S : Max(S) >= y
  BY <1>5 DEF Max
<1> QED BY <1>6

\* The first n elements of S.
FirstOf(S, n) == {i \in S : Cardinality({j \in S : j < i}) < n}

\* LIMIT n: fewer than n elements are all there are, and otherwise none is skipped.
LEMMA FirstFacts ==
  ASSUME NEW S \in SUBSET Nat, IsFiniteSet(S), NEW n \in Nat
  PROVE  /\ FirstOf(S, n) \in SUBSET S /\ IsFiniteSet(FirstOf(S, n))
         /\ Cardinality(FirstOf(S, n)) \in Nat /\ Cardinality(FirstOf(S, n)) <= n
         /\ Cardinality(FirstOf(S, n)) < n => FirstOf(S, n) = S
         /\ \A x \in FirstOf(S, n) : \A y \in S : y <= x => y \in FirstOf(S, n)
<1> DEFINE F == FirstOf(S, n)
           Less(x) == {j \in S : j < x}
<1>1. F \in SUBSET S /\ IsFiniteSet(F) /\ Cardinality(F) \in Nat
  <2>1. F \in SUBSET S
    BY DEF FirstOf
  <2> QED BY <2>1, FS_Subset, FS_CardinalityType
<1>2. \A x \in S : /\ Less(x) \in SUBSET S /\ IsFiniteSet(Less(x)) /\ Cardinality(Less(x)) \in Nat
  <2> SUFFICES ASSUME NEW x \in S PROVE Less(x) \in SUBSET S /\ IsFiniteSet(Less(x)) /\ Cardinality(Less(x)) \in Nat
    OBVIOUS
  <2>1. Less(x) \in SUBSET S
    OBVIOUS
  <2> QED BY <2>1, FS_Subset, FS_CardinalityType
<1>3. \A x \in S : x \in F <=> Cardinality(Less(x)) < n
  BY DEF FirstOf
<1> HIDE DEF F
<1>4. ASSUME NEW x \in S, NEW y \in S, y <= x PROVE Cardinality(Less(y)) <= Cardinality(Less(x))
  <2>1. \A j \in S : j < y => j < x
    BY <1>4
  <2>2. Less(y) \in SUBSET Less(x)
    BY <2>1
  <2> QED BY <1>2, <2>2, FS_Subset
<1>5. ASSUME NEW x \in F, NEW y \in S, y <= x PROVE y \in F
  <2>1. /\ Cardinality(Less(y)) <= Cardinality(Less(x)) /\ Cardinality(Less(x)) < n
        /\ Cardinality(Less(y)) \in Nat /\ Cardinality(Less(x)) \in Nat
    BY <1>1, <1>2, <1>3, <1>4, <1>5
  <2> HIDE DEF Less
  <2>2. Cardinality(Less(y)) < n
    BY <2>1
  <2> QED BY <1>3, <2>2
<1>6. Cardinality(F) < n => F = S
  <2> SUFFICES ASSUME Cardinality(F) < n, S \ F # {} PROVE FALSE
    BY <1>1
  <2>1. PICK x \in S \ F : \A y \in S \ F : x <= y
    <3>1. S \ F \in SUBSET Nat
      OBVIOUS
    <3> QED BY <3>1, Least
  <2>2. Less(x) \in SUBSET F
    <3>1. \A j \in S : j < x => ~(x <= j)
      OBVIOUS
    <3> HIDE DEF F
    <3> QED BY <2>1, <3>1
  <2>3. Cardinality(Less(x)) <= Cardinality(F) /\ Cardinality(Less(x)) \in Nat
    BY <1>1, <1>2, <2>1, <2>2, FS_Subset
  <2> HIDE DEF Less, F
  <2>4. Cardinality(Less(x)) < n
    BY <1>1, <2>3
  <2> QED BY <1>3, <2>1, <2>4
<1>7. Cardinality(F) <= n
  <2>1. CASE F = {}
    BY <2>1, FS_EmptySet
  <2>2. CASE F # {}
    <3>1. PICK x \in F : \A y \in F : y <= x
      <4>1. F \in SUBSET Nat
        BY <1>1
      <4> HIDE DEF F
      <4> QED BY <1>1, <2>2, <4>1, MaxFacts
    <3>2. F = Less(x) \cup {x}
      <4>1. x \in S /\ \A y \in S : y < x => y <= x
        BY <1>1
      <4>2. \A y \in S : y <= x => y < x \/ y = x
        BY <1>1
      <4>3. \A y \in Less(x) : y \in F
        BY <1>5, <4>1
      <4>4. \A y \in F : y \in Less(x) \/ y = x
        BY <1>1, <3>1, <4>2
      <4> HIDE DEF F, Less
      <4> QED BY <4>3, <4>4
    <3>3. x \in S /\ x \notin Less(x)
      BY <1>1
    <3>4. Cardinality(F) = Cardinality(Less(x)) + 1
      <4> HIDE DEF F, Less
      <4> QED BY <1>2, <3>2, <3>3, FS_AddElement
    <3>5. Cardinality(Less(x)) < n /\ Cardinality(Less(x)) \in Nat
      BY <1>2, <1>3, <3>1, <3>3
    <3> HIDE DEF F, Less
    <3> QED BY <3>4, <3>5
  <2> QED BY <2>1, <2>2
<1> QED BY <1>1, <1>5, <1>6, <1>7 DEF F

-----------------------------------------------------------------------------
(* The inductive invariant *)

Db == [mem: [Mems -> [text: Texts, live: BOOLEAN]], ent: [Ents -> Texts],
       chunk: [Chunks -> [text: Texts, mem: Mems] \cup {NoRow}],
       vec: [Keys -> Vec \cup {NoVec}], next: 1..(MaxChunk + 1)]
QRow == [key: Keys, status: Status, attempt: Nat]
Job  == [pc: {"idle", "scan", "drain"}, kind: 1..4, after: Nat]
\* What resolve_key says of one key.
Answer == [out: {"skipped", "done"}] \cup [out: {"embed"}, text: Texts, mem: Mems \cup {0}]
Thread == [pc: {"idle", "claimed", "embed", "settle", "end"}, claim: Seq(Nat), text: Seq(Answer)]

\* The invariant is about the state named by the parameters: d, q, j, ws for db, queue, job,
\* worker; S, T, M for stable, touched, misplaced.  dim is that of the state itself.

\* A memory has one chunk at most, and AUTOINCREMENT is ahead of all chunks.
ChunksApart(d) ==
  /\ \A i, k \in Chunks : d.chunk[i] # NoRow /\ d.chunk[k] # NoRow /\ d.chunk[i].mem = d.chunk[k].mem => i = k
  /\ \A i \in Chunks : i >= d.next => d.chunk[i] = NoRow

FreshVec(d, k) == RowExists(d, k) /\ d.vec[k].of = k /\ d.vec[k].text = TextOf(d, k)
Fresh(d, T, M) == \A k \in Keys : d.vec[k] # NoVec /\ k \notin T \cup M => FreshVec(d, k)

\* What the answer a about the key k still says of the rows, unless they were written.
AnswerOk(a, k, d, T) ==
  /\ a.out = "done" => HasLiveEmbedding(d, k) \/ k \in T
  /\ a.out = "embed" /\ k[1] # "chunk" => k \in T \/ a.text = TextOf(d, k)
  /\ a.out = "embed" /\ k[1] = "chunk" =>
       /\ a.mem \in Mems
       /\ k \in T \/ k[2] \in ChunkOf(d, a.mem)
       /\ \A c \in ChunkOf(d, a.mem) : <<"chunk", c>> \in T \/ (<<"chunk", c>> = k /\ a.text = d.chunk[c].text)

Answers(r, d, q, T) == \A i \in 1..Len(r.claim) : AnswerOk(r.text[i], q[r.claim[i]].key, d, T)
ThreadOk(r, q) ==
  /\ r \in Thread /\ Len(r.claim) <= BatchSize
  /\ \A i \in 1..Len(r.claim) : r.claim[i] \in 1..Len(q)
  /\ r.pc \notin {"embed", "settle"} => r.text = << >>
  /\ r.pc \in {"embed", "settle"} => Len(r.text) = Len(r.claim)
  /\ r.pc = "settle" => \A i \in 1..Len(r.text) : r.text[i].out # "embed"
Holds(r) == r.pc \in {"embed", "settle"}

\* What the scan has passed, and what has a row.
Seen(j, k) == \E n \in 1..3 : k[1] = Kinds[n] /\ (n < j.kind \/ (n = j.kind /\ k[2] <= j.after))
Queued(q, k) == \E i \in 1..Len(q) : q[i].key = k
ScanOk(d, q, j, S) ==
  /\ S \subseteq Keys /\ (j.pc # "scan" => S = {})
  /\ \A k \in S : Missing(d, k) /\ (Seen(j, k) => Queued(q, k))

Threads(ws, d, q, T) ==
  \A w \in Workers : ThreadOk(ws[w], q) /\ (Holds(ws[w]) => Answers(ws[w], d, q, T))
Inv(d, q, j, ws, S, T, M) ==
  /\ d \in Db /\ q \in Seq(QRow) /\ j \in Job /\ ws \in [Workers -> Thread]
  /\ ChunksApart(d) /\ Fresh(d, T, M) /\ ScanOk(d, q, j, S) /\ Threads(ws, d, q, T)
  /\ j.pc # "drain" => \A w \in Workers : ws[w] = Idle
IInv == dim \in Dims /\ Inv(db, queue, job, worker, stable, touched, misplaced)

\* A step that leaves the dimension alone.
LEMMA SameDim ==
  ASSUME dim \in Dims, dim' = dim, Inv(db', queue', job', worker', stable', touched', misplaced')
  PROVE  IInv'
BY DEF IInv, Inv, ScanOk, Missing, HasLiveEmbedding, Threads, Answers, AnswerOk

-----------------------------------------------------------------------------
(* Keys and rows *)

\* The keys are finitely many numbers of three kinds.
LEMMA Constants ==
  /\ Mems \subseteq Chunks /\ Chunks \subseteq Nat /\ Mems \subseteq Nat /\ Ents \subseteq Nat
  /\ IsFiniteSet(Mems) /\ IsFiniteSet(Ents) /\ IsFiniteSet(Chunks)
  /\ \A i \in Mems \cup Ents \cup Chunks : 1 <= i
  /\ MaxChunk \in Nat /\ PageSize \in Nat \ {0} /\ BatchSize \in Nat \ {0}
<1>1. PICK n \in 0..MaxChunk : Mems = 1..n
  BY ReEmbedConstants
<1>2. MaxChunk \in Nat /\ PageSize \in Nat \ {0} /\ BatchSize \in Nat \ {0}
  BY ReEmbedConstants
<1>3. \A a, b \in Int : IsFiniteSet(a..b)
  BY FS_Interval
<1>4. n \in Int /\ 1 \in Int /\ MaxChunk \in Int
  BY <1>1, <1>2
<1>5. IsFiniteSet(Mems) /\ IsFiniteSet(Chunks)
  BY <1>1, <1>3, <1>4 DEF Chunks
<1>6. Ents \subseteq Nat \ {0} /\ IsFiniteSet(Ents)
  BY ReEmbedConstants
<1> QED BY <1>1, <1>2, <1>5, <1>6 DEF Chunks

\* A key is of one kind.
LEMMA KeyShape ==
  ASSUME NEW k \in Keys
  PROVE  /\ k = <<k[1], k[2]>> /\ k[1] \in {"mem", "ent", "chunk"}
         /\ k[1] = "mem" => k[2] \in Mems
         /\ k[1] = "ent" => k[2] \in Ents
         /\ k[1] = "chunk" => k[2] \in Chunks
         /\ k[2] \in IdsOf(k[1]) /\ k[2] \in Nat /\ 1 <= k[2]
<1>1. CASE \E i \in Mems : k = <<"mem", i>>
  BY <1>1, Constants DEF IdsOf
<1>2. CASE \E i \in Ents : k = <<"ent", i>>
  BY <1>2, Constants DEF IdsOf
<1>3. CASE \E i \in Chunks : k = <<"chunk", i>>
  BY <1>3, Constants DEF IdsOf
<1> QED BY <1>1, <1>2, <1>3 DEF Keys

\* A row of a kind has a key.
LEMMA KeyOf ==
  /\ \A i \in Mems : <<"mem", i>> \in Keys
  /\ \A i \in Ents : <<"ent", i>> \in Keys
  /\ \A i \in Chunks : <<"chunk", i>> \in Keys
BY DEF Keys

\* The order in which the scan takes the kinds.
LEMMA KindsFacts ==
  /\ \A n \in 1..3 : Kinds[n] \in {"mem", "ent", "chunk"} /\ IdsOf(Kinds[n]) \in SUBSET Nat /\ IsFiniteSet(IdsOf(Kinds[n]))
  /\ \A n \in 1..3 : \A i \in IdsOf(Kinds[n]) : <<Kinds[n], i>> \in Keys /\ 1 <= i
  /\ \A n, m \in 1..3 : Kinds[n] = Kinds[m] => n = m
<1>1. Kinds[1] = "mem" /\ Kinds[2] = "ent" /\ Kinds[3] = "chunk"
  BY DEF Kinds
<1>2. \A n \in 1..3 : n = 1 \/ n = 2 \/ n = 3
  OBVIOUS
<1>3. IdsOf("mem") = Mems /\ IdsOf("ent") = Ents /\ IdsOf("chunk") = Chunks
  BY DEF IdsOf
<1> QED BY <1>1, <1>2, <1>3, Constants, KeyOf

\* The text of a key, by its kind.
LEMMA TextCases ==
  ASSUME NEW d, NEW k \in Keys
  PROVE  /\ k[1] = "mem" => TextOf(d, k) = d.mem[k[2]].text /\ (Found(d, k) <=> d.mem[k[2]].live)
         /\ k[1] = "ent" => TextOf(d, k) = d.ent[k[2]] /\ Found(d, k)
         /\ k[1] = "chunk" => /\ TextOf(d, k) = d.chunk[k[2]].text
                              /\ Found(d, k) <=> d.chunk[k[2]] # NoRow /\ d.mem[d.chunk[k[2]].mem].live
BY DEF TextOf, Found

\* A row is not NoRow, a vector not NoVec.
LEMMA NotNone ==
  /\ \A v \in Vec : v # NoVec
  /\ \A r \in [text: Texts, mem: Mems] : r # NoRow
<1>1. \A v \in Vec : DOMAIN v = {"of", "text", "dim"}
  BY DEF Vec
<1>2. DOMAIN NoVec = {"text"} /\ DOMAIN NoRow = {"text"}
  BY DEF NoVec, NoRow
<1>3. \A r \in [text: Texts, mem: Mems] : DOMAIN r = {"text", "mem"}
  OBVIOUS
<1>4. {"of", "text", "dim"} # {"text"} /\ {"text", "mem"} # {"text"}
  OBVIOUS
<1> QED BY <1>1, <1>2, <1>3, <1>4

\* What an answer holds.
LEMMA AnswerShape ==
  ASSUME NEW a \in Answer
  PROVE  /\ a.out \in {"skipped", "done", "embed"}
         /\ a.out = "embed" => a.text \in Texts /\ a.mem \in Mems \cup {0}
BY DEF Answer

\* An idle thread holds nothing.
LEMMA IdleThread ==
  /\ Idle.pc = "idle" /\ Idle.claim = << >> /\ Idle.text = << >> /\ Len(Idle.claim) = 0
  /\ Idle \in Thread /\ ~Holds(Idle) /\ [Idle EXCEPT !.pc = "end"] \in Thread
  /\ \A q : ThreadOk(Idle, q)
<1>1. << >> \in Seq(Nat) /\ << >> \in Seq(Answer) /\ Len(<< >>) = 0
  OBVIOUS
<1>2. Idle \in Thread /\ [Idle EXCEPT !.pc = "end"] \in Thread
  BY <1>1 DEF Idle, Thread
<1>3. Idle.pc = "idle" /\ Idle.claim = << >> /\ Idle.text = << >> /\ Len(Idle.claim) = 0
  BY <1>1 DEF Idle
<1> QED BY <1>2, <1>3, Constants DEF Holds, ThreadOk

-----------------------------------------------------------------------------
(* The start *)

\* At the start there is nothing to embed and nobody at work.
LEMMA InitInv == Init => IInv
<1> SUFFICES ASSUME Init PROVE IInv
  OBVIOUS
<1> DEFINE t0 == CHOOSE t \in Texts : t # Empty
<1>1. t0 \in Texts
  BY ReEmbedConstants
<1>2. dim \in Dims
  BY ReEmbedConstants DEF Init
<1>3. 1 + Cardinality(Mems) \in 1..(MaxChunk + 1) /\ \A i \in Mems : i < 1 + Cardinality(Mems)
  <2>1. PICK n \in 0..MaxChunk : Mems = 1..n
    BY ReEmbedConstants
  <2>2. \A a, b \in Int : Cardinality(a..b) = IF a > b THEN 0 ELSE b - a + 1
    BY FS_Interval
  <2>3. n \in Int /\ 1 \in Int /\ n \in Nat
    BY <2>1, Constants
  <2>4. Cardinality(1..n) = IF 1 > n THEN 0 ELSE n - 1 + 1
    BY <2>2, <2>3
  <2>5. Cardinality(Mems) = n
    BY <2>1, <2>3, <2>4
  <2> QED BY <2>1, <2>3, <2>5, Constants
<1> HIDE DEF t0
<1> DEFINE ms == [i \in Mems |-> [text |-> t0, live |-> TRUE]]
           es == [e \in Ents |-> t0]
           cs == [i \in Chunks |-> IF i \in Mems THEN [text |-> t0, mem |-> i] ELSE NoRow]
           vs == [k \in Keys |-> NoVec]
           n0 == 1 + Cardinality(Mems)
<1>4. db = [mem |-> ms, ent |-> es, chunk |-> cs, vec |-> vs, next |-> n0]
  BY DEF Init, t0
<1>5. /\ ms \in [Mems -> [text: Texts, live: BOOLEAN]] /\ es \in [Ents -> Texts]
      /\ cs \in [Chunks -> [text: Texts, mem: Mems] \cup {NoRow}] /\ vs \in [Keys -> Vec \cup {NoVec}]
  BY <1>1
<1>6. \A i \in Chunks : cs[i] # NoRow => i \in Mems /\ cs[i].mem = i
  OBVIOUS
<1>7. \A k \in Keys : vs[k] = NoVec
  OBVIOUS
<1>8. n0 \in 1..(MaxChunk + 1) /\ \A i \in Chunks : i >= n0 => i \notin Mems
  <2>1. n0 \in Nat /\ Chunks \subseteq Nat
    BY <1>3, Constants
  <2>2. \A i \in Nat : i >= n0 => ~(i < n0)
    BY <2>1
  <2> QED BY <1>3, <2>1, <2>2
<1> HIDE DEF ms, es, cs, vs, n0
<1>9. db \in Db /\ db.vec = vs /\ db.chunk = cs /\ db.next = n0
  BY <1>4, <1>5, <1>8 DEF Db
<1>10. ChunksApart(db)
  BY <1>6, <1>8, <1>9 DEF ChunksApart
<1>11. Fresh(db, touched, misplaced)
  BY <1>7, <1>9 DEF Fresh
<1>12. /\ queue = << >> /\ job = [pc |-> "idle", kind |-> 1, after |-> 0]
       /\ worker = [w \in Workers |-> Idle] /\ stable = {}
  BY DEF Init
<1>13. queue \in Seq(QRow) /\ job \in Job /\ job.pc = "idle" /\ worker \in [Workers -> Thread] /\ \A w \in Workers : worker[w] = Idle
  BY <1>12, IdleThread DEF Job
<1>14. ScanOk(db, queue, job, stable)
  BY <1>12 DEF ScanOk
<1>15. Threads(worker, db, queue, touched)
  BY <1>13, IdleThread DEF Threads
<1> QED BY <1>2, <1>9, <1>10, <1>11, <1>13, <1>14, <1>15 DEF IInv, Inv
-----------------------------------------------------------------------------
(* One worker moves *)

\* What the queue holds.
LEMMA QueueShape ==
  ASSUME NEW q \in Seq(QRow)
  PROVE  /\ Len(q) \in Nat /\ DOMAIN q = 1..Len(q)
         /\ \A i \in 1..Len(q) : q[i] \in QRow /\ q[i].key \in Keys
<1>1. Len(q) \in Nat /\ DOMAIN q = 1..Len(q) /\ \A i \in 1..Len(q) : q[i] \in QRow
  OBVIOUS
<1>2. \A x \in QRow : x.key \in Keys
  BY DEF QRow
<1> QED BY <1>1, <1>2

\* The same rows, with other statuses and attempts.
SameRows(q, q2) ==
  q2 \in Seq(QRow) /\ Len(q2) = Len(q) /\ \A i \in 1..Len(q) : q2[i].key = q[i].key

\* Rows that keep their keys.
LEMMA RowsMapped ==
  ASSUME NEW q \in Seq(QRow), NEW q2, DOMAIN q2 = DOMAIN q, q2 = [i \in DOMAIN q |-> q2[i]],
         \A i \in DOMAIN q : q2[i] = q[i] \/ (q2[i] \in QRow /\ q2[i].key = q[i].key)
  PROVE  SameRows(q, q2)
<1>1. \A i \in 1..Len(q) : q2[i] \in QRow /\ q2[i].key = q[i].key
  BY QueueShape
<1>2. Len(q) \in Nat /\ DOMAIN q = 1..Len(q)
  BY QueueShape
<1>3. q2 \in [1..Len(q) -> QRow]
  BY <1>1, <1>2
<1>4. q2 \in Seq(QRow) /\ Len(q2) = Len(q)
  BY <1>2, <1>3
<1> QED BY <1>1, <1>4 DEF SameRows

\* A worker that moves leaves what the others hold.
LEMMA ThreadsMove ==
  ASSUME worker \in [Workers -> Thread], Threads(worker, db, queue, touched), SameRows(queue, queue'),
         NEW w \in Workers, NEW r, worker' = [worker EXCEPT ![w] = r],
         ThreadOk(r, queue'), Holds(r) => Answers(r, db', queue', touched'),
         \A u \in Workers : u # w /\ Holds(worker[u]) =>
           \A i \in 1..Len(worker[u].claim) :
             AnswerOk(worker[u].text[i], queue[worker[u].claim[i]].key, db, touched)
               => AnswerOk(worker[u].text[i], queue[worker[u].claim[i]].key, db', touched')
  PROVE  worker' \in [Workers -> Thread] /\ Threads(worker', db', queue', touched')
<1>1. worker'[w] = r /\ (\A u \in Workers : u # w => worker'[u] = worker[u]) /\ r \in Thread
  BY DEF ThreadOk
<1>2. worker' \in [Workers -> Thread]
  BY <1>1
<1>3. ASSUME NEW u \in Workers, u # w
      PROVE  ThreadOk(worker[u], queue') /\ (Holds(worker[u]) => Answers(worker[u], db', queue', touched'))
  <2>1. ThreadOk(worker[u], queue) /\ (Holds(worker[u]) => Answers(worker[u], db, queue, touched))
    BY DEF Threads
  <2>2. ThreadOk(worker[u], queue')
    BY <2>1 DEF ThreadOk, SameRows
  <2>3. ASSUME Holds(worker[u]) PROVE Answers(worker[u], db', queue', touched')
    <3> DEFINE c == worker[u].claim
    <3>1. \A i \in 1..Len(c) : c[i] \in 1..Len(queue)
      BY <2>1 DEF ThreadOk
    <3>2. \A i \in 1..Len(c) : queue'[c[i]].key = queue[c[i]].key
      BY <3>1 DEF SameRows
    <3>3. \A i \in 1..Len(c) : AnswerOk(worker[u].text[i], queue[c[i]].key, db, touched)
      BY <2>1, <2>3 DEF Answers
    <3>4. \A i \in 1..Len(c) : AnswerOk(worker[u].text[i], queue[c[i]].key, db', touched')
      BY <1>3, <2>3, <3>3
    <3> QED BY <3>2, <3>4 DEF Answers
  <2> QED BY <2>2, <2>3
<1>4. Threads(worker', db', queue', touched')
  <2>1. \A u \in Workers : ThreadOk(worker'[u], queue') /\ (Holds(worker'[u]) => Answers(worker'[u], db', queue', touched'))
    BY <1>1, <1>3
  <2> QED BY <2>1 DEF Threads
<1> QED BY <1>2, <1>4

\* A step of one worker in the queue.
LEMMA WorkerMoves ==
  ASSUME IInv, NEW w \in Workers, worker[w].pc # "idle" \/ job.pc = "drain",
         NEW r, worker' = [worker EXCEPT ![w] = r], SameRows(queue, queue'),
         ThreadOk(r, queue'), Holds(r) => Answers(r, db, queue', touched),
         UNCHANGED <<db, dim, job, stable, touched, misplaced>>
  PROVE  IInv'
<1>1. Inv(db, queue, job, worker, stable, touched, misplaced) /\ dim \in Dims
  BY DEF IInv
<1>2. job.pc = "drain" /\ stable = {}
  BY <1>1, IdleThread DEF Inv, ScanOk
<1>3. worker' \in [Workers -> Thread] /\ Threads(worker', db, queue', touched)
  <2>1. worker \in [Workers -> Thread] /\ Threads(worker, db, queue, touched)
    BY <1>1 DEF Inv
  <2>2. db' = db /\ touched' = touched
    OBVIOUS
  <2>3. Holds(r) => Answers(r, db', queue', touched')
    BY <2>2
  <2>4. worker' \in [Workers -> Thread] /\ Threads(worker', db', queue', touched')
    BY <2>1, <2>2, <2>3, ThreadsMove
  <2> QED BY <2>2, <2>4
<1>4. ScanOk(db, queue', job, stable)
  BY <1>2 DEF ScanOk
<1>5. Inv(db, queue', job, worker', stable, touched, misplaced)
  BY <1>1, <1>2, <1>3, <1>4 DEF Inv, SameRows
<1>6. Inv(db', queue', job', worker', stable', touched', misplaced')
  BY <1>5
<1> QED BY <1>1, <1>6, SameDim

\* What a worker may rely on.
LEMMA OfWorker ==
  ASSUME IInv, NEW w \in Workers
  PROVE  /\ worker[w] \in Thread /\ ThreadOk(worker[w], queue)
         /\ Holds(worker[w]) => Answers(worker[w], db, queue, touched)
         /\ DOMAIN worker[w].claim = 1..Len(worker[w].claim) /\ Len(worker[w].claim) \in Nat
         /\ DOMAIN worker[w].text = 1..Len(worker[w].text) /\ Len(worker[w].text) \in Nat
         /\ \A i \in 1..Len(worker[w].text) : worker[w].text[i] \in Answer
         /\ \A i \in 1..Len(worker[w].claim) : /\ worker[w].claim[i] \in DOMAIN queue
                                               /\ queue[worker[w].claim[i]] \in QRow
                                               /\ queue[worker[w].claim[i]].key \in Keys
         /\ queue \in Seq(QRow) /\ db \in Db
<1>1. worker \in [Workers -> Thread] /\ Threads(worker, db, queue, touched) /\ queue \in Seq(QRow) /\ db \in Db
  BY DEF IInv, Inv
<1>2. worker[w] \in Thread /\ ThreadOk(worker[w], queue) /\ (Holds(worker[w]) => Answers(worker[w], db, queue, touched))
  BY <1>1 DEF Threads
<1>3. worker[w].claim \in Seq(Nat) /\ worker[w].text \in Seq(Answer)
  BY <1>2 DEF Thread
<1>4. \A i \in 1..Len(worker[w].claim) : worker[w].claim[i] \in 1..Len(queue)
  BY <1>2 DEF ThreadOk
<1> QED BY <1>1, <1>2, <1>3, <1>4, QueueShape

\* A claim takes pending rows only.
LEMMA DequeueStep ==
  ASSUME IInv, NEW w \in Workers, DequeueBatch(w)
  PROVE  IInv'
<1> DEFINE batch == FirstOf(Pending, BatchSize)
           r == [pc |-> "claimed", text |-> << >>, claim |-> Sorted(batch)]
<1>1. queue \in Seq(QRow) /\ DOMAIN queue = 1..Len(queue) /\ Len(queue) \in Nat
  BY QueueShape DEF IInv, Inv
<1>2. Pending \in SUBSET Nat /\ IsFiniteSet(Pending) /\ Pending \subseteq 1..Len(queue)
  <2>1. Pending \in SUBSET (1..Len(queue))
    BY <1>1 DEF Pending
  <2>2. \A a, b \in Int : IsFiniteSet(a..b)
    BY FS_Interval
  <2>3. 1 \in Int /\ Len(queue) \in Int
    BY <1>1
  <2>4. IsFiniteSet(1..Len(queue))
    BY <2>2, <2>3
  <2>5. Pending \in SUBSET Nat
    BY <2>1
  <2> QED BY <2>1, <2>4, <2>5, FS_Subset
<1>3. /\ queue' = [i \in DOMAIN queue |-> IF i \in batch
                     THEN [queue[i] EXCEPT !.status = "processing", !.attempt = @ + 1] ELSE queue[i]]
      /\ worker' = [worker EXCEPT ![w] = r] /\ job.pc = "drain"
      /\ UNCHANGED <<db, dim, job, stable, touched, misplaced>>
  BY DEF DequeueBatch, Put, FirstOf
<1>4. batch \in SUBSET Pending /\ IsFiniteSet(batch) /\ Cardinality(batch) <= BatchSize
  BY <1>2, FirstFacts, Constants
<1> HIDE DEF batch
<1>5. /\ Sorted(batch) \in Seq(batch) /\ Sorted(batch) \in Seq(Nat) /\ Len(Sorted(batch)) <= BatchSize
      /\ DOMAIN Sorted(batch) = 1..Len(Sorted(batch)) /\ batch \in SUBSET Nat
  BY <1>2, <1>4, SortedFacts
<1>6. \A x \in QRow : /\ [x EXCEPT !.status = "processing", !.attempt = @ + 1] \in QRow
                      /\ [x EXCEPT !.status = "processing", !.attempt = @ + 1].key = x.key
  <2>1. "processing" \in Status /\ \A n \in Nat : n + 1 \in Nat
    BY DEF Status
  <2>2. \A x \in QRow : x.attempt + 1 \in Nat
    BY <2>1 DEF QRow
  <2> QED BY <2>1, <2>2 DEF QRow
<1>7. SameRows(queue, queue')
  <2>1. \A i \in DOMAIN queue : queue'[i] = queue[i] \/ (queue'[i] \in QRow /\ queue'[i].key = queue[i].key)
    BY <1>1, <1>3, <1>6, QueueShape
  <2> QED BY <1>1, <1>3, <2>1, RowsMapped
<1>8. ThreadOk(r, queue') /\ ~Holds(r)
  <2>1. r.pc = "claimed" /\ r.text = << >> /\ r.claim = Sorted(batch)
    OBVIOUS
  <2>2. << >> \in Seq(Answer) /\ Sorted(batch) \in Seq(Nat)
    BY <1>5
  <2>3. r \in Thread
    BY <2>2 DEF Thread
  <2>4. \A i \in 1..Len(Sorted(batch)) : Sorted(batch)[i] \in batch
    BY <1>5
  <2>5. \A i \in 1..Len(Sorted(batch)) : Sorted(batch)[i] \in 1..Len(queue')
    BY <1>2, <1>4, <1>7, <2>4 DEF SameRows
  <2> HIDE DEF r
  <2> QED BY <1>5, <2>1, <2>3, <2>5 DEF ThreadOk, Holds
<1> HIDE DEF r
<1> QED BY <1>3, <1>7, <1>8, WorkerMoves

\* A worker with nothing to claim ends.
LEMMA WorkerEndsStep ==
  ASSUME IInv, NEW w \in Workers, WorkerEnds(w)
  PROVE  IInv'
<1> DEFINE r == [Idle EXCEPT !.pc = "end"]
<1>1. r.pc = "end" /\ r.claim = << >> /\ r.text = << >> /\ Len(r.claim) = 0 /\ r \in Thread
  BY IdleThread DEF Idle
<1>2. queue \in Seq(QRow)
  BY DEF IInv, Inv
<1>3. queue' = queue /\ worker' = [worker EXCEPT ![w] = r] /\ job.pc = "drain" /\ UNCHANGED <<db, dim, job, stable, touched, misplaced>>
  BY DEF WorkerEnds, Put
<1> HIDE DEF r
<1>4. ThreadOk(r, queue') /\ ~Holds(r)
  BY <1>1, Constants DEF ThreadOk, Holds
<1>5. SameRows(queue, queue')
  BY <1>2, <1>3 DEF SameRows
<1> QED BY <1>3, <1>4, <1>5, WorkerMoves

\* A failed batch goes back to pending, or is dead.
LEMMA FailStep ==
  ASSUME IInv, NEW w \in Workers, NEW hard, FailBatch(w, hard), worker[w].pc = "embed"
  PROVE  IInv'
<1>1. queue \in Seq(QRow) /\ \A i \in DOMAIN queue : queue[i] \in QRow
  BY QueueShape DEF IInv, Inv
<1>2. /\ queue' = [i \in DOMAIN queue |-> IF i \in Range(worker[w].claim) THEN FailedRow(queue[i], hard) ELSE queue[i]]
      /\ worker' = [worker EXCEPT ![w] = Idle] /\ UNCHANGED <<db, dim, job, stable, touched, misplaced>>
  BY DEF FailBatch, Put
<1>3. \A x \in QRow : FailedRow(x, hard) \in QRow /\ FailedRow(x, hard).key = x.key
  BY DEF FailedRow, QRow, Status
<1>4. SameRows(queue, queue')
  <2>1. \A i \in DOMAIN queue : queue'[i] = queue[i] \/ (queue'[i] \in QRow /\ queue'[i].key = queue[i].key)
    BY <1>1, <1>2, <1>3
  <2> QED BY <1>1, <1>2, <2>1, RowsMapped
<1> QED BY <1>2, <1>4, IdleThread, WorkerMoves
\* Each outcome of resolve_key says what is so.
LEMMA ResolveOk ==
  ASSUME NEW d \in Db, ChunksApart(d), NEW k \in Keys, NEW T
  PROVE  Resolve(d, k) \in Answer /\ AnswerOk(Resolve(d, k), k, d, T)
<1> DEFINE a == [out |-> "embed", text |-> TextOf(d, k), mem |-> IF k[1] = "chunk" THEN d.chunk[k[2]].mem ELSE 0]
<1>1. CASE Resolve(d, k) = [out |-> "skipped"]
  <2>1. [out |-> "skipped"] \in Answer /\ [out |-> "skipped"].out = "skipped"
    BY DEF Answer
  <2> QED BY <1>1, <2>1 DEF AnswerOk
<1>2. CASE HasLiveEmbedding(d, k) /\ Resolve(d, k) = [out |-> "done"]
  <2>1. [out |-> "done"] \in Answer /\ [out |-> "done"].out = "done"
    BY DEF Answer
  <2> QED BY <1>2, <2>1 DEF AnswerOk
<1>3. CASE Found(d, k) /\ Resolve(d, k) = a
  <2>1. /\ d.mem \in [Mems -> [text: Texts, live: BOOLEAN]] /\ d.ent \in [Ents -> Texts]
        /\ d.chunk \in [Chunks -> [text: Texts, mem: Mems] \cup {NoRow}]
    BY DEF Db
  <2>2. k[1] = "chunk" => d.chunk[k[2]] # NoRow /\ d.chunk[k[2]].mem \in Mems /\ d.chunk[k[2]].text \in Texts
    BY <1>3, <2>1, TextCases, KeyShape
  <2>3. TextOf(d, k) \in Texts
    BY <2>1, <2>2, TextCases, KeyShape
  <2>4. /\ a.out = "embed" /\ a.text = TextOf(d, k)
        /\ a.mem = IF k[1] = "chunk" THEN d.chunk[k[2]].mem ELSE 0
    OBVIOUS
  <2>5. a \in Answer
    BY <2>2, <2>3 DEF Answer
  <2> HIDE DEF a
  <2>6. ASSUME k[1] = "chunk"
        PROVE  /\ a.mem \in Mems /\ k[2] \in ChunkOf(d, a.mem)
               /\ \A c \in ChunkOf(d, a.mem) : <<"chunk", c>> = k /\ a.text = d.chunk[c].text
    <3>1. a.mem = d.chunk[k[2]].mem /\ k[2] \in Chunks /\ k = <<"chunk", k[2]>> /\ a.text = d.chunk[k[2]].text
      BY <2>4, <2>6, KeyShape, TextCases
    <3>2. k[2] \in ChunkOf(d, a.mem)
      BY <2>2, <2>6, <3>1 DEF ChunkOf
    <3>3. \A c \in ChunkOf(d, a.mem) : c = k[2]
      BY <2>2, <2>6, <3>1 DEF ChunkOf, ChunksApart
    <3> QED BY <2>2, <2>6, <3>1, <3>2, <3>3
  <2>7. AnswerOk(a, k, d, T)
    BY <2>4, <2>6 DEF AnswerOk
  <2> QED BY <1>3, <2>5, <2>7
<1> HIDE DEF a
<1>4. \/ Resolve(d, k) = [out |-> "skipped"]
      \/ HasLiveEmbedding(d, k) /\ Resolve(d, k) = [out |-> "done"]
      \/ Found(d, k) /\ Resolve(d, k) = a
  BY DEF Resolve, a
<1> QED BY <1>1, <1>2, <1>3, <1>4

\* resolve_key says what is so of the rows it reads.
LEMMA ResolveStep ==
  ASSUME IInv, NEW w \in Workers, ResolveBatch(w)
  PROVE  IInv'
<1> DEFINE o == worker[w]
           text == [i \in DOMAIN o.claim |-> Resolve(db, queue[o.claim[i]].key)]
           pc == IF \E i \in DOMAIN text : text[i].out = "embed" THEN "embed" ELSE "settle"
           r == [o EXCEPT !.text = text, !.pc = pc]
<1>1. /\ o.pc = "claimed" /\ worker' = [worker EXCEPT ![w] = r]
      /\ UNCHANGED <<db, dim, queue, job, stable, touched, misplaced>>
  BY DEF ResolveBatch, Put
<1>2. /\ o \in Thread /\ ThreadOk(o, queue) /\ DOMAIN o.claim = 1..Len(o.claim) /\ Len(o.claim) \in Nat
      /\ queue \in Seq(QRow) /\ db \in Db /\ ChunksApart(db)
      /\ \A i \in 1..Len(o.claim) : queue[o.claim[i]].key \in Keys
  BY OfWorker DEF IInv, Inv
<1>3. \A i \in 1..Len(o.claim) : text[i] \in Answer /\ AnswerOk(text[i], queue[o.claim[i]].key, db, touched)
  BY <1>2, ResolveOk
<1>4. text \in Seq(Answer) /\ Len(text) = Len(o.claim) /\ DOMAIN text = 1..Len(o.claim)
  <2>1. text \in [1..Len(o.claim) -> Answer]
    BY <1>2, <1>3
  <2> HIDE DEF text
  <2> QED BY <1>2, <2>1
<1>5. pc \in {"embed", "settle"} /\ (pc = "settle" => \A i \in 1..Len(text) : text[i].out # "embed")
  <2> HIDE DEF text, o
  <2> QED BY <1>4
<1> HIDE DEF text, pc, o
<1>6. r \in Thread /\ r.pc = pc /\ r.text = text /\ r.claim = o.claim
  <2>1. o \in [pc: {"idle", "claimed", "embed", "settle", "end"}, claim: Seq(Nat), text: Seq(Answer)]
    BY <1>2 DEF Thread
  <2>2. r.pc = pc /\ r.text = text /\ r.claim = o.claim
    BY <2>1
  <2>3. r \in Thread
    BY <1>4, <1>5, <2>1 DEF Thread
  <2> QED BY <2>2, <2>3
<1> HIDE DEF r
<1>7. ThreadOk(r, queue)
  BY <1>2, <1>4, <1>5, <1>6 DEF ThreadOk
<1>8. Answers(r, db, queue, touched)
  BY <1>3, <1>6 DEF Answers
<1>9. SameRows(queue, queue') /\ queue' = queue
  BY <1>1, <1>2 DEF SameRows
<1> QED BY <1>1, <1>7, <1>8, <1>9, WorkerMoves DEF o

\* What a worker's claim is settled with.
LEMMA SettledWith ==
  ASSUME IInv, NEW w \in Workers, worker[w].pc = "settle", NEW x, NEW j \in DOMAIN worker[w].claim,
         worker[w].claim[j] = x
  PROVE  LET a == worker[w].text[CHOOSE i \in DOMAIN worker[w].claim : worker[w].claim[i] = x]
         IN  a.out \in {"done", "skipped"} /\ AnswerOk(a, queue[x].key, db, touched)
<1> DEFINE i == CHOOSE i \in DOMAIN worker[w].claim : worker[w].claim[i] = x
           a == worker[w].text[i]
<1>1. i \in DOMAIN worker[w].claim /\ worker[w].claim[i] = x
  OBVIOUS
<1> HIDE DEF i
<1>2. i \in 1..Len(worker[w].claim) /\ i \in 1..Len(worker[w].text)
  BY <1>1, OfWorker DEF ThreadOk
<1>3. a \in Answer /\ a.out # "embed"
  BY <1>2, OfWorker DEF ThreadOk
<1>4. a.out \in {"done", "skipped"}
  <2> HIDE DEF a
  <2> QED BY <1>3, AnswerShape
<1>5. Answers(worker[w], db, queue, touched)
  BY OfWorker DEF Holds
<1>6. AnswerOk(a, queue[x].key, db, touched)
  BY <1>1, <1>2, <1>5 DEF Answers
<1> QED BY <1>4, <1>6 DEF i

\* A batch is settled by its answers.
LEMMA SettleStep ==
  ASSUME IInv, NEW w \in Workers, NEW lost, Settle(w, lost)
  PROVE  IInv'
<1> DEFINE c == worker[w].claim
           said(x) == worker[w].text[CHOOSE i \in DOMAIN c : c[i] = x].out
           r == [Idle EXCEPT !.pc = IF lost = {} THEN "idle" ELSE "end"]
<1>1. /\ worker[w].pc = "settle"
      /\ queue' = [x \in DOMAIN queue |-> IF \E i \in DOMAIN c \ lost : c[i] = x
                     THEN [queue[x] EXCEPT !.status = said(x)] ELSE queue[x]]
      /\ worker' = [worker EXCEPT ![w] = r] /\ UNCHANGED <<db, dim, job, stable, touched, misplaced>>
  BY DEF Settle, Put
<1>2. queue \in Seq(QRow) /\ \A x \in DOMAIN queue : queue[x] \in QRow
  BY QueueShape DEF IInv, Inv
<1>3. \A x : (\E i \in DOMAIN c \ lost : c[i] = x) => said(x) \in Status
  BY <1>1, SettledWith DEF Status
<1> HIDE DEF said
<1>4. \A x \in QRow : \A s \in Status : [x EXCEPT !.status = s] \in QRow /\ [x EXCEPT !.status = s].key = x.key
  BY DEF QRow
<1> HIDE DEF c
<1>5. SameRows(queue, queue')
  <2>1. \A x \in DOMAIN queue : queue'[x] = queue[x] \/ (queue'[x] \in QRow /\ queue'[x].key = queue[x].key)
    BY <1>1, <1>2, <1>3, <1>4
  <2>2. DOMAIN queue' = DOMAIN queue /\ queue' = [x \in DOMAIN queue |-> queue'[x]]
    BY <1>1
  <2> QED BY <1>2, <2>1, <2>2, RowsMapped
<1>6. r.pc \in {"idle", "end"} /\ r.claim = << >> /\ r.text = << >> /\ Len(r.claim) = 0 /\ r \in Thread
  BY IdleThread DEF Idle
<1> HIDE DEF r
<1>7. ThreadOk(r, queue') /\ ~Holds(r)
  BY <1>6, Constants DEF ThreadOk, Holds
<1> QED BY <1>1, <1>5, <1>7, WorkerMoves
-----------------------------------------------------------------------------
(* The transaction that writes a batch *)

\* An upsert of a vector changes nothing else.
LEMMA UpsertFacts ==
  ASSUME NEW d \in Db, NEW k \in Keys, NEW of \in Keys, NEW t \in Texts, dim \in Dims
  PROVE  LET e == UpsertVec(d, k, of, t)
         IN  /\ e \in Db /\ e.mem = d.mem /\ e.ent = d.ent /\ e.chunk = d.chunk /\ e.next = d.next
             /\ e.vec[k] = [of |-> of, text |-> t, dim |-> dim] /\ e.vec[k] \in Vec /\ e.vec[k] # NoVec
             /\ \A x \in Keys : x # k => e.vec[x] = d.vec[x]
<1> DEFINE v == [of |-> of, text |-> t, dim |-> dim]
           u == [d.vec EXCEPT ![k] = v]
           e == [d EXCEPT !.vec = u]
<1>1. v \in Vec /\ v # NoVec
  <2>1. v \in Vec
    BY DEF Vec
  <2> QED BY <2>1, NotNone
<1>2. UpsertVec(d, k, of, t) = e
  BY DEF UpsertVec
<1> HIDE DEF v
<1>3. u \in [Keys -> Vec \cup {NoVec}] /\ u[k] = v /\ \A x \in Keys : x # k => u[x] = d.vec[x]
  BY <1>1 DEF Db
<1> HIDE DEF u
<1>4. e.mem = d.mem /\ e.ent = d.ent /\ e.chunk = d.chunk /\ e.next = d.next /\ e.vec = u
  BY DEF Db
<1>5. e \in Db
  BY <1>3 DEF Db
<1> HIDE DEF e
<1> QED BY <1>1, <1>2, <1>3, <1>4, <1>5 DEF v

\* The same rows, with all live vectors of d still live in e.
Grown(d, e) ==
  /\ e.mem = d.mem /\ e.ent = d.ent /\ e.chunk = d.chunk /\ e.next = d.next
  /\ \A k \in Keys : HasLiveEmbedding(d, k) => HasLiveEmbedding(e, k)

\* Vectors do not change what is read of the rows.
LEMMA SameRowsRead ==
  ASSUME NEW d, NEW e, e.mem = d.mem, e.ent = d.ent, e.chunk = d.chunk, NEW k \in Keys
  PROVE  /\ TextOf(e, k) = TextOf(d, k) /\ (RowExists(e, k) <=> RowExists(d, k))
         /\ \A m : ChunkOf(e, m) = ChunkOf(d, m)
<1>1. TextOf(e, k) = TextOf(d, k)
  BY KeyShape, TextCases
<1> QED BY <1>1 DEF RowExists, ChunkOf

\* What is left of an answer when vectors were added.
LEMMA AnswerKept ==
  ASSUME NEW d, NEW e, Grown(d, e), NEW k \in Keys, NEW a, NEW T, AnswerOk(a, k, d, T)
  PROVE  AnswerOk(a, k, e, T)
BY SameRowsRead DEF AnswerOk, Grown

\* One key of the batch: r is what the transaction did so far.
Stored(r, k, a) ==
  IF a.out # "embed" \/ ~r.ok THEN r
  ELSE LET t == CHOOSE x \in TargetsOf(r.db, k, a.mem) : TRUE
       IN  IF ~RowExists(r.db, t) THEN [r EXCEPT !.ok = FALSE]
           ELSE [r EXCEPT !.db = UpsertVec(@, t, k, a.text),
                          !.lost = IF k[1] = "chunk" /\ ChunkOf(r.db, a.mem) = {} THEN @ \cup {t} ELSE @]
Result == [db: Db, ok: BOOLEAN, lost: SUBSET Keys]

\* One row of a batch: its vectors are fresh or counted as lost.
LEMMA StoredOk ==
  ASSUME dim \in Dims, NEW d \in Db, ChunksApart(d), NEW T, NEW M,
         NEW r \in Result, Grown(d, r.db), Fresh(r.db, T, M \cup r.lost),
         NEW k \in Keys, NEW a \in Answer, AnswerOk(a, k, d, T)
  PROVE  LET s == Stored(r, k, a)
         IN  /\ s \in Result /\ Grown(r.db, s.db) /\ Fresh(s.db, T, M \cup s.lost)
             /\ s.ok => r.ok /\ (a.out = "embed" => HasLiveEmbedding(s.db, k) \/ k \in T)
<1>0. r.db \in Db /\ r.ok \in BOOLEAN /\ r.lost \in SUBSET Keys
  BY DEF Result
<1>1. CASE a.out # "embed" \/ ~r.ok
  <2>1. Stored(r, k, a) = r
    BY <1>1 DEF Stored
  <2> QED BY <1>1, <2>1 DEF Grown
<1>2. CASE a.out = "embed" /\ r.ok
  <2> DEFINE t == CHOOSE x \in TargetsOf(r.db, k, a.mem) : TRUE
             miss == k[1] = "chunk" /\ ChunkOf(r.db, a.mem) = {}
             e == UpsertVec(r.db, t, k, a.text)
             s == [r EXCEPT !.db = e, !.lost = IF miss THEN @ \cup {t} ELSE @]
  <2>1. /\ k[1] # "chunk" => t = k
        /\ k[1] = "chunk" /\ ~miss => \E c \in ChunkOf(d, a.mem) : t = <<"chunk", c>>
    <3>1. ChunkOf(r.db, a.mem) = ChunkOf(d, a.mem)
      BY SameRowsRead DEF Grown
    <3>2. k[1] # "chunk" => TargetsOf(r.db, k, a.mem) = {k}
      BY DEF TargetsOf
    <3>3. k[1] = "chunk" /\ ~miss => TargetsOf(r.db, k, a.mem) = {<<"chunk", i>> : i \in ChunkOf(d, a.mem)}
                                     /\ ChunkOf(d, a.mem) # {}
      BY <3>1 DEF TargetsOf
    <3>4. k[1] = "chunk" /\ ~miss => t \in {<<"chunk", i>> : i \in ChunkOf(d, a.mem)}
      BY <3>3
    <3> QED BY <3>2, <3>4
  <2> HIDE DEF t
  <2>2. CASE ~RowExists(r.db, t)
    <3> DEFINE f == [r EXCEPT !.ok = FALSE]
    <3>1. Stored(r, k, a) = f
      BY <1>2, <2>2 DEF Stored, t
    <3>2. f \in Result /\ f.db = r.db /\ f.lost = r.lost /\ ~f.ok
      BY DEF Result
    <3> HIDE DEF f
    <3> QED BY <3>1, <3>2 DEF Grown
  <2>3. CASE RowExists(r.db, t)
    <3>1. Stored(r, k, a) = s
      BY <1>2, <2>3 DEF Stored, t
    <3>2. t \in Keys /\ a.text \in Texts
      BY <1>2, <2>3, AnswerShape DEF RowExists
    <3>3. /\ e \in Db /\ e.mem = r.db.mem /\ e.ent = r.db.ent /\ e.chunk = r.db.chunk /\ e.next = r.db.next
          /\ e.vec[t] = [of |-> k, text |-> a.text, dim |-> dim] /\ e.vec[t] # NoVec
          /\ \A x \in Keys : x # t => e.vec[x] = r.db.vec[x]
      BY <1>0, <3>2, UpsertFacts
    <3>4. e.vec[t].of = k /\ e.vec[t].text = a.text /\ e.vec[t].dim = dim
      BY <3>3
    <3> HIDE DEF e
    <3>5. s \in Result /\ s.db = e /\ s.ok = r.ok /\ s.lost = IF miss THEN r.lost \cup {t} ELSE r.lost
      <4> HIDE DEF miss
      <4> QED BY <3>2, <3>3 DEF Result
    <3> HIDE DEF s
    <3>6. Grown(r.db, e)
      BY <3>3, <3>4 DEF Grown, HasLiveEmbedding
    <3>7. ~miss /\ t \notin T => t = k /\ FreshVec(e, t)
      <4> SUFFICES ASSUME ~miss, t \notin T PROVE t = k /\ FreshVec(e, t)
        OBVIOUS
      <4>1. TextOf(e, t) = TextOf(d, t) /\ RowExists(e, t)
        <5>1. e.mem = d.mem /\ e.ent = d.ent /\ e.chunk = d.chunk
          BY <3>3 DEF Grown
        <5>2. RowExists(d, t)
          BY <2>3, <3>2, SameRowsRead DEF Grown
        <5> QED BY <3>2, <5>1, <5>2, SameRowsRead
      <4>2. CASE k[1] # "chunk"
        <5>1. t = k /\ a.text = TextOf(d, k)
          BY <1>2, <2>1, <4>2 DEF AnswerOk
        <5> QED BY <3>4, <4>1, <5>1 DEF FreshVec
      <4>3. CASE k[1] = "chunk"
        <5>1. PICK c \in ChunkOf(d, a.mem) : t = <<"chunk", c>>
          BY <2>1, <4>3
        <5>2. t = k /\ a.text = d.chunk[c].text
          BY <1>2, <4>3, <5>1 DEF AnswerOk
        <5>3. TextOf(d, k) = d.chunk[c].text
          BY <4>3, <5>1, <5>2, TextCases
        <5> QED BY <3>4, <4>1, <5>2, <5>3 DEF FreshVec
      <4> QED BY <4>2, <4>3
    <3>8. Fresh(e, T, M \cup s.lost)
      <4> SUFFICES ASSUME NEW x \in Keys, e.vec[x] # NoVec, x \notin T \cup (M \cup s.lost)
                   PROVE  FreshVec(e, x)
        BY DEF Fresh
      <4>1. CASE x = t
        BY <3>5, <3>7, <4>1
      <4>2. CASE x # t
        <5>1. FreshVec(r.db, x)
          BY <3>3, <3>5, <4>2 DEF Fresh
        <5> QED BY <3>3, <4>2, <5>1, SameRowsRead DEF FreshVec
      <4> QED BY <4>1, <4>2
    <3>9. HasLiveEmbedding(e, k) \/ k \in T
      <4>1. CASE t = k
        BY <3>3, <3>4, <4>1 DEF HasLiveEmbedding
      <4>2. CASE t # k
        <5>1. k[1] = "chunk" /\ a.mem \in Mems /\ (k \in T \/ k[2] \in ChunkOf(d, a.mem))
          BY <1>2, <2>1, <4>2 DEF AnswerOk
        <5>2. CASE k[2] \in ChunkOf(d, a.mem)
          <6>1. ~miss
            BY <5>2, SameRowsRead DEF Grown
          <6>2. PICK c \in ChunkOf(d, a.mem) : t = <<"chunk", c>>
            BY <2>1, <5>1, <6>1
          <6>3. c = k[2]
            BY <5>2 DEF ChunkOf, ChunksApart
          <6>4. t = k
            BY <5>1, <6>2, <6>3, KeyShape
          <6> QED BY <4>2, <6>4
        <5> QED BY <5>1, <5>2
      <4> QED BY <4>1, <4>2
    <3> QED BY <1>2, <3>1, <3>5, <3>6, <3>8, <3>9
  <2> QED BY <2>2, <2>3
<1> QED BY <1>1, <1>2

\* The transaction is defined for a batch of any length.
Steps(d, c, text, m, g) ==
  g = [i \in 0..m |-> IF i = 0 THEN [db |-> d, ok |-> TRUE, lost |-> {}] ELSE Stored(g[i - 1], c[i], text[i])]

\* The transaction of a batch has a sequence of steps.
LEMMA StepsExist ==
  ASSUME NEW d, NEW c, NEW text, NEW n \in Nat
  PROVE  \E g : Steps(d, c, text, n, g)
<1> DEFINE none == [db |-> d, ok |-> TRUE, lost |-> {}]
           S == {m \in Nat : \E g : Steps(d, c, text, m, g)}
<1> HIDE DEF none
<1>1. 0 \in S
  <2> DEFINE g == [i \in 0..0 |-> none]
  <2>1. Steps(d, c, text, 0, g)
    BY DEF Steps, none
  <2> QED BY <2>1
<1>2. ASSUME NEW m \in 1..n, m - 1 \in S PROVE m \in S
  <2>1. PICK g : Steps(d, c, text, m - 1, g)
    BY <1>2
  <2> DEFINE h == [i \in 0..m |-> IF i = m THEN Stored(g[m - 1], c[m], text[m]) ELSE g[i]]
  <2>2. ASSUME NEW i \in 0..m
        PROVE  h[i] = IF i = 0 THEN none ELSE Stored(h[i - 1], c[i], text[i])
    <3>1. CASE i = m
      <4>1. h[m - 1] = g[m - 1] /\ h[m] = Stored(g[m - 1], c[m], text[m]) /\ m # 0
        OBVIOUS
      <4> QED BY <3>1, <4>1
    <3>2. CASE i # m
      <4>1. i \in 0..(m - 1) /\ h[i] = g[i]
        BY <3>2
      <4>2. i # 0 => i - 1 \in 0..m /\ i - 1 # m /\ h[i - 1] = g[i - 1]
        BY <3>2
      <4>3. g[i] = IF i = 0 THEN none ELSE Stored(g[i - 1], c[i], text[i])
        BY <2>1, <4>1 DEF Steps, none
      <4> QED BY <4>1, <4>2, <4>3
    <3> QED BY <3>1, <3>2
  <2>3. Steps(d, c, text, m, h)
    BY <2>2 DEF Steps, none
  <2> QED BY <2>3
<1> HIDE DEF S
<1>3. \A m \in 0..n : m \in S
  BY <1>1, <1>2, UpTo
<1>4. n \in S
  BY <1>3
<1> QED BY <1>4 DEF S

\* A whole batch, by induction along these steps.
LEMMA WrittenOk ==
  ASSUME dim \in Dims, NEW d \in Db, ChunksApart(d), NEW T, NEW M, Fresh(d, T, M),
         NEW c \in Seq(Keys), NEW text \in Seq(Answer), Len(text) = Len(c),
         \A i \in 1..Len(c) : AnswerOk(text[i], c[i], d, T)
  PROVE  LET r == Written(d, c, text)
         IN  /\ r \in Result /\ Grown(d, r.db) /\ Fresh(r.db, T, M \cup r.lost)
             /\ r.ok => \A i \in 1..Len(c) : text[i].out = "embed" => HasLiveEmbedding(r.db, c[i]) \/ c[i] \in T
<1> DEFINE n == Len(c)
           p == CHOOSE g : Steps(d, c, text, n, g)
           none == [db |-> d, ok |-> TRUE, lost |-> {}]
           Good(r, m) == /\ r \in Result /\ Grown(d, r.db) /\ Fresh(r.db, T, M \cup r.lost)
                         /\ r.ok => \A i \in 1..m : text[i].out = "embed" => HasLiveEmbedding(r.db, c[i]) \/ c[i] \in T
<1>1. n \in Nat /\ Steps(d, c, text, n, p)
  BY StepsExist
<1>2. Written(d, c, text) = p[n]
  BY DEF Written, Steps, Stored
<1>3. \A i \in 1..n : c[i] \in Keys /\ text[i] \in Answer /\ AnswerOk(text[i], c[i], d, T)
  OBVIOUS
<1> HIDE DEF p
<1>4. p[0] = none /\ \A m \in 1..n : p[m] = Stored(p[m - 1], c[m], text[m])
  <2>1. 0 \in 0..n /\ \A m \in 1..n : m \in 0..n /\ m # 0
    BY <1>1
  <2> QED BY <1>1, <2>1 DEF Steps
<1> HIDE DEF n
<1> DEFINE S == {m \in Nat : Good(p[m], m)}
<1>5. 0 \in S
  <2>1. none \in Result /\ none.db = d /\ none.lost = {}
    BY DEF Result
  <2> HIDE DEF none
  <2>2. Grown(d, none.db) /\ Fresh(none.db, T, M \cup none.lost)
    BY <2>1 DEF Grown, Fresh
  <2>3. \A i \in 1..0 : FALSE
    OBVIOUS
  <2> QED BY <1>4, <2>1, <2>2, <2>3
<1>6. ASSUME NEW m \in 1..n, m - 1 \in S PROVE m \in S
  <2> DEFINE r == p[m - 1]
             s == Stored(r, c[m], text[m])
  <2>1. Good(r, m - 1) /\ m \in Nat
    BY <1>1, <1>6
  <2>2. p[m] = s
    BY <1>4
  <2> HIDE DEF r
  <2>3. c[m] \in Keys /\ text[m] \in Answer /\ AnswerOk(text[m], c[m], d, T)
    BY <1>3
  <2>4. /\ s \in Result /\ Grown(r.db, s.db) /\ Fresh(s.db, T, M \cup s.lost)
        /\ s.ok => r.ok /\ (text[m].out = "embed" => HasLiveEmbedding(s.db, c[m]) \/ c[m] \in T)
    BY <2>1, <2>3, StoredOk
  <2> HIDE DEF s
  <2>5. Grown(d, s.db)
    BY <2>1, <2>4 DEF Grown
  <2>6. ASSUME s.ok, NEW i \in 1..m, text[i].out = "embed"
        PROVE  HasLiveEmbedding(s.db, c[i]) \/ c[i] \in T
    <3>1. CASE i = m
      BY <2>4, <2>6, <3>1
    <3>2. CASE i # m
      <4>1. i \in 1..(m - 1) /\ i \in 1..n
        BY <1>1, <3>2
      <4>2. HasLiveEmbedding(r.db, c[i]) \/ c[i] \in T
        BY <2>1, <2>4, <2>6, <4>1
      <4> QED BY <1>3, <2>4, <4>1, <4>2 DEF Grown
    <3> QED BY <3>1, <3>2
  <2>7. Good(s, m)
    BY <2>4, <2>5, <2>6
  <2> HIDE DEF Good
  <2> QED BY <2>1, <2>2, <2>7
<1> HIDE DEF S
<1>7. \A m \in 0..n : m \in S
  BY <1>1, <1>5, <1>6, UpTo
<1>8. n \in S
  BY <1>1, <1>7
<1>9. Good(p[n], n)
  BY <1>8 DEF S
<1> QED BY <1>2, <1>9 DEF n

\* write_batch stores vectors of the texts that were read.
LEMMA WriteStep ==
  ASSUME IInv, NEW w \in Workers, WriteBatch(w)
  PROVE  IInv'
<1> DEFINE o == worker[w]
           c == KeysOf(w)
           r == Written(db, c, o.text)
           text == [i \in DOMAIN o.text |-> IF o.text[i].out = "embed" THEN [out |-> "done"] ELSE o.text[i]]
           x == [o EXCEPT !.pc = "settle", !.text = text]
<1>1. o.pc = "embed" /\ Holds(o)
  BY DEF WriteBatch, Holds
<1>2. \/ /\ r.ok /\ db' = r.db /\ misplaced' = misplaced \cup r.lost /\ worker' = [worker EXCEPT ![w] = x]
         /\ UNCHANGED <<dim, queue, job, stable, touched, events>>
      \/ \E hard \in BOOLEAN : FailBatch(w, hard)
  BY DEF WriteBatch, Put
<1>3. CASE \E hard \in BOOLEAN : FailBatch(w, hard)
  BY <1>1, <1>3, FailStep
<1>4. CASE /\ r.ok /\ db' = r.db /\ misplaced' = misplaced \cup r.lost /\ worker' = [worker EXCEPT ![w] = x]
           /\ UNCHANGED <<dim, queue, job, stable, touched, events>>
  <2>1. /\ o \in Thread /\ ThreadOk(o, queue) /\ Answers(o, db, queue, touched)
        /\ DOMAIN o.claim = 1..Len(o.claim) /\ Len(o.claim) \in Nat
        /\ DOMAIN o.text = 1..Len(o.text) /\ Len(o.text) = Len(o.claim)
        /\ \A i \in 1..Len(o.text) : o.text[i] \in Answer
        /\ \A i \in 1..Len(o.claim) : queue[o.claim[i]].key \in Keys
    BY <1>1, OfWorker DEF ThreadOk
  <2>2. /\ dim \in Dims /\ db \in Db /\ queue \in Seq(QRow) /\ job \in Job /\ worker \in [Workers -> Thread]
        /\ ChunksApart(db) /\ Fresh(db, touched, misplaced) /\ Threads(worker, db, queue, touched)
        /\ job.pc = "drain" /\ stable = {}
    BY <1>1, IdleThread DEF IInv, Inv, ScanOk
  <2>3. /\ c \in Seq(Keys) /\ Len(c) = Len(o.claim)
        /\ \A i \in 1..Len(o.claim) : c[i] = queue[o.claim[i]].key
    <3>1. c = [i \in 1..Len(o.claim) |-> queue[o.claim[i]].key]
      BY <2>1 DEF KeysOf
    <3> HIDE DEF c, o
    <3>2. c \in [1..Len(o.claim) -> Keys]
      BY <2>1, <3>1
    <3> QED BY <2>1, <3>1, <3>2
  <2>4. o.text \in Seq(Answer)
    BY <2>1 DEF Thread
  <2>5. \A i \in 1..Len(c) : AnswerOk(o.text[i], c[i], db, touched)
    <3> HIDE DEF c, o
    <3> QED BY <2>1, <2>3 DEF Answers
  <2> HIDE DEF c, o
  <2>6. /\ r \in Result /\ Grown(db, r.db) /\ Fresh(r.db, touched, misplaced \cup r.lost)
        /\ r.ok => \A i \in 1..Len(c) : o.text[i].out = "embed" => HasLiveEmbedding(r.db, c[i]) \/ c[i] \in touched
    BY <2>1, <2>2, <2>3, <2>4, <2>5, WrittenOk
  <2> HIDE DEF r
  <2>7. /\ db' \in Db /\ Grown(db, db') /\ Fresh(db', touched, misplaced')
        /\ \A i \in 1..Len(c) : o.text[i].out = "embed" => HasLiveEmbedding(db', c[i]) \/ c[i] \in touched
    BY <1>4, <2>6 DEF Result
  <2>8. ChunksApart(db')
    BY <2>2, <2>7 DEF ChunksApart, Grown
  <2>9. [out |-> "done"] \in Answer /\ [out |-> "done"].out = "done"
    BY DEF Answer
  <2>10. \A i \in 1..Len(o.claim) : /\ text[i] \in Answer /\ text[i].out # "embed"
                                    /\ AnswerOk(text[i], queue[o.claim[i]].key, db', touched)
    <3> SUFFICES ASSUME NEW i \in 1..Len(o.claim)
                 PROVE  /\ text[i] \in Answer /\ text[i].out # "embed"
                        /\ AnswerOk(text[i], queue[o.claim[i]].key, db', touched)
      OBVIOUS
    <3>1. c[i] = queue[o.claim[i]].key /\ c[i] \in Keys /\ o.text[i] \in Answer /\ i \in DOMAIN o.text /\ i \in 1..Len(c)
      BY <2>1, <2>3
    <3>2. CASE o.text[i].out = "embed"
      <4>1. text[i] = [out |-> "done"]
        BY <3>1, <3>2
      <4> HIDE DEF text
      <4>2. text[i].out = "done" /\ text[i] \in Answer
        BY <2>9, <4>1
      <4>3. HasLiveEmbedding(db', c[i]) \/ c[i] \in touched
        BY <2>7, <3>1, <3>2
      <4> QED BY <3>1, <4>2, <4>3 DEF AnswerOk
    <3>3. CASE o.text[i].out # "embed"
      <4>1. text[i] = o.text[i]
        BY <3>1, <3>3
      <4>2. AnswerOk(o.text[i], c[i], db', touched)
        BY <2>5, <2>7, <3>1, AnswerKept
      <4> HIDE DEF text
      <4> QED BY <3>1, <3>3, <4>1, <4>2
    <3> QED BY <3>2, <3>3
  <2>11. text \in Seq(Answer) /\ Len(text) = Len(o.claim)
    <3>1. text \in [1..Len(o.claim) -> Answer]
      BY <2>1, <2>10
    <3> HIDE DEF text
    <3> QED BY <2>1, <3>1
  <2> HIDE DEF text
  <2>12. x \in Thread /\ x.pc = "settle" /\ x.text = text /\ x.claim = o.claim
    BY <2>1, <2>11 DEF Thread
  <2> HIDE DEF x
  <2>13. ThreadOk(x, queue)
    BY <2>1, <2>10, <2>11, <2>12 DEF ThreadOk
  <2>14. Answers(x, db', queue, touched)
    BY <2>10, <2>12 DEF Answers
  <2>15. SameRows(queue, queue)
    BY <2>2 DEF SameRows
  <2>16. ASSUME NEW u \in Workers, NEW i \in 1..Len(worker[u].claim),
                AnswerOk(worker[u].text[i], queue[worker[u].claim[i]].key, db, touched)
         PROVE  AnswerOk(worker[u].text[i], queue[worker[u].claim[i]].key, db', touched)
    BY <2>7, <2>16, OfWorker, AnswerKept
  <2>17. worker' \in [Workers -> Thread] /\ Threads(worker', db', queue, touched)
    <3>1. \A u \in Workers : u # w /\ Holds(worker[u]) =>
            \A i \in 1..Len(worker[u].claim) :
              AnswerOk(worker[u].text[i], queue[worker[u].claim[i]].key, db, touched)
                => AnswerOk(worker[u].text[i], queue[worker[u].claim[i]].key, db', touched')
      BY <1>4, <2>16
    <3>2. touched' = touched /\ queue' = queue
      BY <1>4
    <3>3. SameRows(queue, queue') /\ ThreadOk(x, queue') /\ (Holds(x) => Answers(x, db', queue', touched'))
      BY <2>13, <2>14, <2>15, <3>2
    <3>4. worker' = [worker EXCEPT ![w] = x] /\ worker \in [Workers -> Thread] /\ Threads(worker, db, queue, touched)
      BY <1>4, <2>2
    <3>5. worker' \in [Workers -> Thread] /\ Threads(worker', db', queue', touched')
      BY <3>1, <3>3, <3>4, ThreadsMove
    <3> QED BY <3>2, <3>5
  <2>18. ScanOk(db', queue, job, stable)
    BY <2>2 DEF ScanOk
  <2>19. Inv(db', queue', job', worker', stable', touched', misplaced')
    BY <1>4, <2>2, <2>7, <2>8, <2>17, <2>18 DEF Inv
  <2> QED BY <1>4, <2>2, <2>19, SameDim
<1> QED BY <1>2, <1>3, <1>4
-----------------------------------------------------------------------------
(* The run *)

\* A step of the run outside a drain.
LEMMA RunMoves ==
  ASSUME IInv, UNCHANGED <<db, dim, touched, misplaced>>,
         worker' \in [Workers -> Thread], \A w \in Workers : worker'[w] = Idle,
         queue' \in Seq(QRow), job' \in Job, ScanOk(db, queue', job', stable')
  PROVE  IInv'
<1>1. dim \in Dims /\ db \in Db /\ ChunksApart(db) /\ Fresh(db, touched, misplaced)
  BY DEF IInv, Inv
<1>2. Threads(worker', db, queue', touched)
  BY IdleThread DEF Threads
<1>3. db' = db /\ touched' = touched /\ misplaced' = misplaced /\ dim' = dim
  OBVIOUS
<1>4. Inv(db, queue', job', worker', stable', touched, misplaced)
  BY <1>1, <1>2 DEF Inv
<1>5. Inv(db', queue', job', worker', stable', touched', misplaced')
  BY <1>3, <1>4
<1> QED BY <1>1, <1>3, <1>5, SameDim

\* What the invariant says of the run.
LEMMA OfRun ==
  ASSUME IInv
  PROVE  /\ job \in Job /\ queue \in Seq(QRow) /\ db \in Db /\ worker \in [Workers -> Thread]
         /\ ScanOk(db, queue, job, stable)
         /\ job.pc \in {"idle", "scan", "drain"} /\ job.kind \in 1..4 /\ job.after \in Nat
         /\ job.pc # "drain" => \A w \in Workers : worker[w] = Idle
BY DEF IInv, Inv, Job

\* Before the first page nothing has been seen.
LEMMA SeenNothing ==
  ASSUME NEW j, j.kind = 1, j.after = 0, NEW k \in Keys
  PROVE  ~Seen(j, k)
BY KeyShape DEF Seen

\* A run starts its scan at the first kind.
LEMMA StartRunStep ==
  ASSUME IInv, NEW resume \in BOOLEAN, StartRun(resume)
  PROVE  IInv'
<1> DEFINE j0 == [pc |-> "scan", kind |-> 1, after |-> 0]
<1>1. /\ job.pc = "idle" /\ queue' = (IF resume THEN Resumed(queue) ELSE << >>)
      /\ job' = j0 /\ stable' = {k \in Keys : Missing(db, k)}
      /\ UNCHANGED <<db, dim, worker, touched, misplaced>>
  BY DEF StartRun
<1>2. queue \in Seq(QRow) /\ \A i \in DOMAIN queue : queue[i] \in QRow
  BY QueueShape, OfRun
<1>3. \A x \in QRow : \A s \in Status : [x EXCEPT !.status = s] \in QRow /\ [x EXCEPT !.status = s].key = x.key
  BY DEF QRow
<1>4. queue' \in Seq(QRow)
  <2>1. Resumed(queue) \in Seq(QRow)
    <3> DEFINE q2 == Resumed(queue)
    <3>1. DOMAIN q2 = DOMAIN queue /\ q2 = [i \in DOMAIN queue |-> q2[i]]
      BY DEF Resumed
    <3>2. "done" \in Status /\ "pending" \in Status
      BY DEF Status
    <3>3. \A i \in DOMAIN queue : q2[i] = queue[i] \/ q2[i] = [queue[i] EXCEPT !.status = "done"]
                                  \/ q2[i] = [queue[i] EXCEPT !.status = "pending"]
      BY DEF Resumed
    <3> HIDE DEF q2
    <3>4. \A i \in DOMAIN queue : q2[i] = queue[i] \/ (q2[i] \in QRow /\ q2[i].key = queue[i].key)
      <4> SUFFICES ASSUME NEW i \in DOMAIN queue
                   PROVE  q2[i] = queue[i] \/ (q2[i] \in QRow /\ q2[i].key = queue[i].key)
        OBVIOUS
      <4> DEFINE x == queue[i]
      <4>1. x \in QRow
        BY <1>2
      <4>2. q2[i] = x \/ (\E s \in Status : q2[i] = [x EXCEPT !.status = s])
        BY <3>2, <3>3
      <4> HIDE DEF x
      <4>3. q2[i] = x \/ (q2[i] \in QRow /\ q2[i].key = x.key)
        BY <1>3, <4>1, <4>2
      <4> QED BY <4>3 DEF x
    <3>5. SameRows(queue, q2)
      BY <1>2, <3>1, <3>4, RowsMapped
    <3> QED BY <3>5 DEF SameRows, q2
  <2>2. << >> \in Seq(QRow)
    OBVIOUS
  <2> QED BY <1>1, <2>1, <2>2
<1>5. j0 \in Job /\ j0.pc = "scan" /\ j0.kind = 1 /\ j0.after = 0
  BY DEF Job
<1> HIDE DEF j0
<1>6. ScanOk(db, queue', job', stable')
  BY <1>1, <1>5, SeenNothing DEF ScanOk
<1>7. worker' \in [Workers -> Thread] /\ \A w \in Workers : worker'[w] = Idle
  BY <1>1, OfRun
<1> QED BY <1>1, <1>4, <1>5, <1>6, <1>7, RunMoves

\* A scan ends in a drain.
LEMMA StartDrainStep ==
  ASSUME IInv, StartDrain
  PROVE  IInv'
<1>1. /\ job.pc = "scan" /\ job' = [job EXCEPT !.pc = "drain"] /\ stable' = {}
      /\ UNCHANGED <<db, dim, queue, worker, touched, misplaced>>
  BY DEF StartDrain
<1>2. job' \in Job /\ job'.pc = "drain"
  BY <1>1, OfRun DEF Job
<1>3. ScanOk(db, queue', job', stable')
  BY <1>1 DEF ScanOk
<1>4. worker' \in [Workers -> Thread] /\ (\A w \in Workers : worker'[w] = Idle) /\ queue' \in Seq(QRow)
  BY <1>1, OfRun
<1> QED BY <1>1, <1>2, <1>3, <1>4, RunMoves

\* The end of a run, or a crash.
LEMMA StopStep ==
  ASSUME IInv, EndRun \/ Crash
  PROVE  IInv'
<1> DEFINE j0 == [pc |-> "idle", kind |-> 1, after |-> 0]
<1>1. /\ job' = j0 /\ worker' = [w \in Workers |-> Idle]
      /\ (job.pc = "drain" /\ stable' = stable) \/ stable' = {}
      /\ UNCHANGED <<db, dim, queue, touched, misplaced>>
  BY DEF EndRun, Crash
<1>2. j0 \in Job
  BY DEF Job
<1>3. stable' = {}
  BY <1>1, OfRun DEF ScanOk
<1>4. ScanOk(db, queue', job', stable')
  BY <1>3 DEF ScanOk
<1>5. worker' \in [Workers -> Thread] /\ (\A w \in Workers : worker'[w] = Idle) /\ queue' \in Seq(QRow)
  BY <1>1, IdleThread, OfRun
<1> QED BY <1>1, <1>2, <1>4, <1>5, RunMoves

\* Enqueueing a page gives each of its rows a queue row and takes none away.
LEMMA EnqueuedFacts ==
  ASSUME queue \in Seq(QRow), NEW n \in 1..3, NEW page \in SUBSET IdsOf(Kinds[n])
  PROVE  /\ Enqueued(Kinds[n], page) \in Seq(QRow)
         /\ \A k : Queued(queue, k) => Queued(Enqueued(Kinds[n], page), k)
         /\ \A i \in page : Queued(Enqueued(Kinds[n], page), <<Kinds[n], i>>)
<1> DEFINE kind == Kinds[n]
           S == {x \in page : ~InQueue(<<kind, x>>)}
           new == Sorted(S)
           rows == [i \in DOMAIN new |-> [key |-> <<kind, new[i]>>, status |-> "pending", attempt |-> 0]]
           q2 == queue \o rows
<1>1. S \in SUBSET Nat /\ IsFiniteSet(S) /\ S \in SUBSET IdsOf(kind) /\ \A x \in S : <<kind, x>> \in Keys
  <2>1. IdsOf(kind) \in SUBSET Nat /\ IsFiniteSet(IdsOf(kind)) /\ \A x \in IdsOf(kind) : <<kind, x>> \in Keys
    BY KindsFacts
  <2>2. S \in SUBSET IdsOf(kind)
    OBVIOUS
  <2> HIDE DEF S, kind
  <2>3. IsFiniteSet(S)
    BY <2>1, <2>2, FS_Subset
  <2> QED BY <2>1, <2>2, <2>3
<1>2. Enqueued(kind, page) = q2
  BY DEF Enqueued
<1>3. DOMAIN queue = 1..Len(queue) /\ Len(queue) \in Nat
  BY QueueShape
<1>4. \A x \in page : x \in S \/ Queued(queue, <<kind, x>>)
  BY <1>3 DEF InQueue, Queued
<1> HIDE DEF S, kind
<1>5. /\ new \in Seq(S) /\ DOMAIN new = 1..Cardinality(S) /\ Cardinality(S) \in Nat
      /\ \A i \in 1..Cardinality(S) : new[i] \in S
      /\ \A x \in S : \E i \in 1..Cardinality(S) : new[i] = x
  BY <1>1, SortedFacts
<1> HIDE DEF new
<1>6. \A i \in DOMAIN new : rows[i] \in QRow /\ rows[i].key = <<kind, new[i]>>
  <2>1. "pending" \in Status /\ 0 \in Nat
    BY DEF Status
  <2> QED BY <1>1, <1>5, <2>1 DEF QRow
<1> DEFINE m == Cardinality(S)
<1>7. rows \in Seq(QRow) /\ Len(rows) = m /\ m \in Nat
  <2>1. rows \in [1..m -> QRow]
    BY <1>5, <1>6
  <2> HIDE DEF rows
  <2> QED BY <1>5, <2>1
<1> HIDE DEF rows, m
<1>8. /\ q2 \in Seq(QRow) /\ Len(q2) = Len(queue) + m
      /\ \A i \in 1..Len(queue) : q2[i] = queue[i]
      /\ \A i \in 1..m : q2[Len(queue) + i] = rows[i]
  BY <1>3, <1>7
<1> HIDE DEF q2
<1>9. ASSUME NEW k, Queued(queue, k) PROVE Queued(q2, k)
  <2>1. PICK i \in 1..Len(queue) : queue[i].key = k
    BY <1>9 DEF Queued
  <2>2. i \in 1..Len(q2)
    BY <1>3, <1>7, <1>8
  <2> QED BY <1>8, <2>1, <2>2 DEF Queued
<1>10. ASSUME NEW x \in page PROVE Queued(q2, <<kind, x>>)
  <2>1. CASE x \in S
    <3>1. PICK i \in 1..m : new[i] = x
      BY <1>5, <2>1 DEF m
    <3>2. rows[i].key = <<kind, x>>
      BY <1>5, <1>6, <3>1 DEF m
    <3>3. Len(queue) + i \in 1..Len(q2)
      BY <1>3, <1>7, <1>8
    <3>4. q2[Len(queue) + i].key = <<kind, x>>
      BY <1>8, <3>2
    <3> QED BY <3>3, <3>4 DEF Queued
  <2> QED BY <1>4, <1>9, <2>1
<1> QED BY <1>2, <1>8, <1>9, <1>10 DEF kind

\* A page of the scan passes no key that lacks a vector without a row of the queue.
LEMMA ScanPageStep ==
  ASSUME IInv, ScanPage
  PROVE  IInv'
<1> DEFINE n == job.kind
           kind == Kinds[n]
           hits == {i \in IdsOf(kind) : i > job.after /\ Missing(db, <<kind, i>>)}
           page == FirstOf(hits, PageSize)
           short == Cardinality(page) < PageSize
<1>1. /\ job.pc = "scan" /\ n \in 1..3 /\ n \in Nat /\ job.after \in Nat
      /\ queue' = Enqueued(kind, page)
      /\ job' = IF short THEN [job EXCEPT !.kind = @ + 1, !.after = 0] ELSE [job EXCEPT !.after = Max(page)]
      /\ UNCHANGED <<db, dim, worker, stable, touched, misplaced>>
  <2>1. job.kind \in 1..4 /\ job.kind <= 3 /\ job.after \in Nat
    BY OfRun DEF ScanPage
  <2> QED BY <2>1 DEF ScanPage, Page, FirstOf
<1>2. IdsOf(kind) \in SUBSET Nat /\ IsFiniteSet(IdsOf(kind)) /\ \A m \in 1..3 : Kinds[m] = kind => m = n
  BY <1>1, KindsFacts
<1>3. hits \in SUBSET IdsOf(kind) /\ hits \in SUBSET Nat /\ IsFiniteSet(hits)
  <2>1. hits \in SUBSET IdsOf(kind)
    OBVIOUS
  <2> HIDE DEF hits, kind
  <2> QED BY <1>2, <2>1, FS_Subset
<1>4. \A i \in IdsOf(kind) : i > job.after /\ Missing(db, <<kind, i>>) => i \in hits
  OBVIOUS
<1> HIDE DEF hits
<1>5. /\ page \in SUBSET hits /\ IsFiniteSet(page) /\ Cardinality(page) \in Nat
      /\ short => page = hits
      /\ \A x \in page : \A y \in hits : y <= x => y \in page
  BY <1>3, FirstFacts, Constants
<1>6. ~short => page # {} /\ Max(page) \in page
  <2>1. ~short => page # {}
    BY FS_EmptySet, Constants
  <2>2. page \in SUBSET Nat
    BY <1>3, <1>5
  <2> HIDE DEF page
  <2> QED BY <1>5, <2>1, <2>2, MaxFacts
<1> HIDE DEF page
<1>7. /\ queue' \in Seq(QRow) /\ \A k : Queued(queue, k) => Queued(queue', k)
      /\ \A i \in page : Queued(queue', <<kind, i>>)
  <2>1. page \in SUBSET IdsOf(Kinds[n]) /\ queue \in Seq(QRow)
    BY <1>3, <1>5, OfRun
  <2> QED BY <1>1, <2>1, EnqueuedFacts
<1>8. /\ short => job'.pc = "scan" /\ job'.kind = n + 1 /\ job'.after = 0
      /\ ~short => job'.pc = "scan" /\ job'.kind = n /\ job'.after = Max(page)
      /\ job' \in Job
  <2>1. job \in [pc: {"idle", "scan", "drain"}, kind: 1..4, after: Nat] /\ n + 1 \in 1..4 /\ 0 \in Nat
    BY <1>1, OfRun DEF Job
  <2>2. ~short => Max(page) \in Nat
    BY <1>3, <1>5, <1>6
  <2> HIDE DEF short, kind
  <2>3. CASE short
    BY <1>1, <2>1, <2>3 DEF Job
  <2>4. CASE ~short
    BY <1>1, <2>1, <2>2, <2>4 DEF Job
  <2> QED BY <2>3, <2>4
<1>9. ASSUME NEW k \in stable, Seen(job', k) PROVE Queued(queue', k)
  <2>1. k \in Keys /\ Missing(db, k) /\ (Seen(job, k) => Queued(queue, k))
    BY <1>9, OfRun DEF ScanOk
  <2>2. k = <<k[1], k[2]>> /\ k[2] \in IdsOf(k[1]) /\ k[2] \in Nat /\ 1 <= k[2]
    BY <2>1, KeyShape
  <2>3. PICK m \in 1..3 : k[1] = Kinds[m] /\ (m < job'.kind \/ (m = job'.kind /\ k[2] <= job'.after))
    BY <1>9 DEF Seen
  <2>4. CASE m < n
    <3>1. Seen(job, k)
      BY <2>3, <2>4 DEF Seen
    <3> QED BY <1>7, <2>1, <3>1
  <2>5. CASE m = n /\ k[2] <= job.after
    <3>1. Seen(job, k)
      BY <2>3, <2>5 DEF Seen
    <3> QED BY <1>7, <2>1, <3>1
  <2>6. CASE m = n /\ k[2] > job.after
    <3>1. k = <<kind, k[2]>> /\ k[2] \in hits
      BY <1>4, <2>1, <2>2, <2>3, <2>6
    <3>2. CASE short
      BY <1>5, <1>7, <3>1, <3>2
    <3>3. CASE ~short
      <4>1. k[2] <= Max(page)
        BY <1>1, <1>8, <2>3, <2>6, <3>3
      <4>2. k[2] \in page
        BY <1>5, <1>6, <3>1, <3>3, <4>1
      <4> QED BY <1>7, <3>1, <4>2
    <3> QED BY <3>2, <3>3
  <2>7. m < n \/ m = n
    <3>1. CASE short
      <4>1. ~(k[2] <= 0)
        BY <2>2
      <4>2. m < n + 1
        BY <1>8, <2>3, <3>1, <4>1
      <4> QED BY <1>1, <4>2
    <3>2. CASE ~short
      BY <1>1, <1>8, <2>3, <3>2
    <3> QED BY <3>1, <3>2
  <2>8. k[2] <= job.after \/ k[2] > job.after
    BY <1>1, <2>2
  <2> QED BY <2>4, <2>5, <2>6, <2>7, <2>8
<1>10. ScanOk(db, queue', job', stable')
  <2>1. job'.pc = "scan" /\ stable' = stable /\ ScanOk(db, queue, job, stable)
    BY <1>1, <1>8, OfRun
  <2> QED BY <1>9, <2>1 DEF ScanOk
<1>11. worker' \in [Workers -> Thread] /\ \A w \in Workers : worker'[w] = Idle
  BY <1>1, OfRun
<1> QED BY <1>1, <1>7, <1>8, <1>10, <1>11, RunMoves
-----------------------------------------------------------------------------
(* Other commands *)

\* A command keeps the invariant when it keeps what workers hold.
LEMMA CommandMoves ==
  ASSUME IInv, UNCHANGED <<dim, queue, job, worker, misplaced>>, db' \in Db, ChunksApart(db'),
         Fresh(db', touched', misplaced), ScanOk(db', queue, job, stable'),
         \A u \in Workers : Holds(worker[u]) => \A i \in 1..Len(worker[u].claim) :
           AnswerOk(worker[u].text[i], queue[worker[u].claim[i]].key, db, touched)
             => AnswerOk(worker[u].text[i], queue[worker[u].claim[i]].key, db', touched')
  PROVE  IInv'
<1>1. dim \in Dims /\ queue \in Seq(QRow) /\ job \in Job /\ worker \in [Workers -> Thread]
      /\ Threads(worker, db, queue, touched) /\ (job.pc # "drain" => \A w \in Workers : worker[w] = Idle)
  BY DEF IInv, Inv
<1>2. Threads(worker, db', queue, touched')
  BY <1>1 DEF Threads, Answers
<1>3. Inv(db', queue, job, worker, stable', touched', misplaced)
  BY <1>1, <1>2 DEF Inv
<1>4. Inv(db', queue', job', worker', stable', touched', misplaced')
  BY <1>3
<1> QED BY <1>1, <1>4, SameDim

\* The texts a worker holds are those that commands look at.
LEMMA HeldFacts ==
  ASSUME IInv, NEW u \in Workers, Holds(worker[u]), NEW i \in 1..Len(worker[u].claim)
  PROVE  LET k == queue[worker[u].claim[i]].key
             a == worker[u].text[i]
         IN  /\ k \in Held /\ k \in Keys /\ a \in Answer
             /\ a.out = "embed" /\ k[1] = "chunk" => ChunkTextHeld(a.mem)
<1> DEFINE f == KeysOf(u)
           k == queue[worker[u].claim[i]].key
<1>1. /\ DOMAIN f = 1..Len(worker[u].claim) /\ f[i] = k /\ k \in Keys
      /\ i \in DOMAIN worker[u].text /\ worker[u].text[i] \in Answer
  BY OfWorker DEF KeysOf, ThreadOk, Holds
<1>2. k \in Range(f)
  <2> HIDE DEF f, k
  <2> QED BY <1>1 DEF Range
<1>3. k \in Held
  BY <1>2 DEF Held, Holds
<1> HIDE DEF k
<1>4. worker[u].text[i].out = "embed" /\ k[1] = "chunk" => ChunkTextHeld(worker[u].text[i].mem)
  BY <1>1 DEF ChunkTextHeld
<1> QED BY <1>1, <1>3, <1>4 DEF k

\* A command that leaves the rows outside S as they are, gives those in V the vector of
\* their text or none, and counts the others as touched.
LEMMA WriteKeeps ==
  ASSUME IInv, NEW d \in Db, NEW S \in SUBSET Keys, NEW V \in SUBSET S, Write(d, S, V), ChunksApart(d),
         \A k \in Keys \ S : /\ d.vec[k] = db.vec[k] /\ TextOf(d, k) = TextOf(db, k)
                             /\ k[1] = "chunk" => d.chunk[k[2]] = db.chunk[k[2]],
         \A k \in V : d.vec[k] # NoVec => FreshVec(d, k),
         \A c \in Chunks : <<"chunk", c>> \in S /\ d.chunk[c] # NoRow /\ ChunkTextHeld(d.chunk[c].mem)
                             => <<"chunk", c>> \notin V
  PROVE  IInv'
<1>1. /\ db' = d /\ touched' = (touched \ (V \ Held)) \cup (S \cap Held) \cup (S \ V)
      /\ stable' = {k \in stable : Missing(d, k)} /\ UNCHANGED <<dim, queue, job, worker, misplaced>>
  BY DEF Write
<1>2. /\ \A k : k \in Held /\ (k \in touched \/ k \in S) => k \in touched'
      /\ \A k : k \in S \ V => k \in touched'
      /\ \A k : k \in touched /\ k \notin S => k \in touched'
      /\ \A k : k \notin touched' => (k \in S => k \in V) /\ (k \notin S => k \notin touched)
  BY <1>1
<1>3. Fresh(d, touched', misplaced)
  <2> SUFFICES ASSUME NEW k \in Keys, d.vec[k] # NoVec, k \notin touched' \cup misplaced PROVE FreshVec(d, k)
    BY DEF Fresh
  <2>1. CASE k \in S
    BY <1>2, <2>1
  <2>2. CASE k \notin S
    <3>1. FreshVec(db, k)
      BY <1>2, <2>2 DEF IInv, Inv, Fresh
    <3>2. RowExists(d, k) <=> RowExists(db, k)
      BY <2>2 DEF RowExists
    <3> QED BY <2>2, <3>1, <3>2 DEF FreshVec
  <2> QED BY <2>1, <2>2
<1>4. ScanOk(d, queue, job, stable')
  BY <1>1, OfRun DEF ScanOk
<1>5. ASSUME NEW u \in Workers, Holds(worker[u]), NEW i \in 1..Len(worker[u].claim),
             AnswerOk(worker[u].text[i], queue[worker[u].claim[i]].key, db, touched)
      PROVE  AnswerOk(worker[u].text[i], queue[worker[u].claim[i]].key, d, touched')
  <2> DEFINE k == queue[worker[u].claim[i]].key
             a == worker[u].text[i]
  <2>1. k \in Held /\ k \in Keys /\ (a.out = "embed" /\ k[1] = "chunk" => ChunkTextHeld(a.mem))
    BY <1>5, HeldFacts
  <2>2. AnswerOk(a, k, db, touched)
    BY <1>5
  <2> HIDE DEF k, a
  <2>3. a.out = "done" => HasLiveEmbedding(d, k) \/ k \in touched'
    BY <1>2, <2>1, <2>2 DEF AnswerOk, HasLiveEmbedding
  <2>4. a.out = "embed" /\ k[1] # "chunk" => k \in touched' \/ a.text = TextOf(d, k)
    BY <1>2, <2>1, <2>2 DEF AnswerOk
  <2>5. ASSUME a.out = "embed", k[1] = "chunk"
        PROVE  /\ a.mem \in Mems
               /\ k \in touched' \/ k[2] \in ChunkOf(d, a.mem)
               /\ \A c \in ChunkOf(d, a.mem) : <<"chunk", c>> \in touched' \/ (<<"chunk", c>> = k /\ a.text = d.chunk[c].text)
    <3>1. /\ a.mem \in Mems
          /\ k \in touched \/ k[2] \in ChunkOf(db, a.mem)
          /\ \A c \in ChunkOf(db, a.mem) : <<"chunk", c>> \in touched \/ (<<"chunk", c>> = k /\ a.text = db.chunk[c].text)
      BY <2>2, <2>5 DEF AnswerOk
    <3>2. k \in touched' \/ k[2] \in ChunkOf(d, a.mem)
      BY <1>2, <2>1, <2>5, <3>1 DEF ChunkOf
    <3>3. ASSUME NEW c \in ChunkOf(d, a.mem)
          PROVE  <<"chunk", c>> \in touched' \/ (<<"chunk", c>> = k /\ a.text = d.chunk[c].text)
      <4> DEFINE x == <<"chunk", c>>
      <4>1. c \in Chunks /\ d.chunk[c] # NoRow /\ d.chunk[c].mem = a.mem /\ x \in Keys /\ x[1] = "chunk" /\ x[2] = c
        BY KeyOf DEF ChunkOf
      <4>2. CASE x \in S
        <5>1. x \notin V
          BY <2>1, <2>5, <4>1, <4>2
        <5> QED BY <1>2, <4>2, <5>1
      <4>3. CASE x \notin S
        <5>1. d.chunk[c] = db.chunk[c]
          BY <4>1, <4>3
        <5>2. c \in ChunkOf(db, a.mem)
          BY <4>1, <5>1 DEF ChunkOf
        <5> QED BY <1>2, <3>1, <4>3, <5>1, <5>2
      <4> QED BY <4>2, <4>3
    <3> QED BY <3>1, <3>2, <3>3
  <2>6. AnswerOk(a, k, d, touched')
    BY <2>3, <2>4, <2>5 DEF AnswerOk
  <2> QED BY <2>6 DEF a, k
<1>6. \A u \in Workers : Holds(worker[u]) => \A i \in 1..Len(worker[u].claim) :
        AnswerOk(worker[u].text[i], queue[worker[u].claim[i]].key, db, touched)
          => AnswerOk(worker[u].text[i], queue[worker[u].claim[i]].key, db', touched')
  BY <1>1, <1>5
<1>7. /\ db' \in Db /\ ChunksApart(db') /\ Fresh(db', touched', misplaced) /\ ScanOk(db', queue, job, stable')
  BY <1>1, <1>3, <1>4
<1> QED BY <1>1, <1>6, <1>7, CommandMoves

\* Keys of one kind, written as pairs.
LEMMA PairFacts ==
  /\ \A i, j : <<"mem", i>> # <<"chunk", j>> /\ <<"ent", i>> # <<"chunk", j>> /\ <<"mem", i>> # <<"ent", j>>
  /\ \A m : \A k \in Keys : k # <<"mem", m>> /\ k[1] = "mem" => k[2] # m
  /\ \A e : \A k \in Keys : k # <<"ent", e>> /\ k[1] = "ent" => k[2] # e
  /\ \A i, j : <<"chunk", i>> = <<"chunk", j>> => i = j
<1>1. \A i, j : <<"mem", i>> # <<"chunk", j>> /\ <<"ent", i>> # <<"chunk", j>> /\ <<"mem", i>> # <<"ent", j>>
  OBVIOUS
<1> QED BY <1>1, KeyShape

\* A text of one memory changes nothing else.
LEMMA TextEdited ==
  ASSUME NEW d \in Db, NEW m \in Mems, NEW t \in Texts
  PROVE  LET e == [d EXCEPT !.mem[m].text = t]
         IN  /\ e \in Db /\ e.mem[m].text = t /\ e.mem[m].live = d.mem[m].live
             /\ e.ent = d.ent /\ e.chunk = d.chunk /\ e.vec = d.vec /\ e.next = d.next
             /\ \A x \in Mems : x # m => e.mem[x] = d.mem[x]
<1> DEFINE e == [d EXCEPT !.mem[m].text = t]
<1>1. d.mem \in [Mems -> [text: Texts, live: BOOLEAN]]
  BY DEF Db
<1>2. e.mem = [d.mem EXCEPT ![m].text = t]
  BY DEF Db
<1>3. e.ent = d.ent /\ e.chunk = d.chunk /\ e.vec = d.vec /\ e.next = d.next
  BY DEF Db
<1>4. /\ e.mem \in [Mems -> [text: Texts, live: BOOLEAN]]
      /\ e.mem[m].text = t /\ e.mem[m].live = d.mem[m].live /\ \A x \in Mems : x # m => e.mem[x] = d.mem[x]
  <2> HIDE DEF e
  <2> QED BY <1>1, <1>2
<1>5. e \in Db
  <2>1. [d.mem EXCEPT ![m].text = t] \in [Mems -> [text: Texts, live: BOOLEAN]]
    BY <1>2, <1>4
  <2> QED BY <2>1 DEF Db
<1> QED BY <1>3, <1>4, <1>5

\* An edit of a body.
LEMMA EditStep ==
  ASSUME IInv, NEW m \in Mems, NEW t \in Texts, NEW b \in BOOLEAN, EditBody(m, t, b)
  PROVE  IInv'
<1> DEFINE k == <<"mem", m>>
           d == [db EXCEPT !.mem[m].text = t]
           e == IF b THEN UpsertVec(d, k, k, t) ELSE d
           V == IF b THEN {k} ELSE {}
<1>1. Write(e, {k}, V)
  BY DEF EditBody
<1>2. db \in Db /\ ChunksApart(db) /\ dim \in Dims /\ k \in Keys /\ k[1] = "mem" /\ k[2] = m
  BY KeyOf DEF IInv, Inv
<1>3. /\ d \in Db /\ d.mem[m].text = t /\ d.ent = db.ent /\ d.chunk = db.chunk /\ d.vec = db.vec /\ d.next = db.next
      /\ \A x \in Mems : x # m => d.mem[x] = db.mem[x]
  BY <1>2, TextEdited
<1> HIDE DEF d
<1>4. /\ e \in Db /\ e.mem = d.mem /\ e.ent = db.ent /\ e.chunk = db.chunk /\ e.next = db.next
      /\ b => e.vec[k].of = k /\ e.vec[k].text = t
      /\ \A x \in Keys : x # k => e.vec[x] = db.vec[x]
  <2>1. CASE b
    <3> DEFINE u == UpsertVec(d, k, k, t)
    <3>1. /\ u \in Db /\ u.mem = d.mem /\ u.ent = d.ent /\ u.chunk = d.chunk /\ u.next = d.next
          /\ u.vec[k] = [of |-> k, text |-> t, dim |-> dim]
          /\ \A x \in Keys : x # k => u.vec[x] = d.vec[x]
      BY <1>2, <1>3, UpsertFacts
    <3>2. u.vec[k].of = k /\ u.vec[k].text = t
      BY <3>1
    <3>3. e = u
      BY <2>1
    <3> HIDE DEF u, e, k
    <3> QED BY <1>3, <3>1, <3>2, <3>3
  <2>2. CASE ~b
    BY <1>3, <2>2
  <2> QED BY <2>1, <2>2
<1> HIDE DEF e
<1>5. ChunksApart(e)
  BY <1>2, <1>4 DEF ChunksApart
<1>6. TextOf(e, k) = t /\ RowExists(e, k)
  BY <1>2, <1>3, <1>4, TextCases DEF RowExists
<1>7. \A x \in V : e.vec[x] # NoVec => FreshVec(e, x)
  BY <1>4, <1>6 DEF FreshVec
<1>8. ASSUME NEW x \in Keys \ {k} PROVE TextOf(e, x) = TextOf(db, x)
  <2>1. x[1] = "mem" => x[2] # m /\ x[2] \in Mems
    BY KeyShape, PairFacts
  <2> QED BY <1>3, <1>4, <2>1, KeyShape, TextCases
<1>9. \A x \in Keys \ {k} : /\ e.vec[x] = db.vec[x] /\ TextOf(e, x) = TextOf(db, x)
                            /\ x[1] = "chunk" => e.chunk[x[2]] = db.chunk[x[2]]
  BY <1>4, <1>8
<1>10. \A c \in Chunks : <<"chunk", c>> \notin {k}
  BY PairFacts
<1>11. V \in SUBSET {k} /\ {k} \in SUBSET Keys
  BY <1>2
<1> HIDE DEF V, k
<1> QED BY <1>1, <1>4, <1>5, <1>7, <1>9, <1>10, <1>11, WriteKeeps

\* A new description of an entity.
LEMMA DescribeStep ==
  ASSUME IInv, NEW n \in Ents, NEW t \in Texts, DescribeEntity(n, t)
  PROVE  IInv'
<1> DEFINE k == <<"ent", n>>
           e == [db EXCEPT !.ent[n] = t]
<1>1. Write(e, {k}, {})
  BY DEF DescribeEntity
<1>2. db \in Db /\ ChunksApart(db) /\ k \in Keys
  BY KeyOf DEF IInv, Inv
<1>3. /\ e \in Db /\ e.mem = db.mem /\ e.chunk = db.chunk /\ e.next = db.next /\ e.vec = db.vec
      /\ \A x \in Ents : x # n => e.ent[x] = db.ent[x]
  BY <1>2 DEF Db
<1> HIDE DEF e
<1>4. ChunksApart(e)
  BY <1>2, <1>3 DEF ChunksApart
<1>5. ASSUME NEW x \in Keys \ {k} PROVE TextOf(e, x) = TextOf(db, x)
  <2>1. x[1] = "ent" => x[2] # n /\ x[2] \in Ents
    BY KeyShape, PairFacts
  <2> QED BY <1>3, <2>1, KeyShape, TextCases
<1>6. \A x \in Keys \ {k} : /\ e.vec[x] = db.vec[x] /\ TextOf(e, x) = TextOf(db, x)
                            /\ x[1] = "chunk" => e.chunk[x[2]] = db.chunk[x[2]]
  BY <1>3, <1>5
<1>7. \A c \in Chunks : <<"chunk", c>> \notin {k}
  BY PairFacts
<1>8. {} \in SUBSET {k} /\ {k} \in SUBSET Keys
  BY <1>2
<1> HIDE DEF k
<1> QED BY <1>1, <1>3, <1>4, <1>6, <1>7, <1>8, WriteKeeps

\* A memory forgotten.
LEMMA ForgetStep ==
  ASSUME IInv, NEW m \in Mems, Forget(m)
  PROVE  IInv'
<1> DEFINE k == <<"mem", m>>
           e == [db EXCEPT !.mem[m].live = FALSE, !.vec[<<"mem", m>>] = NoVec]
<1>1. Write(e, {k}, {k})
  BY DEF Forget
<1>2. db \in Db /\ ChunksApart(db) /\ k \in Keys
  BY KeyOf DEF IInv, Inv
<1>3. /\ e.mem = [db.mem EXCEPT ![m].live = FALSE] /\ e.vec = [db.vec EXCEPT ![k] = NoVec]
      /\ e.chunk = db.chunk /\ e.next = db.next /\ e.ent = db.ent
  BY <1>2 DEF Db
<1>4. [db.mem EXCEPT ![m].live = FALSE] \in [Mems -> [text: Texts, live: BOOLEAN]]
      /\ [db.vec EXCEPT ![k] = NoVec] \in [Keys -> Vec \cup {NoVec}]
  BY <1>2 DEF Db
<1>5. e \in Db
  BY <1>2, <1>4 DEF Db
<1> HIDE DEF e
<1>6. /\ e.vec[k] = NoVec /\ (\A x \in Keys : x # k => e.vec[x] = db.vec[x])
      /\ \A x \in Mems : x # m => e.mem[x] = db.mem[x]
  BY <1>2, <1>3 DEF Db
<1>7. ChunksApart(e)
  BY <1>2, <1>3 DEF ChunksApart
<1>8. ASSUME NEW x \in Keys \ {k} PROVE TextOf(e, x) = TextOf(db, x)
  <2>1. x[1] = "mem" => x[2] # m /\ x[2] \in Mems
    BY KeyShape, PairFacts
  <2>2. e.ent = db.ent /\ e.chunk = db.chunk /\ (x[1] = "mem" => e.mem[x[2]] = db.mem[x[2]])
    BY <1>3, <1>6, <2>1
  <2> QED BY <2>2, KeyShape, TextCases
<1>9. \A x \in Keys \ {k} : /\ e.vec[x] = db.vec[x] /\ TextOf(e, x) = TextOf(db, x)
                            /\ x[1] = "chunk" => e.chunk[x[2]] = db.chunk[x[2]]
  BY <1>3, <1>6, <1>8
<1>10. \A c \in Chunks : <<"chunk", c>> \notin {k}
  BY PairFacts
<1>11. {k} \in SUBSET {k} /\ {k} \in SUBSET Keys /\ \A x \in {k} : e.vec[x] = NoVec
  BY <1>2, <1>6
<1> HIDE DEF k
<1> QED BY <1>1, <1>5, <1>7, <1>9, <1>10, <1>11, WriteKeeps

\* A body replaced by remember --force-merge, with its chunk.
LEMMA MergeStep ==
  ASSUME IInv, NEW m \in Mems, NEW t \in Texts, NEW long \in BOOLEAN, NEW b \in BOOLEAN,
         ForceMerge(m, t, long, b)
  PROVE  IInv'
<1> DEFINE n == db.next
           old == {<<"chunk", i>> : i \in ChunkOf(db, m)}
           new == IF long THEN {<<"chunk", n>>} ELSE {}
           k == <<"mem", m>>
           fresh == IF b THEN {k} \cup new ELSE {}
           S == {k} \cup old \cup new
           V == (IF ChunkTextHeld(m) THEN fresh \ new ELSE fresh) \cup old
           chunk2 == [i \in Chunks |-> IF <<"chunk", i>> \in old THEN NoRow
                        ELSE IF <<"chunk", i>> \in new THEN [text |-> t, mem |-> m] ELSE db.chunk[i]]
           vec2 == [x \in Keys |-> IF x \in fresh THEN [of |-> x, text |-> t, dim |-> dim]
                                   ELSE IF x \in old THEN NoVec ELSE db.vec[x]]
           next2 == IF long THEN n + 1 ELSE n
           e == [db EXCEPT !.mem[m].text = t, !.chunk = chunk2, !.vec = vec2, !.next = next2]
<1>1. Write(e, S, V) /\ (long => n <= MaxChunk)
  BY DEF ForceMerge
<1>2. /\ db \in Db /\ ChunksApart(db) /\ dim \in Dims /\ k \in Keys /\ n \in 1..(MaxChunk + 1) /\ MaxChunk \in Nat
      /\ db.chunk \in [Chunks -> [text: Texts, mem: Mems] \cup {NoRow}] /\ db.vec \in [Keys -> Vec \cup {NoVec}]
      /\ db.mem \in [Mems -> [text: Texts, live: BOOLEAN]]
  BY KeyOf, Constants DEF IInv, Inv, Db
<1>3. long => n \in Chunks
  BY <1>1, <1>2 DEF Chunks
<1>4. /\ \A i \in Chunks : <<"chunk", i>> \in old <=> i \in ChunkOf(db, m)
      /\ \A i \in Chunks : <<"chunk", i>> \in new <=> long /\ i = n
      /\ \A i : <<"chunk", i>> # k
      /\ new \in SUBSET Keys /\ old \in SUBSET Keys /\ k \notin new
  <2>1. \A i \in Chunks : <<"chunk", i>> \in old <=> i \in ChunkOf(db, m)
    BY PairFacts
  <2>2. \A i \in Chunks : <<"chunk", i>> \in new <=> long /\ i = n
    BY PairFacts
  <2>3. \A i : <<"chunk", i>> # k
    BY PairFacts
  <2>4. new \in SUBSET Keys /\ old \in SUBSET Keys
    BY <1>3, KeyOf DEF ChunkOf
  <2> QED BY <2>1, <2>2, <2>3, <2>4
<1>5. /\ fresh \in SUBSET ({k} \cup new) /\ V \in SUBSET S /\ S \in SUBSET Keys /\ V \in SUBSET (fresh \cup old)
      /\ ChunkTextHeld(m) => V \cap (new \ old) = {}
  <2>1. fresh \in SUBSET ({k} \cup new)
    OBVIOUS
  <2> HIDE DEF fresh, old, new, k
  <2> QED BY <1>2, <1>4, <2>1
<1>6. chunk2 \in [Chunks -> [text: Texts, mem: Mems] \cup {NoRow}]
  <2> HIDE DEF old, new
  <2> QED BY <1>2
<1>7. /\ vec2 \in [Keys -> Vec \cup {NoVec}]
      /\ \A x \in fresh : x \in Keys /\ vec2[x].of = x /\ vec2[x].text = t
      /\ \A x \in old : x \notin fresh => vec2[x] = NoVec
      /\ \A x \in Keys : x \notin fresh /\ x \notin old => vec2[x] = db.vec[x]
  <2>1. \A x \in Keys : [of |-> x, text |-> t, dim |-> dim] \in Vec
    BY <1>2 DEF Vec
  <2> HIDE DEF old, fresh, new, k
  <2>2. fresh \in SUBSET Keys
    BY <1>2, <1>4, <1>5
  <2>3. \A x \in Keys : vec2[x] = IF x \in fresh THEN [of |-> x, text |-> t, dim |-> dim]
                                  ELSE IF x \in old THEN NoVec ELSE db.vec[x]
    OBVIOUS
  <2>4. vec2 \in [Keys -> Vec \cup {NoVec}]
    BY <1>2, <2>1
  <2> HIDE DEF vec2
  <2> QED BY <1>4, <2>2, <2>3, <2>4
<1>8. /\ \A i \in Chunks : i \in ChunkOf(db, m) => chunk2[i] = NoRow
      /\ long /\ n \notin ChunkOf(db, m) => chunk2[n] = [text |-> t, mem |-> m]
      /\ \A i \in Chunks : i \notin ChunkOf(db, m) /\ ~(long /\ i = n) => chunk2[i] = db.chunk[i]
  <2> HIDE DEF old, new
  <2>1. \A i \in Chunks : chunk2[i] = IF <<"chunk", i>> \in old THEN NoRow
                        ELSE IF <<"chunk", i>> \in new THEN [text |-> t, mem |-> m] ELSE db.chunk[i]
    OBVIOUS
  <2> HIDE DEF chunk2
  <2> QED BY <1>3, <1>4, <2>1
<1>9. long => n \notin ChunkOf(db, m)
  <2>1. long => n >= n
    BY <1>2
  <2> QED BY <1>2, <1>3, <2>1 DEF ChunksApart, ChunkOf
<1>10. next2 \in 1..(MaxChunk + 1) /\ (~long => next2 = n) /\ (long => next2 = n + 1)
  BY <1>1, <1>2
<1> HIDE DEF chunk2, vec2, next2
<1>11. /\ e.mem = [db.mem EXCEPT ![m].text = t] /\ e.ent = db.ent
       /\ e.chunk = chunk2 /\ e.vec = vec2 /\ e.next = next2
  BY <1>2 DEF Db
<1>12. [db.mem EXCEPT ![m].text = t] \in [Mems -> [text: Texts, live: BOOLEAN]]
       /\ [db.mem EXCEPT ![m].text = t][m].text = t
       /\ \A x \in Mems : x # m => [db.mem EXCEPT ![m].text = t][x] = db.mem[x]
  BY <1>2
<1>13. e \in Db
  BY <1>2, <1>6, <1>7, <1>10, <1>12 DEF Db
<1>14. e.mem[m].text = t /\ \A x \in Mems : x # m => e.mem[x] = db.mem[x]
  BY <1>11, <1>12
<1> HIDE DEF e
<1>15. ChunksApart(e)
  <2>1. ASSUME NEW i \in Chunks, chunk2[i] # NoRow
        PROVE  \/ long /\ i = n /\ chunk2[i].mem = m
               \/ i \notin ChunkOf(db, m) /\ chunk2[i] = db.chunk[i] /\ chunk2[i].mem # m
    <3>1. i \notin ChunkOf(db, m)
      BY <1>8, <2>1
    <3>2. CASE long /\ i = n
      <4>1. chunk2[i] = [text |-> t, mem |-> m]
        BY <1>8, <1>9, <3>2
      <4> QED BY <3>2, <4>1
    <3>3. CASE ~(long /\ i = n)
      <4>1. chunk2[i] = db.chunk[i]
        BY <1>8, <3>1, <3>3
      <4> QED BY <2>1, <3>1, <4>1 DEF ChunkOf
    <3> QED BY <3>2, <3>3
  <2>2. ASSUME NEW i \in Chunks, NEW j \in Chunks, chunk2[i] # NoRow, chunk2[j] # NoRow, chunk2[i].mem = chunk2[j].mem
        PROVE  i = j
    BY <1>2, <2>1, <2>2 DEF ChunksApart
  <2>3. ASSUME NEW i \in Chunks, i >= next2 PROVE chunk2[i] = NoRow
    <3>1. i >= n /\ ~(long /\ i = n)
      BY <1>2, <1>10, <2>3, Constants
    <3>2. db.chunk[i] = NoRow
      BY <1>2, <3>1 DEF ChunksApart
    <3> QED BY <1>8, <3>1, <3>2
  <2> QED BY <1>11, <2>2, <2>3 DEF ChunksApart
<1>16. ASSUME NEW x \in Keys \ S
       PROVE  /\ e.vec[x] = db.vec[x] /\ TextOf(e, x) = TextOf(db, x)
              /\ x[1] = "chunk" => e.chunk[x[2]] = db.chunk[x[2]]
  <2>1. x # k /\ x \notin old /\ x \notin new /\ x \notin fresh
    <3> HIDE DEF fresh, old, new, k
    <3> QED BY <1>5
  <2>2. e.vec[x] = db.vec[x]
    <3> HIDE DEF fresh, old, new, k
    <3> QED BY <1>7, <1>11, <2>1
  <2>3. ASSUME x[1] = "chunk" PROVE e.chunk[x[2]] = db.chunk[x[2]]
    <3>1. x = <<"chunk", x[2]>> /\ x[2] \in Chunks
      BY <2>3, KeyShape
    <3>2. x[2] \notin ChunkOf(db, m) /\ ~(long /\ x[2] = n)
      <4> HIDE DEF old, new
      <4> QED BY <1>4, <2>1, <3>1
    <3> QED BY <1>8, <1>11, <3>1, <3>2
  <2>4. x[1] = "mem" => x[2] # m /\ x[2] \in Mems
    BY <2>1, KeyShape, PairFacts
  <2>5. x[1] = "mem" => e.mem[x[2]] = db.mem[x[2]]
    BY <1>14, <2>4
  <2>6. TextOf(e, x) = TextOf(db, x)
    <3>1. e.ent = db.ent /\ x \in Keys
      BY <1>11
    <3> HIDE DEF S
    <3> QED BY <2>3, <2>5, <3>1, KeyShape, TextCases
  <2> QED BY <2>2, <2>3, <2>6
<1>17. ASSUME NEW x \in V, e.vec[x] # NoVec PROVE FreshVec(e, x)
  <2>1. x \in fresh
    <3> HIDE DEF fresh, old, new, k
    <3> QED BY <1>5, <1>7, <1>11, <1>17
  <2>2. x \in Keys /\ e.vec[x].of = x /\ e.vec[x].text = t
    <3> HIDE DEF fresh, old, new, k
    <3> QED BY <1>7, <1>11, <2>1
  <2>3. CASE x = k
    <3>1. x[1] = "mem" /\ x[2] = m
      BY <2>3
    <3>2. RowExists(e, x) /\ TextOf(e, x) = t
      BY <1>14, <2>2, <3>1, TextCases DEF RowExists
    <3> QED BY <2>2, <3>2 DEF FreshVec
  <2>4. CASE x # k
    <3>1. long /\ x = <<"chunk", n>>
      BY <2>1, <2>4
    <3>2. e.chunk[n] = [text |-> t, mem |-> m]
      BY <1>8, <1>9, <1>11, <3>1
    <3>3. e.chunk[n] # NoRow /\ e.chunk[n].text = t
      BY <3>2, NotNone
    <3>4. x[1] = "chunk" /\ x[2] = n
      BY <3>1
    <3>5. RowExists(e, x) /\ TextOf(e, x) = t
      BY <2>2, <3>3, <3>4, TextCases DEF RowExists
    <3> QED BY <2>2, <3>5 DEF FreshVec
  <2> QED BY <2>3, <2>4
<1>18. ASSUME NEW c \in Chunks, <<"chunk", c>> \in S, e.chunk[c] # NoRow, ChunkTextHeld(e.chunk[c].mem)
       PROVE  <<"chunk", c>> \notin V
  <2>1. c \notin ChunkOf(db, m)
    BY <1>8, <1>11, <1>18
  <2>2. <<"chunk", c>> \notin old /\ <<"chunk", c>> \in new /\ long /\ c = n
    <3> HIDE DEF old, new, k
    <3> QED BY <1>4, <1>18, <2>1
  <2>3. e.chunk[c].mem = m
    <3>1. e.chunk[c] = [text |-> t, mem |-> m]
      BY <1>8, <1>9, <1>11, <2>2
    <3> QED BY <3>1
  <2> HIDE DEF old, new, V
  <2> QED BY <1>5, <1>18, <2>2, <2>3
<1> HIDE DEF S, V
<1>19. S \in SUBSET Keys /\ V \in SUBSET S
  BY <1>5
<1> QED BY <1>1, <1>13, <1>15, <1>16, <1>17, <1>18, <1>19, WriteKeeps

\* The purge of orphan vectors.
LEMMA PurgeStep ==
  ASSUME IInv, PurgeOrphan
  PROVE  IInv'
<1> DEFINE gone == {<<"mem", m>> : m \in {x \in Mems : ~db.mem[x].live}}
           vec2 == [k \in Keys |-> IF k \in gone THEN NoVec ELSE db.vec[k]]
<1>1. /\ db' = [db EXCEPT !.vec = vec2] /\ touched' = touched \cup gone
      /\ UNCHANGED <<dim, queue, job, worker, stable, misplaced>>
  BY DEF PurgeOrphan
<1>2. db \in Db /\ ChunksApart(db) /\ Fresh(db, touched, misplaced)
  BY DEF IInv, Inv
<1>3. \A k \in Keys : k \in gone => k[1] = "mem" /\ ~db.mem[k[2]].live
  OBVIOUS
<1> HIDE DEF gone
<1>4. vec2 \in [Keys -> Vec \cup {NoVec}] /\ \A k \in Keys : vec2[k] = IF k \in gone THEN NoVec ELSE db.vec[k]
  BY <1>2 DEF Db
<1> HIDE DEF vec2
<1>5. /\ db' \in Db /\ db'.mem = db.mem /\ db'.ent = db.ent /\ db'.chunk = db.chunk /\ db'.next = db.next
      /\ db'.vec = vec2
  BY <1>1, <1>2, <1>4 DEF Db
<1>6. ChunksApart(db')
  BY <1>2, <1>5 DEF ChunksApart
<1>7. Fresh(db', touched', misplaced)
  <2> SUFFICES ASSUME NEW k \in Keys, db'.vec[k] # NoVec, k \notin touched' \cup misplaced PROVE FreshVec(db', k)
    BY DEF Fresh
  <2>1. k \notin gone /\ k \notin touched /\ db'.vec[k] = db.vec[k]
    BY <1>1, <1>4, <1>5
  <2>2. FreshVec(db, k)
    BY <1>2, <2>1 DEF Fresh
  <2> QED BY <1>5, <2>1, <2>2, SameRowsRead DEF FreshVec
<1>8. ScanOk(db', queue, job, stable')
  <2>1. ASSUME NEW k \in stable PROVE Missing(db', k)
    <3>1. k \in Keys /\ Missing(db, k)
      BY <2>1, OfRun DEF ScanOk
    <3>2. k \notin gone
      BY <1>3, <3>1 DEF Missing
    <3>3. db'.vec[k] = db.vec[k]
      BY <1>4, <1>5, <3>1, <3>2
    <3> QED BY <1>5, <3>1, <3>3 DEF Missing, HasLiveEmbedding
  <2>2. stable' = stable
    BY <1>1
  <2> QED BY <2>1, <2>2, OfRun DEF ScanOk
<1>9. ASSUME NEW u \in Workers, Holds(worker[u]), NEW i \in 1..Len(worker[u].claim),
             AnswerOk(worker[u].text[i], queue[worker[u].claim[i]].key, db, touched)
      PROVE  AnswerOk(worker[u].text[i], queue[worker[u].claim[i]].key, db', touched')
  <2> DEFINE k == queue[worker[u].claim[i]].key
             a == worker[u].text[i]
  <2>1. k \in Keys
    BY <1>9, OfWorker
  <2>2. AnswerOk(a, k, db, touched)
    BY <1>9
  <2> HIDE DEF k, a
  <2>3. a.out = "done" => HasLiveEmbedding(db', k) \/ k \in touched'
    BY <1>1, <1>4, <1>5, <2>1, <2>2 DEF AnswerOk, HasLiveEmbedding
  <2>4. TextOf(db', k) = TextOf(db, k) /\ \A m : ChunkOf(db', m) = ChunkOf(db, m)
    BY <1>5, <2>1, SameRowsRead
  <2>5. AnswerOk(a, k, db', touched')
    BY <1>1, <1>5, <2>2, <2>3, <2>4 DEF AnswerOk
  <2> QED BY <2>5 DEF k, a
<1>10. \A u \in Workers : Holds(worker[u]) => \A i \in 1..Len(worker[u].claim) :
         AnswerOk(worker[u].text[i], queue[worker[u].claim[i]].key, db, touched)
           => AnswerOk(worker[u].text[i], queue[worker[u].claim[i]].key, db', touched')
  BY <1>9
<1> QED BY <1>1, <1>5, <1>6, <1>7, <1>8, <1>10, CommandMoves

\* Another embedding dimension.
LEMMA ChangeDimStep ==
  ASSUME IInv, NEW n \in Dims, ChangeDim(n)
  PROVE  IInv'
<1>1. job.pc = "idle" /\ dim' = n /\ UNCHANGED <<db, queue, job, worker, stable, touched, misplaced>>
  BY DEF ChangeDim
<1>2. stable = {} /\ \A w \in Workers : worker[w] = Idle
  BY <1>1, OfRun DEF ScanOk
<1>3. /\ db' \in Db /\ queue' \in Seq(QRow) /\ job' \in Job /\ worker' \in [Workers -> Thread]
      /\ ChunksApart(db') /\ Fresh(db', touched', misplaced') /\ \A w \in Workers : worker'[w] = Idle
  BY <1>1, <1>2 DEF IInv, Inv
<1>4. ScanOk(db, queue, job, stable)' /\ Threads(worker, db, queue, touched)'
  <2>1. stable' = {} /\ \A w \in Workers : worker'[w] = Idle
    BY <1>1, <1>2
  <2>2. ScanOk(db, queue, job, stable)'
    BY <2>1 DEF ScanOk
  <2>3. Threads(worker, db, queue, touched)'
    BY <2>1, IdleThread DEF Threads
  <2> QED BY <2>2, <2>3
<1>5. Inv(db, queue, job, worker, stable, touched, misplaced)'
  BY <1>3, <1>4 DEF Inv
<1> QED BY <1>1, <1>5 DEF IInv
-----------------------------------------------------------------------------
(* The theorems *)

\* Every step keeps the invariant.
LEMMA NextInv == IInv /\ [Next]_vars => IInv'
<1> SUFFICES ASSUME IInv, [Next]_vars PROVE IInv'
  OBVIOUS
<1>1. CASE UNCHANGED vars
  <2>1. UNCHANGED <<db, dim, queue, job, worker, stable, touched, misplaced>>
    BY <1>1 DEF vars
  <2>2. dim \in Dims /\ Inv(db', queue', job', worker', stable', touched', misplaced')
    BY <2>1 DEF IInv
  <2> QED BY <2>1, <2>2, SameDim
<1>2. CASE RunStep
  BY <1>2, ScanPageStep, StartDrainStep, StopStep DEF RunStep
<1>3. CASE \E resume \in BOOLEAN : StartRun(resume)
  BY <1>3, StartRunStep
<1>4. CASE \E w \in Workers : WorkerStep(w)
  BY <1>4, DequeueStep, WorkerEndsStep, ResolveStep, WriteStep, SettleStep DEF WorkerStep
<1>5. CASE Faults
  <2>1. CASE Crash
    BY <2>1, StopStep
  <2>2. CASE \E w \in Workers : \E hard \in BOOLEAN : EmbedFails(w, hard)
    BY <2>2, FailStep DEF EmbedFails
  <2>3. CASE \E w \in Workers : \E lost \in SUBSET (1..BatchSize) : Settle(w, lost)
    BY <2>3, SettleStep
  <2> QED BY <1>5, <2>1, <2>2, <2>3 DEF Faults
<1>6. CASE Commands
  BY <1>6, EditStep, MergeStep, DescribeStep, ForgetStep, PurgeStep, ChangeDimStep DEF Commands
<1> QED BY <1>1, <1>2, <1>3, <1>4, <1>5, <1>6 DEF Next

\* The invariant holds throughout.
LEMMA Invariance == Spec => []IInv
BY InitInv, NextInv, PTL DEF Spec

\* The invariant implies what the run checks.
LEMMA InvIsSound == IInv => ReEmbedSound
<1> SUFFICES ASSUME IInv PROVE ReEmbedSound
  OBVIOUS
<1>1. /\ dim \in Dims /\ db \in Db /\ queue \in Seq(QRow) /\ job \in Job /\ worker \in [Workers -> Thread]
      /\ Fresh(db, touched, misplaced) /\ ScanOk(db, queue, job, stable) /\ Threads(worker, db, queue, touched)
  BY DEF IInv, Inv
<1>2. VectorFresh
  BY <1>1 DEF VectorFresh, Fresh, FreshVec
<1>3. ScanComplete
  <2> SUFFICES ASSUME job.pc = "scan", job.kind = 4, NEW k \in stable PROVE InQueue(k)
    BY DEF ScanComplete
  <2>1. k \in Keys /\ (Seen(job, k) => Queued(queue, k))
    BY <1>1 DEF ScanOk
  <2>2. Kinds[1] = "mem" /\ Kinds[2] = "ent" /\ Kinds[3] = "chunk"
    BY DEF Kinds
  <2>3. \E n \in 1..3 : k[1] = Kinds[n] /\ n < 4
    BY <2>1, <2>2, KeyShape
  <2>4. Seen(job, k)
    BY <2>3 DEF Seen
  <2> QED BY <1>1, <2>1, <2>4, QueueShape DEF Queued, InQueue
<1>4. ReEmbedTypeOK
  <2>1. /\ db.mem \in [Mems -> [text: Texts, live: BOOLEAN]] /\ db.ent \in [Ents -> Texts]
        /\ db.chunk \in [Chunks -> [text: Texts, mem: Mems] \cup {NoRow}]
        /\ db.vec \in [Keys -> Vec \cup {NoVec}] /\ db.next \in 1..(MaxChunk + 1)
    BY <1>1 DEF Db
  <2>2. job.pc \in {"idle", "scan", "drain"} /\ job.kind \in 1..4
    BY <1>1 DEF Job
  <2>3. ASSUME NEW w \in Workers
        PROVE  /\ worker[w].pc \in {"idle", "claimed", "embed", "settle", "end"}
               /\ worker[w].claim \in Seq(Nat) /\ Len(worker[w].claim) <= BatchSize
               /\ Len(worker[w].text) \in {0, Len(worker[w].claim)}
    <3>1. worker[w] \in Thread /\ ThreadOk(worker[w], queue)
      BY <1>1 DEF Threads
    <3>2. worker[w].text = << >> => Len(worker[w].text) = 0
      OBVIOUS
    <3> QED BY <3>1, <3>2 DEF Thread, ThreadOk
  <2> QED BY <1>1, <2>1, <2>2, <2>3 DEF ReEmbedTypeOK, QRow
<1> QED BY <1>2, <1>3, <1>4 DEF ReEmbedSound

\* However pages, batches, failures and the commands of others fall: a vector belongs to the
\* present text of its own row, outside the rows that were written meanwhile and the
\* chunks that went, and a scan enqueues every row that lacks a vector throughout.
THEOREM ReEmbedIsSound == Spec => []ReEmbedSound
BY Invariance, InvIsSound, PTL

\* A row becomes done only through the answer of the worker that settles it.
LEMMA DoneByAnswer ==
  ASSUME IInv, [Next]_vars, NEW w \in Workers, NEW i \in DOMAIN worker[w].claim,
         queue[worker[w].claim[i]].status = "processing", worker[w].claim[i] \in DOMAIN queue',
         queue'[worker[w].claim[i]].status = "done"
  PROVE  HasLiveEmbedding(db, queue[worker[w].claim[i]].key) \/ queue[worker[w].claim[i]].key \in touched
<1> DEFINE x == worker[w].claim[i]
           Fine == HasLiveEmbedding(db, queue[x].key) \/ queue[x].key \in touched
<1>1. x \in DOMAIN queue /\ queue[x] \in QRow /\ queue \in Seq(QRow)
  BY OfWorker
<1>2. job.pc = "drain"
  <2>1. CASE job.pc # "drain"
    <3>1. worker[w] = Idle
      BY <2>1, OfRun
    <3>2. DOMAIN worker[w].claim = 1..0
      BY <3>1, IdleThread, OfWorker
    <3> QED BY <3>2
  <2> QED BY <2>1
<1>3. queue[x].status = "processing" /\ queue'[x].status = "done"
  OBVIOUS
<1> HIDE DEF x
<1>4. queue' # queue
  BY <1>3
<1>5. CASE \E u \in Workers : DequeueBatch(u)
  <2>1. queue'[x].status = "processing" \/ queue'[x] = queue[x]
    BY <1>1, <1>5 DEF DequeueBatch, QRow
  <2> QED BY <1>3, <2>1
<1>6. CASE \E u \in Workers : \E hard : FailBatch(u, hard)
  <2>0. PICK u \in Workers : \E hard : FailBatch(u, hard)
    BY <1>6
  <2>1. PICK hard : FailBatch(u, hard)
    BY <2>0
  <2>2. queue'[x] = FailedRow(queue[x], hard) \/ queue'[x] = queue[x]
    BY <1>1, <2>1 DEF FailBatch
  <2>3. FailedRow(queue[x], hard).status \in {"dead", "pending"}
    BY <1>1 DEF FailedRow, QRow
  <2> QED BY <1>3, <2>2, <2>3
<1>7. CASE \E u \in Workers : \E lost : Settle(u, lost)
  <2>0. PICK u \in Workers : \E lost : Settle(u, lost)
    BY <1>7
  <2>1. PICK lost : Settle(u, lost)
    BY <2>0
  <2> DEFINE c == worker[u].claim
             h == CHOOSE n \in DOMAIN c : c[n] = x
             a == worker[u].text[h]
  <2>2. worker[u].pc = "settle"
    BY <2>1 DEF Settle
  <2>3. queue'[x] = IF \E j \in DOMAIN c \ lost : c[j] = x THEN [queue[x] EXCEPT !.status = a.out] ELSE queue[x]
    BY <1>1, <2>1 DEF Settle
  <2>4. PICK j \in DOMAIN c : c[j] = x
    BY <1>3, <2>3
  <2>5. h \in DOMAIN c /\ c[h] = x
    BY <2>4
  <2> HIDE DEF h
  <2>8. h \in 1..Len(c) /\ h \in 1..Len(worker[u].text) /\ Answers(worker[u], db, queue, touched)
    BY <2>2, <2>5, OfWorker DEF ThreadOk, Holds
  <2>9. AnswerOk(a, queue[x].key, db, touched)
    BY <2>5, <2>8 DEF Answers
  <2> HIDE DEF a, c
  <2>6. queue'[x].status = a.out
    BY <1>1, <1>3, <2>3 DEF QRow
  <2>7. Fine
    BY <1>3, <2>9, <2>6 DEF AnswerOk
  <2> QED BY <2>7 DEF x
<1>8. \/ \E u \in Workers : DequeueBatch(u)
      \/ \E u \in Workers : \E hard : FailBatch(u, hard)
      \/ \E u \in Workers : \E lost : Settle(u, lost)
  <2>1. ~(UNCHANGED vars)
    BY <1>4 DEF vars
  <2>2. ~RunStep /\ ~(\E resume \in BOOLEAN : StartRun(resume))
    BY <1>2, <1>4 DEF RunStep, ScanPage, StartDrain, EndRun, StartRun
  <2>5. ~Commands
    <3>1. \A d, S, V : Write(d, S, V) => queue' = queue
      BY DEF Write
    <3>2. \A m, t, b : EditBody(m, t, b) => queue' = queue
      BY <3>1 DEF EditBody
    <3>3. \A m, t, long, b : ForceMerge(m, t, long, b) => queue' = queue
      BY <3>1 DEF ForceMerge
    <3>4. \A n, t : DescribeEntity(n, t) => queue' = queue
      BY <3>1 DEF DescribeEntity
    <3>5. \A m : Forget(m) => queue' = queue
      BY <3>1 DEF Forget
    <3>6. (PurgeOrphan => queue' = queue) /\ \A n : ChangeDim(n) => queue' = queue
      BY DEF PurgeOrphan, ChangeDim
    <3> QED BY <1>4, <3>2, <3>3, <3>4, <3>5, <3>6 DEF Commands
  <2>3. ASSUME NEW u \in Workers, WorkerStep(u)
        PROVE  DequeueBatch(u) \/ (\E hard : FailBatch(u, hard)) \/ \E lost : Settle(u, lost)
    BY <1>4, <2>3 DEF WorkerStep, WorkerEnds, ResolveBatch, WriteBatch
  <2>4. ASSUME Faults
        PROVE  \/ \E u \in Workers : \E hard : FailBatch(u, hard)
               \/ \E u \in Workers : \E lost : Settle(u, lost)
    BY <1>4, <2>4 DEF Faults, Crash, EmbedFails
  <2> QED BY <2>1, <2>2, <2>3, <2>4, <2>5 DEF Next
<1> QED BY <1>5, <1>6, <1>7, <1>8

\* No row is settled as done without a vector of the active dimension, except rows a command
\* wrote after the worker had read them.
THEOREM DoneMeansEmbedded == Spec => DoneIsEmbedded
<1>1. IInv /\ [Next]_vars => DoneIsEmbedded!1
  <2>1. CASE UNCHANGED vars
    BY <2>1 DEF vars
  <2>2. CASE ~(UNCHANGED vars)
    BY <2>2, DoneByAnswer
  <2> QED BY <2>1, <2>2
<1> QED BY <1>1, Invariance, PTL DEF Spec, DoneIsEmbedded
=============================================================================
