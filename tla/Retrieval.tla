------------------------------ MODULE Retrieval ------------------------------
(***************************************************************************)
(* The commands that search: recall, hybrid-search, related and            *)
(* deep-research.  A search is a series of SELECTs on a read-only          *)
(* connection, each seeing what writers of other processes have committed  *)
(* by then: candidates by vector and by text, their rows, a walk over the  *)
(* relationships, the memories met on it.  deep-research runs one such     *)
(* search per sub-query side by side and merges them.                      *)
(*   Memories and entities have rowids of their own tables, so the same    *)
(* small numbers stand for both.  Scores are integers in units of 1/Scale. *)
(***************************************************************************)
EXTENDS Integers, Sequences, FiniteSets, SequencesExt, TLC

CONSTANTS
  Databases,      \* what may be stored: [live, vec, bound, edges]
  Rankings,       \* what the sub-queries are near to, by sub-query: [vec, text: Seq(memory), entity: Seq(entity), close: memories]
  Commands,       \* [kind, emb, k, hops, floor, cap, graph, limit, strict, seed, weights: of vector and text]
  Subs,           \* sub-queries of a deep-research
  Permits,        \* of its semaphore
  RrfK, Scale,    \* the constant of the fusion; a common multiple of its denominators
  MinScore,       \* --graph-min-score
  TopSeeds,       \* hits whose entities start evidence chains
  EntitySeeds,    \* entities taken from the vector search
  MaxChains,      \* chains a sub-query keeps
  MaxWrites       \* bound: commits of others during the search

ASSUME RetrievalConstants ==
  /\ Subs \subseteq Nat /\ 1 \in Subs /\ Permits \in Nat \ {0}
  /\ RrfK \in Nat /\ Scale \in Nat \ {0} /\ MinScore \in Nat /\ TopSeeds \in Nat /\ EntitySeeds \in Nat
  /\ MaxChains \in Nat /\ MaxWrites \in Nat

VARIABLES
  db, cmd, near,  \* the database, the command, per sub-query what it is near to
  sub,            \* the searches
  result,
  known,          \* history: memories live and relationships stored at some time since the start
  writes
searchVars == <<db, cmd, near, sub, result, known, writes>>

Pending == [state |-> "pending"]
NoSearch    == [pc |-> "idle", direct |-> <<>>, graph |-> <<>>, chains |-> <<>>]
Deep    == cmd.kind = "deep"
Running == {s \in Subs : sub[s].pc \notin {"idle", "wait", "done", "failed"}}
Prefix(seq, n) == SubSeq(seq, 1, IF n < Len(seq) THEN n ELSE Len(seq))
Ids(seq)       == {seq[i].id : i \in 1..Len(seq)}

\* related begins at its seed, a live memory or an entity; the others with the candidates.
FirstStep(c) == IF c.kind = "related" THEN "seed" ELSE IF c.kind = "deep" THEN "wait" ELSE "knn"
SearchInit ==
  /\ db \in Databases /\ near \in Rankings
  /\ cmd \in {c \in Commands : c.kind = "related" => c.seed.entity \/ c.seed.id \in db.live}
  /\ sub = [s \in Subs |-> IF s = 1 \/ Deep THEN [NoSearch EXCEPT !.pc = FirstStep(cmd)] ELSE NoSearch]
  /\ result = Pending /\ writes = 0
  /\ known = [live |-> db.live, edges |-> db.edges]

Step(s, record) == sub' = [sub EXCEPT ![s] = record] /\ UNCHANGED <<db, cmd, near, known, writes>>

----------------------------------------------------------------------------
(* Candidates. *)

\* A permit of the semaphore; a task that ends gives its permit back.
Acquire(s) ==
  /\ sub[s].pc = "wait" /\ Cardinality(Running) < Permits
  /\ Step(s, [sub[s] EXCEPT !.pc = "knn"]) /\ UNCHANGED result

\* knn_search ranks vectors; whether the memories are live is seen when the rows are read.
KnnSearch(s, n) == Prefix(SelectSeq(near[s].vec, LAMBDA m : m \in db.vec), n)
Knn(s) ==
  /\ sub[s].pc = "knn"
  /\ Step(s, [NoSearch EXCEPT !.pc = "fts"] @@
             [knn |-> IF cmd.emb THEN KnnSearch(s, IF cmd.kind = "hybrid" THEN 2 * cmd.k ELSE cmd.k) ELSE <<>>])
  /\ UNCHANGED result
\* Mutant: a failed task keeps its permit.
SubFailsHolding(s) ==
  /\ sub[s].pc = "knn" /\ Deep
  /\ Step(s, [sub[s] EXCEPT !.pc = "failing"]) /\ UNCHANGED result
\* The database cannot be opened or searched: the sub-query has failed.
SubFails(s) ==
  /\ sub[s].pc = "knn" /\ Deep
  /\ Step(s, [sub[s] EXCEPT !.pc = "failed"]) /\ UNCHANGED result

FtsSearch(s, n) == Prefix(SelectSeq(near[s].text, LAMBDA m : m \in db.live), n)

\* A list contributes its weight / (k + rank).  The weights of hybrid-search are any numbers,
\* zero and negative ones too; deep-research weighs both lists alike (rrf_fuse).
Rrf(lists, m) ==
  LET part(l) == IF \E i \in 1..Len(l) : l[i] = m THEN Scale \div (RrfK + (CHOOSE i \in 1..Len(l) : l[i] = m)) ELSE 0
  IN  cmd.weights[1] * part(lists[1]) + cmd.weights[2] * part(lists[2])
\* Ids by falling score.
ByScore(score) == {q \in SetToSeqs(DOMAIN score) : \A i \in 2..Len(q) : score[q[i - 1]] >= score[q[i]]}
\* The candidates by score.  Equal scores come out of the hash map of hybrid-search in any
\* order, out of the BTreeMap of rrf_fuse by id.
Fused(lists, n) ==
  LET score == [m \in Range(lists[1]) \cup Range(lists[2]) |-> Rrf(lists, m)]
      orders == {q \in ByScore(score) : Deep => \A i \in 2..Len(q) : score[q[i - 1]] = score[q[i]] => q[i - 1] < q[i]}
  IN  {Prefix([i \in 1..Len(q) |-> [id |-> q[i], score |-> score[q[i]], hop |-> 0]], n) : q \in orders}

\* The text search, and the fusion of what the two found; recall takes the one or the other.
\* A text search that fails, or has no weight, leaves the vectors' candidates alone.
Fts(s) ==
  /\ sub[s].pc = "fts"
  /\ LET knn    == sub[s].knn
         plain(ids) == [i \in 1..Len(ids) |-> [id |-> ids[i], score |-> Scale \div i, hop |-> 0]]
     IN  \/ /\ cmd.kind = "recall"
            /\ Step(s, [NoSearch EXCEPT !.pc = "rows", !.direct = plain(IF cmd.emb THEN knn ELSE FtsSearch(s, cmd.k))])
         \/ /\ cmd.kind # "recall"
            /\ \E fts \in {<<>>} \cup {FtsSearch(s, IF Deep THEN cmd.k ELSE 2 * cmd.k) : w \in {cmd.weights[2]} \ {0}} :
                 \E fused \in Fused(<<knn, fts>>, IF Deep THEN 2 * cmd.k ELSE cmd.k) :
                   Step(s, [NoSearch EXCEPT !.pc = "rows", !.direct = fused] @@ [lists |-> <<knn, fts>>])
  /\ UNCHANGED result

\* The rows of the candidates that are still there.
Rows(s) ==
  /\ sub[s].pc = "rows"
  /\ Step(s, [sub[s] EXCEPT !.pc = "seed", !.direct = SelectSeq(@, LAMBDA h : h.id \in db.live)]
             @@ [fused |-> sub[s].direct])
  /\ UNCHANGED result

----------------------------------------------------------------------------
(* The walk. *)

EntitiesOf(memories) == {b[2] : b \in {p \in db.bound : p[1] \in memories}}
EntityKnn(s) == IF cmd.emb THEN Range(Prefix(near[s].entity, EntitySeeds)) ELSE {}
StartWalk(seeds) ==
  [seeds |-> seeds, depth |-> [e \in seeds |-> 0], arrival |-> <<>>, expanded |-> {}, queue |-> SetToSortSeq(seeds, <), since |-> writes]

\* Seeds of the walk.  The nearest entities join the hits as if they were memories.
SeedMemories(s) ==
  IF cmd.kind = "related" THEN IF cmd.seed.entity THEN {} ELSE {cmd.seed.id}
  ELSE Ids(sub[s].direct) \cup EntityKnn(s)
SeedEntities(s) ==
  IF cmd.kind = "related" /\ cmd.seed.entity THEN {cmd.seed.id} ELSE EntitiesOf(SeedMemories(s))
\* Without a vector recall and hybrid-search do not walk; without hits the latter and
\* deep-research do not either.
Walks(s) ==
  /\ cmd.hops > 0 /\ SeedEntities(s) # {}
  /\ cmd.kind \in {"recall", "hybrid"} => cmd.graph /\ cmd.emb
  /\ cmd.kind \in {"hybrid", "deep"} => sub[s].direct # <<>>
Seed(s) ==
  /\ sub[s].pc = "seed"
  /\ Step(s, IF Walks(s) THEN [pc |-> "walk", walk |-> StartWalk(SeedEntities(s)), seedMemories |-> SeedMemories(s)] @@ sub[s]
             ELSE IF Deep /\ sub[s].direct # <<>> /\ cmd.hops > 0 THEN [sub[s] EXCEPT !.pc = "chainseed"]
             ELSE [sub[s] EXCEPT !.pc = "done"])
  /\ UNCHANGED result

\* SqlNeighbors.query: relationships that lead out, the strongest first; related also takes those
\* that lead in, after them and without an order.
Out(e) == {[id |-> r.to, weight |-> r.weight] : r \in {x \in db.edges : x.from = e /\ x.weight >= cmd.floor}}
In(e)  == {[id |-> r.from, weight |-> r.weight] : r \in {x \in db.edges : x.to = e /\ x.weight >= cmd.floor}}
Neighbours(e) ==
  IF cmd.kind = "related" THEN {a \o b : a \in SetToSeqs(Out(e)), b \in SetToSeqs(In(e))}
  ELSE {q \in SetToSeqs(Out(e)) : \A i, j \in 1..Len(q) : i < j => q[i].weight >= q[j].weight}
\* Of them the first that are new, up to the cap.
Admitted(order, depth) ==
  LET first(i) == order[i].id \notin DOMAIN depth /\ \A j \in 1..(i - 1) : order[j].id # order[i].id
      new      == SelectSeq([i \in 1..Len(order) |-> i], first)
  IN  Prefix([k \in 1..Len(new) |-> order[new[k]]], IF Deep THEN cmd.cap ELSE Len(new))

Arrivals(cur, met) == [e \in Ids(met) |-> [from |-> cur, weight |-> (CHOOSE m \in Range(met) : m.id = e).weight]]

\* Mutant: the queue is a stack.
PopStack(s) ==
  /\ sub[s].pc \in {"walk", "chains"} /\ sub[s].walk.queue # <<>>
  /\ LET w   == sub[s].walk
         cur == Head(w.queue)
     IN  IF w.depth[cur] >= cmd.hops \/ cur \in w.expanded
         THEN Step(s, [sub[s] EXCEPT !.walk.queue = Tail(@)])
         ELSE \E order \in Neighbours(cur) :
                LET new == Admitted(order, w.depth)
                IN  Step(s, [sub[s] EXCEPT !.walk =
                      [w EXCEPT !.queue = [k \in 1..Len(new) |-> new[k].id] \o Tail(@), !.expanded = @ \cup {cur},
                                !.depth = [e \in Ids(new) |-> w.depth[cur] + 1] @@ @,
                                !.arrival = Arrivals(cur, new) @@ @]])
  /\ UNCHANGED result
\* One entity of the queue.
Pop(s) ==
  /\ sub[s].pc \in {"walk", "chains"} /\ sub[s].walk.queue # <<>>
  /\ LET w   == sub[s].walk
         cur == Head(w.queue)
     IN  IF w.depth[cur] >= cmd.hops \/ cur \in w.expanded
         THEN Step(s, [sub[s] EXCEPT !.walk.queue = Tail(@)])
         ELSE \E order \in Neighbours(cur) :
                LET new == Admitted(order, w.depth)
                IN  Step(s, [sub[s] EXCEPT !.walk =
                      [w EXCEPT !.queue = Tail(@) \o [k \in 1..Len(new) |-> new[k].id], !.expanded = @ \cup {cur},
                                !.depth = [e \in Ids(new) |-> w.depth[cur] + 1] @@ @,
                                !.arrival = Arrivals(cur, new) @@ @]])
  /\ UNCHANGED result
Walked(s) == sub[s].pc \in {"walk", "chains"} /\ sub[s].walk.queue = <<>>

\* Live memories of the entities discovered, each at its nearest.  Entities the walk began
\* with are not discovered.  related takes the entities of a hop by the weight they were met with.
Discovered(w) == DOMAIN w.depth \ w.seeds
Before(w, a, b) ==
  LET key(e) == <<w.depth[e], IF cmd.kind = "related" THEN -w.arrival[e].weight ELSE 0, e>>
      i == CHOOSE n \in 1..3 : key(a)[n] # key(b)[n] /\ \A k \in 1..(n - 1) : key(a)[k] = key(b)[k]
  IN  a # b /\ key(a)[i] < key(b)[i]
Found(w) ==
  LET entities(m) == {e \in Discovered(w) : <<m, e>> \in db.bound}
      first(m) == CHOOSE e \in entities(m) : \A f \in entities(m) \ {e} : Before(w, e, f)
  IN  {[id |-> m, hop |-> w.depth[first(m)], at |-> first(m)] : m \in {x \in db.live : entities(x) # {}}}
Collect(s) ==
  /\ sub[s].pc = "walk" /\ Walked(s)
  /\ Step(s, [found |-> {f \in Found(sub[s].walk) : f.id \notin sub[s].seedMemories}, pc |-> "graphrows"] @@ sub[s])
  /\ UNCHANGED result

\* related lists in the order of the entities; the others list by rowid.
Listed(s) ==
  LET earlier(a, b) == IF a.at = b.at THEN a.id < b.id ELSE Before(sub[s].walk, a.at, b.at)
  IN  SetToSortSeq(sub[s].found, LAMBDA a, b : IF cmd.kind = "related" THEN earlier(a, b) ELSE a.id < b.id)
\* deep-research scores by the mean of its seeds, halved with every hop, and drops the low.
GraphScore(s, hop) ==
  LET fused == sub[s].fused
      Sum[i \in 0..Len(fused)] == IF i = 0 THEN 0 ELSE Sum[i - 1] + fused[i].score
  IN  (Sum[Len(fused)] \div Len(fused)) \div 2 ^ hop
GraphRows(s) ==
  /\ sub[s].pc = "graphrows"
  /\ LET listed == SelectSeq(Listed(s), LAMBDA f : cmd.kind = "related" \/ f.id \in db.live)
         rows   == IF Deep
                   THEN LET fresh == SelectSeq(listed, LAMBDA f : f.id \notin Ids(sub[s].fused) /\ GraphScore(s, f.hop) >= MinScore)
                        IN  [i \in 1..Len(fresh) |-> [id |-> fresh[i].id, hop |-> fresh[i].hop, score |-> GraphScore(s, fresh[i].hop)]]
                   ELSE Prefix(listed, cmd.limit)
     IN  Step(s, [sub[s] EXCEPT !.graph = rows, !.pc = IF Deep THEN "chainseed" ELSE "done"])
  /\ UNCHANGED result

\* A second walk for the chains, from the nearest entities and those of the first hits.
ChainSeed(s) ==
  /\ sub[s].pc = "chainseed"
  /\ LET seeds == EntityKnn(s) \cup EntitiesOf(Ids(Prefix(sub[s].direct, TopSeeds)))
     IN  Step(s, IF seeds = {} THEN [sub[s] EXCEPT !.pc = "done"]
                 ELSE [pc |-> "chains", walk |-> StartWalk(seeds)] @@ sub[s])
  /\ UNCHANGED result
\* reconstruct_path: back along the arrivals to a seed.
Back(w) == LET B[e \in DOMAIN w.depth, n \in Nat] ==
                 IF n = 0 \/ e \notin DOMAIN w.arrival THEN e ELSE B[w.arrival[e].from, n - 1]
           IN  B
ReconstructPath(w, e) == [i \in 1..(w.depth[e] + 1) |-> Back(w)[e, w.depth[e] + 1 - i]]
\* total_weight: the product of the weights a path was walked by.
TotalWeight(w, path) ==
  LET P[i \in 1..Len(path)] == IF i = 1 THEN 1 ELSE P[i - 1] * w.arrival[path[i]].weight
  IN  P[Len(path)]
\* The heaviest chains; equal ones out of a hash map in any order.
Chains(s) ==
  /\ sub[s].pc = "chains" /\ Walked(s)
  /\ LET w == sub[s].walk
         weight == [path \in {ReconstructPath(w, e) : e \in Discovered(w)} |-> TotalWeight(w, path)]
     IN  \E q \in ByScore(weight) :
           Step(s, [sub[s] EXCEPT !.pc = "done",
                                  !.chains = Prefix([i \in 1..Len(q) |-> [path |-> q[i], weight |-> weight[q[i]]]], MaxChains)])
  /\ UNCHANGED result

----------------------------------------------------------------------------
(* The answer. *)

Hit(s, m) == LET hits == sub[s].direct \o sub[s].graph
             IN  hits[CHOOSE i \in 1..Len(hits) : hits[i].id = m]
HitIds(s) == Ids(sub[s].direct) \cup Ids(sub[s].graph)
\* Mutant: the sub-query that ends last decides.
AbsorbLast(merged, s) ==
  [m \in HitIds(s) |-> [score |-> Hit(s, m).score, by |-> s,
                        ids |-> IF m \in DOMAIN merged THEN Append(merged[m].ids, s) ELSE <<s>>]] @@ merged
\* One sub-query's hits join the merged ones.  The best score decides by which sub-query's
\* hit a memory is shown (source, snippet, body and hop), of equal ones the first to end;
\* sub_query_ids are in the order they end in.
Absorb(merged, s) ==
  [m \in HitIds(s) |->
     IF m \notin DOMAIN merged THEN [score |-> Hit(s, m).score, by |-> s, ids |-> <<s>>]
     ELSE IF Hit(s, m).score > merged[m].score
     THEN [score |-> Hit(s, m).score, by |-> s, ids |-> Append(merged[m].ids, s)]
     ELSE [merged[m] EXCEPT !.ids = Append(@, s)]] @@ merged
Merged(order) ==
  LET M[i \in 0..Len(order)] == IF i = 0 THEN <<>> ELSE Absorb(M[i - 1], order[i])
  IN  M[Len(order)]

\* Of the chains with the same ends the first is kept, in the order the sub-queries end in;
\* then the heaviest come first.
Ends(chain) == <<chain.path[1], chain.path[Len(chain.path)]>>
MergedChains(order) ==
  LET all   == FlattenSeq([i \in 1..Len(order) |-> sub[order[i]].chains])
      first == {i \in 1..Len(all) : \A j \in 1..(i - 1) : Ends(all[j]) # Ends(all[i])}
      heavier(i, j) == all[i].weight > all[j].weight \/ (all[i].weight = all[j].weight /\ i < j)
      sorted == SetToSortSeq(first, heavier)
  IN  [n \in 1..Len(sorted) |-> all[sorted[n]]]

\* join_next gives the tasks in the order they end in.  Names are looked up last.
Merge ==
  /\ Deep /\ result = Pending /\ \A s \in Subs : sub[s].pc \in {"done", "failed"}
  /\ LET completed == {s \in Subs : sub[s].pc = "done"}
     IN  \E order \in SetToSeqs(completed) : \E merged \in {Merged(order)} :
           \E q \in ByScore([m \in DOMAIN merged |-> merged[m].score]) :
                 result' = [state |-> "answered", merged |-> merged,
                            list |-> SelectSeq(Prefix(q, cmd.limit), LAMBDA m : m \in db.live),
                            completed |-> Len(order), failed |-> Cardinality(Subs \ completed),
                            chains |-> MergedChains(order)]
  /\ UNCHANGED <<db, cmd, near, sub, known, writes>>

\* The other commands: the hits, then what the walk found; recall with --max-distance
\* finds nothing if no hit is near enough.
Answer ==
  /\ ~Deep /\ result = Pending /\ sub[1].pc = "done"
  /\ result' = IF cmd.kind = "recall" /\ cmd.emb /\ cmd.strict /\ Ids(sub[1].direct) \cap near[1].close = {}
               THEN [state |-> "not found"]
               ELSE [state |-> "answered", list |-> [i \in 1..Len(sub[1].direct) |-> sub[1].direct[i].id] \o [i \in 1..Len(sub[1].graph) |-> sub[1].graph[i].id]]
  /\ UNCHANGED <<db, cmd, near, sub, known, writes>>

----------------------------------------------------------------------------
(* Commits of other processes while the search runs. *)

Write(d) ==
  /\ result = Pending /\ writes < MaxWrites /\ writes' = writes + 1 /\ db' = d
  /\ known' = [live |-> known.live \cup d.live, edges |-> known.edges \cup d.edges]
  /\ UNCHANGED <<cmd, near, sub, result>>
Forget  == \E m \in db.live : Write([db EXCEPT !.live = @ \ {m}, !.vec = @ \ {m}])
Restore == \E m \in {b[1] : b \in db.bound} \ db.live : Write([db EXCEPT !.live = @ \cup {m}])
Unlink  == \E r \in db.edges : Write([db EXCEPT !.edges = @ \ {r}])
Link    == \E r \in UNION {d.edges : d \in Databases} \ db.edges : Write([db EXCEPT !.edges = @ \cup {r}])
Bind    == \E b \in (db.live \X {p[2] : p \in db.bound}) \ db.bound : Write([db EXCEPT !.bound = @ \cup {b}])
Writes  == Forget \/ Restore \/ Unlink \/ Link \/ Bind

SubStep(s) ==
  \/ Acquire(s) \/ Knn(s) \/ SubFails(s) \/ Fts(s) \/ Rows(s) \/ Seed(s) \/ Pop(s) \/ Collect(s) \/ GraphRows(s)
  \/ ChainSeed(s) \/ Chains(s)
Search == (\E s \in Subs : SubStep(s)) \/ Merge \/ Answer
SearchNext == Search \/ Writes
SearchFairness == WF_searchVars(Search)
SearchSpec == SearchInit /\ [][SearchNext]_searchVars /\ SearchFairness

----------------------------------------------------------------------------
(* Properties. *)

\* Candidates come from the rankings, vectors from the database, and no more sub-queries of
\* deep-research run at once than its semaphore has permits.
RetrievalTypeOK ==
  /\ db.vec \subseteq {b[1] : b \in db.bound} \cup UNION {d.vec : d \in Databases}
  /\ \A s \in Subs : Ids(sub[s].direct) \subseteq Range(near[s].vec) \cup Range(near[s].text)
  /\ Deep => Cardinality(Running) <= Permits
  /\ writes \in 0..MaxWrites

\* Entities within n steps, by the definition.
Within(seeds, n) ==
  LET W[i \in 0..n] == IF i = 0 THEN seeds ELSE W[i - 1] \cup {h.id : h \in UNION {Out(e) \cup (IF cmd.kind = "related" THEN In(e) ELSE {}) : e \in W[i - 1]}}
  IN  W[n]
\* A walk that nothing disturbs finds every entity within the hops, at its distance; with a
\* cap on the neighbours it finds some of them, and none too near.
WalkIsBreadthFirst ==
  \A s \in Subs : Walked(s) /\ sub[s].walk.since = writes =>
    LET w == sub[s].walk
    IN  /\ \A e \in DOMAIN w.depth : w.depth[e] <= cmd.hops /\ e \in Within(w.seeds, w.depth[e])
        /\ ~Deep => /\ DOMAIN w.depth = Within(w.seeds, cmd.hops)
                    /\ \A e \in DOMAIN w.depth : w.depth[e] > 0 => e \notin Within(w.seeds, w.depth[e] - 1)

\* The path back from any entity ends at a seed after as many steps as its depth, although
\* relationships come and go during the walk: reconstruct_path always ends.
PathsLeadToSeeds ==
  \A s \in Subs : sub[s].pc \in {"walk", "chains"} =>
    \A e \in DOMAIN sub[s].walk.depth : Back(sub[s].walk)[e, sub[s].walk.depth[e]] \in sub[s].walk.seeds

\* A chain that is reported follows relationships which were stored during the search, and
\* visits no entity twice.
ChainsAreReal ==
  result.state = "answered" /\ Deep =>
    \A c \in {result.chains[n].path : n \in 1..Len(result.chains)} :
      /\ Len(c) \in 2..(cmd.hops + 1)
      /\ \A i, j \in 1..Len(c) : i # j => c[i] # c[j]
      /\ \A i \in 1..(Len(c) - 1) : \E r \in known.edges : r.from = c[i] /\ r.to = c[i + 1] /\ r.weight >= cmd.floor

\* A memory forgotten before the search began is in no answer, although its bindings to
\* entities outlive it.
NothingForgotten == result.state = "answered" => Range(result.list) \subseteq known.live

\* No memory is listed twice, and related never lists the memory it was asked about.
NothingTwice ==
  result.state = "answered" =>
    /\ \A i, j \in 1..Len(result.list) : i # j => result.list[i] # result.list[j]
    /\ cmd.kind = "related" /\ ~cmd.seed.entity => cmd.seed.id \notin Range(result.list)

\* Fusion respects the rankings: a candidate that no list ranks below another is never
\* listed after it, nor cut off in its favour.  Only with positive --weight-vec and
\* --weight-fts, which nothing checks: candidates of a list of weight zero tie, and a
\* negative weight turns its list round.
FusionKeepsOrder ==
  \A s \in Subs : sub[s].pc = "rows" /\ cmd.kind # "recall" /\ cmd.weights[1] > 0 /\ cmd.weights[2] > 0 =>
    LET lists == sub[s].lists
        at(l, m) == IF \E i \in 1..Len(l) : l[i] = m THEN CHOOSE i \in 1..Len(l) : l[i] = m ELSE 1000
        place(m) == IF m \in Ids(sub[s].direct) THEN CHOOSE i \in 1..Len(sub[s].direct) : sub[s].direct[i].id = m ELSE 1000
        all == Range(lists[1]) \cup Range(lists[2])
    IN  \A a, b \in all :
          (\A i \in {1, 2} : at(lists[i], a) <= at(lists[i], b)) /\ a # b /\ place(b) # 1000 => place(a) < place(b)

\* related cuts its list at the limit, never in front of a nearer memory.
NearestFirst ==
  cmd.kind = "related" /\ sub[1].pc = "done" /\ "found" \in DOMAIN sub[1] =>
    LET g == sub[1].graph
    IN  /\ \A i, j \in 1..Len(g) : i < j => g[i].hop <= g[j].hop
        /\ \A f \in sub[1].found : f.id \notin Ids(g) => \A i \in 1..Len(g) : g[i].hop <= f.hop

\* Whichever sub-query ends first, deep-research has the same memories with the same scores
\* and sub-queries, chains between the same ends, and every sub-query accounted for; which
\* of equal hits or of chains with the same ends is shown may differ.  What is shown of a
\* memory is the hit of one sub-query, with the best score.
MergeIsOrderFree ==
  Deep /\ result.state = "answered" =>
    LET completed == {s \in Subs : sub[s].pc = "done"}
        by(m)     == {s \in completed : m \in HitIds(s)}
    IN  /\ DOMAIN result.merged = UNION {HitIds(s) : s \in completed}
        /\ \A m \in DOMAIN result.merged :
             LET h == result.merged[m]
             IN  /\ ToSet(h.ids) = by(m) /\ Len(h.ids) = Cardinality(by(m))
                 /\ h.by \in by(m) /\ h.score = Hit(h.by, m).score
                 /\ \A s \in by(m) : Hit(s, m).score <= h.score
        /\ {Ends(result.chains[n]) : n \in 1..Len(result.chains)}
             = UNION {{Ends(sub[s].chains[n]) : n \in 1..Len(sub[s].chains)} : s \in completed}
        /\ \A i, j \in 1..Len(result.chains) : i # j => Ends(result.chains[i]) # Ends(result.chains[j])
        /\ result.completed + result.failed = Cardinality(Subs)
        /\ \A m \in DOMAIN result.merged \cap db.live :
             m \notin Range(result.list) => Len(result.list) < cmd.limit \/
               \A i \in 1..Len(result.list) : result.merged[m].score <= result.merged[result.list[i]].score

\* Every search answers, whatever others write meanwhile and whichever sub-query fails.
SearchEnds == <>(result # Pending)
\* The walk meets entities by shortest paths while relationships change, and its paths and
\* chains are made of relationships there were.
WalkSound == RetrievalTypeOK /\ WalkIsBreadthFirst /\ PathsLeadToSeeds /\ ChainsAreReal

\* An answer lists no forgotten memory and none twice, is ranked and cut by rank or
\* distance, and has the memories and scores of all sub-queries in whatever order they end.
AnswerSound == NothingForgotten /\ NothingTwice /\ FusionKeepsOrder /\ NearestFirst /\ MergeIsOrderFree
==============================================================================
