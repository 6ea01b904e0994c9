---------------------------- MODULE EnrichHandlers ----------------------------
(***************************************************************************)
(* The call handlers of `enrich` and the scans that feed them.  A worker   *)
(* takes an item a scan found, reads its row, asks the model (a step of    *)
(* its own: anything may happen meanwhile) and writes the answer back with *)
(* statements that are not in one transaction.  Re-embedding is in ReEmbed,*)
(* the queue between scan and handler in EnrichDrain.                      *)
(*                                                                         *)
(* The memories modelled share one name, one in every namespace; runs work *)
(* on the namespace Home.  Texts are tokens; a search finds a row by the   *)
(* tokens in its index entry.                                              *)
(***************************************************************************)
EXTENDS Integers, FiniteSets

CONSTANTS
  Namespaces, Home,
  Entities,        \* entities of Home, by id
  InitEntities,    \* what they may be at first; the untyped ones are bound to the memory
  MaxRel,          \* bound: ids of relationships
  Workers,
  Vocabularies,    \* the lists that --allowed-types may give a run
  Similar,         \* per list: the entry most like a label, if it scores 0.6 or more
  First,           \* per list: its first entry in alphabetical order
  HubTop,          \* ENTITY_CONNECT_HUB_TOP
  IslandCap,       \* ENTITY_CONNECT_ISLAND_CAP
  MaxCalls,        \* bound: items taken, those of entity-connect apart
  MaxCommands      \* bound: commands of other processes

VARIABLES
  mem,             \* the memories: body, desc, domain, live
  index,           \* what the full-text index holds for each of them
  ver,             \* body and description of their last version
  ent, bound,      \* entities; which memory is bound to which
  rel, seen,       \* relationships; pairs entity-connect has judged
  worker, calls, commands,
  lost             \* history: memories whose index update was cut short or raced, not yet made good

db   == <<mem, index, ver, ent, bound, rel, seen>>
vars == <<mem, index, ver, ent, bound, rel, seen, worker, calls, commands, lost>>

Bodies   == {"short", "edited", "enriched", "extracted"}
Chars    == [short |-> 1, extracted |-> 1, edited |-> 2, enriched |-> 3]
DefaultMinChars == 2                           \* DEFAULT_BODY_ENRICH_MIN_CHARS
MinChars == 1..4                               \* --min-output-chars of the run
Descs    == {"generic", "described"}
Generic  == "related"
Policies == {"keep", "fallback", "strict"}     \* --on-unknown-type of the run
Labels   == {"concept", "tool", "gadget", "odd"}
Drafts   == {"declined", "empty", "ungrounded", "jargon", "grounded"}
NoEnt    == [type |-> "none"]
Ent      == [type: Labels, desc: {"", "filler", "jargon", "ungrounded", "grounded"}, noted: BOOLEAN, degree: Nat]
Rel      == [id: 1..MaxRel, s: Entities, t: Entities, relation: {Generic, "uses"}, high: BOOLEAN]
Pairs    == {p \in Entities \X Entities : p[1] < p[2]}
MemoryOps == {"memory-bindings", "augment-bindings", "body-enrich", "description-enrich", "domain-classify",
              "graph-audit", "deep-research-synth", "body-extract", "body-extract-graph"}
EntityOps == {"entity-descriptions", "force-redescribe", "entity-type-validate"}
RelOps    == {"weight-calibrate", "relation-reclassify"}
Ops       == MemoryOps \cup EntityOps \cup RelOps \cup {"entity-connect"}
Idle      == [pc |-> "idle"]

\* What a run goes by when it validates a type; other operations need no rule.
Rules  == [policy: Policies, allowed: Vocabularies]
NoRule == [policy |-> "keep", allowed |-> Labels]

\* --allowed-types lists some of all labels, at least one (parse_vocabulary); no run of
\* enrich came before Init.
ASSUME HandlerConstants ==
  /\ Home \in Namespaces /\ Entities \subseteq Nat /\ {MaxRel, MaxCalls, MaxCommands} \subseteq Nat
  /\ {HubTop, IslandCap} \subseteq Nat
  /\ \A v \in Vocabularies : /\ v \subseteq Labels /\ First[v] \in v
                            /\ \A l \in Labels : Similar[v][l] \in v \cup {"none"}
  /\ \A f \in InitEntities : /\ f \in [Entities -> Ent \cup {NoEnt}]
                             /\ \A e \in Entities : f[e] = NoEnt \/ f[e].desc \notin {"ungrounded", "jargon"}

\* The rows the call handlers read and write are of their kinds, and every worker is in some
\* step of its handler.
OpsTypeOK ==
  /\ mem \in [Namespaces -> [body: Bodies, desc: Descs, domain: BOOLEAN, live: BOOLEAN]]
  /\ index \in [Namespaces -> SUBSET (Bodies \cup Descs)]
  /\ ent \in [Entities -> Ent \cup {NoEnt}] /\ bound \subseteq Namespaces \X Entities
  /\ rel \subseteq Rel /\ seen \subseteq Pairs
  /\ \A r, q \in rel : r.id = q.id \/ (r.s = q.s /\ r.t = q.t /\ r.relation = q.relation) => r = q
  /\ \A w \in Workers : worker[w].pc \in {"idle", "claimed", "asked", "update", "sync", "insert"}

----------------------------------------------------------------------------
(* Reading. *)

Exists(e)     == ent[e] # NoEnt
Incident(e)   == {r \in rel : e \in {r.s, r.t}}
Related(e, f) == \E r \in rel : {r.s, r.t} = {e, f}
IsEmptyDesc(e) == ent[e].desc = "" /\ ~ent[e].noted
LowQuality(d) == d \in {"", "filler", "jargon"}

\* load_entity_evidence: bodies of the live memories it is bound to, and its relations.
CorpusSnippets(e) == {mem[n].body : n \in {m \in Namespaces : mem[m].live /\ <<m, e>> \in bound}}
GraphContext(e)   == {r.relation : r \in Incident(e)}
Sufficient(e)     == CorpusSnippets(e) \cup GraphContext(e) # {}

\* Five handlers look a memory up by name alone.
NamespaceBlind == {"description-enrich", "domain-classify", "graph-audit", "deep-research-synth", "body-extract"}
Lookup(op) == {n \in Namespaces : mem[n].live /\ (op \notin NamespaceBlind => n = Home)}

----------------------------------------------------------------------------
(* Scans. *)

Memories == {n \in {Home} : mem[n].live}
ScanUnboundMemories == {n \in Memories : \A e \in Entities : <<n, e>> \notin bound}
ScanBoundMemoriesForAugment == {n \in Memories : \E e \in Entities : <<n, e>> \in bound}
ScanShortBodyMemories(min) == {n \in Memories : Chars[mem[n].body] < min}
ScanGenericDescriptions == {n \in Memories : mem[n].desc = "generic"}
ScanMemories(op, min) ==
  CASE op = "memory-bindings"    -> ScanUnboundMemories
    [] op = "augment-bindings"   -> ScanBoundMemoriesForAugment
    [] op = "body-enrich"        -> ScanShortBodyMemories(min)
    [] op = "description-enrich" -> ScanGenericDescriptions
    [] OTHER                     -> Memories

\* --force-redescribe adds the descriptions the low-quality markers match.
ScanEntities(op) ==
  {e \in Entities :
     /\ Exists(e)
     /\ op = "entity-descriptions" => IsEmptyDesc(e)
     /\ op = "force-redescribe" => IsEmptyDesc(e) \/ (LowQuality(ent[e].desc) /\ ent[e].desc # "")}

ScanWeightCandidates == {r.id : r \in {q \in rel : q.high}}
ScanGenericRelations == {r.id : r \in {q \in rel : q.relation = Generic}}

\* scan_isolated_entity_pairs: entities of one memory first, then hubs with islands
\* (degree 0 in the cache and bound to a memory).  Both windows are cut before the pairs
\* that are seen or related drop out.  --limit only says how many are offered at a time.
Open(p) == p \notin seen /\ ~Related(p[1], p[2])
CooccurringPairs ==
  {p \in Pairs : Exists(p[1]) /\ Exists(p[2]) /\ Open(p) /\ \E n \in Namespaces : <<n, p[1]>> \in bound /\ <<n, p[2]>> \in bound}
Outranks(f, e) == ent[f].degree > ent[e].degree \/ (ent[f].degree = ent[e].degree /\ f < e)
Hubs     == {h \in Entities : Exists(h) /\ Cardinality({f \in Entities : Exists(f) /\ Outranks(f, h)}) < HubTop}
IsIsland(e) == Exists(e) /\ ent[e].degree = 0 /\ \E n \in Namespaces : <<n, e>> \in bound
Islands  == {i \in Entities : IsIsland(i) /\ Cardinality({f \in Entities : IsIsland(f) /\ f < i}) < IslandCap}
HubIslandPairs == {p \in Pairs : Open(p) /\ \E h \in Hubs, i \in Islands : {h, i} = {p[1], p[2]}}

Scan(op, min) ==
  CASE op \in MemoryOps           -> ScanMemories(op, min)
    [] op \in EntityOps           -> ScanEntities(op)
    [] op = "weight-calibrate"    -> ScanWeightCandidates
    [] op = "relation-reclassify" -> ScanGenericRelations
    [] OTHER                      -> CooccurringPairs \cup HubIslandPairs

\* count_operation_backlog: what --status reports, by the default length whatever the run
\* was given; 0 for operations without a predicate.
Backlog(op) ==
  CASE op = "memory-bindings" -> Cardinality({n \in {Home} : mem[n].live /\ ~\E e \in Entities : <<n, e>> \in bound})
    [] op = "body-enrich" -> Cardinality({n \in {Home} : mem[n].live /\ Chars[mem[n].body] < DefaultMinChars})
    [] op = "description-enrich" -> Cardinality({n \in {Home} : mem[n].live /\ mem[n].desc = "generic"})
    [] op = "entity-descriptions" -> Cardinality({e \in Entities : Exists(e) /\ IsEmptyDesc(e)})
    [] op = "force-redescribe" -> Cardinality({e \in Entities : Exists(e) /\ LowQuality(ent[e].desc) /\ (ent[e].desc = "" => ~ent[e].noted)})
    [] op = "entity-type-validate" -> Cardinality({e \in Entities : Exists(e)})
    [] op = "weight-calibrate" -> Cardinality({r \in rel : r.high})
    [] op = "relation-reclassify" -> Cardinality({r \in rel : r.relation = Generic})
    [] op = "entity-connect" -> Cardinality({e \in Entities : IsIsland(e)})
    [] OTHER -> 0

----------------------------------------------------------------------------
(* Writing. *)

\* sync_fts_after_update takes out the old fields it is given and puts in the new ones; in
\* the transaction of a command both are one step.
SyncFts(ix, old, new) == (ix \ {old.body, old.desc}) \cup {new.body, new.desc}

\* Mutant: the type of the answer replaces the type of the entity.
UpsertEntities(E, label) ==
  [e \in Entities |->
     IF e \notin E THEN ent[e]
     ELSE IF ~Exists(e) THEN [type |-> label, desc |-> "", noted |-> FALSE, degree |-> 0]
     ELSE [ent[e] EXCEPT !.type = label]]
\* upsert_entity_preserving_type: only the default type gives way.
UpsertEntitiesPreservingType(E, label) ==
  [e \in Entities |->
     IF e \notin E THEN ent[e]
     ELSE IF ~Exists(e) THEN [type |-> label, desc |-> "", noted |-> FALSE, degree |-> 0]
     ELSE [ent[e] EXCEPT !.type = IF @ = "concept" THEN label ELSE @]]

\* ON CONFLICT(source_id, target_id, relation) the weight is replaced.
UpsertRelationship(s, t, r, h) ==
  LET same == {q \in rel : q.s = s /\ q.t = t /\ q.relation = r}
  IN  IF same # {} THEN (rel \ same) \cup {[q EXCEPT !.high = h] : q \in same}
      ELSE rel \cup {[id |-> CHOOSE i \in 1..MaxRel : \A q \in rel : q.id # i,
                      s |-> s, t |-> t, relation |-> r, high |-> h]}
RoomForRel == Cardinality(rel) < MaxRel
RecalculateDegree(en, R, E) ==
  [e \in Entities |-> IF e \in E /\ en[e] # NoEnt
                      THEN [en[e] EXCEPT !.degree = Cardinality({r \in R : e \in {r.s, r.t}})]
                      ELSE en[e]]

----------------------------------------------------------------------------
(* Workers. *)

Init ==
  /\ mem = [n \in Namespaces |-> [body |-> "short", desc |-> "generic", domain |-> FALSE, live |-> TRUE]]
  /\ index = [n \in Namespaces |-> {"short", "generic"}]
  /\ ver = [n \in Namespaces |-> [body |-> "short", desc |-> "generic"]]
  /\ ent \in InitEntities
  /\ bound = {Home} \X {e \in Entities : Exists(e) /\ ent[e].type = "concept"}
  /\ rel = {} /\ seen = {}
  /\ worker = [w \in Workers |-> Idle] /\ calls = 0 /\ commands = 0 /\ lost = {}

\* The job singleton admits one run of the namespace at a time, so the workers at work
\* share its operation; the queue gives them different items.
Claim(w, op, min, key) ==
  /\ worker[w] = Idle /\ key \in Scan(op, min)
  /\ \A v \in Workers : worker[v] # Idle => worker[v].op = op /\ worker[v].key # key
  /\ op # "entity-connect" => calls < MaxCalls
  /\ calls' = IF op = "entity-connect" THEN calls ELSE calls + 1
  /\ worker' = [worker EXCEPT ![w] = [pc |-> "claimed", op |-> op, key |-> key]]
  /\ UNCHANGED <<db, commands>>

Ends(w) == worker' = [worker EXCEPT ![w] = Idle]
Asks(w, row) == worker' = [worker EXCEPT ![w] = [pc |-> "asked", op |-> @.op, key |-> @.key, row |-> row]]
\* The item is skipped or fails: nothing is written.
GivesUp(w) == Ends(w) /\ UNCHANGED <<db, calls, commands>>

\* Which item it is, or the error that it is gone.
ReadMemory(w) ==
  /\ worker[w].pc = "claimed" /\ worker[w].op \in MemoryOps
  /\ \/ \E n \in Lookup(worker[w].op) : Asks(w, [n |-> n, body |-> mem[n].body, desc |-> mem[n].desc])
     \/ Lookup(worker[w].op) = {} /\ Ends(w)
  /\ UNCHANGED <<db, calls, commands>>

\* A description needs evidence; a type, evidence or a description.
ReadEntity(w) ==
  /\ worker[w].pc = "claimed" /\ worker[w].op \in EntityOps
  /\ LET e == worker[w].key
         validates == worker[w].op = "entity-type-validate"
     IN  IF Exists(e) /\ (Sufficient(e) \/ (validates /\ ~IsEmptyDesc(e)))
         THEN \E rule \in IF validates THEN Rules ELSE {NoRule} :
                Asks(w, [sufficient |-> Sufficient(e), type |-> ent[e].type, rule |-> rule])
         ELSE Ends(w)
  /\ UNCHANGED <<db, calls, commands>>

ReadRelationship(w) ==
  /\ worker[w].pc = "claimed" /\ worker[w].op \in RelOps
  /\ IF \E r \in rel : r.id = worker[w].key THEN Asks(w, {}) ELSE Ends(w)
  /\ UNCHANGED <<db, calls, commands>>

ReadPair(w) ==
  /\ worker[w].pc = "claimed" /\ worker[w].op = "entity-connect"
  /\ LET p == worker[w].key
     IN  IF Exists(p[1]) /\ Exists(p[2]) /\ Open(p) THEN Asks(w, {}) ELSE Ends(w)
  /\ UNCHANGED <<db, calls, commands>>

\* The provider fails, the answer lacks a field that is needed, or the verdict that two
\* entities are not related is not recorded.
CallFails(w) == worker[w].pc = "asked" /\ GivesUp(w)

Asked(w, O) == worker[w].pc = "asked" /\ worker[w].op \in O

\* persist_memory_bindings, also of --body-extract-graph-only: entities, their bindings,
\* relationships between known entities, then the degrees of their ends.
PersistMemoryBindings(w, E, label, s, t, r) ==
  /\ Asked(w, {"memory-bindings", "augment-bindings", "body-extract-graph"})
  /\ RoomForRel
  /\ LET up == UpsertEntitiesPreservingType(E, label)
         R  == IF s # t /\ up[s] # NoEnt /\ up[t] # NoEnt THEN UpsertRelationship(s, t, r, TRUE) ELSE rel
     IN  /\ rel' = R
         /\ ent' = RecalculateDegree(up, R, IF R # rel THEN {s, t} ELSE {})
         /\ bound' = bound \cup ({worker[w].row.n} \X E)
  /\ Ends(w)
  /\ UNCHANGED <<mem, index, ver, seen, calls, commands>>

\* The same from deep-research-synth, which binds nothing and leaves the degrees alone.
DeepResearchSynth(w, E, label, s, t, r) ==
  /\ Asked(w, {"deep-research-synth"}) /\ RoomForRel
  /\ LET up == UpsertEntitiesPreservingType(E, label)
     IN  /\ ent' = up
         /\ rel' = IF s # t /\ up[s] # NoEnt /\ up[t] # NoEnt THEN UpsertRelationship(s, t, r, TRUE) ELSE rel
  /\ Ends(w)
  /\ UNCHANGED <<mem, index, ver, bound, seen, calls, commands>>

DomainClassify(w) ==
  /\ Asked(w, {"domain-classify"})
  /\ mem' = [mem EXCEPT ![worker[w].row.n].domain = TRUE]
  /\ Ends(w)
  /\ UNCHANGED <<index, ver, ent, bound, rel, seen, calls, commands>>

\* Only counts the issues of the answer.
GraphAudit(w) == Asked(w, {"graph-audit"}) /\ GivesUp(w)

\* Body-enrich reads the row again, and records a version before it updates.
RereadBody(w) ==
  /\ Asked(w, {"body-enrich"})
  /\ LET n == worker[w].row.n
     IN  /\ ver' = [ver EXCEPT ![n] = [body |-> "enriched", desc |-> mem[n].desc]]
         /\ worker' = [worker EXCEPT ![w].pc = "update", ![w].row = [n |-> n, body |-> mem[n].body, desc |-> mem[n].desc]]
  /\ UNCHANGED <<mem, index, ent, bound, rel, seen, calls, commands>>
\* memories::update writes the description it was given back, and spares a forgotten row.
UpdateBody(w) ==
  /\ worker[w].pc = "update"
  /\ LET row == worker[w].row
     IN  /\ mem' = IF mem[row.n].live THEN [mem EXCEPT ![row.n].body = "enriched", ![row.n].desc = row.desc] ELSE mem
         /\ worker' = [worker EXCEPT ![w] = [pc |-> "sync", op |-> @.op, key |-> @.key, n |-> row.n, old |-> row,
                                             new |-> [body |-> "enriched", desc |-> row.desc]]]
  /\ UNCHANGED <<index, ver, ent, bound, rel, seen, calls, commands>>
\* The other two write what they read before the call, whatever happened to the row.
UpdateDescription(w) ==
  /\ Asked(w, {"description-enrich"})
  /\ LET row == worker[w].row
     IN  /\ mem' = [mem EXCEPT ![row.n].desc = "described"]
         /\ worker' = [worker EXCEPT ![w] = [pc |-> "sync", op |-> @.op, key |-> @.key, n |-> row.n, old |-> row,
                                             new |-> [row EXCEPT !.desc = "described"]]]
  /\ UNCHANGED <<index, ver, ent, bound, rel, seen, calls, commands>>
BodyExtract(w) ==
  /\ Asked(w, {"body-extract"})
  /\ LET row == worker[w].row
     IN  /\ mem' = [mem EXCEPT ![row.n].body = "extracted"]
         /\ worker' = [worker EXCEPT ![w] = [pc |-> "sync", op |-> @.op, key |-> @.key, n |-> row.n, old |-> row,
                                             new |-> [row EXCEPT !.body = "extracted"]]]
  /\ UNCHANGED <<index, ver, ent, bound, rel, seen, calls, commands>>

\* sync_fts_after_update of a handler: two statements, each committed on its own.
TakeOut(w) ==
  /\ worker[w].pc = "sync"
  /\ index' = [index EXCEPT ![worker[w].n] = @ \ {worker[w].old.body, worker[w].old.desc}]
  /\ worker' = [worker EXCEPT ![w].pc = "insert"]
  /\ UNCHANGED <<mem, ver, ent, bound, rel, seen, calls, commands>>
\* Mutant: the fields that were read go back in.
PutOldIn(w) ==
  /\ worker[w].pc = "insert"
  /\ index' = [index EXCEPT ![worker[w].n] = @ \cup {worker[w].old.body, worker[w].old.desc}]
  /\ Ends(w)
  /\ UNCHANGED <<mem, ver, ent, bound, rel, seen, calls, commands>>
PutIn(w) ==
  /\ worker[w].pc = "insert"
  /\ index' = [index EXCEPT ![worker[w].n] = @ \cup {worker[w].new.body, worker[w].new.desc}]
  /\ Ends(w)
  /\ UNCHANGED <<mem, ver, ent, bound, rel, seen, calls, commands>>
\* A later statement fails (a busy database) or the process ends: what is committed stays.
WriteFails(w) == worker[w].pc \in {"update", "sync", "insert"} /\ GivesUp(w)

\* evaluate_grounding_adaptive accepts anything when there is too little evidence.
Accepted(draft, sufficient) == sufficient => draft # "ungrounded"
\* The draft that is kept: a filler gets a second try, judged like the first.
FinalDraft(d1, d2, sufficient) ==
  IF d1 \in {"declined", "empty"} \/ ~Accepted(d1, sufficient) THEN "none"
  ELSE IF d1 # "jargon" THEN d1
  ELSE IF d2 \notin {"declined", "empty", "jargon"} /\ Accepted(d2, sufficient) THEN d2 ELSE "none"

\* call_entity_description.  The UPDATE is by id; an entity deleted meanwhile stays deleted.
EntityDescription(w, d1, d2) ==
  /\ Asked(w, {"entity-descriptions", "force-redescribe"})
  /\ LET e == worker[w].key
         d == FinalDraft(d1, d2, worker[w].row.sufficient)
     IN  ent' = IF d # "none" /\ Exists(e) THEN [ent EXCEPT ![e].desc = d, ![e].noted = FALSE] ELSE ent
  /\ Ends(w)
  /\ UNCHANGED <<mem, index, ver, bound, rel, seen, calls, commands>>

\* EntityTypePolicy::nearest.
Nearest(allowed, label) ==
  IF Similar[allowed][label] # "none" THEN Similar[allowed][label]
  ELSE IF "concept" \in allowed THEN "concept" ELSE First[allowed]

\* call_entity_type_validate: the policy decides about a label outside the vocabulary;
\* the fallback appends a note to the description.
EntityTypeValidate(w, label) ==
  /\ Asked(w, {"entity-type-validate"})
  /\ LET e == worker[w].key
         policy  == worker[w].row.rule.policy
         allowed == worker[w].row.rule.allowed
         unknown == label \notin allowed
         written == IF unknown /\ policy = "fallback" THEN Nearest(allowed, label) ELSE label
     IN  ent' = IF label = worker[w].row.type \/ (unknown /\ policy = "strict") \/ ~Exists(e) THEN ent
                ELSE [ent EXCEPT ![e].type = written, ![e].noted = @ \/ (unknown /\ policy = "fallback")]
  /\ Ends(w)
  /\ UNCHANGED <<mem, index, ver, bound, rel, seen, calls, commands>>

WeightCalibrate(w, h) ==
  /\ Asked(w, {"weight-calibrate"})
  /\ rel' = {IF r.id = worker[w].key THEN [r EXCEPT !.high = h] ELSE r : r \in rel}
  /\ Ends(w)
  /\ UNCHANGED <<mem, index, ver, ent, bound, seen, calls, commands>>

\* UNIQUE(source_id, target_id, relation): the UPDATE fails when the pair has that relation.
RelationReclassify(w, r, h) ==
  /\ Asked(w, {"relation-reclassify"})
  /\ LET mine == {q \in rel : q.id = worker[w].key}
         clash == \E q \in mine, o \in rel : o.id # q.id /\ o.s = q.s /\ o.t = q.t /\ o.relation = r
     IN  rel' = IF clash THEN rel ELSE (rel \ mine) \cup {[q EXCEPT !.relation = r, !.high = h] : q \in mine}
  /\ Ends(w)
  /\ UNCHANGED <<mem, index, ver, ent, bound, seen, calls, commands>>

\* Mutant: only a relationship is remembered, not the verdict that there is none.
EntityConnectForgetful(w, verdict, recorded) ==
  /\ Asked(w, {"entity-connect"}) /\ RoomForRel
  /\ LET p == worker[w].key
         there == Exists(p[1]) /\ Exists(p[2])
     IN  /\ rel' = IF there /\ verdict # "none" THEN UpsertRelationship(p[1], p[2], verdict, TRUE) ELSE rel
         /\ seen' = IF there /\ verdict # "none" THEN seen \cup {p} ELSE seen
  /\ Ends(w)
  /\ UNCHANGED <<mem, index, ver, ent, bound, calls, commands>>
\* call_entity_connect: INSERT OR IGNORE, then the verdict, whose failure is ignored; foreign
\* keys refuse both for a deleted entity.  The degree of the two ends is left alone.
EntityConnect(w, verdict, recorded) ==
  /\ Asked(w, {"entity-connect"}) /\ RoomForRel
  /\ LET p == worker[w].key
         there == Exists(p[1]) /\ Exists(p[2])
         has == \E r \in rel : r.s = p[1] /\ r.t = p[2] /\ r.relation = verdict
     IN  /\ rel' = IF there /\ verdict # "none" /\ ~has THEN UpsertRelationship(p[1], p[2], verdict, TRUE) ELSE rel
         /\ seen' = IF there /\ recorded THEN seen \cup {p} ELSE seen
  /\ Ends(w)
  /\ UNCHANGED <<mem, index, ver, ent, bound, calls, commands>>

----------------------------------------------------------------------------
(* Commands of other processes. *)

Command(A) == A /\ commands < MaxCommands /\ commands' = commands + 1 /\ UNCHANGED <<worker, calls>>

\* edit, in one transaction: the row, a version, the index.
EditBody(n) ==
  /\ mem[n].live
  /\ mem' = [mem EXCEPT ![n].body = "edited"]
  /\ ver' = [ver EXCEPT ![n] = [body |-> "edited", desc |-> mem[n].desc]]
  /\ index' = [index EXCEPT ![n] = SyncFts(@, mem[n], mem'[n])]
  /\ UNCHANGED <<ent, bound, rel, seen>>
Forget(n) ==
  /\ mem[n].live /\ mem' = [mem EXCEPT ![n].live = FALSE]
  /\ UNCHANGED <<index, ver, ent, bound, rel, seen>>
\* restore of the last version.
Restore(n) ==
  /\ mem' = [mem EXCEPT ![n].live = TRUE, ![n].body = ver[n].body, ![n].desc = ver[n].desc]
  /\ index' = [index EXCEPT ![n] = SyncFts(@, mem[n], ver[n])]
  /\ UNCHANGED <<ver, ent, bound, rel, seen>>
\* delete-entity: the cascades, and the degrees of the neighbours.
DeleteEntity(e) ==
  /\ Exists(e)
  /\ rel' = rel \ Incident(e)
  /\ ent' = RecalculateDegree([ent EXCEPT ![e] = NoEnt], rel', UNION {{r.s, r.t} : r \in Incident(e)})
  /\ bound' = {b \in bound : b[2] # e} /\ seen' = {p \in seen : e \notin {p[1], p[2]}}
  /\ UNCHANGED <<mem, index, ver>>

----------------------------------------------------------------------------

Extracts(w) ==
  \E E \in SUBSET Entities, label \in {"concept", "gadget"}, s, t \in Entities, r \in {Generic, "uses"} :
    /\ s <= t /\ (s = t => s = 1 /\ r = Generic)     \* s = t: an answer without a relationship
    /\ E = {} => label = "concept"
    /\ PersistMemoryBindings(w, E, label, s, t, r) \/ DeepResearchSynth(w, E, label, s, t, r)
Answered(w) ==
  \/ Extracts(w) \/ DomainClassify(w) \/ GraphAudit(w)
  \/ RereadBody(w) \/ UpdateDescription(w) \/ BodyExtract(w)
  \/ \E d1, d2 \in Drafts : (d1 # "jargon" => d2 = "declined") /\ EntityDescription(w, d1, d2)
  \/ \E label \in Labels : EntityTypeValidate(w, label)
  \/ \E h \in BOOLEAN : WeightCalibrate(w, h) \/ \E r \in {Generic, "uses"} : RelationReclassify(w, r, h)
  \/ EntityConnect(w, "none", TRUE) \/ \E b \in BOOLEAN : EntityConnect(w, "uses", b)
Reads(w) == ReadMemory(w) \/ ReadEntity(w) \/ ReadRelationship(w) \/ ReadPair(w)
Writes(w) == UpdateBody(w) \/ TakeOut(w) \/ PutIn(w)

Commands ==
  \/ \E n \in Namespaces : Command(EditBody(n)) \/ Command(Forget(n)) \/ Command(Restore(n))
  \/ \E e \in Entities : Command(DeleteEntity(e))

ClaimPair(w) == \E p \in Scan("entity-connect", DefaultMinChars) : Claim(w, "entity-connect", DefaultMinChars, p)
ClaimItem(w, op) ==
  \E min \in IF op = "body-enrich" THEN MinChars ELSE {DefaultMinChars} : \E k \in Scan(op, min) : Claim(w, op, min, k)
Step ==
  \/ \E w \in Workers : \/ \E op \in Ops \ {"entity-connect"} : ClaimItem(w, op)
                        \/ ClaimPair(w) \/ Reads(w) \/ Answered(w) \/ CallFails(w) \/ Writes(w)
  \/ Commands

\* Between the UPDATE of a handler and the end of its index update a memory is half written.
\* Another writer then, or a failure, leaves text out of the index, until all of it is there again.
HalfWritten(w, n) == worker[w].pc \in {"sync", "insert"} /\ worker[w].n = n
Found(n) == {mem[n].body, mem[n].desc} \subseteq index[n]
Raced    == {n \in Namespaces : mem'[n] # mem[n] /\ \E w \in Workers : HalfWritten(w, n) /\ worker'[w] = worker[w]}
Tracked(cut) ==
  lost' = {n \in lost \cup Raced \cup cut : ~(Found(n)' /\ \A w \in Workers : ~HalfWritten(w, n)')}

Next == \/ Step /\ Tracked({})
        \/ \E w \in Workers : WriteFails(w) /\ Tracked({n \in Namespaces : HalfWritten(w, n)})

\* Repeated entity-connect runs whose calls do not fail for ever.
Spec == /\ Init /\ [][Next]_vars
        /\ \A w \in Workers : /\ WF_vars((Reads(w) \/ Writes(w)) /\ Tracked({}))
                              /\ SF_vars(Answered(w) /\ Tracked({})) /\ SF_vars(ClaimPair(w) /\ Tracked({}))

----------------------------------------------------------------------------
(* Properties. *)

\* A live memory is found by its body and its description, whatever commands and
\* answers of other workers came between reading it and writing the answer: the index
\* update may leave stale tokens but takes out no current ones.  Left out are memories
\* half written, and those that a race or a failure in between has left so.
LiveTextSearchable ==
  \A n \in Namespaces :
    mem[n].live /\ n \notin lost /\ (\A w \in Workers : ~HalfWritten(w, n)) => Found(n)

\* A generated description is grounded in the evidence: the verdict accepts anything
\* without evidence, so it rests on the check before the call, for both drafts.
DescribedIsGrounded ==
  \A e \in Entities : Exists(e) => ent[e].desc \notin {"ungrounded", "jargon"}

\* Extraction never changes a type somebody chose: only "concept" gives way, and only
\* entity-type-validate replaces another one.
TypesAreKept ==
  \A e \in Entities :
    Exists(e) /\ ent'[e] # NoEnt /\ ent[e].type # "concept" /\ ent'[e].type # ent[e].type =>
      \E w \in Workers : Asked(w, {"entity-type-validate"}) /\ worker[w].key = e

\* With fallback or strict, entity-type-validate writes labels of the vocabulary only.
RetypedInVocabulary ==
  \A w \in Workers : Asked(w, {"entity-type-validate"}) /\ worker[w].row.rule.policy # "keep" =>
    \A e \in Entities : ent'[e] # ent[e] /\ worker[w].pc # worker'[w].pc /\ ent'[e] # NoEnt /\ Exists(e) =>
      ent'[e].type = ent[e].type \/ ent'[e].type \in worker[w].row.rule.allowed

\* The backlog --status reports is the number of items a scan would enqueue that is given
\* no other length than the default; for entity-connect it is another measure (islands,
\* not pairs).
BacklogAgrees ==
  \A op \in {"memory-bindings", "body-enrich", "description-enrich", "weight-calibrate", "relation-reclassify"} \cup EntityOps :
    Backlog(op) = Cardinality(Scan(op, DefaultMinChars))

\* Entity-connect runs come to an end: in the long run no pair is offered, although hubs and
\* islands are taken from a degree cache that is stale after every new edge and a verdict may
\* go unrecorded.  It does not say that all islands are connected: judged ones keep their
\* place in the window, and pairs behind it are not offered.
ConnectConverges == <>[](CooccurringPairs \cup HubIslandPairs = {})
\* Whatever workers and commands do between the reads, the call and the statements of a
\* handler: live text is found by a search, descriptions are grounded, and the backlog
\* of --status is what the scans would enqueue by default.
OpsSound == OpsTypeOK /\ LiveTextSearchable /\ DescribedIsGrounded /\ BacklogAgrees

\* Types are changed by the operation that is asked to, and within its vocabulary.
VocabularyKept == [][TypesAreKept /\ RetypedInVocabulary]_vars
=============================================================================
