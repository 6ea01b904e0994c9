------------------------------ MODULE EntityGraph ------------------------------
(***************************************************************************)
(* Entities, relationships and their bindings to memories, in one          *)
(* namespace, under the commands that write them: remember, remember-batch,*)
(* split-body, link, unlink, delete-entity, merge-entities, rename-entity, *)
(* reclassify, reclassify-relation, normalize-entities, prune-relations,   *)
(* prune-ner, cleanup-orphans and purge.                                   *)
(*                                                                         *)
(* A command resolves names to ids before it takes the write lock; one     *)
(* step is the reads of a command or its IMMEDIATE transaction.  degree is *)
(* a stored copy of the number of relationships of an entity, and every    *)
(* command has to remember to recalculate it.                              *)
(***************************************************************************)
EXTENDS Integers, FiniteSets, Functions

CONSTANTS
  ENames, Norm,     \* entity names; their normal form (normalize_entity_name)
  Legacy,           \* a name an older release stored without normalising, or none
  Rels,             \* relations
  Mems, Procs,      \* memories; command invocations
  MaxEid, MaxCommands   \* bounds

ASSUME GraphConstants ==
  /\ Norm \in [ENames -> ENames] /\ \A n \in ENames : Norm[Norm[n]] = Norm[n]
  /\ Legacy \subseteq {n \in ENames : Norm[n] # n} /\ ENames # {}
  /\ MaxEid \in Nat \ {0} /\ MaxCommands \in Nat

VARIABLES
  g,        \* the tables: ents, edges, me (memory_entities), mr (memory_relationships), next;
            \* and row: what the row of relationships whose id a command read holds now
  procs,    \* running commands
  drift,    \* history: entities whose relationships a command changed without recalculating
  started   \* history: commands started

vars == <<g, procs, drift, started>>

Eids  == 1..MaxEid
NoEnt == [name |-> "none"]
Ent   == [name: ENames, degree: Nat]
Edge  == Eids \X Eids \X Rels
NoRow == <<>>
Pc    == {"idle", "unlink", "unlinkrow", "delete", "merge", "rename", "relabel", "normalize", "orphans"}

\* The entity, relationship, binding and provenance tables are of their kinds, and every
\* process is in some step of its command.
GraphTypeOK ==
  /\ g.ents \in [Eids -> Ent \cup {NoEnt}] /\ g.edges \subseteq Edge
  /\ g.me \subseteq Mems \X Eids /\ g.mr \subseteq Mems \X Edge
  /\ g.next \in 1..(MaxEid + 1) /\ g.row \in [Procs -> Edge \cup {NoRow}]
  /\ procs \in [Procs -> [pc: Pc, a: 0..MaxEid, b: 0..MaxEid, rel: Rels \cup {"none"}, name: ENames,
                          ids: SUBSET Eids]]
  /\ drift \subseteq Eids /\ started \in 0..MaxCommands

Idle == [pc |-> "idle", a |-> 0, b |-> 0, rel |-> "none",
         name |-> CHOOSE n \in ENames : TRUE, ids |-> {}]

\* A database may hold an entity that a release without normalisation stored.
Init ==
  /\ \E old \in Legacy \cup {"none"} :
       g = [ents |-> [i \in Eids |-> IF i = 1 /\ old # "none"
                                     THEN [name |-> old, degree |-> 0]
                                     ELSE NoEnt],
            edges |-> {}, me |-> {}, mr |-> {}, next |-> IF old = "none" THEN 1 ELSE 2,
            row |-> [p \in Procs |-> NoRow]]
  /\ procs = [p \in Procs |-> Idle]
  /\ drift = {} /\ started = 0

----------------------------------------------------------------------------
(* Statements, as operators from tables to tables. *)

Has(h, e)          == e \in Eids /\ h.ents[e] # NoEnt
EntitiesOf(h)      == {e \in Eids : Has(h, e)}
FindEntityId(h, n) == {e \in EntitiesOf(h) : h.ents[e].name = Norm[n]}
IdOf(h, n)         == CHOOSE e \in FindEntityId(h, n) : TRUE
Incident(h, e)     == {x \in h.edges : x[1] = e \/ x[2] = e}
Adjacent(h, e)     == {IF x[1] = e THEN x[2] ELSE x[1] : x \in Incident(h, e)}
Ends(E)            == {x[1] : x \in E} \cup {x[2] : x \in E}

\* upsert_entity and upsert_entity_preserving_type: one row per name (types are not modelled here).
UpsertEntity(h, n) ==
  IF FindEntityId(h, n) # {} THEN h
  ELSE [h EXCEPT !.ents[h.next] = [name |-> Norm[n], degree |-> 0], !.next = @ + 1]

\* upsert_relationship and create_or_fetch_relationship: UNIQUE(source, target, relation).
UpsertRelationship(h, x) == [h EXCEPT !.edges = @ \cup {x}]

\* Mutant: the degree is the number of neighbours.
RecalculateNeighbours(h, S) ==
  [h EXCEPT !.ents = [e \in Eids |-> IF e \in S /\ Has(h, e)
                                     THEN [h.ents[e] EXCEPT !.degree = Cardinality(Adjacent(h, e))]
                                     ELSE h.ents[e]]]
\* recalculate_degree, for every entity of S.
RecalculateDegree(h, S) ==
  [h EXCEPT !.ents = [e \in Eids |-> IF e \in S /\ Has(h, e)
                                     THEN [h.ents[e] EXCEPT !.degree = Cardinality(Incident(h, e))]
                                     ELSE h.ents[e]]]

\* memory_relationships goes with its relationship, by statement or by cascade.  Ids are
\* AUTOINCREMENT: a row that is gone does not come back under its id.
DeleteEdges(h, E) ==
  [h EXCEPT !.edges = @ \ E, !.mr = {x \in @ : x[2] \notin E},
            !.row = [p \in Procs |-> IF @[p] \in E THEN NoRow ELSE @[p]]]

\* Mutant: bindings are left to a cascade that is not declared.
DeleteEntitiesOnly(h, S) ==
  [DeleteEdges(h, UNION {Incident(h, e) : e \in S}) EXCEPT
     !.ents = [e \in Eids |-> IF e \in S THEN NoEnt ELSE @[e]]]
\* Deleting an entity cascades to its relationships and bindings.
DeleteEntities(h, S) ==
  LET h1 == DeleteEdges(h, UNION {Incident(h, e) : e \in S})
  IN  [h1 EXCEPT !.ents = [e \in Eids |-> IF e \in S THEN NoEnt ELSE @[e]],
                 !.me = {x \in @ : x[2] \notin S}]

\* UPDATE OR IGNORE ... SET column, then DELETE of what was ignored: an edge whose
\* new form exists already is dropped, with its bindings; the others keep their row.
MoveEdges(h, E, f) ==
  LET moved == {x \in E : f[x] \notin h.edges}
      rest  == h.edges \ E
  IN  [h EXCEPT !.edges = rest \cup {f[x] : x \in moved},
                !.mr = {x \in @ : x[2] \in rest} \cup
                       {<<x[1], f[x[2]]>> : x \in {y \in @ : y[2] \in moved}},
                !.row = [p \in Procs |-> IF @[p] \notin E THEN @[p]
                                         ELSE IF @[p] \in moved THEN f[@[p]] ELSE NoRow]]

Retarget(x, src, tgt, k) == [x EXCEPT ![k] = IF @ = src THEN tgt ELSE @]

\* Mutant: the bindings of the source go with its row.
MoveEntityUnbound(h, src, tgt) ==
  LET out == {x \in h.edges : x[1] = src}
      h1  == MoveEdges(h, out, [x \in out |-> Retarget(x, src, tgt, 1)])
      inn == {x \in h1.edges : x[2] = src}
      h2  == MoveEdges(h1, inn, [x \in inn |-> Retarget(x, src, tgt, 2)])
  IN  DeleteEntities(DeleteEdges(h2, {x \in h2.edges : x[1] = x[2]}), {src})
\* merge_entities: outgoing edges, incoming edges, self-loops anywhere, bindings, row.
MoveEntity(h, src, tgt) ==
  LET out == {x \in h.edges : x[1] = src}
      h1  == MoveEdges(h, out, [x \in out |-> Retarget(x, src, tgt, 1)])
      inn == {x \in h1.edges : x[2] = src}
      h2  == MoveEdges(h1, inn, [x \in inn |-> Retarget(x, src, tgt, 2)])
      h3  == DeleteEdges(h2, {x \in h2.edges : x[1] = x[2]})
      me1 == {<<x[1], IF x[2] = src THEN tgt ELSE x[2]>> : x \in h3.me}
  IN  DeleteEntities([h3 EXCEPT !.me = me1], {src})

----------------------------------------------------------------------------
Start(p)   == procs[p].pc = "idle" /\ started < MaxCommands /\ started' = started + 1
Goto(p, r) == procs' = [procs EXCEPT ![p] = r]
End(p)     == Goto(p, Idle)

\* A transaction ends; entities recalculated are exact again, those in stale may not be.
Commit(h, recalculated, stale) ==
  /\ g' = h
  /\ drift' = ((drift \ recalculated) \cup stale) \cap EntitiesOf(h)

\* A command without reads before its transaction.
OneTransaction(p, h, recalculated, stale) ==
  Start(p) /\ Commit(h, recalculated, stale) /\ UNCHANGED procs

\* A command whose reads have happened.
Finish(p, h, recalculated, stale) ==
  End(p) /\ Commit(h, recalculated, stale) /\ UNCHANGED started

\* A command reads ids before its transaction.
BeginWith(p, r) == Start(p) /\ Goto(p, r) /\ UNCHANGED <<g, drift>>

Room(k) == g.next + k - 1 \in Eids

----------------------------------------------------------------------------
(* Commands in one transaction *)

\* remember: declared entities are upserted and bound, the endpoints of relationships
\* upserted, the relationship attributed to the memory, degrees recalculated.
RememberGraph(p, m, n, k, r) ==
  /\ Room(2)
  /\ LET h1 == UpsertEntity(g, n)
         h2 == [h1 EXCEPT !.me = @ \cup {<<m, IdOf(h1, n)>>}]
         h3 == UpsertEntity(UpsertEntity(h2, n), k)
         x  == <<IdOf(h3, n), IdOf(h3, k), r>>
         h4 == [UpsertRelationship(h3, x) EXCEPT !.mr = @ \cup {<<m, x>>}]
         S  == {x[1], x[2]}
     IN  OneTransaction(p, RecalculateDegree(h4, S), S, {})

\* remember --replace-graph drops the bindings of the memory first, never the edges.
ClearMemoryGraphBindings(p, m) ==
  OneTransaction(p, [g EXCEPT !.me = {x \in @ : x[1] # m}, !.mr = {x \in @ : x[1] # m}], {}, {})

\* remember-batch: entities are bound, relationships between known entities created,
\* degrees left as they were.
BatchGraph(p, m, n, k, r) ==
  /\ Room(1)
  /\ LET h1 == UpsertEntity(g, n)
         h2 == [h1 EXCEPT !.me = @ \cup {<<m, IdOf(h1, n)>>}]
         x  == <<IdOf(h2, n), IdOf(h2, k), r>>
     IN  IF FindEntityId(h2, k) = {} THEN OneTransaction(p, h2, {}, {})
         ELSE OneTransaction(p, UpsertRelationship(h2, x), {},
                             IF x \in g.edges THEN {} ELSE {x[1], x[2]})

\* link finds both ends by their normalised names and, with --create-missing, inserts the missing.
ResolveEnds(h, n, k) ==
  LET Known(f, q) == IF FindEntityId(f, q) = {} THEN UpsertEntity(f, q) ELSE f
  IN  Known(Known(h, n), k)
\* link (--create-missing) and split-body's "replaces" edges: degrees only when created.
Link(p, n, k, r) ==
  /\ Norm[n] # Norm[k] /\ Room(2)
  /\ LET h1 == ResolveEnds(g, n, k)
         x  == <<IdOf(h1, n), IdOf(h1, k), r>>
         S  == {x[1], x[2]}
     IN  IF x \in g.edges THEN OneTransaction(p, h1, {}, {})
         ELSE OneTransaction(p, RecalculateDegree(UpsertRelationship(h1, x), S), S, {})

\* prune-relations reads and deletes inside its transaction.
PruneRelations(p, r) ==
  LET E == {x \in g.edges : x[3] = r}
  IN  OneTransaction(p, RecalculateDegree(DeleteEdges(g, E), Ends(E)), Ends(E), {})

\* prune-ner removes bindings; unlink --memory one of them.
PruneNer(p, S)        == OneTransaction(p, [g EXCEPT !.me = {x \in @ : x[2] \notin S}], {}, {})
UnlinkMemory(p, m, e) == OneTransaction(p, RecalculateDegree([g EXCEPT !.me = @ \ {<<m, e>>}], {e}), {e}, {})
\* purge of a memory cascades to its bindings.
PurgeMemory(p, m) == ClearMemoryGraphBindings(p, m)

----------------------------------------------------------------------------
(* Commands that read before their transaction *)

\* unlink of all between two entities, or (--entity --all) of all of one: by their ids.
UnlinkBegin(p, a, b) ==
  /\ Has(g, a) /\ Has(g, b)
  /\ BeginWith(p, [Idle EXCEPT !.pc = "unlink", !.a = a, !.b = b])

\* unlink of one relation: the id of its row is read too.
UnlinkRowBegin(p, a, b, r) ==
  /\ <<a, b, r>> \in g.edges
  /\ Start(p) /\ Goto(p, [Idle EXCEPT !.pc = "unlinkrow", !.a = a, !.b = b])
  /\ g' = [g EXCEPT !.row[p] = <<a, b, r>>] /\ UNCHANGED drift

\* The row is deleted by its id, whatever it joins by then; the degrees recalculated are
\* those of the two ends resolved before.
UnlinkOne(p) ==
  /\ procs[p].pc = "unlinkrow"
  /\ LET c == procs[p]
         S == {c.a, c.b}
         E == {g.row[p]} \cap g.edges
     IN  Finish(p, RecalculateDegree(DeleteEdges(g, E), S), S, Ends(E) \ S)

UnlinkPair(p) ==
  /\ procs[p].pc = "unlink"
  /\ LET c == procs[p] S == {c.a, c.b} IN
     Finish(p, RecalculateDegree(DeleteEdges(g, {x \in g.edges : x[1] = c.a /\ x[2] = c.b}), S), S, {})

\* Only the degree of the entity itself is recalculated, not those of its neighbours.
UnlinkAll(p) ==
  /\ procs[p].pc = "unlink"
  /\ LET c == procs[p] IN
     Finish(p, RecalculateDegree(DeleteEdges(g, Incident(g, c.a)), {c.a}), {c.a},
            Adjacent(g, c.a) \ {c.a})

DeleteEntityBegin(p, e) == Has(g, e) /\ BeginWith(p, [Idle EXCEPT !.pc = "delete", !.a = e])

\* The neighbours are read inside the transaction and recalculated after the delete.
DeleteEntity(p) ==
  /\ procs[p].pc = "delete"
  /\ LET e == procs[p].a IN
     Finish(p, RecalculateDegree(DeleteEntities(g, {e}), Adjacent(g, e)), Adjacent(g, e), {})

MergeBegin(p, a, b) ==
  /\ Has(g, a) /\ Has(g, b) /\ a # b
  /\ BeginWith(p, [Idle EXCEPT !.pc = "merge", !.a = a, !.b = b])

\* The edges of a deleted target cannot be moved there (foreign key): the transaction
\* fails, unless there is nothing to move.
MergeBlocked(c) ==
  /\ ~Has(g, c.b)
  /\ Incident(g, c.a) # {} \/ \E x \in g.me : x[2] = c.a

MergeFails(p) ==
  /\ procs[p].pc = "merge" /\ MergeBlocked(procs[p])
  /\ End(p) /\ UNCHANGED <<g, drift, started>>

\* Self-loops are deleted everywhere; only the target and its neighbours are recalculated.
MergeEntities(p) ==
  /\ procs[p].pc = "merge" /\ ~MergeBlocked(procs[p])
  /\ LET c == procs[p]
         h == MoveEntity(g, c.a, c.b)
         S == {c.b} \cup Adjacent(h, c.b)
     IN  Finish(p, RecalculateDegree(h, S), S, {x[1] : x \in {y \in g.edges : y[1] = y[2]}} \ S)

RenameEntityBegin(p, e, n) ==
  /\ Has(g, e) /\ g.ents[e].name # Norm[n] /\ FindEntityId(g, n) = {}
  /\ BeginWith(p, [Idle EXCEPT !.pc = "rename", !.a = e, !.name = n])

\* A name taken since the check violates UNIQUE; a deleted entity is no error.
RenameEntity(p) ==
  /\ procs[p].pc = "rename"
  /\ LET c == procs[p] IN
     Finish(p, IF Has(g, c.a) /\ FindEntityId(g, c.name) = {}
               THEN [g EXCEPT !.ents[c.a].name = Norm[c.name]] ELSE g, {}, {})

ReclassifyRelationBegin(p, a, b, r) ==
  /\ <<a, b, r>> \in g.edges
  /\ BeginWith(p, [Idle EXCEPT !.pc = "relabel", !.a = a, !.b = b, !.rel = r])

\* An edge whose new label exists is merged into it: no degree is recalculated.
ReclassifyRelation(p, r) ==
  /\ procs[p].pc = "relabel" /\ r # procs[p].rel
  /\ LET c == procs[p]
         E == {x \in g.edges : x = <<c.a, c.b, c.rel>>}
         h == MoveEdges(g, E, [x \in E |-> [x EXCEPT ![3] = r]])
     IN  Finish(p, h, {}, IF Cardinality(h.edges) = Cardinality(g.edges) THEN {} ELSE {c.a, c.b})

\* --batch relabels every edge of a relation, in one transaction.
ReclassifyRelationBatch(p, r, s) ==
  /\ r # s
  /\ LET E == {x \in g.edges : x[3] = r}
         h == MoveEdges(g, E, [x \in E |-> [x EXCEPT ![3] = s]])
     IN  OneTransaction(p, h, {}, Ends({x \in E : [x EXCEPT ![3] = s] \in g.edges}))

\* normalize-entities lists the rows to change before its transaction.
NormalizeBegin(p) ==
  /\ \E e \in EntitiesOf(g) : Norm[g.ents[e].name] # g.ents[e].name
  /\ BeginWith(p, [Idle EXCEPT !.pc = "normalize",
                     !.a = CHOOSE e \in EntitiesOf(g) : Norm[g.ents[e].name] # g.ents[e].name,
                     !.name = Norm[g.ents[CHOOSE e \in EntitiesOf(g) :
                                            Norm[g.ents[e].name] # g.ents[e].name].name]])

\* A row whose normal form exists is merged into it, recalculating only that entity.
NormalizeEntities(p) ==
  /\ procs[p].pc = "normalize"
  /\ LET src == procs[p].a
         tgt == FindEntityId(g, procs[p].name)
     IN  IF tgt \ {src} # {} /\ Has(g, src)
         THEN \E t \in tgt : Finish(p, RecalculateDegree(MoveEntity(g, src, t), {t}), {t},
                                    (Adjacent(g, src) \cup {x[1] : x \in {y \in g.edges : y[1] = y[2]}})
                                      \ {src, t})
         ELSE Finish(p, IF Has(g, src) THEN [g EXCEPT !.ents[src].name = procs[p].name] ELSE g, {}, {})

Orphans(h) == {e \in EntitiesOf(h) : Incident(h, e) = {} /\ ~\E x \in h.me : x[2] = e}

CleanupBegin(p) ==
  /\ Orphans(g) # {}
  /\ BeginWith(p, [Idle EXCEPT !.pc = "orphans", !.ids = Orphans(g)])

\* The list read before the transaction is deleted by id, whatever it is linked to now.
CleanupOrphans(p) ==
  /\ procs[p].pc = "orphans"
  /\ LET S == procs[p].ids IN
     Finish(p, DeleteEntities(g, S), {}, UNION {Adjacent(g, e) : e \in S})

----------------------------------------------------------------------------
Next ==
  \E p \in Procs :
    \/ \E m \in Mems, n, k \in Range(Norm), r \in Rels :
         RememberGraph(p, m, n, k, r) \/ BatchGraph(p, m, n, k, r)
    \/ \E n, k \in Range(Norm), r \in Rels : Link(p, n, k, r)
    \/ \E m \in Mems : PurgeMemory(p, m) \/ \E e \in EntitiesOf(g) : UnlinkMemory(p, m, e)
    \/ \E S \in {EntitiesOf(g)} \cup {{e} : e \in EntitiesOf(g)} : PruneNer(p, S)
    \/ \E r, s \in Rels : PruneRelations(p, r) \/ ReclassifyRelationBatch(p, r, s)
    \/ \E a, b \in EntitiesOf(g), r \in Rels : UnlinkRowBegin(p, a, b, r) \/ ReclassifyRelationBegin(p, a, b, r)
    \/ \E a, b \in EntitiesOf(g) : MergeBegin(p, a, b) \/ UnlinkBegin(p, a, b)
    \/ \E e \in EntitiesOf(g) : DeleteEntityBegin(p, e) \/ \E n \in Range(Norm) : RenameEntityBegin(p, e, n)
    \/ UnlinkOne(p) \/ UnlinkPair(p) \/ UnlinkAll(p) \/ DeleteEntity(p)
    \/ MergeEntities(p) \/ MergeFails(p) \/ RenameEntity(p)
    \/ \E r \in Rels : ReclassifyRelation(p, r)
    \/ NormalizeBegin(p) \/ NormalizeEntities(p) \/ CleanupBegin(p) \/ CleanupOrphans(p)

Spec == Init /\ [][Next]_vars

----------------------------------------------------------------------------
(* Properties *)

\* The stored degree is the number of relationships, for every entity but the ones a
\* command named here left behind: neighbours after unlink --all (unlink.rs:160-161),
\* the ends of a relationship that a merge or a normalisation moved between the read of its
\* id by unlink and the delete by that id (unlink.rs:203-213), duplicates merged by reclassify-relation, normalize-entities' neighbours, edges of
\* remember-batch, self-loops swept by a merge of other entities, and neighbours of an
\* entity that cleanup-orphans deleted although it was linked.
DegreeExact ==
  \A e \in EntitiesOf(g) \ drift : g.ents[e].degree = Cardinality(Incident(g, e))

\* Whatever commands interleave, a relationship or binding refers to entities that
\* exist, and a provenance row to a relationship that exists.
NoDanglingReference ==
  /\ Ends(g.edges) \cup {x[2] : x \in g.me} \subseteq EntitiesOf(g)
  /\ \A x \in g.mr : x[2] \in g.edges

\* No two entities share a name, so that find_entity_id is unambiguous: a rename or a
\* normalisation whose target name was taken after it was looked up renames nothing.
NamesUnique ==
  \A d, e \in EntitiesOf(g) : g.ents[d].name = g.ents[e].name => d = e

\* Merging loses no knowledge: what was related to a source or to the target by a relation
\* is related to the target by it afterwards, and bound memories stay bound.
MergeKeepsNeighbours ==
  \A p \in Procs :
    LET s == procs[p].a
        t == procs[p].b
    IN  procs[p].pc = "merge" /\ procs'[p] # procs[p] /\ Has(g, t) /\ Has(g, s) =>
          /\ \A x \in Incident(g, s) \cup Incident(g, t) :
               LET y == Retarget(Retarget(x, s, t, 1), s, t, 2)
               IN  y[1] # y[2] => y \in g'.edges
          /\ \A x \in g.me : x[2] = s => <<x[1], t>> \in g'.me

\* Relabelling loses no connection: entities joined before are joined afterwards.
RelabelKeepsPairs ==
  \A p \in Procs :
    procs[p].pc = "relabel" /\ procs'[p] # procs[p] =>
      {<<x[1], x[2]>> : x \in g'.edges} = {<<x[1], x[2]>> : x \in g.edges}
\* Whatever graph commands interleave, rows are of their kinds, no reference dangles and
\* a name stands for one entity, although ids are resolved before the transaction.
ReferencesHold == GraphTypeOK /\ NoDanglingReference /\ NamesUnique

\* merge-entities and reclassify-relation, which rewrite relationships, lose no connection.
NothingDisconnected == [][MergeKeepsNeighbours /\ RelabelKeepsPairs]_vars
=============================================================================
