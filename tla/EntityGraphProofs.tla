-------------------------- MODULE EntityGraphProofs --------------------------
(***************************************************************************)
(* Proofs about EntityGraph for every number of entities, relations,       *)
(* memories and processes: references hold whatever commands interleave,   *)
(* merging and relabelling disconnect nothing, and the stored degree is    *)
(* exact for every entity outside drift.                                   *)
(***************************************************************************)
EXTENDS EntityGraph, FiniteSetTheorems, TLAPS

-----------------------------------------------------------------------------
(* The invariant of the tables *)

Tables == [ents: [Eids -> Ent \cup {NoEnt}], edges: SUBSET Edge, me: SUBSET (Mems \X Eids),
           mr: SUBSET (Mems \X Edge), next: 1..(MaxEid + 1),
           row: [Procs -> Edge \cup {NoRow}]]

RefsHold(h) ==
  /\ \A x \in h.edges : x[1] \in EntitiesOf(h) /\ x[2] \in EntitiesOf(h)
  /\ \A x \in h.me : x[2] \in EntitiesOf(h)
  /\ \A x \in h.mr : x[2] \in h.edges

OneName(h) == \A d, e \in EntitiesOf(h) : h.ents[d].name = h.ents[e].name => d = e

\* AUTOINCREMENT: ids from next on have never been used.
Fresh(h) == \A e \in Eids : e >= h.next => h.ents[e] = NoEnt

Sound(h) == h \in Tables /\ IsFiniteSet(h.edges) /\ RefsHold(h) /\ OneName(h) /\ Fresh(h)

LEMMA Constants ==
  /\ MaxEid \in Nat /\ Eids \subseteq Nat /\ 1 \in Eids
  /\ \A n \in ENames : Norm[n] \in ENames /\ Norm[Norm[n]] = Norm[n]
  /\ Range(Norm) \subseteq ENames /\ \A n \in Range(Norm) : Norm[n] = n
BY GraphConstants DEF Eids, Range

LEMMA EntIsNotNoEnt == \A e \in Ent : e # NoEnt
BY DEF Ent, NoEnt

LEMMA EntityRow ==
  ASSUME NEW h \in Tables, NEW e \in EntitiesOf(h)
  PROVE  e \in Eids /\ h.ents[e] \in Ent
BY DEF EntitiesOf, Has, Tables

LEMMA EntityBelowNext ==
  ASSUME NEW h, Sound(h), NEW e \in EntitiesOf(h)
  PROVE  e \in Eids /\ e < h.next /\ h.next \in Nat
BY Constants DEF Sound, Fresh, EntitiesOf, Has, Tables

LEMMA FiniteIncident ==
  ASSUME NEW h, IsFiniteSet(h.edges), NEW e
  PROVE  IsFiniteSet(Incident(h, e)) /\ Cardinality(Incident(h, e)) \in Nat
<1>1. Incident(h, e) \in SUBSET h.edges
  BY DEF Incident
<1>2. IsFiniteSet(Incident(h, e))
  BY <1>1, FS_Subset
<1> QED BY <1>2, FS_CardinalityType

\* Between tables: e had its degree and as many relationships, or is new and has none.
Calm(h, k, e) ==
  IF Has(h, e) THEN /\ k.ents[e].degree = h.ents[e].degree
                    /\ Cardinality(Incident(k, e)) = Cardinality(Incident(h, e))
  ELSE k.ents[e].degree = 0 /\ Incident(k, e) = {}

\* From tables h to k, what Commit(k, S, T) needs for the degrees.
Settled(h, k, S, T) ==
  \A e \in EntitiesOf(k) \ T :
    IF e \in S THEN k.ents[e].degree = Cardinality(Incident(k, e)) ELSE Calm(h, k, e)

-----------------------------------------------------------------------------
(* Statements *)

\* k has the entities of h, and besides them only new ones without relationships.
Grows(h, k) ==
  /\ EntitiesOf(h) \subseteq EntitiesOf(k) /\ k.edges = h.edges /\ k.mr = h.mr
  /\ \A e \in EntitiesOf(h) : k.ents[e] = h.ents[e]
  /\ \A e \in EntitiesOf(k) \ EntitiesOf(h) : k.ents[e].degree = 0

LEMMA GrowsTransitive ==
  ASSUME NEW h, NEW k, NEW l, Grows(h, k), Grows(k, l)
  PROVE  Grows(h, l)
BY DEF Grows

LEMMA GrowsReflexive == \A h : Grows(h, h)
BY DEF Grows

LEMMA UpsertEntityStep ==
  ASSUME NEW h, Sound(h), NEW n \in ENames, h.next \in Eids \/ FindEntityId(h, n) # {}
  PROVE  LET k == UpsertEntity(h, n)
         IN  /\ Sound(k) /\ Grows(h, k) /\ k.me = h.me
             /\ FindEntityId(k, n) # {} /\ IdOf(k, n) \in EntitiesOf(k)
             /\ k.next = IF FindEntityId(h, n) # {} THEN h.next ELSE h.next + 1
<1> DEFINE k == UpsertEntity(h, n)
<1>0. ASSUME NEW t, FindEntityId(t, n) # {} PROVE IdOf(t, n) \in EntitiesOf(t)
  <2>1. IdOf(t, n) \in FindEntityId(t, n)
    BY <1>0 DEF IdOf
  <2> QED BY <2>1 DEF FindEntityId
<1>1. CASE FindEntityId(h, n) # {}
  <2>1. k = h
    BY <1>1 DEF UpsertEntity
  <2> QED BY <1>0, <1>1, <2>1, GrowsReflexive
<1>2. CASE FindEntityId(h, n) = {}
  <2> DEFINE i == h.next
             s == [name |-> Norm[n], degree |-> 0]
             ents == [h.ents EXCEPT ![i] = s]
  <2>0. i \in Eids /\ i \in Nat /\ h \in Tables /\ MaxEid \in Nat
    BY <1>2, Constants DEF Sound, Tables
  <2>1. k = [h EXCEPT !.ents = ents, !.next = i + 1]
    BY <1>2 DEF UpsertEntity
  <2>2. s \in Ent /\ s.name = Norm[n] /\ s.degree = 0
    BY Constants DEF Ent
  <2> HIDE DEF k, s
  <2>3. ents \in [Eids -> Ent \cup {NoEnt}] /\ ents[i] = s
        /\ \A e \in Eids \ {i} : ents[e] = h.ents[e]
    BY <2>0, <2>2 DEF Tables
  <2> HIDE DEF ents
  <2>4. i + 1 \in 1..(MaxEid + 1)
    BY <2>0 DEF Eids
  <2>5. /\ k \in Tables /\ k.ents = ents /\ k.edges = h.edges /\ k.me = h.me /\ k.mr = h.mr
        /\ k.next = i + 1
    BY <2>0, <2>1, <2>3, <2>4 DEF Tables
  <2>6. i \notin EntitiesOf(h) /\ EntitiesOf(k) = EntitiesOf(h) \cup {i}
    <3>1. h.ents[i] = NoEnt
      BY <2>0 DEF Sound, Fresh
    <3>2. s # NoEnt
      BY <2>2, EntIsNotNoEnt
    <3> QED BY <2>0, <2>3, <2>5, <3>1, <3>2 DEF EntitiesOf, Has
  <2>7. \A e \in EntitiesOf(h) : k.ents[e] = h.ents[e] /\ h.ents[e].name # Norm[n]
    BY <1>2, <2>3, <2>5, <2>6 DEF EntitiesOf, Has, FindEntityId
  <2>8. RefsHold(k)
    BY <2>5, <2>6 DEF Sound, RefsHold
  <2>9. OneName(k)
    BY <2>2, <2>3, <2>5, <2>6, <2>7 DEF Sound, OneName
  <2>10. Fresh(k)
    <3> SUFFICES ASSUME NEW e \in Eids, e >= k.next PROVE k.ents[e] = NoEnt
      BY DEF Fresh
    <3>1. e \in Nat /\ e # i /\ e >= i
      BY <2>0, <2>5, Constants
    <3> QED BY <2>3, <2>5, <3>1 DEF Sound, Fresh
  <2>11. Sound(k)
    BY <2>5, <2>8, <2>9, <2>10 DEF Sound
  <2>12. Grows(h, k)
    BY <2>2, <2>3, <2>5, <2>6, <2>7 DEF Grows
  <2>13. FindEntityId(k, n) # {}
    BY <2>2, <2>3, <2>5, <2>6 DEF FindEntityId
  <2> QED BY <1>0, <1>2, <2>5, <2>11, <2>12, <2>13 DEF k
<1> QED BY <1>1, <1>2
\* Statements on bindings alone.
LEMMA BindingStep ==
  ASSUME NEW h, Sound(h), NEW k \in Tables, k.ents = h.ents, k.edges = h.edges, k.next = h.next,
         k.mr \subseteq h.mr, \A x \in k.me : x[2] \in EntitiesOf(h)
  PROVE  /\ Sound(k) /\ EntitiesOf(k) = EntitiesOf(h) /\ Grows(h, [k EXCEPT !.mr = h.mr])
         /\ \A S : Settled(h, k, {}, S)
<1>1. EntitiesOf(k) = EntitiesOf(h)
  BY DEF EntitiesOf, Has
<1>2. Sound(k)
  BY <1>1 DEF Sound, RefsHold, OneName, Fresh
<1>3. Grows(h, [k EXCEPT !.mr = h.mr])
  <2> DEFINE l == [k EXCEPT !.mr = h.mr]
  <2>1. l.ents = h.ents /\ l.edges = h.edges /\ l.mr = h.mr
    BY DEF Tables
  <2> HIDE DEF l
  <2>2. EntitiesOf(l) = EntitiesOf(h)
    BY <2>1 DEF EntitiesOf, Has
  <2>3. Grows(h, l)
    BY <2>1, <2>2 DEF Grows
  <2> QED BY <2>3 DEF l
<1>4. \A e \in EntitiesOf(k) : Calm(h, k, e)
  BY <1>1 DEF Calm, EntitiesOf, Incident
<1>5. \A S : Settled(h, k, {}, S)
  BY <1>4 DEF Settled
<1> QED BY <1>1, <1>2, <1>3, <1>5

\* A relationship between entities that exist, with at most its own provenance row.
LEMMA EdgeStep ==
  ASSUME NEW h, Sound(h), NEW x \in Edge, x[1] \in EntitiesOf(h), x[2] \in EntitiesOf(h),
         NEW k \in Tables, k.ents = h.ents, k.edges = h.edges \cup {x}, k.next = h.next,
         k.me = h.me, \A y \in k.mr : y \in h.mr \/ y[2] = x
  PROVE  /\ Sound(k) /\ EntitiesOf(k) = EntitiesOf(h)
         /\ \A e : e \notin {x[1], x[2]} => Incident(k, e) = Incident(h, e)
<1>1. EntitiesOf(k) = EntitiesOf(h)
  BY DEF EntitiesOf, Has
<1>2. IsFiniteSet(k.edges)
  BY FS_AddElement DEF Sound
<1>3. RefsHold(k)
  BY <1>1 DEF Sound, RefsHold
<1>4. OneName(k) /\ Fresh(k)
  BY <1>1 DEF Sound, OneName, Fresh
<1>5. \A e : e \notin {x[1], x[2]} => Incident(k, e) = Incident(h, e)
  BY DEF Incident
<1> QED BY <1>1, <1>2, <1>3, <1>4, <1>5 DEF Sound

LEMMA UpsertRelationshipFields ==
  ASSUME NEW h \in Tables, NEW x \in Edge
  PROVE  LET k == UpsertRelationship(h, x)
         IN  /\ k \in Tables /\ k.ents = h.ents /\ k.edges = h.edges \cup {x} /\ k.next = h.next
             /\ k.me = h.me /\ k.mr = h.mr
BY DEF UpsertRelationship, Tables

\* recalculate_degree makes the entities of S exact and touches no other degree.
LEMMA RecalculateStep ==
  ASSUME NEW h, Sound(h), NEW S
  PROVE  LET k == RecalculateDegree(h, S)
         IN  /\ Sound(k) /\ EntitiesOf(k) = EntitiesOf(h) /\ k.edges = h.edges /\ k.me = h.me
             /\ \A e \in EntitiesOf(h) :
                  /\ k.ents[e].name = h.ents[e].name
                  /\ k.ents[e].degree = IF e \in S THEN Cardinality(Incident(k, e)) ELSE h.ents[e].degree
             /\ \A e : Incident(k, e) = Incident(h, e)
<1> DEFINE k == RecalculateDegree(h, S)
           row(e) == [h.ents[e] EXCEPT !.degree = Cardinality(Incident(h, e))]
           ents == [e \in Eids |-> IF e \in S /\ Has(h, e) THEN row(e) ELSE h.ents[e]]
<1>0. h \in Tables
  BY DEF Sound
<1>1. k = [h EXCEPT !.ents = ents]
  BY DEF RecalculateDegree
<1>2. ASSUME NEW e \in EntitiesOf(h)
      PROVE  /\ row(e) \in Ent /\ row(e).name = h.ents[e].name
             /\ row(e).degree = Cardinality(Incident(h, e))
  <2>1. h.ents[e] \in Ent
    BY <1>0, EntityRow
  <2>2. Cardinality(Incident(h, e)) \in Nat
    BY FiniteIncident DEF Sound
  <2> QED BY <2>1, <2>2 DEF Ent
<1>3. \A e \in Eids : Has(h, e) <=> e \in EntitiesOf(h)
  BY DEF EntitiesOf
<1> HIDE DEF k, row
<1>4. ents \in [Eids -> Ent \cup {NoEnt}]
  <2> SUFFICES ASSUME NEW e \in Eids
               PROVE  (IF e \in S /\ Has(h, e) THEN row(e) ELSE h.ents[e]) \in Ent \cup {NoEnt}
    OBVIOUS
  <2> QED BY <1>0, <1>2, <1>3 DEF Tables
<1>5. /\ \A e \in EntitiesOf(h) : ents[e] = IF e \in S THEN row(e) ELSE h.ents[e]
      /\ \A e \in Eids \ EntitiesOf(h) : ents[e] = NoEnt
  BY <1>3 DEF EntitiesOf, Has
<1> HIDE DEF ents
<1>6. /\ k \in Tables /\ k.ents = ents /\ k.edges = h.edges /\ k.me = h.me /\ k.mr = h.mr
      /\ k.next = h.next
  BY <1>0, <1>1, <1>4 DEF Tables
<1>7. EntitiesOf(k) = EntitiesOf(h)
  <2>1. \A e \in EntitiesOf(h) : e \in Eids /\ ents[e] # NoEnt
    BY <1>2, <1>5, EntIsNotNoEnt DEF EntitiesOf, Has
  <2> QED BY <1>5, <1>6, <2>1 DEF EntitiesOf, Has
<1>8. \A e : Incident(k, e) = Incident(h, e)
  BY <1>6 DEF Incident
<1>9. \A e \in EntitiesOf(h) :
        /\ k.ents[e].name = h.ents[e].name
        /\ k.ents[e].degree = IF e \in S THEN Cardinality(Incident(k, e)) ELSE h.ents[e].degree
  BY <1>2, <1>5, <1>6, <1>8
<1>10. RefsHold(k) /\ OneName(k)
  BY <1>6, <1>7, <1>9 DEF Sound, RefsHold, OneName
<1>11. Fresh(k)
  BY <1>5, <1>6 DEF Sound, Fresh, EntitiesOf, Has
<1>12. Sound(k)
  BY <1>6, <1>10, <1>11 DEF Sound
<1> QED BY <1>6, <1>7, <1>8, <1>9, <1>12 DEF k

\* A transaction that ends by recalculating the entities of S.
LEMMA RecalculateSettles ==
  ASSUME NEW h, NEW k, Sound(k), NEW S, NEW T, \A e \in EntitiesOf(k) \ (S \cup T) : Calm(h, k, e)
  PROVE  Sound(RecalculateDegree(k, S)) /\ Settled(h, RecalculateDegree(k, S), S, T)
<1> DEFINE l == RecalculateDegree(k, S)
<1>1. /\ Sound(l) /\ EntitiesOf(l) = EntitiesOf(k)
      /\ \A e \in EntitiesOf(k) :
           l.ents[e].degree = IF e \in S THEN Cardinality(Incident(l, e)) ELSE k.ents[e].degree
      /\ \A e : Incident(l, e) = Incident(k, e)
  BY RecalculateStep
<1> HIDE DEF l
<1>2. \A e \in EntitiesOf(k) \ (S \cup T) : Calm(h, l, e)
  BY <1>1 DEF Calm
<1>3. Settled(h, l, S, T)
  BY <1>1, <1>2 DEF Settled
<1> QED BY <1>1, <1>3 DEF l

LEMMA DeleteEdgesStep ==
  ASSUME NEW h, Sound(h), NEW E
  PROVE  LET k == DeleteEdges(h, E)
         IN  /\ Sound(k) /\ k.ents = h.ents /\ EntitiesOf(k) = EntitiesOf(h)
             /\ k.edges = h.edges \ E /\ k.me = h.me
<1> DEFINE k == DeleteEdges(h, E)
           row == [p \in Procs |-> IF h.row[p] \in E THEN NoRow ELSE h.row[p]]
<1>0. row \in [Procs -> Edge \cup {NoRow}]
  BY DEF Sound, Tables
<1>1. /\ k \in Tables /\ k.ents = h.ents /\ k.edges = h.edges \ E /\ k.me = h.me
      /\ k.mr = {x \in h.mr : x[2] \notin E} /\ k.next = h.next
  <2>1. k = [h EXCEPT !.edges = @ \ E, !.mr = {x \in @ : x[2] \notin E}, !.row = row]
    BY DEF DeleteEdges
  <2> HIDE DEF k, row
  <2> QED BY <1>0, <2>1 DEF Tables, Sound
<1> HIDE DEF k
<1>2. EntitiesOf(k) = EntitiesOf(h)
  BY <1>1 DEF EntitiesOf, Has
<1>3. IsFiniteSet(k.edges)
  <2>1. k.edges \in SUBSET h.edges
    BY <1>1
  <2> QED BY <2>1, FS_Subset DEF Sound
<1>4. RefsHold(k) /\ OneName(k) /\ Fresh(k)
  BY <1>1, <1>2 DEF Sound, RefsHold, OneName, Fresh
<1> QED BY <1>1, <1>2, <1>3, <1>4 DEF Sound, k

LEMMA DeleteEntitiesStep ==
  ASSUME NEW h, Sound(h), NEW S
  PROVE  LET k == DeleteEntities(h, S)
         IN  /\ Sound(k) /\ EntitiesOf(k) = EntitiesOf(h) \ S
             /\ \A e \in EntitiesOf(k) : k.ents[e] = h.ents[e]
             /\ k.edges = {x \in h.edges : x[1] \notin S /\ x[2] \notin S}
             /\ k.me = {x \in h.me : x[2] \notin S}
<1> DEFINE E  == UNION {Incident(h, e) : e \in S}
           h1 == DeleteEdges(h, E)
           k  == DeleteEntities(h, S)
           ents == [e \in Eids |-> IF e \in S THEN NoEnt ELSE h1.ents[e]]
<1>1. /\ Sound(h1) /\ h1.ents = h.ents /\ h1.edges = h.edges \ E /\ h1.me = h.me
  BY DeleteEdgesStep
<1>2. k = [h1 EXCEPT !.ents = ents, !.me = {x \in h1.me : x[2] \notin S}]
  BY DEF DeleteEntities
<1>3. h1.edges = {x \in h.edges : x[1] \notin S /\ x[2] \notin S}
  BY <1>1 DEF Incident
<1> HIDE DEF E, h1, k
<1>4. /\ ents \in [Eids -> Ent \cup {NoEnt}]
      /\ \A e \in Eids : ents[e] = IF e \in S THEN NoEnt ELSE h.ents[e]
  BY <1>1 DEF Sound, Tables
<1> HIDE DEF ents
<1>5. /\ k \in Tables /\ k.ents = ents /\ k.edges = h1.edges
      /\ k.me = {x \in h.me : x[2] \notin S} /\ k.mr = h1.mr /\ k.next = h1.next
  BY <1>1, <1>2, <1>4 DEF Sound, Tables
<1>6. EntitiesOf(k) = EntitiesOf(h) \ S /\ \A e \in EntitiesOf(k) : k.ents[e] = h.ents[e]
  BY <1>4, <1>5 DEF EntitiesOf, Has
<1>7. RefsHold(k)
  <2>1. \A x \in k.edges : x[1] \in EntitiesOf(k) /\ x[2] \in EntitiesOf(k)
    BY <1>3, <1>5, <1>6 DEF Sound, RefsHold
  <2>2. \A x \in k.me : x[2] \in EntitiesOf(k)
    BY <1>5, <1>6 DEF Sound, RefsHold
  <2>3. \A x \in k.mr : x[2] \in k.edges
    BY <1>1, <1>5 DEF Sound, RefsHold
  <2> QED BY <2>1, <2>2, <2>3 DEF RefsHold
<1>8. OneName(k)
  BY <1>6 DEF Sound, OneName
<1>9. Fresh(k)
  BY <1>1, <1>4, <1>5 DEF Sound, Fresh
<1> QED BY <1>1, <1>3, <1>5, <1>6, <1>7, <1>8, <1>9 DEF Sound, k
-----------------------------------------------------------------------------
(* Rewriting relationships *)

LEMMA TripleParts ==
  ASSUME NEW x \in Edge, NEW a
  PROVE  /\ x = <<x[1], x[2], x[3]>> /\ x[1] \in Eids /\ x[2] \in Eids /\ x[3] \in Rels
         /\ [x EXCEPT ![1] = a] = <<a, x[2], x[3]>>
         /\ [x EXCEPT ![2] = a] = <<x[1], a, x[3]>>
         /\ [x EXCEPT ![3] = a] = <<x[1], x[2], a>>
BY DEF Edge

\* The relationship x after entity s has been merged into t.
Merged(x, s, t) == Retarget(Retarget(x, s, t, 1), s, t, 2)

LEMMA RetargetParts ==
  ASSUME NEW x \in Edge, NEW s \in Eids, NEW t \in Eids
  PROVE  /\ Retarget(x, s, t, 1) = <<IF x[1] = s THEN t ELSE x[1], x[2], x[3]>>
         /\ Retarget(x, s, t, 2) = <<x[1], IF x[2] = s THEN t ELSE x[2], x[3]>>
         /\ Retarget(x, s, t, 1) \in Edge /\ Retarget(x, s, t, 2) \in Edge
         /\ Merged(x, s, t) = <<IF x[1] = s THEN t ELSE x[1], IF x[2] = s THEN t ELSE x[2], x[3]>>
         /\ Merged(x, s, t) \in Edge
<1>1. ASSUME NEW y \in Edge
      PROVE  /\ Retarget(y, s, t, 1) = <<IF y[1] = s THEN t ELSE y[1], y[2], y[3]>>
             /\ Retarget(y, s, t, 2) = <<y[1], IF y[2] = s THEN t ELSE y[2], y[3]>>
             /\ Retarget(y, s, t, 1) \in Edge /\ Retarget(y, s, t, 2) \in Edge
  BY DEF Retarget, Edge
<1>2. DEFINE z == Retarget(x, s, t, 1)
<1>3. z \in Edge /\ z = <<IF x[1] = s THEN t ELSE x[1], x[2], x[3]>>
  BY <1>1
<1>4. Merged(x, s, t) = Retarget(z, s, t, 2)
  BY DEF Merged
<1> HIDE DEF z
<1>5. /\ Retarget(z, s, t, 2) = <<z[1], IF z[2] = s THEN t ELSE z[2], z[3]>>
      /\ Retarget(z, s, t, 2) \in Edge
  BY <1>1, <1>3
<1>6. z[1] = (IF x[1] = s THEN t ELSE x[1]) /\ z[2] = x[2] /\ z[3] = x[3]
  BY <1>3
<1> QED BY <1>1, <1>4, <1>5, <1>6

\* The ends of a retargeted relationship.
LEMMA RetargetEnds ==
  ASSUME NEW x \in Edge, NEW s \in Eids, NEW t \in Eids
  PROVE  /\ Retarget(x, s, t, 1)[1] = (IF x[1] = s THEN t ELSE x[1])
         /\ Retarget(x, s, t, 1)[2] = x[2]
         /\ Retarget(x, s, t, 2)[1] = x[1]
         /\ Retarget(x, s, t, 2)[2] = (IF x[2] = s THEN t ELSE x[2])
         /\ Merged(x, s, t)[1] = (IF x[1] = s THEN t ELSE x[1])
         /\ Merged(x, s, t)[2] = (IF x[2] = s THEN t ELSE x[2])
         /\ (x[1] # s => Retarget(x, s, t, 1) = x)
         /\ (x[2] # s => Retarget(x, s, t, 2) = x)
         /\ (x[1] # s /\ x[2] # s => Merged(x, s, t) = x)
<1>1. x = <<x[1], x[2], x[3]>>
  BY TripleParts
<1>2. /\ Retarget(x, s, t, 1) = <<IF x[1] = s THEN t ELSE x[1], x[2], x[3]>>
      /\ Retarget(x, s, t, 2) = <<x[1], IF x[2] = s THEN t ELSE x[2], x[3]>>
      /\ Merged(x, s, t) = <<IF x[1] = s THEN t ELSE x[1], IF x[2] = s THEN t ELSE x[2], x[3]>>
  BY RetargetParts
<1> QED BY <1>1, <1>2

\* Moving the relationships of E along f, to relationships outside E between entities that exist.
LEMMA MoveEdgesStep ==
  ASSUME NEW h, Sound(h), NEW E \in SUBSET h.edges, NEW f \in [E -> Edge],
         \A x \in E : f[x] \notin E /\ f[x][1] \in EntitiesOf(h) /\ f[x][2] \in EntitiesOf(h)
  PROVE  LET k == MoveEdges(h, E, f)
         IN  /\ Sound(k) /\ k.ents = h.ents /\ EntitiesOf(k) = EntitiesOf(h) /\ k.me = h.me
             /\ k.edges = (h.edges \ E) \cup {f[x] : x \in E}
<1> DEFINE k     == MoveEdges(h, E, f)
           moved == {x \in E : f[x] \notin h.edges}
           rest  == h.edges \ E
           mr    == {x \in h.mr : x[2] \in rest} \cup
                    {<<x[1], f[x[2]]>> : x \in {y \in h.mr : y[2] \in moved}}
           edges == rest \cup {f[x] : x \in moved}
           row   == [p \in Procs |-> IF h.row[p] \notin E THEN h.row[p]
                                     ELSE IF h.row[p] \in moved THEN f[h.row[p]] ELSE NoRow]
<1>0. h \in Tables
  BY DEF Sound
<1>R. row \in [Procs -> Edge \cup {NoRow}]
  BY <1>0 DEF Tables
<1>1. k = [h EXCEPT !.edges = edges, !.mr = mr, !.row = row]
  BY DEF MoveEdges
<1>2. mr \subseteq Mems \X Edge /\ \A x \in mr : x[2] \in edges
  <2>1. ASSUME NEW x \in {y \in h.mr : y[2] \in moved}
        PROVE  <<x[1], f[x[2]]>> \in Mems \X Edge /\ <<x[1], f[x[2]]>>[2] \in edges
    <3>1. x \in Mems \X Edge /\ x[2] \in moved
      BY <1>0 DEF Tables
    <3> HIDE DEF moved
    <3>2. moved \subseteq E
      BY DEF moved
    <3> QED BY <3>1, <3>2
  <2>2. \A x \in {y \in h.mr : y[2] \in rest} : x \in Mems \X Edge /\ x[2] \in edges
    BY <1>0 DEF Tables
  <2> QED BY <2>1, <2>2
<1>3. edges = (h.edges \ E) \cup {f[x] : x \in E} /\ edges \subseteq Edge
  BY <1>0 DEF Tables
<1>4. IsFiniteSet(edges)
  <2> DEFINE T == {f[x] : x \in E}
  <2>1. IsFiniteSet(E) /\ IsFiniteSet(rest)
    BY FS_Subset DEF Sound
  <2>2. f \in Surjection(E, T)
    BY DEF Surjection
  <2> HIDE DEF T
  <2>3. IsFiniteSet(T)
    BY <2>1, <2>2, FS_Surjection
  <2> QED BY <1>3, <2>1, <2>3, FS_Union DEF T
<1> HIDE DEF k, mr, edges, row
<1>5. /\ k \in Tables /\ k.ents = h.ents /\ k.edges = edges /\ k.mr = mr /\ k.me = h.me
      /\ k.next = h.next
  BY <1>0, <1>R, <1>1, <1>2, <1>3 DEF Tables
<1>6. EntitiesOf(k) = EntitiesOf(h)
  BY <1>5 DEF EntitiesOf, Has
<1>7. RefsHold(k)
  BY <1>2, <1>3, <1>5, <1>6 DEF Sound, RefsHold
<1>8. OneName(k) /\ Fresh(k)
  BY <1>5, <1>6 DEF Sound, OneName, Fresh
<1> QED BY <1>3, <1>4, <1>5, <1>6, <1>7, <1>8 DEF Sound, k
\* merge_entities into an entity that exists, or of an entity with nothing to move: the row
\* goes, every relationship is retargeted at both ends, and self-loops are deleted.
LEMMA MoveEntityStep ==
  ASSUME NEW h, Sound(h), NEW s \in Eids, NEW t \in Eids, s # t,
         t \in EntitiesOf(h) \/ (Incident(h, s) = {} /\ ~\E x \in h.me : x[2] = s)
  PROVE  LET k == MoveEntity(h, s, t)
         IN  /\ Sound(k) /\ EntitiesOf(k) = EntitiesOf(h) \ {s}
             /\ \A e \in EntitiesOf(k) : k.ents[e] = h.ents[e]
             /\ \A y : y \in k.edges <=> \E x \in h.edges : y = Merged(x, s, t) /\ y[1] # y[2]
             /\ \A x \in h.me : x[2] = s => <<x[1], t>> \in k.me
<1> DEFINE out == {x \in h.edges : x[1] = s}
           f1  == [x \in out |-> Retarget(x, s, t, 1)]
           h1  == MoveEdges(h, out, f1)
           inn == {x \in h1.edges : x[2] = s}
           f2  == [x \in inn |-> Retarget(x, s, t, 2)]
           h2  == MoveEdges(h1, inn, f2)
           h3  == DeleteEdges(h2, {x \in h2.edges : x[1] = x[2]})
           me1 == {<<x[1], IF x[2] = s THEN t ELSE x[2]>> : x \in h3.me}
           h4  == [h3 EXCEPT !.me = me1]
           k   == MoveEntity(h, s, t)
<1>0. k = DeleteEntities(h4, {s})
  BY DEF MoveEntity
<1>E. \A x \in h.edges : x \in Edge
  BY DEF Sound, Tables
<1>1. /\ Sound(h1) /\ h1.ents = h.ents /\ EntitiesOf(h1) = EntitiesOf(h) /\ h1.me = h.me
      /\ h1.edges = (h.edges \ out) \cup {f1[x] : x \in out}
  <2>1. ASSUME NEW x \in out PROVE f1[x] \in Edge /\ f1[x][1] = t /\ f1[x][2] = x[2]
    <3>1. x \in Edge /\ x[1] = s /\ f1[x] = Retarget(x, s, t, 1)
      BY <1>E
    <3> HIDE DEF f1, out
    <3>2. Retarget(x, s, t, 1) \in Edge
      BY <3>1, RetargetParts
    <3> QED BY <3>1, <3>2, RetargetEnds
  <2>2. \A x \in out : t \in EntitiesOf(h) /\ x[2] \in EntitiesOf(h)
    BY DEF Incident, Sound, RefsHold
  <2>3. f1 \in [out -> Edge]
    BY <2>1
  <2>4. out \in SUBSET h.edges
    OBVIOUS
  <2>5. ASSUME NEW x \in out
        PROVE  f1[x] \notin out /\ f1[x][1] \in EntitiesOf(h) /\ f1[x][2] \in EntitiesOf(h)
    <3>1. f1[x][1] = t /\ f1[x][2] = x[2] /\ t \in EntitiesOf(h) /\ x[2] \in EntitiesOf(h)
      BY <2>1, <2>2
    <3>2. \A y \in out : y[1] = s
      OBVIOUS
    <3> HIDE DEF f1, out
    <3> QED BY <3>1, <3>2
  <2> HIDE DEF f1, out
  <2> QED BY ONLY Sound(h), <2>3, <2>4, <2>5, MoveEdgesStep DEF h1
<1>2. \A y : y \in h1.edges <=> \E x \in h.edges : y = Retarget(x, s, t, 1)
  <2>1. \A x \in h.edges : Retarget(x, s, t, 1) = IF x \in out THEN f1[x] ELSE x
    BY <1>E, RetargetEnds
  <2> QED BY <1>1, <2>1
<1> HIDE DEF h1, f1, out
<1>G. Sound(h1)
  BY <1>1
<1>F. \A x \in h1.edges : x \in Edge
  BY <1>1 DEF Sound, Tables
<1>3. /\ Sound(h2) /\ h2.ents = h.ents /\ EntitiesOf(h2) = EntitiesOf(h) /\ h2.me = h.me
      /\ h2.edges = (h1.edges \ inn) \cup {f2[x] : x \in inn}
  <2>1. ASSUME NEW x \in inn PROVE f2[x] \in Edge /\ f2[x][1] = x[1] /\ f2[x][2] = t
    <3>1. x \in Edge /\ x[2] = s /\ f2[x] = Retarget(x, s, t, 2)
      BY <1>F
    <3> HIDE DEF f2, inn
    <3>2. Retarget(x, s, t, 2) \in Edge
      BY <3>1, RetargetParts
    <3> QED BY <3>1, <3>2, RetargetEnds
  <2>2. \A x \in inn : t \in EntitiesOf(h1) /\ x[1] \in EntitiesOf(h1)
    <3> SUFFICES ASSUME NEW x \in inn PROVE t \in EntitiesOf(h1)
      BY <1>1 DEF Sound, RefsHold
    <3>1. PICK w \in h.edges : x = Retarget(w, s, t, 1)
      BY <1>2
    <3>2. w[2] = s
      BY <1>E, <3>1, RetargetEnds
    <3> QED BY <1>1, <3>2 DEF Incident
  <2>3. f2 \in [inn -> Edge]
    BY <2>1
  <2>4. inn \in SUBSET h1.edges
    OBVIOUS
  <2>5. ASSUME NEW x \in inn
        PROVE  f2[x] \notin inn /\ f2[x][1] \in EntitiesOf(h1) /\ f2[x][2] \in EntitiesOf(h1)
    <3>1. f2[x][1] = x[1] /\ f2[x][2] = t /\ t \in EntitiesOf(h1) /\ x[1] \in EntitiesOf(h1)
      BY <2>1, <2>2
    <3>2. \A y \in inn : y[2] = s
      OBVIOUS
    <3> HIDE DEF f2, inn
    <3> QED BY <3>1, <3>2
  <2> HIDE DEF f2, inn
  <2>6. /\ Sound(h2) /\ h2.ents = h1.ents /\ EntitiesOf(h2) = EntitiesOf(h1) /\ h2.me = h1.me
        /\ h2.edges = (h1.edges \ inn) \cup {f2[x] : x \in inn}
    <3> HIDE DEF h3, me1, h4, k
    <3>1. \A x \in inn : f2[x] \notin inn /\ f2[x][1] \in EntitiesOf(h1) /\ f2[x][2] \in EntitiesOf(h1)
      BY <2>5
    <3> QED BY ONLY <1>G, <2>3, <2>4, <3>1, MoveEdgesStep, ZenonT(60) DEF h2
  <2> QED BY <1>1, <2>6
<1>4. \A y : y \in h2.edges <=> \E x \in h.edges : y = Merged(x, s, t)
  <2>1. \A x \in h1.edges : Retarget(x, s, t, 2) = IF x \in inn THEN f2[x] ELSE x
    BY <1>F, RetargetEnds
  <2>2. \A y : y \in h2.edges <=> \E x \in h1.edges : y = Retarget(x, s, t, 2)
    BY <1>3, <2>1
  <2>3. \A x : Merged(x, s, t) = Retarget(Retarget(x, s, t, 1), s, t, 2)
    BY DEF Merged
  <2> QED BY <1>2, <2>2, <2>3
<1> HIDE DEF h2, f2, inn
<1>5. /\ Sound(h3) /\ h3.ents = h.ents /\ EntitiesOf(h3) = EntitiesOf(h) /\ h3.me = h.me
      /\ h3.edges = h2.edges \ {x \in h2.edges : x[1] = x[2]}
  BY <1>3, DeleteEdgesStep
<1> HIDE DEF h3
<1>6. ASSUME NEW x \in h.me
      PROVE  <<x[1], IF x[2] = s THEN t ELSE x[2]>> \in Mems \X Eids /\ x[2] \in EntitiesOf(h)
             /\ (x[2] = s => t \in EntitiesOf(h))
  BY DEF Sound, Tables, RefsHold
<1>7. /\ h4 \in Tables /\ h4.ents = h3.ents /\ h4.edges = h3.edges /\ h4.next = h3.next
      /\ h4.mr = h3.mr /\ h4.me = me1
  <2>1. me1 \subseteq Mems \X Eids
    BY <1>5, <1>6
  <2> HIDE DEF me1
  <2> QED BY <1>5, <2>1 DEF Sound, Tables
<1>8. \A x \in me1 : x[2] \in EntitiesOf(h3)
  BY <1>5, <1>6
<1>9. \A x \in h.me : x[2] = s => <<x[1], t>> \in me1
  BY <1>5
<1> HIDE DEF h4, me1
<1>10. Sound(h4) /\ EntitiesOf(h4) = EntitiesOf(h)
  BY <1>5, <1>7, <1>8, BindingStep
<1>11. /\ Sound(k) /\ EntitiesOf(k) = EntitiesOf(h4) \ {s}
       /\ \A e \in EntitiesOf(k) : k.ents[e] = h4.ents[e]
       /\ k.edges = {x \in h4.edges : x[1] \notin {s} /\ x[2] \notin {s}}
       /\ k.me = {x \in h4.me : x[2] \notin {s}}
  BY <1>0, <1>10, DeleteEntitiesStep
<1> HIDE DEF k
<1>12. \A y : y \in k.edges <=> \E x \in h.edges : y = Merged(x, s, t) /\ y[1] # y[2]
  <2>1. \A y \in h2.edges : y[1] # s /\ y[2] # s
    BY <1>4, <1>E, RetargetEnds
  <2>2. \A y : y \in k.edges <=> y \in h2.edges /\ y[1] # y[2]
    BY <1>5, <1>7, <1>11, <2>1
  <2> QED BY <1>4, <2>2
<1>13. \A x \in h.me : x[2] = s => <<x[1], t>> \in k.me
  <2> SUFFICES ASSUME NEW x \in h.me, x[2] = s PROVE <<x[1], t>> \in k.me
    OBVIOUS
  <2>1. <<x[1], t>> \in h4.me /\ <<x[1], t>>[2] = t
    BY <1>7, <1>9
  <2> QED BY <1>11, <2>1
<1>14. \A e \in EntitiesOf(k) : k.ents[e] = h.ents[e]
  BY <1>5, <1>7, <1>11
<1> QED BY <1>10, <1>11, <1>12, <1>13, <1>14 DEF k
-----------------------------------------------------------------------------
(* Commands in one transaction *)

\* What a transaction from tables h to k leaves: sound tables, and degrees that
\* are settled given the entities it recalculated (S) and those it left behind (T).
Leaves(h, k, S, T) == Sound(k) /\ Settled(h, k, S, T)

\* The stored degree of every entity outside D.
Exact(h, D) == \A e \in EntitiesOf(h) \ D : h.ents[e].degree = Cardinality(Incident(h, e))

LEMMA CommitStep ==
  ASSUME NEW h, NEW S, NEW T, Leaves(g, h, S, T), Exact(g, drift), Commit(h, S, T)
  PROVE  Sound(g') /\ Exact(g', drift') /\ drift' \subseteq Eids
<1>1. g' = h /\ drift' = ((drift \ S) \cup T) \cap EntitiesOf(h)
  BY DEF Commit
<1>2. ASSUME NEW e \in EntitiesOf(h), e \notin drift'
      PROVE  h.ents[e].degree = Cardinality(Incident(h, e))
  <2>1. e \notin T /\ (e \in S \/ e \notin drift)
    BY <1>1, <1>2
  <2>2. CASE e \in S
    BY <2>1, <2>2 DEF Leaves, Settled
  <2>3. CASE e \notin S
    <3>1. Calm(g, h, e)
      BY <2>1, <2>3 DEF Leaves, Settled
    <3>2. CASE Has(g, e)
      BY <2>1, <2>3, <3>1, <3>2 DEF Calm, Exact, EntitiesOf, Has
    <3>3. CASE ~Has(g, e)
      BY <3>1, <3>3, FS_EmptySet DEF Calm
    <3> QED BY <3>2, <3>3
  <2> QED BY <2>2, <2>3
<1> QED BY <1>1, <1>2 DEF Leaves, Exact, EntitiesOf

LEMMA HasIsEntity == \A h, e : Has(h, e) <=> e \in EntitiesOf(h)
BY DEF Has, EntitiesOf

LEMMA GrowsCalm ==
  ASSUME NEW h, Sound(h), NEW k, Grows(h, k), NEW e \in EntitiesOf(k)
  PROVE  Calm(h, k, e)
<1>1. Incident(k, e) = Incident(h, e)
  BY DEF Grows, Incident
<1>2. e \notin EntitiesOf(h) => Incident(h, e) = {}
  BY DEF Sound, RefsHold, Incident
<1> QED BY <1>1, <1>2, HasIsEntity DEF Calm, Grows

LEMMA KnownName ==
  ASSUME NEW h, NEW n, FindEntityId(h, n) # {}
  PROVE  /\ IdOf(h, n) \in EntitiesOf(h)
         /\ \A k : Grows(h, k) => FindEntityId(k, n) # {}
<1>1. IdOf(h, n) \in FindEntityId(h, n)
  BY DEF IdOf
<1> QED BY <1>1 DEF FindEntityId, Grows

\* An entity is upserted and bound to a memory.
LEMMA BindEntityStep ==
  ASSUME NEW h, Sound(h), NEW m \in Mems, NEW n \in ENames, h.next \in Eids
  PROVE  LET k == UpsertEntity(h, n)
             l == [k EXCEPT !.me = @ \cup {<<m, IdOf(k, n)>>}]
         IN  /\ Sound(l) /\ Grows(h, l) /\ FindEntityId(l, n) # {}
             /\ l.next = h.next \/ l.next = h.next + 1
<1> DEFINE k  == UpsertEntity(h, n)
           i  == IdOf(k, n)
           me == k.me \cup {<<m, i>>}
           l  == [k EXCEPT !.me = me]
<1>1. /\ Sound(k) /\ Grows(h, k) /\ k.me = h.me /\ FindEntityId(k, n) # {} /\ i \in EntitiesOf(k)
      /\ k.next = h.next \/ k.next = h.next + 1
  BY UpsertEntityStep
<1> HIDE DEF k, i
<1>2. me \subseteq Mems \X Eids /\ \A x \in me : x[2] \in EntitiesOf(k)
  BY <1>1, EntityRow DEF Sound, Tables, RefsHold
<1> HIDE DEF me
<1>3. /\ l \in Tables /\ l.ents = k.ents /\ l.edges = k.edges /\ l.next = k.next /\ l.mr = k.mr
      /\ l.me = me
  BY <1>1, <1>2 DEF Sound, Tables
<1> HIDE DEF l
<1>4. Sound(l) /\ EntitiesOf(l) = EntitiesOf(k)
  BY <1>1, <1>2, <1>3, BindingStep
<1>5. Grows(k, l)
  BY <1>3, <1>4 DEF Grows
<1>6. Grows(h, l)
  BY <1>1, <1>5, GrowsTransitive
<1>7. FindEntityId(l, n) # {}
  BY <1>1, <1>5, KnownName
<1>8. l = [k EXCEPT !.me = k.me \cup {<<m, i>>}]
  BY DEF l, me
<1> QED BY <1>1, <1>3, <1>4, <1>6, <1>7, <1>8 DEF k, i

LEMMA CalmFrom ==
  ASSUME NEW h, NEW k, NEW l, NEW e, Calm(h, k, e), l.ents[e] = k.ents[e],
         Incident(l, e) = Incident(k, e)
  PROVE  Calm(h, l, e)
BY DEF Calm

\* A relationship is created after entities and bindings, with its provenance, and the
\* degrees of both ends are recalculated or left behind.
LEMMA RelateStep ==
  ASSUME NEW h, Sound(h), NEW k, Sound(k), Grows(h, k), NEW x \in Edge,
         x[1] \in EntitiesOf(k), x[2] \in EntitiesOf(k),
         NEW l \in Tables, l.ents = k.ents, l.edges = k.edges \cup {x}, l.next = k.next, l.me = k.me,
         \A y \in l.mr : y \in k.mr \/ y[2] = x
  PROVE  /\ LET S == {x[1], x[2]} IN Leaves(h, RecalculateDegree(l, S), S, {})
         /\ Leaves(h, l, {}, IF x \in h.edges THEN {} ELSE {x[1], x[2]})
<1> DEFINE S == {x[1], x[2]}
<1>1. /\ Sound(l) /\ EntitiesOf(l) = EntitiesOf(k)
      /\ \A e : e \notin S => Incident(l, e) = Incident(k, e)
  BY EdgeStep
<1>2. \A e \in EntitiesOf(k) : Calm(h, k, e)
  BY GrowsCalm
<1>3. \A e \in EntitiesOf(l) \ S : Calm(h, l, e)
  BY <1>1, <1>2, CalmFrom
<1>4. x \in h.edges => \A e \in EntitiesOf(l) : Calm(h, l, e)
  <2>1. x \in h.edges => \A e : Incident(l, e) = Incident(k, e)
    BY DEF Grows, Incident
  <2> QED BY <1>1, <1>2, <2>1, CalmFrom
<1>5. Leaves(h, l, {}, IF x \in h.edges THEN {} ELSE S)
  BY <1>1, <1>3, <1>4 DEF Leaves, Settled
<1> HIDE DEF S
<1>6. Sound(RecalculateDegree(l, S)) /\ Settled(h, RecalculateDegree(l, S), S, {})
  BY <1>1, <1>3, RecalculateSettles
<1> QED BY <1>5, <1>6 DEF Leaves, S
LEMMA RoomForTwo ==
  ASSUME Sound(g), Room(2)
  PROVE  g.next \in Eids /\ g.next + 1 \in Eids
<1>1. g.next \in Nat /\ g.next >= 1 /\ MaxEid \in Nat
  BY Constants DEF Sound, Tables
<1>2. g.next + 2 - 1 \in 1..MaxEid
  BY DEF Room, Eids
<1> QED BY <1>1, <1>2 DEF Eids

LEMMA RememberGraphStep ==
  ASSUME Sound(g), Exact(g, drift), NEW p, NEW m \in Mems, NEW n \in ENames, NEW k \in ENames,
         NEW r \in Rels, RememberGraph(p, m, n, k, r)
  PROVE  Sound(g') /\ Exact(g', drift') /\ drift' \subseteq Eids
<1> DEFINE h1 == UpsertEntity(g, n)
           h2 == [h1 EXCEPT !.me = @ \cup {<<m, IdOf(h1, n)>>}]
           h2n == UpsertEntity(h2, n)
           h3 == UpsertEntity(h2n, k)
           x  == <<IdOf(h3, n), IdOf(h3, k), r>>
           h3x == UpsertRelationship(h3, x)
           mr == h3x.mr \cup {<<m, x>>}
           h4 == [h3x EXCEPT !.mr = mr]
           S  == {x[1], x[2]}
<1>0. g.next \in Eids /\ g.next + 1 \in Eids
  BY RoomForTwo DEF RememberGraph
<1>1. Commit(RecalculateDegree(h4, S), S, {})
  BY DEF RememberGraph, OneTransaction
<1>2. /\ Sound(h2) /\ Grows(g, h2) /\ FindEntityId(h2, n) # {}
      /\ h2.next = g.next \/ h2.next = g.next + 1
  BY <1>0, BindEntityStep
<1> HIDE DEF h2
<1>3. h2.next \in Eids
  BY <1>0, <1>2
<1>4. Sound(h2n) /\ Grows(h2, h2n) /\ FindEntityId(h2n, n) # {} /\ h2n.next = h2.next
  BY <1>2, <1>3, UpsertEntityStep
<1> HIDE DEF h2n
<1>5. Sound(h3) /\ Grows(h2n, h3) /\ FindEntityId(h3, k) # {}
  BY <1>3, <1>4, UpsertEntityStep
<1>6. FindEntityId(h3, n) # {}
  BY <1>4, <1>5, KnownName
<1> HIDE DEF h3
<1>7. Grows(g, h3)
  BY <1>2, <1>4, <1>5, GrowsTransitive
<1>8. IdOf(h3, n) \in EntitiesOf(h3) /\ IdOf(h3, k) \in EntitiesOf(h3)
  BY <1>5, <1>6, KnownName
<1>9. x \in Edge /\ x[1] \in EntitiesOf(h3) /\ x[2] \in EntitiesOf(h3)
  BY <1>8 DEF Edge, EntitiesOf
<1> HIDE DEF x
<1>10. /\ h3x \in Tables /\ h3x.ents = h3.ents /\ h3x.edges = h3.edges \cup {x} /\ h3x.next = h3.next
       /\ h3x.me = h3.me /\ h3x.mr = h3.mr
  BY <1>5, <1>9, UpsertRelationshipFields DEF Sound
<1> HIDE DEF h3x
<1>11. mr \subseteq Mems \X Edge /\ \A y \in mr : y \in h3.mr \/ y[2] = x
  BY <1>9, <1>10 DEF Tables
<1> HIDE DEF mr
<1>12. /\ h4 \in Tables /\ h4.ents = h3.ents /\ h4.edges = h3.edges \cup {x} /\ h4.next = h3.next
       /\ h4.me = h3.me /\ h4.mr = mr
  BY <1>10, <1>11 DEF Tables
<1> HIDE DEF h4
<1>13. Leaves(g, RecalculateDegree(h4, S), S, {})
  BY <1>5, <1>7, <1>9, <1>11, <1>12, RelateStep
<1> QED BY <1>1, <1>13, CommitStep

LEMMA BatchGraphStep ==
  ASSUME Sound(g), Exact(g, drift), NEW p, NEW m \in Mems, NEW n \in ENames, NEW k \in ENames,
         NEW r \in Rels, BatchGraph(p, m, n, k, r)
  PROVE  Sound(g') /\ Exact(g', drift') /\ drift' \subseteq Eids
<1> DEFINE h1 == UpsertEntity(g, n)
           h2 == [h1 EXCEPT !.me = @ \cup {<<m, IdOf(h1, n)>>}]
           x  == <<IdOf(h2, n), IdOf(h2, k), r>>
           h3 == UpsertRelationship(h2, x)
           T  == IF x \in g.edges THEN {} ELSE {x[1], x[2]}
<1>0. g.next \in Eids
  BY DEF BatchGraph, Room, Sound, Tables, Eids
<1>1. IF FindEntityId(h2, k) = {} THEN Commit(h2, {}, {}) ELSE Commit(h3, {}, T)
  BY DEF BatchGraph, OneTransaction
<1>2. Sound(h2) /\ Grows(g, h2) /\ FindEntityId(h2, n) # {}
  BY <1>0, BindEntityStep
<1> HIDE DEF h2
<1>3. CASE FindEntityId(h2, k) = {}
  <2>1. \A e \in EntitiesOf(h2) : Calm(g, h2, e)
    BY <1>2, GrowsCalm
  <2>2. Leaves(g, h2, {}, {})
    BY <1>2, <2>1 DEF Leaves, Settled
  <2> QED BY <1>1, <1>3, <2>2, CommitStep
<1>4. CASE FindEntityId(h2, k) # {}
  <2>1. IdOf(h2, n) \in EntitiesOf(h2) /\ IdOf(h2, k) \in EntitiesOf(h2)
    BY <1>2, <1>4, KnownName
  <2>2. x \in Edge /\ x[1] \in EntitiesOf(h2) /\ x[2] \in EntitiesOf(h2)
    BY <2>1 DEF Edge, EntitiesOf
  <2> HIDE DEF x
  <2>3. /\ h3 \in Tables /\ h3.ents = h2.ents /\ h3.edges = h2.edges \cup {x} /\ h3.next = h2.next
        /\ h3.me = h2.me /\ h3.mr = h2.mr
    BY <1>2, <2>2, UpsertRelationshipFields DEF Sound
  <2> HIDE DEF h3
  <2>4. Leaves(g, h3, {}, T)
    BY <1>2, <2>2, <2>3, RelateStep
  <2> QED BY <1>1, <1>4, <2>4, CommitStep
<1> QED BY <1>3, <1>4

LEMMA LinkStep ==
  ASSUME Sound(g), Exact(g, drift), NEW p, NEW n \in ENames, NEW k \in ENames,
         NEW r \in Rels, Link(p, n, k, r)
  PROVE  Sound(g') /\ Exact(g', drift') /\ drift' \subseteq Eids
<1> DEFINE h0 == UpsertEntity(g, n)
           h1 == UpsertEntity(h0, k)
           x  == <<IdOf(h1, n), IdOf(h1, k), r>>
           h2 == UpsertRelationship(h1, x)
           S  == {x[1], x[2]}
<1>0. g.next \in Eids /\ g.next + 1 \in Eids
  BY RoomForTwo DEF Link
<1>1. ResolveEnds(g, n, k) = h1
  BY DEF ResolveEnds, UpsertEntity
<1>2. IF x \in g.edges THEN Commit(h1, {}, {}) ELSE Commit(RecalculateDegree(h2, S), S, {})
  BY <1>1 DEF Link, OneTransaction
<1>3. /\ Sound(h0) /\ Grows(g, h0) /\ FindEntityId(h0, n) # {}
      /\ h0.next = g.next \/ h0.next = g.next + 1
  BY <1>0, UpsertEntityStep
<1> HIDE DEF h0
<1>4. h0.next \in Eids
  BY <1>0, <1>3
<1>5. Sound(h1) /\ Grows(h0, h1) /\ FindEntityId(h1, k) # {} /\ FindEntityId(h1, n) # {}
  BY <1>3, <1>4, UpsertEntityStep, KnownName
<1> HIDE DEF h1
<1>6. Grows(g, h1)
  BY <1>3, <1>5, GrowsTransitive
<1>7. IdOf(h1, n) \in EntitiesOf(h1) /\ IdOf(h1, k) \in EntitiesOf(h1)
  BY <1>5, KnownName
<1>8. x \in Edge /\ x[1] \in EntitiesOf(h1) /\ x[2] \in EntitiesOf(h1)
  BY <1>7 DEF Edge, EntitiesOf
<1> HIDE DEF x
<1>9. CASE x \in g.edges
  <2>1. \A e \in EntitiesOf(h1) : Calm(g, h1, e)
    BY <1>6, GrowsCalm
  <2>2. Leaves(g, h1, {}, {})
    BY <1>5, <2>1 DEF Leaves, Settled
  <2> QED BY <1>2, <1>9, <2>2, CommitStep
<1>10. CASE x \notin g.edges
  <2>1. /\ h2 \in Tables /\ h2.ents = h1.ents /\ h2.edges = h1.edges \cup {x} /\ h2.next = h1.next
        /\ h2.me = h1.me /\ h2.mr = h1.mr
    BY <1>5, <1>8, UpsertRelationshipFields DEF Sound
  <2> HIDE DEF h2
  <2>2. Leaves(g, RecalculateDegree(h2, S), S, {})
    BY <1>5, <1>6, <1>8, <2>1, RelateStep
  <2> QED BY <1>2, <1>10, <2>2, CommitStep
<1> QED BY <1>9, <1>10
LEMMA BindingCommand ==
  ASSUME Sound(g), Exact(g, drift), NEW k \in Tables, k.ents = g.ents, k.edges = g.edges,
         k.next = g.next, k.mr \subseteq g.mr, k.me \subseteq g.me, Commit(k, {}, {})
  PROVE  Sound(g') /\ Exact(g', drift') /\ drift' \subseteq Eids
<1>1. \A x \in k.me : x[2] \in EntitiesOf(g)
  BY DEF Sound, RefsHold
<1>2. Leaves(g, k, {}, {})
  BY <1>1, BindingStep DEF Leaves
<1> QED BY <1>2, CommitStep

LEMMA ClearMemoryGraphBindingsStep ==
  ASSUME Sound(g), Exact(g, drift), NEW p, NEW m, ClearMemoryGraphBindings(p, m)
  PROVE  Sound(g') /\ Exact(g', drift') /\ drift' \subseteq Eids
<1> DEFINE me == {x \in g.me : x[1] # m}
           mr == {x \in g.mr : x[1] # m}
           k  == [g EXCEPT !.me = me, !.mr = mr]
<1>1. Commit(k, {}, {})
  BY DEF ClearMemoryGraphBindings, OneTransaction
<1>2. me \subseteq g.me /\ mr \subseteq g.mr
  OBVIOUS
<1> HIDE DEF me, mr
<1>3. /\ k \in Tables /\ k.ents = g.ents /\ k.edges = g.edges /\ k.next = g.next
      /\ k.me \subseteq g.me /\ k.mr \subseteq g.mr
  BY <1>2 DEF Sound, Tables
<1> HIDE DEF k
<1> QED BY <1>1, <1>3, BindingCommand

LEMMA PruneNerStep ==
  ASSUME Sound(g), Exact(g, drift), NEW p, NEW S, PruneNer(p, S)
  PROVE  Sound(g') /\ Exact(g', drift') /\ drift' \subseteq Eids
<1> DEFINE me == {x \in g.me : x[2] \notin S}
           k  == [g EXCEPT !.me = me]
<1>1. Commit(k, {}, {})
  BY DEF PruneNer, OneTransaction
<1>2. me \subseteq g.me
  OBVIOUS
<1> HIDE DEF me
<1>3. /\ k \in Tables /\ k.ents = g.ents /\ k.edges = g.edges /\ k.next = g.next
      /\ k.me \subseteq g.me /\ k.mr \subseteq g.mr
  BY <1>2 DEF Sound, Tables
<1> HIDE DEF k
<1> QED BY <1>1, <1>3, BindingCommand

LEMMA UnlinkMemoryStep ==
  ASSUME Sound(g), Exact(g, drift), NEW p, NEW m, NEW e, UnlinkMemory(p, m, e)
  PROVE  Sound(g') /\ Exact(g', drift') /\ drift' \subseteq Eids
<1> DEFINE me == g.me \ {<<m, e>>}
           k  == [g EXCEPT !.me = me]
           S  == {e}
<1>1. Commit(RecalculateDegree(k, S), S, {})
  BY DEF UnlinkMemory, OneTransaction
<1>2. me \subseteq g.me
  OBVIOUS
<1> HIDE DEF me
<1>3. /\ k \in Tables /\ k.ents = g.ents /\ k.edges = g.edges /\ k.next = g.next
      /\ k.me \subseteq g.me /\ k.mr \subseteq g.mr
  BY <1>2 DEF Sound, Tables
<1> HIDE DEF k, S
<1>4. \A x \in k.me : x[2] \in EntitiesOf(g)
  BY <1>3 DEF Sound, RefsHold
<1>5. Sound(k) /\ EntitiesOf(k) = EntitiesOf(g) /\ Settled(g, k, {}, {})
  BY <1>3, <1>4, BindingStep
<1>6. \A d \in EntitiesOf(k) \ (S \cup {}) : Calm(g, k, d)
  BY <1>5 DEF Settled
<1>7. Leaves(g, RecalculateDegree(k, S), S, {})
  BY <1>5, <1>6, RecalculateSettles DEF Leaves
<1> QED BY <1>1, <1>7, CommitStep

\* Relationships are deleted, and their ends are recalculated or left behind.
LEMMA DeleteEdgesSettles ==
  ASSUME NEW h, Sound(h), NEW E, NEW S, NEW T,
         \A x \in h.edges : x \in E => x[1] \in S \cup T /\ x[2] \in S \cup T
  PROVE  Leaves(h, RecalculateDegree(DeleteEdges(h, E), S), S, T)
<1> DEFINE k == DeleteEdges(h, E)
<1>1. /\ Sound(k) /\ k.ents = h.ents /\ EntitiesOf(k) = EntitiesOf(h) /\ k.edges = h.edges \ E
  BY DeleteEdgesStep
<1> HIDE DEF k
<1>2. \A e : e \notin S \cup T => Incident(k, e) = Incident(h, e)
  BY <1>1 DEF Incident
<1>3. \A e \in EntitiesOf(k) \ (S \cup T) : Calm(h, k, e)
  BY <1>1, <1>2, HasIsEntity DEF Calm
<1>4. Leaves(h, RecalculateDegree(k, S), S, T)
  BY <1>1, <1>3, RecalculateSettles DEF Leaves
<1> QED BY <1>4 DEF k

LEMMA PruneRelationsStep ==
  ASSUME Sound(g), Exact(g, drift), NEW p, NEW r, PruneRelations(p, r)
  PROVE  Sound(g') /\ Exact(g', drift') /\ drift' \subseteq Eids
<1> DEFINE E == {x \in g.edges : x[3] = r}
           S == Ends(E)
<1>1. Commit(RecalculateDegree(DeleteEdges(g, E), S), S, {})
  BY DEF PruneRelations, OneTransaction
<1>2. \A x \in g.edges : x \in E => x[1] \in S \cup {} /\ x[2] \in S \cup {}
  BY DEF Ends
<1> HIDE DEF E, S
<1>3. Leaves(g, RecalculateDegree(DeleteEdges(g, E), S), S, {})
  BY <1>2, DeleteEdgesSettles
<1> QED BY <1>1, <1>3, CommitStep

-----------------------------------------------------------------------------
(* Commands that read before their transaction *)

LEMMA UnlinkStep ==
  ASSUME Sound(g), Exact(g, drift), NEW p, UnlinkOne(p) \/ UnlinkPair(p) \/ UnlinkAll(p)
  PROVE  Sound(g') /\ Exact(g', drift') /\ drift' \subseteq Eids
<1> DEFINE c == procs[p]
           S == {c.a, c.b}
<1>1. CASE UnlinkOne(p)
  <2> DEFINE E == {g.row[p]} \cap g.edges
             T == Ends(E) \ S
  <2>1. Commit(RecalculateDegree(DeleteEdges(g, E), S), S, T)
    BY <1>1 DEF UnlinkOne, Finish
  <2>2. \A x \in g.edges : x \in E => x[1] \in S \cup T /\ x[2] \in S \cup T
    BY DEF Ends
  <2> HIDE DEF E, S, T
  <2>3. Leaves(g, RecalculateDegree(DeleteEdges(g, E), S), S, T)
    BY <2>2, DeleteEdgesSettles
  <2> QED BY <2>1, <2>3, CommitStep
<1>2. CASE UnlinkPair(p)
  <2> DEFINE E == {x \in g.edges : x[1] = c.a /\ x[2] = c.b}
  <2>1. Commit(RecalculateDegree(DeleteEdges(g, E), S), S, {})
    BY <1>2 DEF UnlinkPair, Finish
  <2>2. \A x \in g.edges : x \in E => x[1] \in S \cup {} /\ x[2] \in S \cup {}
    OBVIOUS
  <2> HIDE DEF E, S
  <2>3. Leaves(g, RecalculateDegree(DeleteEdges(g, E), S), S, {})
    BY <2>2, DeleteEdgesSettles
  <2> QED BY <2>1, <2>3, CommitStep
<1>3. CASE UnlinkAll(p)
  <2> DEFINE E == Incident(g, c.a)
             O == {c.a}
             T == Adjacent(g, c.a) \ O
  <2>1. Commit(RecalculateDegree(DeleteEdges(g, E), O), O, T)
    BY <1>3 DEF UnlinkAll, Finish
  <2>2. \A x \in g.edges : x \in E => x[1] \in O \cup T /\ x[2] \in O \cup T
    BY DEF Adjacent, Incident
  <2> HIDE DEF E, O, T
  <2>3. Leaves(g, RecalculateDegree(DeleteEdges(g, E), O), O, T)
    BY <2>2, DeleteEdgesSettles
  <2> QED BY <2>1, <2>3, CommitStep
<1> QED BY <1>1, <1>2, <1>3

\* Entities are deleted: all that are adjacent to them, and only those, may lose relationships.
LEMMA DeleteEntitiesCalm ==
  ASSUME NEW h, Sound(h), NEW S, NEW e \in EntitiesOf(DeleteEntities(h, S)),
         \A d \in S : e \notin Adjacent(h, d)
  PROVE  Calm(h, DeleteEntities(h, S), e)
<1> DEFINE k == DeleteEntities(h, S)
<1>1. /\ EntitiesOf(k) = EntitiesOf(h) \ S /\ \A d \in EntitiesOf(k) : k.ents[d] = h.ents[d]
      /\ k.edges = {x \in h.edges : x[1] \notin S /\ x[2] \notin S}
  BY DeleteEntitiesStep
<1>2. e \in EntitiesOf(k)
  OBVIOUS
<1> HIDE DEF k
<1>3. ASSUME NEW x \in Incident(h, e) PROVE x[1] \notin S /\ x[2] \notin S
  BY <1>1, <1>2 DEF Adjacent, Incident
<1>4. Incident(k, e) = Incident(h, e)
  BY <1>1, <1>3 DEF Incident
<1>5. Calm(h, k, e)
  BY <1>1, <1>2, <1>4, HasIsEntity DEF Calm
<1> QED BY <1>5 DEF k

LEMMA DeleteEntityStep ==
  ASSUME Sound(g), Exact(g, drift), NEW p, DeleteEntity(p)
  PROVE  Sound(g') /\ Exact(g', drift') /\ drift' \subseteq Eids
<1> DEFINE e == procs[p].a
           k == DeleteEntities(g, {e})
           S == Adjacent(g, e)
<1>1. Commit(RecalculateDegree(k, S), S, {})
  BY DEF DeleteEntity, Finish
<1>2. Sound(k)
  BY DeleteEntitiesStep
<1>3. \A d \in EntitiesOf(k) \ (S \cup {}) : Calm(g, k, d)
  BY DeleteEntitiesCalm
<1> HIDE DEF k, S
<1>4. Leaves(g, RecalculateDegree(k, S), S, {})
  BY <1>2, <1>3, RecalculateSettles DEF Leaves
<1> QED BY <1>1, <1>4, CommitStep

LEMMA CleanupOrphansStep ==
  ASSUME Sound(g), Exact(g, drift), NEW p, CleanupOrphans(p)
  PROVE  Sound(g') /\ Exact(g', drift') /\ drift' \subseteq Eids
<1> DEFINE S == procs[p].ids
           k == DeleteEntities(g, S)
           T == UNION {Adjacent(g, e) : e \in S}
<1>1. Commit(k, {}, T)
  BY DEF CleanupOrphans, Finish
<1>2. Sound(k)
  BY DeleteEntitiesStep
<1>3. \A d \in EntitiesOf(k) \ T : Calm(g, k, d)
  BY DeleteEntitiesCalm
<1> HIDE DEF k, T
<1>4. Leaves(g, k, {}, T)
  BY <1>2, <1>3 DEF Leaves, Settled
<1> QED BY <1>1, <1>4, CommitStep
\* A row gets a name that no other row has.
LEMMA RenameRow ==
  ASSUME NEW h, Sound(h), NEW a \in EntitiesOf(h), NEW v \in ENames,
         \A e \in EntitiesOf(h) : h.ents[e].name = v => e = a
  PROVE  Leaves(h, [h EXCEPT !.ents[a].name = v], {}, {})
<1> DEFINE s == [h.ents[a] EXCEPT !.name = v]
           ents == [h.ents EXCEPT ![a] = s]
           k == [h EXCEPT !.ents[a].name = v]
<1>0. a \in Eids /\ h \in Tables /\ h.ents[a] \in Ent
  BY EntityRow DEF Sound
<1>1. k = [h EXCEPT !.ents = ents]
  OBVIOUS
<1>2. s \in Ent /\ s.name = v /\ s.degree = h.ents[a].degree
  BY <1>0 DEF Ent
<1> HIDE DEF k, s
<1>3. /\ ents \in [Eids -> Ent \cup {NoEnt}] /\ ents[a] = s
      /\ \A e \in Eids \ {a} : ents[e] = h.ents[e]
  BY <1>0, <1>2 DEF Tables
<1> HIDE DEF ents
<1>4. /\ k \in Tables /\ k.ents = ents /\ k.edges = h.edges /\ k.me = h.me /\ k.mr = h.mr
      /\ k.next = h.next
  BY <1>0, <1>1, <1>3 DEF Tables
<1>5. EntitiesOf(k) = EntitiesOf(h)
  BY <1>0, <1>2, <1>3, <1>4, EntIsNotNoEnt DEF EntitiesOf, Has
<1>6. RefsHold(k)
  BY <1>4, <1>5 DEF Sound, RefsHold
<1>7. OneName(k)
  BY <1>2, <1>3, <1>4, <1>5 DEF Sound, OneName, EntitiesOf
<1>8. Fresh(k)
  <2> SUFFICES ASSUME NEW e \in Eids, e >= k.next PROVE k.ents[e] = NoEnt
    BY DEF Fresh
  <2>1. h.ents[e] = NoEnt /\ e # a
    BY <1>0, <1>4, EntIsNotNoEnt DEF Sound, Fresh
  <2> QED BY <1>3, <1>4, <2>1
<1>9. \A e \in EntitiesOf(k) : Calm(h, k, e)
  <2>1. \A e \in EntitiesOf(h) : k.ents[e].degree = h.ents[e].degree
    BY <1>2, <1>3, <1>4 DEF EntitiesOf
  <2>2. \A e : Incident(k, e) = Incident(h, e)
    BY <1>4 DEF Incident
  <2> QED BY <1>5, <2>1, <2>2, HasIsEntity DEF Calm
<1>10. Leaves(h, k, {}, {})
  BY <1>4, <1>6, <1>7, <1>8, <1>9 DEF Leaves, Settled, Sound
<1> QED BY <1>10 DEF k

LEMMA SameTables == \A h : Sound(h) => Leaves(h, h, {}, {})
<1> SUFFICES ASSUME NEW h, Sound(h) PROVE Leaves(h, h, {}, {})
  OBVIOUS
<1>1. \A e \in EntitiesOf(h) : Calm(h, h, e)
  BY HasIsEntity DEF Calm
<1> QED BY <1>1 DEF Leaves, Settled

LEMMA RenameEntityStep ==
  ASSUME Sound(g), Exact(g, drift), NEW p, procs[p].name \in ENames, RenameEntity(p)
  PROVE  Sound(g') /\ Exact(g', drift') /\ drift' \subseteq Eids
<1> DEFINE c == procs[p]
           v == Norm[c.name]
           k == [g EXCEPT !.ents[c.a].name = v]
<1>1. Commit(IF Has(g, c.a) /\ FindEntityId(g, c.name) = {} THEN k ELSE g, {}, {})
  BY DEF RenameEntity, Finish
<1>2. v \in ENames
  BY Constants
<1>3. CASE Has(g, c.a) /\ FindEntityId(g, c.name) = {}
  <2>1. c.a \in EntitiesOf(g)
    BY <1>3, HasIsEntity
  <2>2. \A e \in EntitiesOf(g) : g.ents[e].name # v
    BY <1>3 DEF FindEntityId
  <2> HIDE DEF v, c
  <2>3. Leaves(g, k, {}, {})
    BY <1>2, <2>1, <2>2, RenameRow
  <2> QED BY <1>1, <1>3, <2>3, CommitStep DEF c, v
<1>4. CASE ~(Has(g, c.a) /\ FindEntityId(g, c.name) = {})
  BY <1>1, <1>4, SameTables, CommitStep
<1> QED BY <1>3, <1>4

\* Relationships of E, all of relation r, get relation s.
Relabelled(h, E, s) == MoveEdges(h, E, [x \in E |-> [x EXCEPT ![3] = s]])

LEMMA RelabelStep ==
  ASSUME NEW h, Sound(h), NEW r \in Rels, NEW s \in Rels, r # s, NEW E \in SUBSET h.edges,
         \A x \in E : x[3] = r
  PROVE  LET k == Relabelled(h, E, s)
             new(x) == <<x[1], x[2], s>>
         IN  /\ Sound(k) /\ EntitiesOf(k) = EntitiesOf(h) /\ k.ents = h.ents
             /\ \A x \in E : [x EXCEPT ![3] = s] = new(x) /\ new(x) \notin E
             /\ k.edges = (h.edges \ E) \cup {new(x) : x \in E}
             /\ {<<x[1], x[2]>> : x \in k.edges} = {<<x[1], x[2]>> : x \in h.edges}
<1> DEFINE new(x) == <<x[1], x[2], s>>
           f == [x \in E |-> [x EXCEPT ![3] = s]]
           k == Relabelled(h, E, s)
<1>1. \A x \in E : x \in Edge /\ [x EXCEPT ![3] = s] = new(x)
  BY TripleParts DEF Sound, Tables
<1>2. ASSUME NEW x \in E
      PROVE  /\ f[x] = new(x) /\ new(x) \in Edge /\ new(x)[3] = s /\ new(x)[1] = x[1]
             /\ new(x)[2] = x[2] /\ new(x) \notin E
             /\ x[1] \in EntitiesOf(h) /\ x[2] \in EntitiesOf(h)
  <2>1. x[1] \in EntitiesOf(h) /\ x[2] \in EntitiesOf(h)
    BY DEF Sound, RefsHold
  <2>2. x[1] \in Eids /\ x[2] \in Eids
    BY <2>1 DEF EntitiesOf
  <2>3. new(x) \in Edge
    BY <2>2 DEF Edge
  <2> QED BY <1>1, <2>1, <2>3
<1>3. f \in [E -> Edge]
  BY <1>1, <1>2
<1>4. \A x \in E : f[x] \notin E /\ f[x][1] \in EntitiesOf(h) /\ f[x][2] \in EntitiesOf(h)
  BY <1>2
<1> HIDE DEF f, new
<1>5. /\ Sound(k) /\ k.ents = h.ents /\ EntitiesOf(k) = EntitiesOf(h)
      /\ k.edges = (h.edges \ E) \cup {f[x] : x \in E}
  <2>1. E \in SUBSET h.edges
    OBVIOUS
  <2>2. k = MoveEdges(h, E, f)
    BY DEF Relabelled, f
  <2> HIDE DEF k
  <2> QED BY ONLY Sound(h), <1>3, <1>4, <2>1, <2>2, MoveEdgesStep
<1> HIDE DEF k
<1>6. k.edges = (h.edges \ E) \cup {new(x) : x \in E}
  BY <1>2, <1>5
<1>7. {<<x[1], x[2]>> : x \in k.edges} = {<<x[1], x[2]>> : x \in h.edges}
  <2>1. ASSUME NEW x \in k.edges
        PROVE  \E y \in h.edges : <<x[1], x[2]>> = <<y[1], y[2]>>
    BY <1>2, <1>6
  <2>2. ASSUME NEW x \in h.edges
        PROVE  \E y \in k.edges : <<x[1], x[2]>> = <<y[1], y[2]>>
    <3>1. CASE x \in E
      BY <1>2, <1>6, <3>1
    <3>2. CASE x \notin E
      BY <1>6, <3>2
    <3> QED BY <3>1, <3>2
  <2> QED BY <2>1, <2>2
<1> QED BY <1>1, <1>2, <1>5, <1>6, <1>7 DEF k, new
\* No relationship of e being merged into one that exists, e keeps as many as it had.
LEMMA RelabelCalm ==
  ASSUME NEW h, Sound(h), NEW r \in Rels, NEW s \in Rels, r # s, NEW E \in SUBSET h.edges,
         \A x \in E : x[3] = r,
         NEW e \in EntitiesOf(Relabelled(h, E, s)),
         \A x \in E : [x EXCEPT ![3] = s] \in h.edges => e # x[1] /\ e # x[2]
  PROVE  Calm(h, Relabelled(h, E, s), e)
<1> DEFINE k == Relabelled(h, E, s)
           new(x) == <<x[1], x[2], s>>
           A == Incident(h, e)
           B == Incident(k, e)
           f == [x \in A |-> IF x \in E THEN new(x) ELSE x]
<1>1. /\ Sound(k) /\ EntitiesOf(k) = EntitiesOf(h) /\ k.ents = h.ents
      /\ \A x \in E : [x EXCEPT ![3] = s] = new(x) /\ new(x) \notin E
      /\ k.edges = (h.edges \ E) \cup {new(x) : x \in E}
  BY RelabelStep
<1>2. e \in EntitiesOf(k)
  OBVIOUS
<1> HIDE DEF k
<1>3. \A x : new(x)[1] = x[1] /\ new(x)[2] = x[2] /\ new(x)[3] = s
  OBVIOUS
<1>4. \A x \in E : x[3] = r /\ x = <<x[1], x[2], x[3]>>
  BY TripleParts DEF Sound, Tables
<1>5. \A x, y \in E : new(x) = new(y) => x = y
  <2>1. ASSUME NEW x \in E, NEW y \in E, new(x) = new(y) PROVE x = y
    <3>1. x[1] = y[1] /\ x[2] = y[2] /\ x[3] = y[3]
      BY <1>3, <1>4, <2>1
    <3> HIDE DEF new
    <3> QED BY <1>4, <3>1
  <2> QED BY <2>1
<1>6. \A x \in A : x \in E => new(x) \notin h.edges
  BY <1>1 DEF Incident
<1>7. \A x \in A : x \in h.edges /\ (x[1] = e \/ x[2] = e)
  BY DEF Incident
<1>8. \A y : y \in B <=> y \in k.edges /\ (y[1] = e \/ y[2] = e)
  BY DEF Incident
<1>9. \A x : x \in h.edges /\ (x[1] = e \/ x[2] = e) => x \in A
  BY DEF Incident
<1>10. \A x \in A : f[x] = IF x \in E THEN new(x) ELSE x
  OBVIOUS
<1> HIDE DEF new
<1>11. f \in [A -> B]
  <2>1. ASSUME NEW x \in A PROVE (IF x \in E THEN new(x) ELSE x) \in B
    BY <1>1, <1>3, <1>7, <1>8
  <2> QED BY <2>1
<1> HIDE DEF A, B, f
<1>12. \A x, y \in A : f[x] = f[y] => x = y
  BY <1>5, <1>6, <1>7, <1>10
<1>13. \A y \in B : \E x \in A : f[x] = y
  <2> SUFFICES ASSUME NEW y \in B PROVE \E x \in A : f[x] = y
    OBVIOUS
  <2>1. CASE y \in h.edges \ E
    BY <1>8, <1>9, <1>10, <2>1
  <2>2. CASE \E x \in E : y = new(x)
    <3>1. PICK x \in E : y = new(x)
      BY <2>2
    <3>2. x \in A
      BY <1>3, <1>8, <1>9, <3>1
    <3> QED BY <1>10, <3>1, <3>2
  <2> QED BY <1>1, <1>8, <2>1, <2>2
<1>14. f \in Bijection(A, B)
  BY <1>11, <1>12, <1>13 DEF Bijection, Injection, Surjection, IsInjective
<1>15. IsFiniteSet(A)
  BY FiniteIncident DEF Sound, A
<1>16. Cardinality(B) = Cardinality(A)
  BY <1>14, <1>15, FS_Bijection DEF ExistsBijection
<1>17. Calm(h, k, e)
  BY <1>1, <1>2, <1>16, HasIsEntity DEF Calm, A, B
<1> QED BY <1>17 DEF k

LEMMA ReclassifyRelationBatchStep ==
  ASSUME Sound(g), Exact(g, drift), NEW p, NEW r \in Rels, NEW s \in Rels,
         ReclassifyRelationBatch(p, r, s)
  PROVE  Sound(g') /\ Exact(g', drift') /\ drift' \subseteq Eids
<1> DEFINE E == {x \in g.edges : x[3] = r}
           D == {x \in E : [x EXCEPT ![3] = s] \in g.edges}
           T == Ends(D)
           k == Relabelled(g, E, s)
<1>1. r # s /\ Commit(k, {}, T)
  BY DEF ReclassifyRelationBatch, OneTransaction, Relabelled
<1>2. E \in SUBSET g.edges /\ \A x \in E : x[3] = r
  OBVIOUS
<1>3. \A e : e \notin T => \A x \in E : [x EXCEPT ![3] = s] \in g.edges => e # x[1] /\ e # x[2]
  BY DEF Ends
<1> HIDE DEF E, D, T
<1>4. Sound(k)
  BY <1>1, <1>2, RelabelStep
<1>5. ASSUME NEW e \in EntitiesOf(k), e \notin T PROVE Calm(g, k, e)
  BY <1>1, <1>2, <1>3, <1>5, RelabelCalm
<1>6. Leaves(g, k, {}, T)
  BY <1>4, <1>5 DEF Leaves, Settled
<1> QED BY <1>1, <1>6, CommitStep

LEMMA ReclassifyRelationStep ==
  ASSUME Sound(g), Exact(g, drift), NEW p, procs[p].rel \in Rels, NEW r \in Rels,
         ReclassifyRelation(p, r)
  PROVE  Sound(g') /\ Exact(g', drift') /\ drift' \subseteq Eids
<1> DEFINE c == procs[p]
           E == {x \in g.edges : x = <<c.a, c.b, c.rel>>}
           k == Relabelled(g, E, r)
           T == IF Cardinality(k.edges) = Cardinality(g.edges) THEN {} ELSE {c.a, c.b}
<1>1. r # c.rel /\ Commit(k, {}, T)
  BY DEF ReclassifyRelation, Finish, Relabelled
<1>2. E \in SUBSET g.edges /\ \A x \in E : x[3] = c.rel /\ x[1] = c.a /\ x[2] = c.b
  OBVIOUS
<1>3. \A x, y \in E : x = y
  OBVIOUS
<1> HIDE DEF E, k, c
<1>4. /\ Sound(k) /\ k.edges = (g.edges \ E) \cup {<<x[1], x[2], r>> : x \in E}
      /\ \A x \in E : [x EXCEPT ![3] = r] = <<x[1], x[2], r>> /\ <<x[1], x[2], r>> \notin E
  BY <1>1, <1>2, RelabelStep DEF k, c
<1>5. ASSUME NEW x \in E, [x EXCEPT ![3] = r] \in g.edges
      PROVE  Cardinality(k.edges) # Cardinality(g.edges)
  <2>1. E = {x} /\ x \in g.edges
    BY <1>2, <1>3
  <2>2. k.edges = g.edges \ {x}
    <3> DEFINE y == <<x[1], x[2], r>>
    <3>1. y \in g.edges /\ y # x
      BY <1>4, <1>5, <2>1
    <3>2. k.edges = (g.edges \ {x}) \cup {y}
      BY <1>4, <2>1
    <3> HIDE DEF y
    <3> QED BY <3>1, <3>2
  <2>3. IsFiniteSet(g.edges) /\ Cardinality(g.edges) \in Nat
    BY FS_CardinalityType DEF Sound
  <2>4. Cardinality(k.edges) = Cardinality(g.edges) - 1
    <3>1. Cardinality(g.edges \ {x}) = IF x \in g.edges THEN Cardinality(g.edges) - 1
                                                        ELSE Cardinality(g.edges)
      BY ONLY <2>3, FS_RemoveElement
    <3> QED BY <2>1, <2>2, <3>1
  <2> QED BY <2>3, <2>4
<1>6. ASSUME NEW e \in EntitiesOf(k), e \notin T PROVE Calm(g, k, e)
  <2>1. \A x \in E : [x EXCEPT ![3] = r] \in g.edges => e # x[1] /\ e # x[2]
    BY <1>2, <1>5, <1>6
  <2>2. e \in EntitiesOf(Relabelled(g, E, r)) /\ c.rel \in Rels
    BY DEF k, c
  <2>3. Calm(g, Relabelled(g, E, r), e)
    BY <1>1, <1>2, <2>1, <2>2, RelabelCalm
  <2> QED BY <2>3 DEF k
<1>7. Leaves(g, k, {}, T)
  BY <1>4, <1>6 DEF Leaves, Settled
<1> QED BY <1>1, <1>7, CommitStep
\* Only the target, the neighbours of the source and the owners of self-loops lose or gain
\* relationships by a merge.
LEMMA MoveEntityCalm ==
  ASSUME NEW h, Sound(h), NEW s \in Eids, NEW t \in Eids, s # t,
         t \in EntitiesOf(h) \/ (Incident(h, s) = {} /\ ~\E x \in h.me : x[2] = s),
         NEW e \in EntitiesOf(MoveEntity(h, s, t)), e # t, e \notin Adjacent(h, s),
         \A x \in h.edges : x[1] = x[2] => e # x[1]
  PROVE  Calm(h, MoveEntity(h, s, t), e)
<1> DEFINE k == MoveEntity(h, s, t)
<1>1. /\ EntitiesOf(k) = EntitiesOf(h) \ {s}
      /\ \A d \in EntitiesOf(k) : k.ents[d] = h.ents[d]
      /\ \A y : y \in k.edges <=> \E x \in h.edges : y = Merged(x, s, t) /\ y[1] # y[2]
  BY MoveEntityStep
<1>2. e \in EntitiesOf(k)
  OBVIOUS
<1> HIDE DEF k
<1>3. \A x \in h.edges : x \in Edge
  BY DEF Sound, Tables
<1>4. ASSUME NEW x \in Incident(h, e) PROVE x \in k.edges
  <2>1. x \in h.edges /\ (x[1] = e \/ x[2] = e)
    BY DEF Incident
  <2>2. x[1] # s /\ x[2] # s
    BY <1>1, <1>2, <2>1 DEF Adjacent, Incident
  <2>3. Merged(x, s, t) = x
    BY <1>3, <2>1, <2>2, RetargetEnds
  <2> QED BY <1>1, <2>1, <2>3
<1>5. ASSUME NEW y \in k.edges, y[1] = e \/ y[2] = e PROVE y \in h.edges
  <2>1. PICK x \in h.edges : y = Merged(x, s, t)
    BY <1>1
  <2>2. /\ y[1] = (IF x[1] = s THEN t ELSE x[1]) /\ y[2] = (IF x[2] = s THEN t ELSE x[2])
        /\ (x[1] # s /\ x[2] # s => y = x)
    BY <1>3, <2>1, RetargetEnds
  <2>3. x[1] = e \/ x[2] = e
    BY <1>5, <2>2
  <2>4. x[1] # s /\ x[2] # s
    BY <1>1, <1>2, <2>3 DEF Adjacent, Incident
  <2> QED BY <2>2, <2>4
<1>6. Incident(k, e) = Incident(h, e)
  <2>1. ASSUME NEW x \in Incident(h, e) PROVE x \in Incident(k, e)
    BY <1>4 DEF Incident
  <2>2. ASSUME NEW x \in Incident(k, e) PROVE x \in Incident(h, e)
    BY <1>5 DEF Incident
  <2> QED BY <2>1, <2>2
<1>7. Calm(h, k, e)
  BY <1>1, <1>2, <1>6, HasIsEntity DEF Calm
<1> QED BY <1>7 DEF k

LEMMA MergeEntitiesStep ==
  ASSUME Sound(g), Exact(g, drift), NEW p, procs[p].a \in Eids, procs[p].b \in Eids,
         procs[p].a # procs[p].b, MergeEntities(p)
  PROVE  Sound(g') /\ Exact(g', drift') /\ drift' \subseteq Eids
<1> DEFINE a == procs[p].a
           b == procs[p].b
           k == MoveEntity(g, a, b)
           S == {b} \cup Adjacent(k, b)
           T == {x[1] : x \in {y \in g.edges : y[1] = y[2]}} \ S
<1>1. Commit(RecalculateDegree(k, S), S, T) /\ ~MergeBlocked(procs[p])
  BY DEF MergeEntities, Finish
<1>2. b \in EntitiesOf(g) \/ (Incident(g, a) = {} /\ ~\E x \in g.me : x[2] = a)
  BY <1>1, HasIsEntity DEF MergeBlocked
<1> HIDE DEF a, b
<1>3. a \in Eids /\ b \in Eids /\ a # b
  BY DEF a, b
<1>4. /\ Sound(k) /\ EntitiesOf(k) = EntitiesOf(g) \ {a}
      /\ \A y : y \in k.edges <=> \E x \in g.edges : y = Merged(x, a, b) /\ y[1] # y[2]
  BY <1>2, <1>3, MoveEntityStep
<1>5. ASSUME NEW e \in EntitiesOf(k), e \notin S \cup T PROVE Calm(g, k, e)
  <2>1. e # b /\ e # a /\ e \notin Adjacent(k, b)
    BY <1>4, <1>5
  <2>2. \A x \in g.edges : x[1] = x[2] => e # x[1]
    BY <1>5
  <2> HIDE DEF k
  <2>3. ASSUME e \in Adjacent(g, a) PROVE FALSE
    <3>1. PICK x \in g.edges : (x[1] = a /\ x[2] = e) \/ (x[1] = e /\ x[2] = a)
      BY <2>1, <2>3 DEF Adjacent, Incident
    <3> DEFINE y == Merged(x, a, b)
    <3>2. (y[1] = b /\ y[2] = e) \/ (y[1] = e /\ y[2] = b)
      <4>1. x \in Edge
        BY DEF Sound, Tables
      <4> QED BY <1>3, <2>1, <3>1, <4>1, RetargetEnds
    <3>3. y \in k.edges
      BY <1>4, <2>1, <3>2
    <3> HIDE DEF y
    <3> QED BY <2>1, <3>2, <3>3 DEF Adjacent, Incident
  <2> QED BY <1>2, <1>3, <2>1, <2>2, <2>3, MoveEntityCalm DEF k
<1> HIDE DEF k, S, T
<1>6. Leaves(g, RecalculateDegree(k, S), S, T)
  BY <1>4, <1>5, RecalculateSettles DEF Leaves
<1> QED BY <1>1, <1>6, CommitStep

LEMMA NormalizeEntitiesStep ==
  ASSUME Sound(g), Exact(g, drift), NEW p, procs[p].a \in Eids, procs[p].name \in ENames,
         Norm[procs[p].name] = procs[p].name, NormalizeEntities(p)
  PROVE  Sound(g') /\ Exact(g', drift') /\ drift' \subseteq Eids
<1> DEFINE s == procs[p].a
           v == procs[p].name
           tgt == FindEntityId(g, v)
           k == [g EXCEPT !.ents[s].name = v]
<1>1. CASE tgt \ {s} # {} /\ Has(g, s)
  <2> DEFINE loops == {x[1] : x \in {y \in g.edges : y[1] = y[2]}}
  <2>1. \E t \in tgt : Commit(RecalculateDegree(MoveEntity(g, s, t), {t}), {t},
                              (Adjacent(g, s) \cup loops) \ {s, t})
    BY <1>1 DEF NormalizeEntities, Finish
  <2>2. PICK t \in tgt : Commit(RecalculateDegree(MoveEntity(g, s, t), {t}), {t},
                                (Adjacent(g, s) \cup loops) \ {s, t})
    BY <2>1
  <2>3. t \in EntitiesOf(g) /\ t \in Eids /\ t # s
    <3>1. \A d, e \in tgt : d = e
      BY DEF FindEntityId, Sound, OneName
    <3> QED BY <1>1, <3>1 DEF FindEntityId, EntitiesOf
  <2> DEFINE l == MoveEntity(g, s, t)
             S == {t}
             T == (Adjacent(g, s) \cup loops) \ {s, t}
  <2>4. Sound(l) /\ EntitiesOf(l) = EntitiesOf(g) \ {s}
    BY <2>3, MoveEntityStep
  <2>5. ASSUME NEW e \in EntitiesOf(l), e \notin S \cup T PROVE Calm(g, l, e)
    <3>1. e # s /\ e # t
      BY <2>4, <2>5
    <3>2. e \notin Adjacent(g, s) /\ \A x \in g.edges : x[1] = x[2] => e # x[1]
      BY <2>5, <3>1
    <3> QED BY <2>3, <3>1, <3>2, MoveEntityCalm
  <2>6. Commit(RecalculateDegree(l, S), S, T)
    BY <2>2
  <2> HIDE DEF l, S, T
  <2>7. Leaves(g, RecalculateDegree(l, S), S, T)
    BY <2>4, <2>5, RecalculateSettles DEF Leaves
  <2> QED BY <2>6, <2>7, CommitStep
<1>2. CASE ~(tgt \ {s} # {} /\ Has(g, s))
  <2>1. Commit(IF Has(g, s) THEN k ELSE g, {}, {})
    BY <1>2 DEF NormalizeEntities, Finish
  <2>2. CASE Has(g, s)
    <3>1. s \in EntitiesOf(g) /\ tgt \ {s} = {}
      BY <1>2, <2>2, HasIsEntity
    <3>2. \A e \in EntitiesOf(g) : g.ents[e].name = v => e = s
      BY <3>1 DEF FindEntityId
    <3>3. v \in ENames
      OBVIOUS
    <3> HIDE DEF v, s
    <3>4. Leaves(g, k, {}, {})
      BY <3>1, <3>2, <3>3, RenameRow
    <3> QED BY <2>1, <2>2, <3>4, CommitStep DEF s, v
  <2>3. CASE ~Has(g, s)
    BY <2>1, <2>3, SameTables, CommitStep
  <2> QED BY <2>2, <2>3
<1> QED BY <1>1, <1>2
-----------------------------------------------------------------------------
(* The inductive invariant *)

\* What a running command remembers: ids that existed when it read them, two different
\* ones for a merge, and a normal form for normalize-entities.
Commands ==
  {c \in [pc: Pc, a: 0..MaxEid, b: 0..MaxEid, rel: Rels \cup {"none"}, name: ENames,
          ids: SUBSET Eids] :
     /\ c.pc \in {"merge", "normalize"} => c.a \in Eids
     /\ c.pc = "merge" => c.b \in Eids /\ c.a # c.b
     /\ c.pc = "relabel" => c.rel \in Rels
     /\ c.pc = "normalize" => Norm[c.name] = c.name}

GraphInv ==
  /\ Sound(g) /\ Exact(g, drift) /\ drift \subseteq Eids
  /\ procs \in [Procs -> Commands] /\ started \in 0..MaxCommands

LEMMA IdleCommand == Idle \in Commands /\ Idle.pc = "idle"
<1>1. (CHOOSE n \in ENames : TRUE) \in ENames
  BY GraphConstants
<1>2. 0 \in 0..MaxEid
  BY Constants
<1> QED BY <1>1, <1>2 DEF Idle, Commands, Pc

LEMMA InitInv == Init => GraphInv
<1> SUFFICES ASSUME Init PROVE GraphInv
  OBVIOUS
<1> USE DEF Init
<1>1. PICK old \in Legacy \cup {"none"} :
        g = [ents |-> [i \in Eids |-> IF i = 1 /\ old # "none"
                                      THEN [name |-> old, degree |-> 0] ELSE NoEnt],
             edges |-> {}, me |-> {}, mr |-> {}, next |-> IF old = "none" THEN 1 ELSE 2,
             row |-> [p \in Procs |-> NoRow]]
  OBVIOUS
<1> HIDE DEF Init
<1> DEFINE s == [name |-> old, degree |-> 0]
           ents == [i \in Eids |-> IF i = 1 /\ old # "none" THEN s ELSE NoEnt]
<1>2. old # "none" => s \in Ent /\ s.degree = 0
  BY GraphConstants DEF Ent
<1>3. /\ g.ents = ents /\ g.edges = {} /\ g.me = {} /\ g.mr = {}
      /\ g.next = IF old = "none" THEN 1 ELSE 2
  BY <1>1
<1>4. g.next \in 1..(MaxEid + 1) /\ MaxEid \in Nat /\ 1 \in Eids /\ Eids \subseteq Nat
  BY <1>3, GraphConstants, Constants
<1> HIDE DEF s
<1>5. /\ ents \in [Eids -> Ent \cup {NoEnt}]
      /\ \A e \in Eids : ents[e] = IF e = 1 /\ old # "none" THEN s ELSE NoEnt
  BY <1>2
<1>6. g \in Tables
  <2>1. g = [ents |-> ents, edges |-> {}, me |-> {}, mr |-> {}, next |-> g.next,
             row |-> [p \in Procs |-> NoRow]]
    BY <1>1, <1>3 DEF s
  <2> HIDE DEF ents
  <2> QED BY <1>4, <1>5, <2>1 DEF Tables
<1> HIDE DEF ents
<1>7. IsFiniteSet(g.edges)
  BY <1>3, FS_EmptySet
<1>8. RefsHold(g)
  BY <1>3 DEF RefsHold
<1>9. OneName(g)
  BY <1>3, <1>5 DEF OneName, EntitiesOf, Has
<1>10. Fresh(g)
  <2> SUFFICES ASSUME NEW e \in Eids, e >= g.next PROVE g.ents[e] = NoEnt
    BY DEF Fresh
  <2>1. e \in Nat
    BY <1>4
  <2>2. ~(e = 1 /\ old # "none")
    BY <1>3, <2>1
  <2> QED BY <1>3, <1>5, <2>2
<1>11. Exact(g, drift)
  <2>1. \A e : Incident(g, e) = {}
    BY <1>3 DEF Incident
  <2>2. \A e \in EntitiesOf(g) : g.ents[e].degree = 0
    BY <1>2, <1>3, <1>5 DEF EntitiesOf, Has
  <2> QED BY <2>1, <2>2, FS_EmptySet DEF Exact
<1>12. drift = {} /\ started = 0 /\ procs = [p \in Procs |-> Idle]
  BY DEF Init
<1>13. started \in 0..MaxCommands
  BY <1>12, GraphConstants
<1>14. procs \in [Procs -> Commands]
  BY <1>12, IdleCommand
<1> QED BY <1>6, <1>7, <1>8, <1>9, <1>10, <1>11, <1>12, <1>13, <1>14 DEF GraphInv, Sound

LEMMA GotoStep ==
  ASSUME procs \in [Procs -> Commands], NEW p \in Procs, NEW r \in Commands, Goto(p, r)
  PROVE  /\ procs' \in [Procs -> Commands]
         /\ \A q \in Procs : q # p => procs'[q] = procs[q]
BY DEF Goto

LEMMA StartStep ==
  ASSUME started \in 0..MaxCommands, NEW p, Start(p)
  PROVE  started' \in 0..MaxCommands
BY GraphConstants DEF Start

\* Every step is a command in one transaction, the reads of a command or its transaction.
OneStep(p) ==
  \/ \E m \in Mems, n, k \in ENames, r \in Rels :
       RememberGraph(p, m, n, k, r) \/ BatchGraph(p, m, n, k, r)
  \/ \E n, k \in ENames, r \in Rels : Link(p, n, k, r)
  \/ \E m : ClearMemoryGraphBindings(p, m) \/ \E e : UnlinkMemory(p, m, e)
  \/ \E S : PruneNer(p, S)
  \/ \E r, s \in Rels : PruneRelations(p, r) \/ ReclassifyRelationBatch(p, r, s)

Reads(p) ==
  \/ \E a, b \in EntitiesOf(g), r \in Rels : ReclassifyRelationBegin(p, a, b, r)
  \/ \E a, b \in EntitiesOf(g) : MergeBegin(p, a, b) \/ UnlinkBegin(p, a, b)
  \/ \E e \in EntitiesOf(g) : DeleteEntityBegin(p, e) \/ \E n \in ENames : RenameEntityBegin(p, e, n)
  \/ NormalizeBegin(p) \/ CleanupBegin(p)

ReadsRow(p) == \E a, b \in EntitiesOf(g), r \in Rels : UnlinkRowBegin(p, a, b, r)

Acts(p) ==
  \/ UnlinkOne(p) \/ UnlinkPair(p) \/ UnlinkAll(p) \/ DeleteEntity(p)
  \/ MergeEntities(p) \/ MergeFails(p) \/ RenameEntity(p)
  \/ \E r \in Rels : ReclassifyRelation(p, r)
  \/ NormalizeEntities(p) \/ CleanupOrphans(p)

LEMMA NextCases == Next => \E p \in Procs : OneStep(p) \/ Reads(p) \/ ReadsRow(p) \/ Acts(p)
<1>1. Range(Norm) \subseteq ENames
  BY Constants
<1> QED BY <1>1 DEF Next, OneStep, Reads, ReadsRow, Acts, PurgeMemory
\* A step of p runs what p has read: another process keeps its command.
LEMMA OneStepInv ==
  ASSUME GraphInv, NEW p \in Procs, OneStep(p)
  PROVE  GraphInv' /\ UNCHANGED procs
<1>1. Sound(g) /\ Exact(g, drift) /\ started \in 0..MaxCommands
  BY DEF GraphInv
<1> DEFINE Q == /\ Sound(g') /\ Exact(g', drift') /\ drift' \subseteq Eids /\ UNCHANGED procs
                /\ started' \in 0..MaxCommands
<1>2. ASSUME NEW h, NEW S, NEW T, OneTransaction(p, h, S, T)
      PROVE  UNCHANGED procs /\ started' \in 0..MaxCommands
  BY <1>1, <1>2, StartStep DEF OneTransaction
<1>3. ASSUME NEW m \in Mems, NEW n \in ENames, NEW k \in ENames, NEW r \in Rels,
             RememberGraph(p, m, n, k, r)
      PROVE  Q
  <2>1. UNCHANGED procs /\ started' \in 0..MaxCommands
    BY <1>2, <1>3 DEF RememberGraph
  <2> QED BY <1>1, <1>3, <2>1, RememberGraphStep
<1>4. ASSUME NEW m \in Mems, NEW n \in ENames, NEW k \in ENames, NEW r \in Rels,
             BatchGraph(p, m, n, k, r)
      PROVE  Q
  <2>1. UNCHANGED procs /\ started' \in 0..MaxCommands
    BY <1>2, <1>4 DEF BatchGraph
  <2> QED BY <1>1, <1>4, <2>1, BatchGraphStep
<1>5. ASSUME NEW n \in ENames, NEW k \in ENames, NEW r \in Rels, Link(p, n, k, r)
      PROVE  Q
  <2>1. UNCHANGED procs /\ started' \in 0..MaxCommands
    BY <1>2, <1>5 DEF Link
  <2> QED BY <1>1, <1>5, <2>1, LinkStep
<1>6. ASSUME NEW m, ClearMemoryGraphBindings(p, m) PROVE Q
  <2>1. UNCHANGED procs /\ started' \in 0..MaxCommands
    BY <1>2, <1>6 DEF ClearMemoryGraphBindings
  <2> QED BY <1>1, <1>6, <2>1, ClearMemoryGraphBindingsStep
<1>7. ASSUME NEW m, NEW e, UnlinkMemory(p, m, e) PROVE Q
  <2>1. UNCHANGED procs /\ started' \in 0..MaxCommands
    BY <1>2, <1>7 DEF UnlinkMemory
  <2> QED BY <1>1, <1>7, <2>1, UnlinkMemoryStep
<1>8. ASSUME NEW S, PruneNer(p, S) PROVE Q
  <2>1. UNCHANGED procs /\ started' \in 0..MaxCommands
    BY <1>2, <1>8 DEF PruneNer
  <2> QED BY <1>1, <1>8, <2>1, PruneNerStep
<1>9. ASSUME NEW r \in Rels, PruneRelations(p, r) PROVE Q
  <2>1. UNCHANGED procs /\ started' \in 0..MaxCommands
    BY <1>2, <1>9 DEF PruneRelations
  <2> QED BY <1>1, <1>9, <2>1, PruneRelationsStep
<1>10. ASSUME NEW r \in Rels, NEW s \in Rels, ReclassifyRelationBatch(p, r, s) PROVE Q
  <2>1. UNCHANGED procs /\ started' \in 0..MaxCommands
    BY <1>2, <1>10 DEF ReclassifyRelationBatch
  <2> QED BY <1>1, <1>10, <2>1, ReclassifyRelationBatchStep
<1> HIDE DEF Q
<1>11. Q
  BY <1>3, <1>4, <1>5, <1>6, <1>7, <1>8, <1>9, <1>10 DEF OneStep
<1> QED BY <1>11 DEF Q, GraphInv

LEMMA ReadsInv ==
  ASSUME GraphInv, NEW p \in Procs, Reads(p)
  PROVE  GraphInv' /\ UNCHANGED g /\ procs[p].pc = "idle"
         /\ \A q \in Procs : q # p => procs'[q] = procs[q]
<1>1. procs \in [Procs -> Commands] /\ started \in 0..MaxCommands /\ Sound(g)
  BY DEF GraphInv
<1> DEFINE Q == \E r \in Commands : BeginWith(p, r)
<1>2. \A e \in EntitiesOf(g) : /\ e \in Eids /\ e \in 0..MaxEid /\ g.ents[e].name \in ENames
                               /\ Norm[g.ents[e].name] \in ENames
                               /\ Norm[Norm[g.ents[e].name]] = Norm[g.ents[e].name]
  <2> SUFFICES ASSUME NEW e \in EntitiesOf(g)
               PROVE  e \in Eids /\ e \in 0..MaxEid /\ g.ents[e].name \in ENames
    BY Constants
  <2>1. e \in Eids /\ g.ents[e] \in Ent
    BY <1>1, EntityRow DEF Sound
  <2> QED BY <2>1, Constants DEF Eids, Ent
<1>3. ASSUME NEW a \in EntitiesOf(g), NEW b \in EntitiesOf(g), UnlinkBegin(p, a, b)
      PROVE  Q
  <2>1. [Idle EXCEPT !.pc = "unlink", !.a = a, !.b = b] \in Commands
    BY <1>2, IdleCommand DEF Commands, Pc
  <2> QED BY <1>3, <2>1 DEF UnlinkBegin
<1>4. ASSUME NEW a \in EntitiesOf(g), NEW b \in EntitiesOf(g), NEW r \in Rels,
             ReclassifyRelationBegin(p, a, b, r)
      PROVE  Q
  <2>1. [Idle EXCEPT !.pc = "relabel", !.a = a, !.b = b, !.rel = r] \in Commands
    BY <1>2, IdleCommand DEF Commands, Pc
  <2> QED BY <1>4, <2>1 DEF ReclassifyRelationBegin
<1>5. ASSUME NEW a \in EntitiesOf(g), NEW b \in EntitiesOf(g), MergeBegin(p, a, b) PROVE Q
  <2>1. [Idle EXCEPT !.pc = "merge", !.a = a, !.b = b] \in Commands
    BY <1>2, <1>5, IdleCommand DEF Commands, Pc, MergeBegin
  <2> QED BY <1>5, <2>1 DEF MergeBegin
<1>6. ASSUME NEW e \in EntitiesOf(g), DeleteEntityBegin(p, e) PROVE Q
  <2>1. [Idle EXCEPT !.pc = "delete", !.a = e] \in Commands
    BY <1>2, IdleCommand DEF Commands, Pc
  <2> QED BY <1>6, <2>1 DEF DeleteEntityBegin
<1>7. ASSUME NEW e \in EntitiesOf(g), NEW n \in ENames, RenameEntityBegin(p, e, n) PROVE Q
  <2>1. [Idle EXCEPT !.pc = "rename", !.a = e, !.name = n] \in Commands
    BY <1>2, IdleCommand DEF Commands, Pc
  <2> QED BY <1>7, <2>1 DEF RenameEntityBegin
<1>8. ASSUME NormalizeBegin(p) PROVE Q
  <2> DEFINE e == CHOOSE d \in EntitiesOf(g) : Norm[g.ents[d].name] # g.ents[d].name
             r == [Idle EXCEPT !.pc = "normalize", !.a = e, !.name = Norm[g.ents[e].name]]
  <2>1. e \in EntitiesOf(g) /\ BeginWith(p, r)
    BY <1>8 DEF NormalizeBegin
  <2> HIDE DEF e
  <2>2. r \in Commands
    BY <1>2, <2>1, IdleCommand DEF Commands, Pc
  <2> QED BY <2>1, <2>2
<1>9. ASSUME CleanupBegin(p) PROVE Q
  <2>1. Orphans(g) \subseteq Eids
    BY DEF Orphans, EntitiesOf
  <2>2. [Idle EXCEPT !.pc = "orphans", !.ids = Orphans(g)] \in Commands
    BY <2>1, IdleCommand DEF Commands, Pc
  <2> QED BY <1>9, <2>2 DEF CleanupBegin
<1> HIDE DEF Q
<1>10. Q
  BY <1>3, <1>4, <1>5, <1>6, <1>7, <1>8, <1>9 DEF Reads
<1>11. PICK r \in Commands : BeginWith(p, r)
  BY <1>10 DEF Q
<1>12. Start(p) /\ Goto(p, r) /\ UNCHANGED <<g, drift>>
  BY <1>11 DEF BeginWith
<1>13. /\ procs' \in [Procs -> Commands] /\ started' \in 0..MaxCommands
       /\ \A q \in Procs : q # p => procs'[q] = procs[q]
  BY <1>1, <1>12, GotoStep, StartStep
<1>14. procs[p].pc = "idle" /\ g' = g /\ drift' = drift
  BY <1>12 DEF Start
<1> QED BY <1>13, <1>14 DEF GraphInv

\* Reading the id of a relationship's row changes no table.
LEMMA ReadsRowInv ==
  ASSUME GraphInv, NEW p \in Procs, ReadsRow(p)
  PROVE  GraphInv' /\ procs[p].pc = "idle" /\ \A q \in Procs : q # p => procs'[q] = procs[q]
<1>1. /\ procs \in [Procs -> Commands] /\ started \in 0..MaxCommands /\ Sound(g)
      /\ Exact(g, drift) /\ drift \subseteq Eids
  BY DEF GraphInv
<1>2. PICK a \in EntitiesOf(g), b \in EntitiesOf(g), r \in Rels : UnlinkRowBegin(p, a, b, r)
  BY DEF ReadsRow
<1> DEFINE c == [Idle EXCEPT !.pc = "unlinkrow", !.a = a, !.b = b]
           x == <<a, b, r>>
           row == [g.row EXCEPT ![p] = x]
<1>3. /\ x \in g.edges /\ Start(p) /\ Goto(p, c) /\ drift' = drift
      /\ g' = [g EXCEPT !.row = row]
  BY <1>2 DEF UnlinkRowBegin
<1>4. a \in Eids /\ b \in Eids /\ Eids \subseteq 0..MaxEid
  BY Constants DEF EntitiesOf, Eids
<1>5. c \in Commands
  BY <1>4, IdleCommand DEF Commands, Pc
<1> HIDE DEF c
<1>6. /\ procs' \in [Procs -> Commands] /\ started' \in 0..MaxCommands
      /\ \A q \in Procs : q # p => procs'[q] = procs[q]
  BY <1>1, <1>3, <1>5, GotoStep, StartStep
<1>7. row \in [Procs -> Edge \cup {NoRow}]
  BY <1>1, <1>3 DEF Sound, Tables
<1> HIDE DEF row
<1>8. /\ g' \in Tables /\ g'.ents = g.ents /\ g'.edges = g.edges /\ g'.me = g.me
      /\ g'.mr = g.mr /\ g'.next = g.next
  BY <1>1, <1>3, <1>7 DEF Sound, Tables
<1>9. EntitiesOf(g') = EntitiesOf(g) /\ \A e : Incident(g', e) = Incident(g, e)
  BY <1>8 DEF EntitiesOf, Has, Incident
<1>10. Sound(g')
  BY <1>1, <1>8, <1>9 DEF Sound, RefsHold, OneName, Fresh
<1>11. Exact(g', drift')
  BY <1>1, <1>3, <1>8, <1>9 DEF Exact
<1> QED BY <1>1, <1>3, <1>6, <1>10, <1>11 DEF GraphInv, Start

LEMMA ActsInv ==
  ASSUME GraphInv, NEW p \in Procs, Acts(p)
  PROVE  GraphInv' /\ \A q \in Procs : q # p => procs'[q] = procs[q]
<1>1. /\ Sound(g) /\ Exact(g, drift) /\ drift \subseteq Eids /\ started \in 0..MaxCommands
      /\ procs \in [Procs -> Commands]
  BY DEF GraphInv
<1>2. /\ procs[p].name \in ENames
      /\ procs[p].pc = "normalize" => Norm[procs[p].name] = procs[p].name
      /\ procs[p].pc \in {"merge", "normalize"} => procs[p].a \in Eids
      /\ procs[p].pc = "merge" => procs[p].b \in Eids /\ procs[p].a # procs[p].b
      /\ procs[p].pc = "relabel" => procs[p].rel \in Rels
  <2>1. procs[p] \in Commands
    BY <1>1
  <2> QED BY <2>1 DEF Commands
<1> DEFINE R == Sound(g') /\ Exact(g', drift') /\ drift' \subseteq Eids
           Q == End(p) /\ UNCHANGED started
<1>3. (UnlinkOne(p) \/ UnlinkPair(p) \/ UnlinkAll(p)) => R /\ Q
  BY <1>1, UnlinkStep DEF UnlinkOne, UnlinkPair, UnlinkAll, Finish
<1>4. DeleteEntity(p) => R /\ Q
  BY <1>1, DeleteEntityStep DEF DeleteEntity, Finish
<1>5. MergeEntities(p) => R /\ Q
  <2>1. MergeEntities(p) => Q /\ procs[p].pc = "merge"
    BY DEF MergeEntities, Finish
  <2> QED BY <1>1, <1>2, <2>1, MergeEntitiesStep
<1>6. MergeFails(p) => R /\ Q
  BY <1>1 DEF MergeFails
<1>7. RenameEntity(p) => R /\ Q
  BY <1>1, <1>2, RenameEntityStep DEF RenameEntity, Finish
<1>8. ASSUME NEW r \in Rels, ReclassifyRelation(p, r) PROVE R /\ Q
  <2>1. Q /\ procs[p].pc = "relabel"
    BY <1>8 DEF ReclassifyRelation, Finish
  <2> QED BY <1>1, <1>2, <1>8, <2>1, ReclassifyRelationStep
<1>9. NormalizeEntities(p) => R /\ Q
  <2>1. NormalizeEntities(p) => Q /\ procs[p].pc = "normalize"
    BY DEF NormalizeEntities, Finish
  <2> QED BY <1>1, <1>2, <2>1, NormalizeEntitiesStep
<1>10. CleanupOrphans(p) => R /\ Q
  BY <1>1, CleanupOrphansStep DEF CleanupOrphans, Finish
<1> HIDE DEF R, Q
<1>11. R /\ Q
  BY <1>3, <1>4, <1>5, <1>6, <1>7, <1>8, <1>9, <1>10 DEF Acts
<1>12. procs' \in [Procs -> Commands] /\ \A q \in Procs : q # p => procs'[q] = procs[q]
  BY <1>1, <1>11, IdleCommand, GotoStep DEF Q, End
<1> QED BY <1>1, <1>11, <1>12 DEF GraphInv, R, Q
LEMMA NextInv == GraphInv /\ [Next]_vars => GraphInv'
<1> SUFFICES ASSUME GraphInv, [Next]_vars PROVE GraphInv'
  OBVIOUS
<1>1. CASE Next
  <2>1. PICK p \in Procs : OneStep(p) \/ Reads(p) \/ ReadsRow(p) \/ Acts(p)
    BY <1>1, NextCases
  <2> QED BY <2>1, OneStepInv, ReadsInv, ReadsRowInv, ActsInv
<1>2. CASE UNCHANGED vars
  BY <1>2 DEF vars, GraphInv, Sound, RefsHold, OneName, Fresh, Exact, EntitiesOf, Has, Incident
<1> QED BY <1>1, <1>2

LEMMA Invariance == Spec => []GraphInv
<1>1. Init => GraphInv
  BY InitInv
<1>2. GraphInv /\ [Next]_vars => GraphInv'
  BY NextInv
<1> QED BY <1>1, <1>2, PTL DEF Spec

-----------------------------------------------------------------------------
(* Theorems *)

\* Whatever commands interleave between the reads of a command and its transaction, no
\* relationship, binding or provenance row refers to what does not exist, and a name
\* stands for one entity.
THEOREM ReferencesStayGood == Spec => []ReferencesHold
<1>1. GraphInv => ReferencesHold
  <2> SUFFICES ASSUME GraphInv PROVE ReferencesHold
    OBVIOUS
  <2>1. Sound(g) /\ drift \subseteq Eids /\ procs \in [Procs -> Commands] /\ started \in 0..MaxCommands
    BY DEF GraphInv
  <2>2. /\ g.ents \in [Eids -> Ent \cup {NoEnt}] /\ g.edges \subseteq Edge
        /\ g.me \subseteq Mems \X Eids /\ g.mr \subseteq Mems \X Edge /\ g.next \in 1..(MaxEid + 1)
        /\ g.row \in [Procs -> Edge \cup {NoRow}]
    BY <2>1 DEF Sound, Tables
  <2>3. procs \in [Procs -> [pc: Pc, a: 0..MaxEid, b: 0..MaxEid, rel: Rels \cup {"none"},
                             name: ENames, ids: SUBSET Eids]]
    BY <2>1 DEF Commands
  <2>4. NoDanglingReference
    BY <2>1 DEF Sound, RefsHold, NoDanglingReference, Ends
  <2>5. NamesUnique
    BY <2>1 DEF Sound, OneName, NamesUnique
  <2> QED BY <2>1, <2>2, <2>3, <2>4, <2>5 DEF ReferencesHold, GraphTypeOK
<1> QED BY <1>1, Invariance, PTL

\* The stored degree is the number of relationships of an entity, for every entity but
\* the ones that the commands which do not recalculate them have left behind.
THEOREM DegreesStayExact == Spec => []DegreeExact
<1>1. GraphInv => DegreeExact
  BY DEF GraphInv, Exact, DegreeExact
<1> QED BY <1>1, Invariance, PTL

LEMMA MergeConnects ==
  ASSUME GraphInv, NEW p \in Procs, MergeEntities(p) \/ MergeFails(p),
         Has(g, procs[p].b), Has(g, procs[p].a)
  PROVE  LET s == procs[p].a
             t == procs[p].b
         IN  /\ \A x \in g.edges : LET y == Merged(x, s, t) IN y[1] # y[2] => y \in g'.edges
             /\ \A x \in g.me : x[2] = s => <<x[1], t>> \in g'.me
<1> DEFINE s == procs[p].a
           t == procs[p].b
           k == MoveEntity(g, s, t)
           S == {t} \cup Adjacent(k, t)
<1>1. procs[p] \in Commands /\ Sound(g)
  BY DEF GraphInv
<1>2. procs[p].pc = "merge" /\ MergeEntities(p)
  BY DEF MergeEntities, MergeFails, MergeBlocked
<1>3. s \in Eids /\ t \in Eids /\ s # t /\ t \in EntitiesOf(g)
  BY <1>1, <1>2, HasIsEntity DEF Commands
<1>4. g' = RecalculateDegree(k, S)
  BY <1>2 DEF MergeEntities, Finish, Commit
<1> HIDE DEF s, t
<1>5. /\ Sound(k)
      /\ \A y : y \in k.edges <=> \E x \in g.edges : y = Merged(x, s, t) /\ y[1] # y[2]
      /\ \A x \in g.me : x[2] = s => <<x[1], t>> \in k.me
  BY <1>1, <1>3, MoveEntityStep
<1> HIDE DEF k, S
<1>6. g'.edges = k.edges /\ g'.me = k.me
  BY <1>4, <1>5, RecalculateStep
<1>7. \A x \in g.edges : Merged(x, s, t)[1] # Merged(x, s, t)[2] => Merged(x, s, t) \in g'.edges
  BY <1>5, <1>6
<1> QED BY <1>5, <1>6, <1>7 DEF s, t

\* merge-entities relates the target to everything the source was related to and keeps its
\* bindings, and relabelling joins the same entities, whatever ran since their reads.
THEOREM NothingIsDisconnected == Spec => NothingDisconnected
<1>1. GraphInv /\ [Next]_vars => MergeKeepsNeighbours
  <2> SUFFICES ASSUME GraphInv, [Next]_vars, NEW p \in Procs, procs[p].pc = "merge",
                      procs'[p] # procs[p], Has(g, procs[p].b), Has(g, procs[p].a)
               PROVE  LET s == procs[p].a
                          t == procs[p].b
                      IN  /\ \A x \in Incident(g, s) \cup Incident(g, t) :
                               LET y == Retarget(Retarget(x, s, t, 1), s, t, 2)
                               IN  y[1] # y[2] => y \in g'.edges
                          /\ \A x \in g.me : x[2] = s => <<x[1], t>> \in g'.me
    BY DEF MergeKeepsNeighbours
  <2>1. PICK q \in Procs : OneStep(q) \/ Reads(q) \/ ReadsRow(q) \/ Acts(q)
    BY NextCases DEF vars
  <2>2. q = p /\ Acts(p)
    BY <2>1, OneStepInv, ReadsInv, ReadsRowInv, ActsInv
  <2>3. MergeEntities(p) \/ MergeFails(p)
    BY <2>2 DEF Acts, UnlinkOne, UnlinkPair, UnlinkAll, DeleteEntity, RenameEntity,
                ReclassifyRelation, NormalizeEntities, CleanupOrphans
  <2> QED BY <2>3, MergeConnects DEF Merged, Incident
<1>2. GraphInv /\ [Next]_vars => RelabelKeepsPairs
  <2> SUFFICES ASSUME GraphInv, [Next]_vars, NEW p \in Procs, procs[p].pc = "relabel",
                      procs'[p] # procs[p]
               PROVE  {<<x[1], x[2]>> : x \in g'.edges} = {<<x[1], x[2]>> : x \in g.edges}
    BY DEF RelabelKeepsPairs
  <2>1. PICK q \in Procs : OneStep(q) \/ Reads(q) \/ ReadsRow(q) \/ Acts(q)
    BY NextCases DEF vars
  <2>2. q = p /\ Acts(p)
    BY <2>1, OneStepInv, ReadsInv, ReadsRowInv, ActsInv
  <2>3. PICK r \in Rels : ReclassifyRelation(p, r)
    BY <2>2 DEF Acts, UnlinkOne, UnlinkPair, UnlinkAll, DeleteEntity, RenameEntity,
                MergeEntities, MergeFails, NormalizeEntities, CleanupOrphans
  <2> DEFINE c == procs[p]
             E == {x \in g.edges : x = <<c.a, c.b, c.rel>>}
  <2>4. r # c.rel /\ g' = Relabelled(g, E, r)
    BY <2>3 DEF ReclassifyRelation, Finish, Commit, Relabelled
  <2>5. Sound(g) /\ c \in Commands
    BY DEF GraphInv
  <2>6. c.rel \in Rels
    BY <2>5 DEF Commands
  <2>7. E \in SUBSET g.edges /\ \A x \in E : x[3] = c.rel
    OBVIOUS
  <2> HIDE DEF E, c
  <2>8. {<<x[1], x[2]>> : x \in Relabelled(g, E, r).edges} = {<<x[1], x[2]>> : x \in g.edges}
    BY <2>4, <2>5, <2>6, <2>7, RelabelStep
  <2> QED BY <2>4, <2>8
<1>3. GraphInv /\ [Next]_vars => (MergeKeepsNeighbours /\ RelabelKeepsPairs)
  BY <1>1, <1>2
<1> QED BY <1>3, Invariance, PTL DEF Spec, NothingDisconnected
=============================================================================
