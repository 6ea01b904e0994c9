-------------------------- MODULE MemoryStoreProofs --------------------------
(***************************************************************************)
(* Proofs about MemoryStore for every number of names, bodies, processes   *)
(* and rows, and for every bound on commands and crashes: the history,     *)
(* the index and the vectors follow the bodies, writes are guarded, and    *)
(* the commands implement the map of memories of MemoryMap.                *)
(***************************************************************************)
EXTENDS MemoryStore, TLAPS

-----------------------------------------------------------------------------
(* Statements on one row *)

\* e differs from d at most in row i.
SameBut(d, e, i) ==
  /\ e \in Db /\ e.next = d.next
  /\ \A k \in Ids \ {i} : /\ e.mem[k] = d.mem[k] /\ e.vers[k] = d.vers[k]
                          /\ e.fts[k] = d.fts[k] /\ e.vec[k] = d.vec[k]

LEMMA SameButTransitive ==
  ASSUME NEW d, NEW e, NEW f, NEW i, SameBut(d, e, i), SameBut(e, f, i)
  PROVE  SameBut(d, f, i)
BY DEF SameBut

LEMMA SameButReflexive == \A d \in Db : \A i : SameBut(d, d, i)
BY DEF SameBut

LEMMA RowIsNotNoRow == \A r \in Row : r # NoRow
BY DEF Row, NoRow

LEMMA ExistsRow ==
  ASSUME NEW d \in Db, NEW i, Exists(d, i)
  PROVE  i \in Ids /\ d.mem[i] \in Row
BY DEF Exists, Db

LEMMA UpdateRowEffect ==
  ASSUME NEW d \in Db, NEW i \in Ids, NEW r \in Row, clock \in Times
  PROVE  LET e == UpdateRow(d, i, r)
         IN  /\ SameBut(d, e, i)
             /\ e.mem[i] = [r EXCEPT !.upd = clock] /\ e.mem[i] \in Row
             /\ e.vers[i] = d.vers[i] /\ e.fts[i] = d.fts[i] /\ e.vec[i] = d.vec[i]
<1> DEFINE s == [r EXCEPT !.upd = clock]
           e == UpdateRow(d, i, r)
<1>1. s \in Row
  BY DEF Row
<1>2. e = [d EXCEPT !.mem = [d.mem EXCEPT ![i] = s]]
  BY DEF UpdateRow
<1> HIDE DEF s, e
<1>3. [d.mem EXCEPT ![i] = s] \in [Ids -> Row \cup {NoRow}]
  BY <1>1 DEF Db
<1>4. e \in Db
  BY <1>2, <1>3 DEF Db
<1>5. e.mem[i] = s
  BY <1>2 DEF Db
<1>6. SameBut(d, e, i) /\ e.vers[i] = d.vers[i] /\ e.fts[i] = d.fts[i] /\ e.vec[i] = d.vec[i]
  BY <1>2, <1>4 DEF Db, SameBut
<1> QED BY <1>1, <1>5, <1>6 DEF s, e

LEMMA AddVersionEffect ==
  ASSUME NEW d \in Db, NEW i \in Ids, NEW n \in Names, NEW b \in Bodies, NEW why \in Reason
  PROVE  LET e == AddVersion(d, i, n, b, why)
         IN  /\ SameBut(d, e, i)
             /\ e.mem[i] = d.mem[i] /\ e.fts[i] = d.fts[i] /\ e.vec[i] = d.vec[i]
             /\ e.vers[i] = Append(d.vers[i], [name |-> n, body |-> b, reason |-> why])
<1> DEFINE v == [name |-> n, body |-> b, reason |-> why]
           s == Append(d.vers[i], v)
           e == AddVersion(d, i, n, b, why)
<1>1. v \in Version
  BY DEF Version
<1>2. s \in Seq(Version)
  <2>1. d.vers[i] \in Seq(Version)
    BY DEF Db
  <2> HIDE DEF v
  <2> QED BY <1>1, <2>1
<1>3. e = [d EXCEPT !.vers = [d.vers EXCEPT ![i] = s]]
  BY DEF AddVersion
<1> HIDE DEF s, e
<1>4. [d.vers EXCEPT ![i] = s] \in [Ids -> Seq(Version)]
  BY <1>2 DEF Db
<1>5. e \in Db
  BY <1>3, <1>4 DEF Db
<1>6. e.vers[i] = s
  BY <1>3 DEF Db
<1>7. SameBut(d, e, i) /\ e.mem[i] = d.mem[i] /\ e.fts[i] = d.fts[i] /\ e.vec[i] = d.vec[i]
  BY <1>3, <1>5 DEF Db, SameBut
<1> QED BY <1>6, <1>7 DEF s, e

LEMMA SyncFtsEffect ==
  ASSUME NEW d \in Db, NEW i \in Ids, NEW old, NEW new \in Names \X Bodies
  PROVE  LET e == SyncFts(d, i, old, new)
         IN  /\ SameBut(d, e, i)
             /\ e.mem[i] = d.mem[i] /\ e.vers[i] = d.vers[i] /\ e.vec[i] = d.vec[i]
             /\ e.fts[i] = (d.fts[i] \ {old}) \cup {new}
<1> DEFINE s == (d.fts[i] \ {old}) \cup {new}
           e == SyncFts(d, i, old, new)
<1>1. s \in SUBSET (Names \X Bodies)
  BY DEF Db
<1>2. e = [d EXCEPT !.fts = [d.fts EXCEPT ![i] = s]]
  BY DEF SyncFts
<1> HIDE DEF s, e
<1>3. [d.fts EXCEPT ![i] = s] \in [Ids -> SUBSET (Names \X Bodies)]
  BY <1>1 DEF Db
<1>4. e \in Db
  BY <1>2, <1>3 DEF Db
<1>5. e.fts[i] = s
  BY <1>2 DEF Db
<1>6. SameBut(d, e, i) /\ e.mem[i] = d.mem[i] /\ e.vers[i] = d.vers[i] /\ e.vec[i] = d.vec[i]
  BY <1>2, <1>4 DEF Db, SameBut
<1> QED BY <1>5, <1>6 DEF s, e

LEMMA VecEffect ==
  ASSUME NEW d \in Db, NEW i \in Ids, NEW b \in Bodies \cup {NoBody}
  PROVE  LET e == UpsertVec(d, i, b)
         IN  /\ SameBut(d, e, i)
             /\ e.mem[i] = d.mem[i] /\ e.vers[i] = d.vers[i] /\ e.fts[i] = d.fts[i]
             /\ e.vec[i] = b
<1> DEFINE e == UpsertVec(d, i, b)
<1>1. e = [d EXCEPT !.vec = [d.vec EXCEPT ![i] = b]]
  BY DEF UpsertVec
<1> HIDE DEF e
<1>2. [d.vec EXCEPT ![i] = b] \in [Ids -> Bodies \cup {NoBody}]
  BY DEF Db
<1>3. e \in Db
  BY <1>1, <1>2 DEF Db
<1>4. e.vec[i] = b
  BY <1>1 DEF Db
<1>5. SameBut(d, e, i) /\ e.mem[i] = d.mem[i] /\ e.vers[i] = d.vers[i] /\ e.fts[i] = d.fts[i]
  BY <1>1, <1>3 DEF Db, SameBut
<1> QED BY <1>4, <1>5 DEF e

\* The row INSERT leaves under the next id.
LEMMA InsertRowEffect ==
  ASSUME NEW d \in Db, d.next \in Ids, NEW n \in Names, NEW b \in Bodies, clock \in Times
  PROVE  LET e == InsertRow(d, n, b)
         IN  /\ e \in Db /\ e.next = d.next + 1
             /\ \A k \in Ids \ {d.next} :
                  /\ e.mem[k] = d.mem[k] /\ e.vers[k] = d.vers[k]
                  /\ e.fts[k] = d.fts[k] /\ e.vec[k] = d.vec[k]
             /\ e.mem[d.next] = [name |-> n, body |-> b, upd |-> clock, del |-> 0]
             /\ e.mem[d.next] \in Row
             /\ e.vers[d.next] = d.vers[d.next] /\ e.fts[d.next] = {<<n, b>>}
             /\ e.vec[d.next] = d.vec[d.next]
<1> DEFINE i == d.next
           s == [name |-> n, body |-> b, upd |-> clock, del |-> 0]
           e == InsertRow(d, n, b)
<1>0. MaxClock \in Nat /\ MaxId \in Nat
  BY StoreConstants
<1>1. s \in Row
  BY <1>0 DEF Row, Times
<1>2. i + 1 \in 1..(MaxId + 1)
  BY <1>0 DEF Ids
<1>3. e = [d EXCEPT !.mem = [d.mem EXCEPT ![i] = s], !.fts = [d.fts EXCEPT ![i] = {<<n, b>>}],
                    !.next = i + 1]
  BY DEF InsertRow, Db
<1> HIDE DEF s, e
<1>4. /\ [d.mem EXCEPT ![i] = s] \in [Ids -> Row \cup {NoRow}]
      /\ [d.fts EXCEPT ![i] = {<<n, b>>}] \in [Ids -> SUBSET (Names \X Bodies)]
  BY <1>1 DEF Db
<1>5. e \in Db
  BY <1>2, <1>3, <1>4 DEF Db
<1>6. e.mem[i] = s /\ e.fts[i] = {<<n, b>>} /\ e.next = i + 1
  BY <1>3 DEF Db
<1>7. /\ \A k \in Ids \ {i} : /\ e.mem[k] = d.mem[k] /\ e.vers[k] = d.vers[k]
                              /\ e.fts[k] = d.fts[k] /\ e.vec[k] = d.vec[k]
      /\ e.vers[i] = d.vers[i] /\ e.vec[i] = d.vec[i]
  BY <1>3 DEF Db
<1> QED BY <1>1, <1>5, <1>6, <1>7 DEF s, e

-----------------------------------------------------------------------------
(* The invariant of the tables *)

HasBody(s, b) == \E v \in 1..Len(s) : s[v].body = b

\* What holds of row i outside the rows in L (lost) and U (unembedded).
RowSound(d, i, L, U) ==
  i \notin L => /\ d.vers[i] # << >> => HasBody(d.vers[i], d.mem[i].body)
                /\ \E x \in d.fts[i] : x[2] = d.mem[i].body
                /\ i \notin U => d.vec[i] \in {NoBody, d.mem[i].body}

Distinct(d) ==
  \A i, k \in Ids : Exists(d, i) /\ Exists(d, k) /\ d.mem[i].name = d.mem[k].name => i = k

\* AUTOINCREMENT: ids from next on have never been used.
Unused(d) == \A i \in Ids : i >= d.next => /\ d.mem[i] = NoRow /\ d.vers[i] = << >>
                                           /\ d.vec[i] = NoBody

TableInv(d, L, U) ==
  /\ d \in Db /\ Distinct(d) /\ Unused(d)
  /\ \A i \in Ids : Exists(d, i) => RowSound(d, i, L, U)

\* Between two tables, what a command that read a row without versions relies on.
Keeps(d, e, L) ==
  /\ e.next >= d.next
  /\ \A i \in Ids : i < d.next /\ Exists(e, i) =>
       /\ Exists(d, i)
       /\ \/ i \in L
          \/ e.vers[i] # << >>
          \/ d.vers[i] = << >> /\ e.mem[i].body = d.mem[i].body

LEMMA AppendHasBody ==
  ASSUME NEW s \in Seq(Version), NEW v \in Version
  PROVE  /\ HasBody(Append(s, v), v.body) /\ Append(s, v) # << >>
         /\ \A b : HasBody(s, b) => HasBody(Append(s, v), b)
<1> DEFINE t == Append(s, v)
<1>1. /\ Len(t) = Len(s) + 1 /\ t[Len(s) + 1] = v /\ Len(s) \in Nat /\ t \in Seq(Version)
      /\ \A k \in 1..Len(s) : t[k] = s[k]
  OBVIOUS
<1> HIDE DEF t
<1>2. HasBody(t, v.body)
  BY <1>1 DEF HasBody
<1>3. t # << >>
  BY <1>1
<1>4. ASSUME NEW b, HasBody(s, b) PROVE HasBody(t, b)
  <2>1. PICK k \in 1..Len(s) : s[k].body = b
    BY <1>4 DEF HasBody
  <2> QED BY <1>1, <2>1 DEF HasBody
<1> QED BY <1>2, <1>3, <1>4 DEF t

LEMMA ExistsBelowNext ==
  ASSUME NEW d, NEW L, NEW U, TableInv(d, L, U), NEW i, Exists(d, i)
  PROVE  i \in Ids /\ i < d.next /\ d.next \in Nat
BY StoreConstants DEF TableInv, Unused, Exists, Db, Ids

\* A statement list that changes one row that exists.
LEMMA OneRow ==
  ASSUME NEW d, NEW L, NEW U, TableInv(d, L, U), NEW i, Exists(d, i),
         NEW e, SameBut(d, e, i), e.mem[i] \in Row,
         NEW M, NEW V, L \subseteq M, U \subseteq V,
         e.mem[i].name = d.mem[i].name \/ Holder(d, e.mem[i].name) = {},
         RowSound(e, i, M, V),
         i \in M \/ e.vers[i] # << >> \/ (d.vers[i] = << >> /\ e.mem[i].body = d.mem[i].body)
  PROVE  TableInv(e, M, V) /\ Keeps(d, e, M)
<1>1. /\ i \in Ids /\ i < d.next /\ d.next \in Nat /\ d \in Db /\ e \in Db /\ e.next = d.next
      /\ Ids \subseteq Nat
  <2>1. i \in Ids /\ i < d.next /\ d.next \in Nat
    BY ExistsBelowNext
  <2>2. Ids \subseteq Nat
    BY StoreConstants DEF Ids
  <2> QED BY <2>1, <2>2 DEF SameBut, TableInv
<1>2. \A k \in Ids \ {i} : e.mem[k] = d.mem[k] /\ (Exists(e, k) <=> Exists(d, k))
  BY DEF SameBut, Exists
<1>3. Distinct(e)
  <2> SUFFICES ASSUME NEW j \in Ids, NEW k \in Ids, Exists(e, j), Exists(e, k),
                      e.mem[j].name = e.mem[k].name, j # k
               PROVE  FALSE
    BY DEF Distinct
  <2>0. Distinct(d)
    BY DEF TableInv
  <2>1. CASE j # i /\ k # i
    BY <1>2, <2>0, <2>1 DEF Distinct
  <2>2. ASSUME NEW m \in Ids \ {i}, Exists(e, m), e.mem[m].name = e.mem[i].name PROVE FALSE
    <3>1. Exists(d, m) /\ d.mem[m].name = e.mem[i].name
      BY <1>2, <2>2
    <3>2. m \in Holder(d, e.mem[i].name)
      BY <3>1 DEF Holder
    <3> QED BY <1>1, <2>0, <3>1, <3>2 DEF Distinct
  <2> QED BY <2>1, <2>2
<1>4. Unused(e)
  <2> SUFFICES ASSUME NEW k \in Ids, k >= e.next
               PROVE  e.mem[k] = NoRow /\ e.vers[k] = << >> /\ e.vec[k] = NoBody
    BY DEF Unused
  <2>1. k # i /\ k >= d.next
    BY <1>1
  <2> QED BY <2>1 DEF SameBut, TableInv, Unused
<1>5. ASSUME NEW k \in Ids, Exists(e, k) PROVE RowSound(e, k, M, V)
  <2>1. CASE k = i
    BY <2>1
  <2>2. CASE k # i
    <3>1. RowSound(d, k, L, U)
      BY <1>2, <1>5, <2>2 DEF TableInv
    <3>2. /\ e.mem[k] = d.mem[k] /\ e.vers[k] = d.vers[k] /\ e.fts[k] = d.fts[k]
          /\ e.vec[k] = d.vec[k]
      BY <2>2 DEF SameBut
    <3> QED BY <3>1, <3>2 DEF RowSound
  <2> QED BY <2>1, <2>2
<1>6. Keeps(d, e, M)
  <2> SUFFICES ASSUME NEW k \in Ids, k < d.next, Exists(e, k)
               PROVE  /\ Exists(d, k)
                      /\ \/ k \in M
                         \/ e.vers[k] # << >>
                         \/ d.vers[k] = << >> /\ e.mem[k].body = d.mem[k].body
    BY <1>1 DEF Keeps
  <2>1. CASE k = i
    BY <2>1
  <2>2. CASE k # i
    BY <1>2, <2>2 DEF SameBut
  <2> QED BY <2>1, <2>2
<1> QED BY <1>1, <1>3, <1>4, <1>5, <1>6 DEF TableInv
-----------------------------------------------------------------------------
(* Rewriting one row: the row, its index entry, a version, its vector *)

\* The two orders in which the commands sync the index and write the version.
Logged(m, i, old, new, n, b, why) ==
  {AddVersion(SyncFts(m, i, old, new), i, n, b, why), SyncFts(AddVersion(m, i, n, b, why), i, old, new)}

LoggedRow(m, e, i, old, new, n, b, why) ==
  /\ SameBut(m, e, i) /\ e.mem[i] = m.mem[i] /\ e.vec[i] = m.vec[i]
  /\ e.vers[i] = Append(m.vers[i], [name |-> n, body |-> b, reason |-> why])
  /\ e.fts[i] = (m.fts[i] \ {old}) \cup {new}

LEMMA LoggedEffect ==
  ASSUME NEW m \in Db, NEW i \in Ids, NEW old, NEW new \in Names \X Bodies,
         NEW n \in Names, NEW b \in Bodies, NEW why \in Reason,
         NEW e \in Logged(m, i, old, new, n, b, why)
  PROVE  LoggedRow(m, e, i, old, new, n, b, why)
<1>1. CASE e = AddVersion(SyncFts(m, i, old, new), i, n, b, why)
  <2> DEFINE f == SyncFts(m, i, old, new)
  <2>1. /\ SameBut(m, f, i) /\ f.mem[i] = m.mem[i] /\ f.vers[i] = m.vers[i] /\ f.vec[i] = m.vec[i]
        /\ f.fts[i] = (m.fts[i] \ {old}) \cup {new}
    BY SyncFtsEffect
  <2> HIDE DEF f
  <2>2. f \in Db
    BY <2>1 DEF SameBut
  <2>3. e = AddVersion(f, i, n, b, why)
    BY <1>1 DEF f
  <2>4. /\ SameBut(f, e, i) /\ e.mem[i] = f.mem[i] /\ e.fts[i] = f.fts[i] /\ e.vec[i] = f.vec[i]
        /\ e.vers[i] = Append(f.vers[i], [name |-> n, body |-> b, reason |-> why])
    BY <2>2, <2>3, AddVersionEffect
  <2>5. SameBut(m, e, i)
    BY <2>1, <2>4, SameButTransitive
  <2> QED BY <2>1, <2>4, <2>5 DEF LoggedRow
<1>2. CASE e = SyncFts(AddVersion(m, i, n, b, why), i, old, new)
  <2> DEFINE f == AddVersion(m, i, n, b, why)
  <2>1. /\ SameBut(m, f, i) /\ f.mem[i] = m.mem[i] /\ f.fts[i] = m.fts[i] /\ f.vec[i] = m.vec[i]
        /\ f.vers[i] = Append(m.vers[i], [name |-> n, body |-> b, reason |-> why])
    BY AddVersionEffect
  <2> HIDE DEF f
  <2>2. f \in Db
    BY <2>1 DEF SameBut
  <2>3. e = SyncFts(f, i, old, new)
    BY <1>2 DEF f
  <2>4. /\ SameBut(f, e, i) /\ e.mem[i] = f.mem[i] /\ e.vers[i] = f.vers[i] /\ e.vec[i] = f.vec[i]
        /\ e.fts[i] = (f.fts[i] \ {old}) \cup {new}
    BY <2>2, <2>3, SyncFtsEffect
  <2>5. SameBut(m, e, i)
    BY <2>1, <2>4, SameButTransitive
  <2> QED BY <2>1, <2>4, <2>5 DEF LoggedRow
<1> QED BY <1>1, <1>2 DEF Logged

LEMMA VersionIsVersion ==
  \A n \in Names, b \in Bodies, why \in Reason :
    LET v == [name |-> n, body |-> b, reason |-> why] IN v \in Version /\ v.body = b
BY DEF Version

\* g is d with the row r under i, and sound.
Stored(d, g, i, r, M, V) ==
  TableInv(g, M, V) /\ Keeps(d, g, M) /\ SameBut(d, g, i) /\ g.mem[i] = r

Stamped(r) == [r EXCEPT !.upd = clock]

\* The statements that give row i the content r: index entry and version follow its body.
Rewrites(d, i, r, old, k, n, why) ==
  Logged(UpdateRow(d, i, r), i, old, <<k, r.body>>, n, r.body, why)

\* A new body in a row that exists: history and index follow it, and so does the
\* vector, unless the row is now one of those without a fresh one (V).
LEMMA BodyWrite ==
  ASSUME NEW d, NEW L, NEW U, TableInv(d, L, U), NEW i, Exists(d, i), clock \in Times,
         NEW r \in Row, r.name = d.mem[i].name,
         NEW old, NEW k \in Names, NEW n \in Names, NEW why \in Reason,
         NEW e \in Rewrites(d, i, r, old, k, n, why),
         NEW V, U \subseteq V,
         NEW g, \/ g = e /\ (r.body = d.mem[i].body \/ i \in V)
                \/ g = UpsertVec(e, i, r.body)
  PROVE  Stored(d, g, i, Stamped(r), L, V)
<1> DEFINE m == UpdateRow(d, i, r)
           v == [name |-> n, body |-> r.body, reason |-> why]
<1>1. i \in Ids /\ d \in Db /\ d.mem[i] \in Row
  BY ExistsRow DEF TableInv
<1>2. r.body \in Bodies /\ <<k, r.body>> \in Names \X Bodies
  BY DEF Row
<1>3. v \in Version /\ v.body = r.body
  BY <1>2, VersionIsVersion
<1>4. /\ SameBut(d, m, i) /\ m.mem[i] = [r EXCEPT !.upd = clock] /\ m.mem[i] \in Row
      /\ m.vers[i] = d.vers[i] /\ m.fts[i] = d.fts[i] /\ m.vec[i] = d.vec[i]
  BY <1>1, UpdateRowEffect
<1>5. e \in Logged(m, i, old, <<k, r.body>>, n, r.body, why)
  BY DEF Rewrites
<1> HIDE DEF m
<1>6. m \in Db
  BY <1>4 DEF SameBut
<1>7. /\ SameBut(m, e, i) /\ e.mem[i] = m.mem[i] /\ e.vec[i] = m.vec[i]
      /\ e.vers[i] = Append(m.vers[i], v) /\ <<k, r.body>> \in e.fts[i]
  <2> DEFINE b == r.body
             new == <<k, r.body>>
  <2>1. b \in Bodies /\ new \in Names \X Bodies /\ e \in Logged(m, i, old, new, n, b, why)
    BY <1>2, <1>5
  <2> HIDE DEF b, new
  <2>2. LoggedRow(m, e, i, old, new, n, b, why)
    BY <1>1, <1>6, <2>1, LoggedEffect
  <2> QED BY <2>2 DEF b, new, LoggedRow
<1>8. SameBut(d, e, i) /\ e \in Db
  BY <1>4, <1>7, SameButTransitive DEF SameBut
<1>9. /\ SameBut(d, g, i) /\ g.mem[i] = e.mem[i] /\ g.vers[i] = e.vers[i] /\ g.fts[i] = e.fts[i]
      /\ g.vec[i] = r.body \/ (g.vec[i] = d.vec[i] /\ (r.body = d.mem[i].body \/ i \in V))
  <2>1. CASE g = e /\ (r.body = d.mem[i].body \/ i \in V)
    BY <1>4, <1>7, <1>8, <2>1
  <2>2. CASE g = UpsertVec(e, i, r.body)
    <3>1. /\ SameBut(e, g, i) /\ g.mem[i] = e.mem[i] /\ g.vers[i] = e.vers[i]
          /\ g.fts[i] = e.fts[i] /\ g.vec[i] = r.body
      BY <1>1, <1>2, <1>8, <2>2, VecEffect
    <3> QED BY <1>8, <3>1, SameButTransitive
  <2> QED BY <2>1, <2>2
<1>10. g.mem[i].body = r.body /\ g.mem[i].name = d.mem[i].name /\ g.mem[i] \in Row
  <2>1. [r EXCEPT !.upd = clock].body = r.body /\ [r EXCEPT !.upd = clock].name = r.name
    BY DEF Row
  <2> QED BY <1>4, <1>7, <1>9, <2>1
<1>11. g.vers[i] # << >> /\ HasBody(g.vers[i], r.body)
  <2>1. d.vers[i] \in Seq(Version)
    BY <1>1 DEF Db
  <2> HIDE DEF v
  <2>2. g.vers[i] = Append(d.vers[i], v)
    BY <1>4, <1>7, <1>9
  <2> QED BY <1>3, <2>1, <2>2, AppendHasBody
<1>12. RowSound(g, i, L, V)
  <2>1. \E x \in g.fts[i] : x[2] = g.mem[i].body
    BY <1>7, <1>9, <1>10
  <2>2. i \notin L /\ i \notin V => g.vec[i] \in {NoBody, g.mem[i].body}
    <3>1. RowSound(d, i, L, U)
      BY <1>1 DEF TableInv
    <3> QED BY <1>9, <1>10, <3>1 DEF RowSound
  <2> QED BY <1>10, <1>11, <2>1, <2>2 DEF RowSound
<1>13. TableInv(g, L, V) /\ Keeps(d, g, L)
  BY <1>9, <1>10, <1>11, <1>12, OneRow
<1> QED BY <1>4, <1>7, <1>9, <1>13 DEF Stored, Stamped
\* A remember that went on although its UPDATE matched nothing: the row is in M now.
LEMMA LostWrite ==
  ASSUME NEW d, NEW L, NEW U, TableInv(d, L, U), NEW i, Exists(d, i),
         NEW old, NEW new \in Names \X Bodies,
         NEW n \in Names, NEW b \in Bodies, NEW why \in Reason,
         NEW e \in Logged(d, i, old, new, n, b, why),
         NEW M, L \subseteq M, i \in M, NEW V, U \subseteq V,
         NEW g, g = e \/ g = UpsertVec(e, i, b)
  PROVE  Stored(d, g, i, d.mem[i], M, V)
<1>1. i \in Ids /\ d \in Db /\ d.mem[i] \in Row
  BY ExistsRow DEF TableInv
<1>2. SameBut(d, e, i) /\ e.mem[i] = d.mem[i]
  <2>1. LoggedRow(d, e, i, old, new, n, b, why)
    BY <1>1, LoggedEffect
  <2> QED BY <2>1 DEF LoggedRow
<1>3. SameBut(d, g, i) /\ g.mem[i] = d.mem[i]
  <2>1. CASE g = e
    BY <1>2, <2>1
  <2>2. CASE g = UpsertVec(e, i, b)
    <3>1. e \in Db /\ b \in Bodies \cup {NoBody}
      BY <1>2 DEF SameBut
    <3>2. SameBut(e, g, i) /\ g.mem[i] = e.mem[i]
      BY <1>1, <2>2, <3>1, VecEffect
    <3> QED BY <1>2, <3>2, SameButTransitive
  <2> QED BY <2>1, <2>2
<1>4. RowSound(g, i, M, V)
  BY DEF RowSound
<1>5. TableInv(g, M, V) /\ Keeps(d, g, M)
  BY <1>1, <1>3, <1>4, OneRow
<1> QED BY <1>3, <1>5 DEF Stored

\* A statement that changes neither name, body, history, index nor vector of a row.
LEMMA TouchRow ==
  ASSUME NEW d, NEW L, NEW U, TableInv(d, L, U), NEW i, Exists(d, i), clock \in Times,
         NEW r \in Row, r.name = d.mem[i].name, r.body = d.mem[i].body
  PROVE  LET e == UpdateRow(d, i, r)
         IN  /\ TableInv(e, L, U) /\ Keeps(d, e, L)
             /\ SameBut(d, e, i) /\ e.mem[i] = [r EXCEPT !.upd = clock] /\ e.vers[i] = d.vers[i]
<1> DEFINE e == UpdateRow(d, i, r)
<1>1. i \in Ids /\ d \in Db /\ d.mem[i] \in Row
  BY ExistsRow DEF TableInv
<1>2. /\ SameBut(d, e, i) /\ e.mem[i] = [r EXCEPT !.upd = clock] /\ e.mem[i] \in Row
      /\ e.vers[i] = d.vers[i] /\ e.fts[i] = d.fts[i] /\ e.vec[i] = d.vec[i]
  BY <1>1, UpdateRowEffect
<1> HIDE DEF e
<1>3. e.mem[i].body = d.mem[i].body /\ e.mem[i].name = d.mem[i].name
  <2>1. [r EXCEPT !.upd = clock].body = r.body /\ [r EXCEPT !.upd = clock].name = r.name
    BY DEF Row
  <2> QED BY <1>2, <2>1
<1>4. RowSound(e, i, L, U)
  <2>1. RowSound(d, i, L, U)
    BY <1>1 DEF TableInv
  <2> QED BY <1>2, <1>3, <2>1 DEF RowSound
<1>5. TableInv(e, L, U) /\ Keeps(d, e, L)
  BY <1>2, <1>3, <1>4, OneRow
<1> QED BY <1>2, <1>5 DEF e

-----------------------------------------------------------------------------
(* What a user sees of the tables *)

\* Names hold what MemoryMap lets them hold: what is gone in e had that name and body
\* before, and what was live still exists under its name.
Shown(d, e) ==
  \A i \in Ids :
    /\ Exists(e, i) /\ ~IsLive(e, i) => /\ Exists(d, i) /\ e.mem[i].name = d.mem[i].name
                                        /\ e.mem[i].body = d.mem[i].body
    /\ IsLive(d, i) => Exists(e, i) /\ e.mem[i].name = d.mem[i].name

\* What writes do: a forgotten row stays as it is and a live one lives on.
Writes(d, e) ==
  \A i \in Ids :
    /\ Exists(e, i) /\ ~IsLive(e, i) => e.mem[i] = d.mem[i]
    /\ IsLive(d, i) => IsLive(e, i) /\ e.mem[i].name = d.mem[i].name

LEMMA WritesTransitive ==
  ASSUME NEW d, NEW e, NEW f, Writes(d, e), Writes(e, f)
  PROVE  Writes(d, f)
BY DEF Writes, IsLive, Exists

LEMMA WritesAreShown ==
  ASSUME NEW d, NEW e, Writes(d, e)
  PROVE  Shown(d, e)
BY DEF Writes, Shown, IsLive, Exists

LEMMA RowWrite ==
  ASSUME NEW d, NEW e, NEW i, SameBut(d, e, i), Exists(d, i),
         \/ e.mem[i] = d.mem[i]
         \/ e.mem[i] \in Row /\ e.mem[i].del = 0 /\ e.mem[i].name = d.mem[i].name
  PROVE  Writes(d, e)
<1> SUFFICES ASSUME NEW k \in Ids
             PROVE  /\ Exists(e, k) /\ ~IsLive(e, k) => e.mem[k] = d.mem[k]
                    /\ IsLive(d, k) => IsLive(e, k) /\ e.mem[k].name = d.mem[k].name
  BY DEF Writes
<1>1. CASE e.mem[k] = d.mem[k]
  BY <1>1 DEF IsLive, Exists
<1>2. CASE e.mem[k] # d.mem[k]
  <2>1. k = i
    BY <1>2 DEF SameBut
  <2> QED BY <1>2, <2>1, RowIsNotNoRow DEF IsLive, Exists
<1> QED BY <1>1, <1>2
-----------------------------------------------------------------------------
(* One lemma per operation on the tables *)

\* remember merges into a row, live or not, whether its UPDATE matches or not.
LEMMA MergeStep ==
  ASSUME NEW d, NEW L, NEW U, TableInv(d, L, U), NEW c \in Proc, c.body \in Bodies,
         Exists(d, c.id), clock \in Times, NEW embedded \in BOOLEAN,
         NEW M, L \subseteq M, UpdateMatches(d, c.id, c.seen) \/ c.id \in M,
         NEW V, U \subseteq V, embedded \/ d.mem[c.id].body = c.body \/ c.id \in V
  PROVE  LET g == RememberMerge(d, c, embedded)
         IN  TableInv(g, M, V) /\ Keeps(d, g, M) /\ Writes(d, g)
<1> DEFINE i   == c.id
           b   == c.body
           old == Fields(d.mem[i])
           new == <<c.name, b>>
           m   == UpdateBody(d, i, b, c.seen)
           e   == AddVersion(SyncFts(m, i, old, new), i, c.name, b, "edit")
           g   == RememberMerge(d, c, embedded)
<1>1. g = IF embedded /\ d.mem[i].body # b THEN UpsertVec(e, i, b) ELSE e
  BY DEF RememberMerge
<1>2. d.mem[i] \in Row /\ c.name \in Names /\ "edit" \in Reason /\ d \in Db
  BY ExistsRow DEF Proc, Reason, TableInv
<1>3. new \in Names \X Bodies
  BY <1>2
<1>4. e \in Logged(m, i, old, new, c.name, b, "edit")
  BY DEF Logged
<1> HIDE DEF g, e, i, old, new
<1>5. CASE UpdateMatches(d, i, c.seen)
  <2> DEFINE r == [d.mem[i] EXCEPT !.body = b]
  <2>1. r \in Row /\ r.name = d.mem[i].name /\ r.body = b /\ r.del = d.mem[i].del
    BY <1>2 DEF Row
  <2>2. m = UpdateRow(d, i, r)
    BY <1>5 DEF UpdateBody
  <2>3. d.mem[i].del = 0
    BY <1>5 DEF UpdateMatches, IsLive
  <2> HIDE DEF r, m
  <2>4. e \in Rewrites(d, i, r, old, c.name, c.name, "edit")
    BY <1>4, <2>1, <2>2 DEF Rewrites, new
  <2>5. \/ g = e /\ (r.body = d.mem[i].body \/ i \in V)
        \/ g = UpsertVec(e, i, r.body)
    BY <1>1, <2>1 DEF i
  <2>6. Exists(d, i)
    BY DEF i
  <2>7. Stored(d, g, i, Stamped(r), L, V)
    BY <1>2, <2>1, <2>4, <2>5, <2>6, BodyWrite
  <2>8. TableInv(g, M, V) /\ Keeps(d, g, M)
    BY <2>7 DEF Stored, TableInv, RowSound, Keeps
  <2>9. Writes(d, g)
    <3>1. g.mem[i].del = 0 /\ g.mem[i].name = d.mem[i].name /\ g.mem[i] \in Row
      BY <2>1, <2>3, <2>7 DEF Row, Stored, Stamped
    <3> QED BY <2>6, <2>7, <3>1, RowWrite DEF Stored
  <2> QED BY <2>8, <2>9 DEF g
<1>6. CASE ~UpdateMatches(d, i, c.seen)
  <2>1. m = d
    BY <1>6 DEF UpdateBody
  <2>2. (g = e \/ g = UpsertVec(e, i, b)) /\ Exists(d, i) /\ i \in M
    BY <1>1, <1>6 DEF i
  <2> HIDE DEF m
  <2>9. b \in Bodies
    OBVIOUS
  <2> HIDE DEF b
  <2>3. e \in Logged(d, i, old, new, c.name, b, "edit")
    BY <1>4, <2>1
  <2>4. Stored(d, g, i, d.mem[i], M, V)
    BY <1>2, <1>3, <2>2, <2>3, <2>9, LostWrite
  <2> QED BY <2>2, <2>4, RowWrite DEF g, Stored
<1> QED BY <1>5, <1>6

\* INSERT under a name nobody holds.
LEMMA InsertStep ==
  ASSUME NEW d, NEW L, NEW U, TableInv(d, L, U), d.next \in Ids, clock \in Times,
         NEW n \in Names, NEW b \in Bodies, Holder(d, n) = {}
  PROVE  LET e == InsertRow(d, n, b)
         IN  /\ TableInv(e, L, U) /\ Keeps(d, e, L) /\ Writes(d, e)
             /\ e.next = d.next + 1 /\ IsLive(e, d.next) /\ e.mem[d.next] \in Row
             /\ e.mem[d.next].name = n /\ e.mem[d.next].body = b
             /\ e.vers[d.next] = << >>
             /\ \A k \in Ids \ {d.next} : e.mem[k] = d.mem[k] /\ e.vers[k] = d.vers[k]
<1> DEFINE i == d.next
           e == InsertRow(d, n, b)
<1>1. d \in Db /\ Distinct(d) /\ Unused(d) /\ Ids \subseteq Nat /\ i \in Nat
  BY StoreConstants DEF TableInv, Ids
<1>2. /\ e \in Db /\ e.next = i + 1
      /\ \A k \in Ids \ {i} : /\ e.mem[k] = d.mem[k] /\ e.vers[k] = d.vers[k]
                              /\ e.fts[k] = d.fts[k] /\ e.vec[k] = d.vec[k]
      /\ e.mem[i] = [name |-> n, body |-> b, upd |-> clock, del |-> 0] /\ e.mem[i] \in Row
      /\ e.vers[i] = d.vers[i] /\ e.fts[i] = {<<n, b>>} /\ e.vec[i] = d.vec[i]
  BY <1>1, InsertRowEffect
<1> HIDE DEF e
<1>3. e.mem[i].name = n /\ e.mem[i].body = b /\ e.mem[i].del = 0
  BY <1>2
<1>4. d.mem[i] = NoRow /\ d.vers[i] = << >> /\ d.vec[i] = NoBody
  BY <1>1 DEF Unused
<1>5. \A k \in Ids \ {i} : e.mem[k] = d.mem[k] /\ (Exists(e, k) <=> Exists(d, k))
  BY <1>2 DEF Exists
<1>6. Distinct(e)
  <2>1. ASSUME NEW m \in Ids \ {i}, Exists(e, m), e.mem[m].name = n PROVE FALSE
    BY <1>5, <2>1 DEF Holder
  <2> QED BY <1>1, <1>3, <1>5, <2>1 DEF Distinct
<1>7. Unused(e)
  <2> SUFFICES ASSUME NEW k \in Ids, k >= e.next
               PROVE  e.mem[k] = NoRow /\ e.vers[k] = << >> /\ e.vec[k] = NoBody
    BY DEF Unused
  <2>1. k # i /\ k >= d.next
    BY <1>1, <1>2
  <2> QED BY <1>1, <1>2, <2>1 DEF Unused
<1>8. ASSUME NEW k \in Ids, Exists(e, k) PROVE RowSound(e, k, L, U)
  <2>1. CASE k = i
    <3>1. e.vers[i] = << >> /\ e.vec[i] = NoBody
      BY <1>2, <1>4
    <3>2. \E x \in e.fts[i] : x[2] = e.mem[i].body
      BY <1>2, <1>3
    <3> QED BY <2>1, <3>1, <3>2 DEF RowSound
  <2>2. CASE k # i
    <3>1. RowSound(d, k, L, U)
      BY <1>5, <1>8, <2>2 DEF TableInv
    <3> QED BY <1>2, <2>2, <3>1 DEF RowSound
  <2> QED BY <2>1, <2>2
<1>9. Keeps(d, e, L)
  <2> SUFFICES ASSUME NEW k \in Ids, k < d.next, Exists(e, k)
               PROVE  /\ Exists(d, k)
                      /\ \/ k \in L
                         \/ e.vers[k] # << >>
                         \/ d.vers[k] = << >> /\ e.mem[k].body = d.mem[k].body
    BY <1>1, <1>2 DEF Keeps
  <2>1. k # i
    BY <1>1
  <2> QED BY <1>2, <1>5, <2>1
<1>10. Writes(d, e)
  <2> SUFFICES ASSUME NEW k \in Ids
               PROVE  /\ Exists(e, k) /\ ~IsLive(e, k) => e.mem[k] = d.mem[k]
                      /\ IsLive(d, k) => IsLive(e, k) /\ e.mem[k].name = d.mem[k].name
    BY DEF Writes
  <2> QED BY <1>3, <1>4, <1>5 DEF IsLive, Exists
<1>11. IsLive(e, i)
  BY <1>2, <1>3, RowIsNotNoRow DEF IsLive, Exists
<1> QED BY <1>2, <1>3, <1>4, <1>6, <1>7, <1>8, <1>9, <1>10, <1>11 DEF TableInv, e
LEMMA KeepsTransitive ==
  ASSUME NEW d \in Db, NEW e \in Db, NEW f \in Db, NEW L, Keeps(d, e, L), Keeps(e, f, L)
  PROVE  Keeps(d, f, L)
<1>1. d.next \in Nat /\ e.next \in Nat /\ f.next \in Nat /\ Ids \subseteq Nat
  BY StoreConstants DEF Db, Ids
<1>2. e.next >= d.next /\ f.next >= e.next /\ f.next >= d.next
  BY <1>1 DEF Keeps
<1> SUFFICES ASSUME NEW k \in Ids, k < d.next, Exists(f, k)
             PROVE  /\ Exists(d, k)
                    /\ \/ k \in L
                       \/ f.vers[k] # << >>
                       \/ d.vers[k] = << >> /\ f.mem[k].body = d.mem[k].body
  BY <1>2 DEF Keeps
<1>3. k < e.next
  BY <1>1, <1>2
<1>4. /\ Exists(e, k)
      /\ k \in L \/ f.vers[k] # << >> \/ (e.vers[k] = << >> /\ f.mem[k].body = e.mem[k].body)
  BY <1>3 DEF Keeps
<1>5. /\ Exists(d, k)
      /\ k \in L \/ e.vers[k] # << >> \/ (d.vers[k] = << >> /\ e.mem[k].body = d.mem[k].body)
  BY <1>4 DEF Keeps
<1> QED BY <1>4, <1>5

LEMMA Unembed ==
  ASSUME NEW d, NEW L, NEW U, NEW V, TableInv(d, L, U), U \subseteq V
  PROVE  TableInv(d, L, V)
BY DEF TableInv, RowSound

\* remember and remember-batch create a row, with its first version.
LEMMA CreateStep ==
  ASSUME NEW d, NEW L, NEW U, TableInv(d, L, U), d.next \in Ids, clock \in Times,
         NEW n \in Names, NEW b \in Bodies, Holder(d, n) = {}, NEW embedded \in BOOLEAN
  PROVE  LET g == RememberCreate(d, n, b, embedded)
         IN  /\ TableInv(g, L, U) /\ Keeps(d, g, L) /\ Writes(d, g)
             /\ g.next = d.next + 1 /\ \A k \in Ids \ {d.next} : g.mem[k] = d.mem[k]
<1> DEFINE i == d.next
           e == InsertRow(d, n, b)
           f == AddVersion(e, i, n, b, "create")
           g == RememberCreate(d, n, b, embedded)
           v == [name |-> n, body |-> b, reason |-> "create"]
<1>1. /\ TableInv(e, L, U) /\ Keeps(d, e, L) /\ Writes(d, e)
      /\ e.next = d.next + 1 /\ IsLive(e, i) /\ e.mem[i] \in Row
      /\ e.mem[i].name = n /\ e.mem[i].body = b /\ e.vers[i] = << >>
      /\ \A k \in Ids \ {i} : e.mem[k] = d.mem[k]
  BY InsertStep
<1>2. g = IF embedded THEN UpsertVec(f, i, b) ELSE f
  BY DEF RememberCreate
<1> HIDE DEF e
<1>3. e \in Db /\ d \in Db /\ "create" \in Reason /\ Exists(e, i)
  BY <1>1 DEF TableInv, Reason, IsLive
<1>4. /\ SameBut(e, f, i) /\ f.mem[i] = e.mem[i] /\ f.fts[i] = e.fts[i] /\ f.vec[i] = e.vec[i]
      /\ f.vers[i] = Append(e.vers[i], v)
  BY <1>3, AddVersionEffect
<1> HIDE DEF f, g
<1>5. /\ SameBut(e, g, i) /\ g.mem[i] = e.mem[i] /\ g.fts[i] = e.fts[i] /\ g.vers[i] = f.vers[i]
      /\ g.vec[i] = e.vec[i] \/ g.vec[i] = b
  <2>1. CASE embedded
    <3>1. f \in Db /\ b \in Bodies \cup {NoBody}
      BY <1>4 DEF SameBut
    <3>2. /\ SameBut(f, g, i) /\ g.mem[i] = f.mem[i] /\ g.vers[i] = f.vers[i]
          /\ g.fts[i] = f.fts[i] /\ g.vec[i] = b
      BY <1>2, <2>1, <3>1, VecEffect
    <3> QED BY <1>4, <3>2, SameButTransitive
  <2>2. CASE ~embedded
    BY <1>2, <1>4, <2>2
  <2> QED BY <2>1, <2>2
<1>6. g.vers[i] # << >> /\ HasBody(g.vers[i], b)
  <2>1. e.vers[i] \in Seq(Version)
    BY <1>3 DEF Db
  <2>2. v \in Version /\ v.body = b
    BY <1>3, VersionIsVersion
  <2> HIDE DEF v
  <2> QED BY <1>4, <1>5, <2>1, <2>2, AppendHasBody
<1>7. RowSound(g, i, L, U)
  <2>1. RowSound(e, i, L, U)
    BY <1>1, <1>3 DEF TableInv
  <2> QED BY <1>1, <1>5, <1>6, <2>1 DEF RowSound
<1>8. TableInv(g, L, U) /\ Keeps(e, g, L)
  BY <1>1, <1>3, <1>5, <1>6, <1>7, OneRow
<1>9. Keeps(d, g, L)
  <2>1. g \in Db
    BY <1>8 DEF TableInv
  <2> QED BY <1>1, <1>3, <1>8, <2>1, KeepsTransitive
<1>10. Writes(d, g)
  <2>1. Writes(e, g)
    BY <1>3, <1>5, RowWrite
  <2> QED BY <1>1, <2>1, WritesTransitive
<1>11. g.next = d.next + 1 /\ \A k \in Ids \ {i} : g.mem[k] = d.mem[k]
  BY <1>1, <1>5 DEF SameBut
<1> QED BY <1>8, <1>9, <1>10, <1>11 DEF g

\* remember-batch: what one line leaves, whether it is refused, creates or merges.
LEMMA LineStep ==
  ASSUME NEW d, NEW L, NEW U, TableInv(d, L, U), d.next \in Ids, clock \in Times,
         NEW n \in Names, NEW b \in Bodies, NEW force \in BOOLEAN, NEW embedded \in BOOLEAN,
         NEW V, U \subseteq V,
         embedded \/ FindByName(ProcessLine(d, n, b, force, embedded), n) \subseteq V
  PROVE  LET g == ProcessLine(d, n, b, force, embedded)
         IN  /\ TableInv(g, L, V) /\ Keeps(d, g, L) /\ Writes(d, g)
             /\ g.next \in {d.next, d.next + 1}
<1> DEFINE g == ProcessLine(d, n, b, force, embedded)
<1>1. CASE LineRefused(d, n, force)
  <2>1. g = d
    BY <1>1 DEF ProcessLine
  <2>2. TableInv(d, L, V) /\ Writes(d, d)
    BY Unembed DEF Writes
  <2>3. Keeps(d, d, L)
    BY StoreConstants DEF TableInv, Db, Keeps
  <2> QED BY <2>1, <2>2, <2>3
<1>2. CASE ~LineRefused(d, n, force) /\ FindByName(d, n) = {}
  <2>1. Holder(d, n) = {}
    BY <1>2 DEF LineRefused
  <2>2. g = RememberCreate(d, n, b, embedded)
    BY <1>2 DEF ProcessLine
  <2> HIDE DEF g
  <2>3. TableInv(g, L, U) /\ Keeps(d, g, L) /\ Writes(d, g) /\ g.next = d.next + 1
    BY <2>1, <2>2, CreateStep
  <2> QED BY <2>3, Unembed DEF g
<1>3. CASE ~LineRefused(d, n, force) /\ FindByName(d, n) # {}
  <2> DEFINE i   == CHOOSE j \in FindByName(d, n) : TRUE
             r   == [d.mem[i] EXCEPT !.body = b]
             old == Fields(d.mem[i])
             e   == AddVersion(SyncFts(UpdateBody(d, i, b, NoRow), i, old, <<n, b>>), i, n, b, "edit")
  <2>1. i \in FindByName(d, n)
    BY <1>3
  <2>2. g = IF embedded THEN UpsertVec(e, i, b) ELSE e
    BY <1>3 DEF ProcessLine
  <2>3. Exists(d, i) /\ IsLive(d, i) /\ d.mem[i].name = n /\ i \in Ids
    BY <2>1 DEF FindByName, Holder
  <2>4. d.mem[i] \in Row /\ d \in Db /\ "edit" \in Reason
    BY <2>3, ExistsRow DEF TableInv, Reason
  <2>5. UpdateBody(d, i, b, NoRow) = UpdateRow(d, i, r)
    BY <2>3 DEF UpdateBody, UpdateMatches
  <2>6. r \in Row /\ r.name = n /\ r.body = b /\ r.del = 0
    BY <2>3, <2>4 DEF Row, IsLive
  <2> HIDE DEF i, r, old, g
  <2>7. e \in Rewrites(d, i, r, old, n, n, "edit")
    BY <2>5, <2>6 DEF Rewrites, Logged
  <2> HIDE DEF e
  <2>8. SameBut(d, g, i) /\ g.mem[i] = Stamped(r)
    <3>1. \/ g = e /\ (r.body = d.mem[i].body \/ i \in V \cup {i})
          \/ g = UpsertVec(e, i, r.body)
      BY <2>2, <2>6
    <3>2. U \subseteq V \cup {i}
      OBVIOUS
    <3>3. Stored(d, g, i, Stamped(r), L, V \cup {i})
      BY <2>3, <2>4, <2>6, <2>7, <3>1, <3>2, BodyWrite
    <3> QED BY <3>3 DEF Stored
  <2>9. /\ g.mem[i] \in Row /\ g.mem[i].name = n /\ g.mem[i].del = 0
    BY <2>6, <2>8, StoreConstants DEF Stamped, Row
  <2>10. i \in FindByName(g, n)
    BY <2>3, <2>9, RowIsNotNoRow DEF FindByName, Holder, Exists, IsLive
  <2>11. \/ g = e /\ (r.body = d.mem[i].body \/ i \in V)
         \/ g = UpsertVec(e, i, r.body)
    BY <2>2, <2>6, <2>10 DEF g
  <2>12. Stored(d, g, i, Stamped(r), L, V)
    BY <2>3, <2>4, <2>6, <2>7, <2>11, BodyWrite
  <2>13. Writes(d, g)
    BY <2>3, <2>8, <2>9, RowWrite
  <2> QED BY <2>8, <2>12, <2>13 DEF g, Stored, SameBut
<1> QED BY <1>1, <1>2, <1>3
\* rename: the body stays the row's own, the new version and index entry are of the row
\* that was read.
LEMMA RenameStep ==
  ASSUME NEW d, NEW L, NEW U, TableInv(d, L, U), NEW i, Exists(d, i), clock \in Times,
         NEW n \in Names, n = d.mem[i].name \/ Holder(d, n) = {},
         NEW snap \in Row, i \notin L /\ d.vers[i] = << >> => snap.body = d.mem[i].body
  PROVE  LET r == [d.mem[i] EXCEPT !.name = n]
             g == AddVersion(SyncFts(UpdateRow(d, i, r), i, Fields(snap), <<n, snap.body>>),
                             i, n, snap.body, "rename")
         IN  Stored(d, g, i, Stamped(r), L, U)
<1> DEFINE r   == [d.mem[i] EXCEPT !.name = n]
           m   == UpdateRow(d, i, r)
           b   == snap.body
           old == Fields(snap)
           new == <<n, b>>
           g   == AddVersion(SyncFts(m, i, old, new), i, n, b, "rename")
           v   == [name |-> n, body |-> b, reason |-> "rename"]
<1>1. i \in Ids /\ d \in Db /\ d.mem[i] \in Row /\ "rename" \in Reason
  BY ExistsRow DEF TableInv, Reason
<1>2. b \in Bodies /\ new \in Names \X Bodies
  BY DEF Row
<1>3. r \in Row /\ r.name = n /\ r.body = d.mem[i].body
  BY <1>1 DEF Row
<1>4. /\ SameBut(d, m, i) /\ m.mem[i] = Stamped(r) /\ m.mem[i] \in Row
      /\ m.vers[i] = d.vers[i] /\ m.fts[i] = d.fts[i] /\ m.vec[i] = d.vec[i]
  <2> HIDE DEF r
  <2>1. /\ SameBut(d, m, i) /\ m.mem[i] = [r EXCEPT !.upd = clock] /\ m.mem[i] \in Row
        /\ m.vers[i] = d.vers[i] /\ m.fts[i] = d.fts[i] /\ m.vec[i] = d.vec[i]
    BY <1>1, <1>3, UpdateRowEffect
  <2> QED BY <2>1 DEF Stamped
<1>5. g \in Logged(m, i, old, new, n, b, "rename")
  BY DEF Logged
<1>6. old[2] = b /\ new[2] = b
  BY DEF Fields
<1> HIDE DEF r, m, b, old, new, g
<1>7. m \in Db
  BY <1>4 DEF SameBut
<1>8. LoggedRow(m, g, i, old, new, n, b, "rename")
  BY <1>1, <1>2, <1>5, <1>7, LoggedEffect
<1>9. /\ SameBut(d, g, i) /\ g.mem[i] = Stamped(r) /\ g.mem[i] \in Row
      /\ g.vers[i] = Append(d.vers[i], v) /\ g.fts[i] = (d.fts[i] \ {old}) \cup {new}
      /\ g.vec[i] = d.vec[i]
  BY <1>4, <1>8, SameButTransitive DEF LoggedRow
<1>10. g.mem[i].body = d.mem[i].body /\ g.mem[i].name = n
  BY <1>3, <1>9 DEF Stamped, Row
<1>11. /\ g.vers[i] # << >> /\ HasBody(g.vers[i], b)
       /\ \A x : HasBody(d.vers[i], x) => HasBody(g.vers[i], x)
  <2>1. d.vers[i] \in Seq(Version)
    BY <1>1 DEF Db
  <2>2. v \in Version /\ v.body = b
    BY <1>1, <1>2, VersionIsVersion
  <2> HIDE DEF v
  <2> QED BY <1>9, <2>1, <2>2, AppendHasBody
<1>12. RowSound(g, i, L, U)
  <2> SUFFICES ASSUME i \notin L PROVE RowSound(g, i, L, U)
    BY DEF RowSound
  <2>1. /\ d.vers[i] # << >> => HasBody(d.vers[i], d.mem[i].body)
        /\ \E x \in d.fts[i] : x[2] = d.mem[i].body
        /\ i \notin U => d.vec[i] \in {NoBody, d.mem[i].body}
    BY <1>1 DEF TableInv, RowSound
  <2>2. d.vers[i] = << >> => b = d.mem[i].body
    BY DEF b
  <2>3. HasBody(g.vers[i], g.mem[i].body)
    BY <1>10, <1>11, <2>1, <2>2
  <2>4. \E x \in g.fts[i] : x[2] = g.mem[i].body
    <3>1. PICK x \in d.fts[i] : x[2] = d.mem[i].body
      BY <2>1
    <3>2. CASE x = old
      BY <1>6, <1>9, <1>10, <3>1, <3>2
    <3>3. CASE x # old
      BY <1>9, <1>10, <3>1, <3>3
    <3> QED BY <3>2, <3>3
  <2> QED BY <1>9, <1>10, <2>1, <2>3, <2>4 DEF RowSound
<1>13. TableInv(g, L, U) /\ Keeps(d, g, L)
  <2>1. g.mem[i].name = d.mem[i].name \/ Holder(d, g.mem[i].name) = {}
    BY <1>10
  <2> QED BY <1>9, <1>11, <1>12, <2>1, OneRow
<1>14. Stored(d, g, i, Stamped(r), L, U)
  BY <1>9, <1>13 DEF Stored
<1> QED BY <1>14 DEF g, m, r, b, old, new

\* forget's first statement.
LEMMA DeleteVecStep ==
  ASSUME NEW d, NEW L, NEW U, TableInv(d, L, U), NEW i \in Ids
  PROVE  LET g == DeleteVec(d, i)
         IN  TableInv(g, L, U) /\ Keeps(d, g, L) /\ g.mem = d.mem
<1> DEFINE g == DeleteVec(d, i)
<1>1. d \in Db /\ Distinct(d) /\ Unused(d) /\ d.next \in Nat /\ Ids \subseteq Nat
  BY StoreConstants DEF TableInv, Db, Ids
<1>2. g = UpsertVec(d, i, NoBody)
  BY DEF DeleteVec, UpsertVec
<1>3. g.mem = d.mem
  BY DEF DeleteVec
<1> HIDE DEF g
<1>4. /\ SameBut(d, g, i) /\ g.vers[i] = d.vers[i] /\ g.fts[i] = d.fts[i] /\ g.vec[i] = NoBody
  BY <1>1, <1>2, VecEffect
<1>5. /\ g \in Db /\ g.next = d.next
      /\ \A k \in Ids : /\ g.vers[k] = d.vers[k] /\ g.fts[k] = d.fts[k]
                        /\ g.vec[k] \in {d.vec[k], NoBody}
  BY <1>4 DEF SameBut
<1>6. \A k : Exists(g, k) <=> Exists(d, k)
  BY <1>3 DEF Exists
<1>7. Distinct(g) /\ Unused(g)
  BY <1>1, <1>3, <1>5, <1>6 DEF Distinct, Unused
<1>8. \A k \in Ids : Exists(g, k) => RowSound(g, k, L, U)
  BY <1>3, <1>5, <1>6 DEF TableInv, RowSound
<1>9. Keeps(d, g, L)
  BY <1>1, <1>3, <1>5, <1>6 DEF Keeps
<1> QED BY <1>3, <1>5, <1>7, <1>8, <1>9 DEF TableInv, g

\* forget's second statement.
LEMMA SoftDeleteStep ==
  ASSUME NEW d, NEW L, NEW U, TableInv(d, L, U), clock \in Times, NEW n
  PROVE  LET g == SoftDelete(d, n)
         IN  TableInv(g, L, U) /\ Keeps(d, g, L) /\ Shown(d, g)
<1> DEFINE g == SoftDelete(d, n)
<1>1. CASE FindByName(d, n) = {}
  <2>1. g = d
    BY <1>1 DEF SoftDelete
  <2>2. Keeps(d, d, L) /\ Shown(d, d)
    BY StoreConstants DEF TableInv, Db, Keeps, Shown, IsLive
  <2> QED BY <2>1, <2>2
<1>2. CASE FindByName(d, n) # {}
  <2> DEFINE i == CHOOSE j \in FindByName(d, n) : TRUE
             r == [d.mem[i] EXCEPT !.del = clock]
  <2>1. i \in FindByName(d, n)
    BY <1>2
  <2>2. g = UpdateRow(d, i, r)
    BY <1>2 DEF SoftDelete
  <2>3. Exists(d, i)
    BY <2>1 DEF FindByName, Holder
  <2>4. d.mem[i] \in Row
    BY <2>3, ExistsRow DEF TableInv
  <2> HIDE DEF i
  <2>5. r \in Row /\ r.name = d.mem[i].name /\ r.body = d.mem[i].body
    BY <2>4 DEF Row
  <2> HIDE DEF g, r
  <2>6. /\ TableInv(g, L, U) /\ Keeps(d, g, L)
        /\ SameBut(d, g, i) /\ g.mem[i] = [r EXCEPT !.upd = clock]
    BY <2>2, <2>3, <2>5, TouchRow
  <2>7. g.mem[i].name = d.mem[i].name /\ g.mem[i].body = d.mem[i].body /\ Exists(g, i)
    <3>1. [r EXCEPT !.upd = clock] \in Row
      BY <2>5 DEF Row
    <3>2. [r EXCEPT !.upd = clock].name = r.name /\ [r EXCEPT !.upd = clock].body = r.body
      BY <2>5 DEF Row
    <3> QED BY <2>3, <2>5, <2>6, <3>1, <3>2, RowIsNotNoRow DEF Exists
  <2>8. \A k \in Ids \ {i} : g.mem[k] = d.mem[k]
    BY <2>6 DEF SameBut
  <2>9. Shown(d, g)
    BY <2>3, <2>7, <2>8 DEF Shown, IsLive, Exists
  <2> QED BY <2>6, <2>9 DEF g
<1> QED BY <1>1, <1>2

\* purge: rows that were forgotten go.
LEMMA DeleteStep ==
  ASSUME NEW d, NEW L, NEW U, TableInv(d, L, U),
         NEW S \in SUBSET Ids, \A i \in S : Exists(d, i) /\ ~IsLive(d, i)
  PROVE  LET g == DeleteRows(d, S)
         IN  TableInv(g, L, U) /\ Keeps(d, g, L) /\ Shown(d, g)
<1> DEFINE g == DeleteRows(d, S)
           mem  == [i \in Ids |-> IF i \in S THEN NoRow ELSE d.mem[i]]
           vers == [i \in Ids |-> IF i \in S THEN << >> ELSE d.vers[i]]
           vec  == [i \in Ids |-> IF i \in S THEN NoBody ELSE d.vec[i]]
           fts  == [i \in Ids |-> IF i \in S THEN d.fts[i] \ {<<d.mem[i].name, d.mem[i].body>>}
                                  ELSE d.fts[i]]
<1>1. d \in Db /\ Distinct(d) /\ Unused(d) /\ d.next \in Nat /\ Ids \subseteq Nat
  BY StoreConstants DEF TableInv, Db, Ids
<1>2. g = [d EXCEPT !.mem = mem, !.vers = vers, !.vec = vec, !.fts = fts]
  BY DEF DeleteRows
<1>3. mem \in [Ids -> Row \cup {NoRow}]
  BY <1>1 DEF Db
<1>4. vers \in [Ids -> Seq(Version)]
  <2>1. d.vers \in [Ids -> Seq(Version)] /\ << >> \in Seq(Version)
    BY <1>1 DEF Db
  <2> QED BY <2>1
<1>5. vec \in [Ids -> Bodies \cup {NoBody}]
  BY <1>1 DEF Db
<1>6. fts \in [Ids -> SUBSET (Names \X Bodies)]
  <2>1. d.fts \in [Ids -> SUBSET (Names \X Bodies)]
    BY <1>1 DEF Db
  <2>2. \A i \in Ids : d.fts[i] \ {<<d.mem[i].name, d.mem[i].body>>} \in SUBSET (Names \X Bodies)
    BY <2>1
  <2> QED BY <2>1, <2>2
<1>7. /\ \A i \in S : mem[i] = NoRow /\ vers[i] = << >> /\ vec[i] = NoBody
      /\ \A i \in Ids \ S : mem[i] = d.mem[i] /\ vers[i] = d.vers[i] /\ vec[i] = d.vec[i]
                            /\ fts[i] = d.fts[i]
  OBVIOUS
<1> HIDE DEF g, mem, vers, vec, fts
<1>8. g \in Db /\ g.next = d.next /\ g.mem = mem /\ g.vers = vers /\ g.vec = vec /\ g.fts = fts
  BY <1>1, <1>2, <1>3, <1>4, <1>5, <1>6 DEF Db
<1>9. \A i \in Ids : Exists(g, i) <=> (Exists(d, i) /\ i \notin S)
  BY <1>7, <1>8 DEF Exists
<1>10. Distinct(g) /\ Unused(g)
  BY <1>1, <1>7, <1>8, <1>9 DEF Distinct, Unused
<1>11. \A i \in Ids : Exists(g, i) => RowSound(g, i, L, U)
  BY <1>7, <1>8, <1>9 DEF TableInv, RowSound
<1>12. Keeps(d, g, L)
  BY <1>1, <1>7, <1>8, <1>9 DEF Keeps
<1>13. Shown(d, g)
  BY <1>7, <1>8, <1>9 DEF Shown, IsLive
<1> QED BY <1>8, <1>10, <1>11, <1>12, <1>13 DEF TableInv, g
\* --force-merge brings a forgotten row back.
LEMMA ClearStep ==
  ASSUME NEW d, NEW L, NEW U, TableInv(d, L, U), NEW i, Exists(d, i), clock \in Times
  PROVE  LET g == ClearDeletedAt(d, i)
         IN  TableInv(g, L, U) /\ Keeps(d, g, L) /\ Writes(d, g)
<1> DEFINE r == [d.mem[i] EXCEPT !.del = 0]
           g == ClearDeletedAt(d, i)
<1>1. d.mem[i] \in Row
  BY ExistsRow DEF TableInv
<1>2. r \in Row /\ r.name = d.mem[i].name /\ r.body = d.mem[i].body /\ r.del = 0
  BY <1>1, StoreConstants DEF Row, Times
<1>3. g = UpdateRow(d, i, r)
  BY DEF ClearDeletedAt
<1> HIDE DEF r, g
<1>4. /\ TableInv(g, L, U) /\ Keeps(d, g, L)
      /\ SameBut(d, g, i) /\ g.mem[i] = [r EXCEPT !.upd = clock]
  BY <1>2, <1>3, TouchRow
<1>5. g.mem[i] \in Row /\ g.mem[i].del = 0 /\ g.mem[i].name = d.mem[i].name
  BY <1>2, <1>4 DEF Row
<1>6. Writes(d, g)
  BY <1>4, <1>5, RowWrite
<1> QED BY <1>4, <1>6 DEF g

\* What edit's transaction makes of the tables.
Edited(d, c, embedded) ==
  LET d1 == AddVersion(SyncFts(UpdateBody(d, c.id, c.body, c.seen), c.id, Fields(c.snap),
                               <<c.snap.name, c.body>>), c.id, c.name, c.body, "edit")
  IN  IF embedded /\ c.body # c.snap.body THEN UpsertVec(d1, c.id, c.body) ELSE d1

LEMMA EditStep ==
  ASSUME NEW d, NEW L, NEW U, TableInv(d, L, U), NEW c \in Proc, c.body \in Bodies,
         c.snap \in Row, UpdateMatches(d, c.id, c.seen), clock \in Times,
         NEW embedded \in BOOLEAN, NEW V, U \subseteq V,
         \/ c.id \in V
         \/ IF c.body = c.snap.body THEN d.mem[c.id].body = c.body ELSE embedded
  PROVE  LET g == Edited(d, c, embedded)
         IN  TableInv(g, L, V) /\ Keeps(d, g, L) /\ Writes(d, g) /\ SameBut(d, g, c.id)
<1> DEFINE i   == c.id
           r   == [d.mem[i] EXCEPT !.body = c.body]
           old == Fields(c.snap)
           e   == AddVersion(SyncFts(UpdateBody(d, i, c.body, c.seen), i, old,
                                     <<c.snap.name, c.body>>), i, c.name, c.body, "edit")
           g   == Edited(d, c, embedded)
<1>1. Exists(d, i) /\ d.mem[i] \in Row /\ d.mem[i].del = 0 /\ "edit" \in Reason
  BY ExistsRow DEF TableInv, UpdateMatches, IsLive, Reason
<1>2. r \in Row /\ r.name = d.mem[i].name /\ r.body = c.body /\ r.del = 0
  BY <1>1 DEF Row
<1>3. c.name \in Names /\ c.snap.name \in Names
  BY DEF Proc, Row
<1>4. g = IF embedded /\ c.body # c.snap.body THEN UpsertVec(e, i, c.body) ELSE e
  BY DEF Edited
<1>5. UpdateBody(d, i, c.body, c.seen) = UpdateRow(d, i, r)
  BY DEF UpdateBody
<1> DEFINE k == c.snap.name
           n == c.name
<1> HIDE DEF i, r, old, g
<1>6. e \in Rewrites(d, i, r, old, k, n, "edit")
  BY <1>2, <1>5 DEF Rewrites, Logged
<1> HIDE DEF e
<1>7. \/ g = e /\ (r.body = d.mem[i].body \/ i \in V)
      \/ g = UpsertVec(e, i, r.body)
  BY <1>2, <1>4 DEF i
<1>8. k \in Names /\ n \in Names
  BY <1>3
<1> HIDE DEF k, n
<1>9. Stored(d, g, i, Stamped(r), L, V)
  BY <1>1, <1>2, <1>6, <1>7, <1>8, BodyWrite
<1>10. g.mem[i] \in Row /\ g.mem[i].del = 0 /\ g.mem[i].name = d.mem[i].name
  BY <1>2, <1>9 DEF Row, Stored, Stamped
<1>11. TableInv(g, L, V) /\ Keeps(d, g, L) /\ SameBut(d, g, i)
  BY <1>9 DEF Stored
<1>12. Writes(d, g)
  BY <1>1, <1>10, <1>11, RowWrite
<1> QED BY <1>11, <1>12 DEF i, g

\* What restore's transaction makes of the tables.
Restored(d, c, embedded) ==
  LET d1 == AddVersion(UpdateRow(d, c.id, [d.mem[c.id] EXCEPT !.body = c.body, !.del = 0]),
                       c.id, c.snap.name, c.body, "restore")
      d2 == SyncFts(d1, c.id, Fields(c.snap), <<c.snap.name, c.body>>)
  IN  IF embedded THEN UpsertVec(d2, c.id, c.body) ELSE d2

LEMMA RestoreStep ==
  ASSUME NEW d, NEW L, NEW U, TableInv(d, L, U), NEW c \in Proc, c.body \in Bodies,
         c.snap \in Row, Exists(d, c.id), clock \in Times,
         NEW embedded \in BOOLEAN, NEW V, U \subseteq V, c.id \in V \/ embedded
  PROVE  LET g == Restored(d, c, embedded)
         IN  TableInv(g, L, V) /\ Keeps(d, g, L) /\ Writes(d, g) /\ SameBut(d, g, c.id)
<1> DEFINE i   == c.id
           r   == [d.mem[i] EXCEPT !.body = c.body, !.del = 0]
           old == Fields(c.snap)
           k   == c.snap.name
           e   == SyncFts(AddVersion(UpdateRow(d, i, r), i, k, c.body, "restore"), i, old,
                          <<k, c.body>>)
           g   == Restored(d, c, embedded)
<1>1. Exists(d, i) /\ d.mem[i] \in Row /\ "restore" \in Reason
  BY ExistsRow DEF TableInv, Reason
<1>2. r \in Row /\ r.name = d.mem[i].name /\ r.body = c.body /\ r.del = 0
  <2>1. 0 \in Times
    BY StoreConstants DEF Times
  <2> QED BY <1>1, <2>1 DEF Row
<1>3. k \in Names
  BY DEF Row
<1>4. g = IF embedded THEN UpsertVec(e, i, c.body) ELSE e
  BY DEF Restored
<1> HIDE DEF i, r, old, g, k
<1>5. e \in Rewrites(d, i, r, old, k, k, "restore")
  BY <1>2 DEF Rewrites, Logged
<1> HIDE DEF e
<1>6. \/ g = e /\ (r.body = d.mem[i].body \/ i \in V)
      \/ g = UpsertVec(e, i, r.body)
  BY <1>2, <1>4 DEF i
<1>7. Stored(d, g, i, Stamped(r), L, V)
  BY <1>1, <1>2, <1>3, <1>5, <1>6, BodyWrite
<1>8. g.mem[i] \in Row /\ g.mem[i].del = 0 /\ g.mem[i].name = d.mem[i].name
  BY <1>2, <1>7 DEF Row, Stored, Stamped
<1>9. TableInv(g, L, V) /\ Keeps(d, g, L) /\ SameBut(d, g, i)
  BY <1>7 DEF Stored
<1>10. Writes(d, g)
  BY <1>1, <1>8, <1>9, RowWrite
<1> QED BY <1>9, <1>10 DEF i, g

LEMMA PairElements ==
  \A T : \A s \in Seq(T) : Len(s) = 2 => s[1] \in T /\ s[2] \in T
OBVIOUS

\* What split-body's transaction makes of the tables when both children's names are free.
Divided(d, c) ==
  LET d1 == InsertRow(InsertRow(d, Child[c.name][1], Parts[c.snap.body][1]),
                      Child[c.name][2], Parts[c.snap.body][2])
  IN  AddVersion(UpdateRow(d1, c.id, d1.mem[c.id]), c.id, c.snap.name, c.snap.body, "edit")

LEMMA SplitStep ==
  ASSUME NEW d, NEW L, NEW U, TableInv(d, L, U), NEW c \in Proc, clock \in Times,
         c.name \in DOMAIN Child, c.snap \in Row, c.snap.body \in DOMAIN Parts,
         Holder(d, Child[c.name][1]) = {}, Holder(d, Child[c.name][2]) = {},
         IsLive(d, c.id), d.next + 1 \in Ids,
         c.id \notin L /\ d.vers[c.id] = << >> => c.snap.body = d.mem[c.id].body
  PROVE  LET g == Divided(d, c)
         IN  TableInv(g, L, U) /\ Keeps(d, g, L) /\ Writes(d, g)
<1> DEFINE i  == c.id
           n1 == Child[c.name][1]
           n2 == Child[c.name][2]
           b1 == Parts[c.snap.body][1]
           b2 == Parts[c.snap.body][2]
           f1 == InsertRow(d, n1, b1)
           f2 == InsertRow(f1, n2, b2)
           f3 == UpdateRow(f2, i, f2.mem[i])
           n  == c.snap.name
           b  == c.snap.body
           g  == Divided(d, c)
           v  == [name |-> n, body |-> b, reason |-> "edit"]
<1>1. /\ n1 \in Names /\ n2 \in Names /\ n1 # n2 /\ b1 \in Bodies /\ b2 \in Bodies
      /\ n \in Names /\ b \in Bodies /\ "edit" \in Reason
  <2>1. n1 \in Names /\ n2 \in Names /\ n1 # n2
    BY StoreConstants, PairElements
  <2>2. b1 \in Bodies /\ b2 \in Bodies
    BY StoreConstants, PairElements
  <2> QED BY <2>1, <2>2 DEF Row, Reason
<1>2. g = AddVersion(f3, i, n, b, "edit")
  BY DEF Divided
<1>3. Exists(d, i) /\ i \in Ids /\ i < d.next /\ d.next \in Nat
  BY ExistsBelowNext DEF IsLive
<1>4. d.next \in Ids
  BY <1>3, StoreConstants DEF Ids
<1>5. c.id = i /\ IsLive(d, i) /\ Holder(d, n1) = {} /\ Holder(d, n2) = {}
      /\ (i \notin L /\ d.vers[i] = << >> => b = d.mem[i].body)
  OBVIOUS
<1> HIDE DEF i, n1, n2, b1, b2, n, b, g
<1>6. /\ TableInv(f1, L, U) /\ Keeps(d, f1, L) /\ Writes(d, f1)
      /\ f1.next = d.next + 1 /\ f1.mem[d.next] \in Row /\ f1.mem[d.next].name = n1
      /\ \A k \in Ids \ {d.next} : f1.mem[k] = d.mem[k] /\ f1.vers[k] = d.vers[k]
  BY <1>1, <1>4, <1>5, InsertStep
<1> HIDE DEF f1
<1>7. Holder(f1, n2) = {}
  <2> SUFFICES ASSUME NEW k \in Holder(f1, n2) PROVE FALSE
    OBVIOUS
  <2>1. k \in Ids /\ Exists(f1, k) /\ f1.mem[k].name = n2
    BY DEF Holder
  <2>2. CASE k = d.next
    BY <1>1, <1>6, <2>1, <2>2
  <2>3. CASE k # d.next
    BY <1>5, <1>6, <2>1, <2>3 DEF Holder, Exists
  <2> QED BY <2>2, <2>3
<1>8. /\ TableInv(f2, L, U) /\ Keeps(f1, f2, L) /\ Writes(f1, f2)
      /\ \A k \in Ids \ {f1.next} : f2.mem[k] = f1.mem[k] /\ f2.vers[k] = f1.vers[k]
  <2>1. f1.next \in Ids
    BY <1>6
  <2> QED BY <1>1, <1>6, <1>7, <2>1, InsertStep
<1> HIDE DEF f2
<1>9. f2.mem[i] = d.mem[i] /\ f2.vers[i] = d.vers[i] /\ Exists(f2, i) /\ f2.mem[i].del = 0
  <2>1. i # d.next /\ i # f1.next
    BY <1>3, <1>6
  <2> QED BY <1>3, <1>5, <1>6, <1>8, <2>1 DEF Exists, IsLive
<1>10. f2.mem[i] \in Row /\ f2 \in Db
  BY <1>8, <1>9, ExistsRow DEF TableInv
<1>11. /\ TableInv(f3, L, U) /\ Keeps(f2, f3, L)
       /\ SameBut(f2, f3, i) /\ f3.mem[i] = Stamped(f2.mem[i])
       /\ f3.vers[i] = f2.vers[i]
  BY <1>8, <1>9, <1>10, TouchRow DEF Stamped
<1> HIDE DEF f3
<1>13. /\ f3.mem[i] \in Row /\ f3.mem[i].body = d.mem[i].body
       /\ f3.mem[i].name = d.mem[i].name /\ f3.mem[i].del = 0 /\ Exists(f3, i)
  <2>1. Stamped(f2.mem[i]) \in Row
    BY <1>10 DEF Stamped, Row
  <2>2. /\ Stamped(f2.mem[i]).body = f2.mem[i].body /\ Stamped(f2.mem[i]).name = f2.mem[i].name
        /\ Stamped(f2.mem[i]).del = f2.mem[i].del
    BY <1>10 DEF Stamped, Row
  <2> QED BY <1>3, <1>9, <1>11, <2>1, <2>2, RowIsNotNoRow DEF Exists
<1>14. f3 \in Db
  BY <1>11 DEF TableInv
<1>15. /\ SameBut(f3, g, i) /\ g.mem[i] = f3.mem[i] /\ g.fts[i] = f3.fts[i]
       /\ g.vec[i] = f3.vec[i] /\ g.vers[i] = Append(f3.vers[i], v)
  BY <1>1, <1>2, <1>3, <1>14, AddVersionEffect
<1>16. /\ g.vers[i] # << >> /\ HasBody(g.vers[i], b)
       /\ \A x : HasBody(f3.vers[i], x) => HasBody(g.vers[i], x)
  <2>1. f3.vers[i] \in Seq(Version)
    BY <1>3, <1>14 DEF Db
  <2>2. v \in Version /\ v.body = b
    BY <1>1, VersionIsVersion
  <2> HIDE DEF v
  <2> QED BY <1>15, <2>1, <2>2, AppendHasBody
<1>17. RowSound(g, i, L, U)
  <2> SUFFICES ASSUME i \notin L PROVE RowSound(g, i, L, U)
    BY DEF RowSound
  <2>1. RowSound(f3, i, L, U)
    BY <1>3, <1>11, <1>13 DEF TableInv
  <2>2. HasBody(g.vers[i], g.mem[i].body)
    <3>1. CASE f3.vers[i] = << >>
      BY <1>5, <1>9, <1>11, <1>13, <1>15, <1>16, <3>1
    <3>2. CASE f3.vers[i] # << >>
      BY <1>15, <1>16, <2>1, <3>2 DEF RowSound
    <3> QED BY <3>1, <3>2
  <2> QED BY <1>15, <2>1, <2>2 DEF RowSound
<1>18. TableInv(g, L, U) /\ Keeps(f3, g, L)
  BY <1>11, <1>13, <1>15, <1>16, <1>17, OneRow
<1>19. Keeps(d, g, L)
  <2>1. d \in Db /\ f1 \in Db /\ g \in Db
    BY <1>6, <1>18 DEF TableInv
  <2>2. Keeps(d, f2, L)
    BY <1>6, <1>8, <1>10, <2>1, KeepsTransitive
  <2>3. Keeps(d, f3, L)
    BY <1>10, <1>11, <1>14, <2>1, <2>2, KeepsTransitive
  <2> QED BY <1>14, <1>18, <2>1, <2>3, KeepsTransitive
<1>20. Writes(d, g)
  <2>1. Writes(f2, f3)
    BY <1>9, <1>11, <1>13, RowWrite
  <2>2. Writes(f3, g)
    BY <1>13, <1>15, RowWrite
  <2> QED BY <1>6, <1>8, <2>1, <2>2, WritesTransitive
<1> QED BY <1>18, <1>19, <1>20 DEF g
-----------------------------------------------------------------------------
(* The inductive invariant *)

\* What a command carries from the rows it read, against the tables as they are now.
ProcOk(c, d, L) ==
  /\ c \in Proc
  /\ c.pc \in {"commit", "edit", "restore"} => c.body \in Bodies
  /\ c.pc = "commit" /\ ~c.force => c.id = 0
  /\ c.pc \in {"edit", "rename", "restore", "forget_vec", "forget_row", "split"}
       => c.id \in Ids /\ c.id < d.next
  /\ c.pc \in {"edit", "rename", "restore", "split"} => c.snap \in Row
  /\ c.pc = "split" => c.name \in DOMAIN Child /\ c.snap.body \in DOMAIN Parts
  /\ c.pc \in {"rename", "split"} /\ Exists(d, c.id) /\ c.id \notin L /\ d.vers[c.id] = << >>
       => c.snap.body = d.mem[c.id].body

StoreInv ==
  /\ StoreTypeOK
  /\ TableInv(db, lost, unembedded)
  /\ \A p \in Procs : ProcOk(procs[p], db, lost)

LEMMA ProcKept ==
  ASSUME NEW d \in Db, NEW e \in Db, NEW L, NEW M, L \subseteq M, Keeps(d, e, M),
         NEW c, ProcOk(c, d, L)
  PROVE  ProcOk(c, e, M)
<1>1. d.next \in Nat /\ e.next \in Nat /\ Ids \subseteq Nat /\ e.next >= d.next
  BY StoreConstants DEF Db, Ids, Keeps
<1>2. c.id \in Ids /\ c.id < d.next => c.id < e.next
  <2>1. \A k \in Nat : k < d.next => k < e.next
    BY <1>1
  <2> QED BY <1>1, <2>1
<1>3. ASSUME c.pc \in {"rename", "split"}, Exists(e, c.id), c.id \notin M, e.vers[c.id] = << >>
      PROVE  c.snap.body = e.mem[c.id].body
  <2>1. c.id \in Ids /\ c.id < d.next
    BY <1>3 DEF ProcOk
  <2>2. Exists(d, c.id) /\ d.vers[c.id] = << >> /\ e.mem[c.id].body = d.mem[c.id].body
    BY <1>3, <2>1 DEF Keeps
  <2> QED BY <1>3, <2>2 DEF ProcOk
<1> QED BY <1>2, <1>3 DEF ProcOk

LEMMA IdleIsOk == Idle \in Proc /\ \A d, L : ProcOk(Idle, d, L)
<1>1. AnyName \in Names
  BY StoreConstants DEF AnyName
<1>2. 0 \in 0..MaxId
  BY StoreConstants
<1>3. Idle \in Proc /\ Idle.pc = "idle"
  BY <1>1, <1>2 DEF Idle, Proc, Pc
<1> HIDE DEF Idle
<1> QED BY <1>3 DEF ProcOk

LEMMA InvInit == Init => StoreInv
<1> SUFFICES ASSUME Init PROVE StoreInv
  OBVIOUS
<1>1. MaxId \in Nat /\ MaxClock \in Nat \ {0} /\ MaxCommands \in Nat /\ MaxCrashes \in Nat
  BY StoreConstants
<1>2. db \in Db
  <2>1. [i \in Ids |-> << >>] \in [Ids -> Seq(Version)]
    OBVIOUS
  <2>2. 1 \in 1..(MaxId + 1)
    BY <1>1
  <2> QED BY <2>1, <2>2 DEF Init, Db
<1>3. \A i \in Ids : db.mem[i] = NoRow /\ db.vers[i] = << >> /\ db.vec[i] = NoBody
  BY DEF Init
<1>4. TableInv(db, lost, unembedded)
  BY <1>2, <1>3 DEF TableInv, Distinct, Unused, Exists
<1>5. StoreTypeOK
  <2>1. procs \in [Procs -> Proc]
    BY IdleIsOk DEF Init
  <2> QED BY <1>1, <1>2, <2>1 DEF Init, StoreTypeOK
<1>6. \A p \in Procs : ProcOk(procs[p], db, lost)
  BY IdleIsOk DEF Init
<1> QED BY <1>4, <1>5, <1>6 DEF StoreInv

-----------------------------------------------------------------------------
(* Steps: the tables *)

\* The steps of process p.
Step(p) ==
  \/ \E n \in Targets : ReadMemory(p, n) \/ ForgetProbe(p, n) \/ SplitBegin(p, n)
  \/ \E n \in Targets, b \in Bodies \cup {NoBody}, force \in BOOLEAN : RememberBegin(p, n, b, force)
  \/ RememberLookup(p) \/ RememberRefused(p)
  \/ \E e \in BOOLEAN : RememberCommit(p, e) \/ EditCommit(p, e) \/ RestoreCommit(p, e)
  \/ \E n \in Targets, b \in Bodies, force, e \in BOOLEAN : BatchLine(p, n, b, force, e)
  \/ \E n \in Targets : \E m \in Targets \ {n}, b \in Bodies, e \in BOOLEAN :
       BatchTransaction(p, n, m, b, e)
  \/ \E n \in Targets, b \in Bodies : EditBegin(p, n, b) \/ RestoreBegin(p, n, b)
  \/ \E n, m \in Targets : RenameBegin(p, n, m)
  \/ RenameCommit(p) \/ WriteRefused(p) \/ EmbeddingFails(p)
  \/ ForgetVec(p) \/ ForgetRow(p) \/ SplitCommit(p) \/ Crash(p)
  \/ \E cutoff \in 1..clock : Purge(p, cutoff)

LEMMA NextIsStep == Next => Tick \/ \E p \in Procs : Step(p)
BY DEF Next, Step

\* A rename moves a live row to a name nobody holds, or keeps it where it is.
Moved(d, e) ==
  \E i \in Ids : \E m \in Names :
    /\ SameBut(d, e, i) /\ IsLive(d, i) /\ IsLive(e, i)
    /\ e.mem[i].name = m /\ e.mem[i].body = d.mem[i].body
    /\ Holder(d, m) \subseteq {i}

TablesMove ==
  /\ TableInv(db', lost', unembedded') /\ Keeps(db, db', lost') /\ lost \subseteq lost'
  /\ lost' \subseteq Ids /\ unembedded' \subseteq Ids
  /\ Shown(db, db') \/ Moved(db, db')

LEMMA TablesStay ==
  ASSUME StoreInv, UNCHANGED <<db, lost, unembedded>>
  PROVE  TablesMove
<1>1. Keeps(db, db, lost) /\ Shown(db, db)
  BY StoreConstants DEF StoreInv, StoreTypeOK, Db, Keeps, Shown, IsLive
<1> QED BY <1>1 DEF TablesMove, StoreInv, StoreTypeOK

\* What the operations need of the invariant.
LEMMA InvFacts ==
  ASSUME StoreInv
  PROVE  /\ TableInv(db, lost, unembedded) /\ db \in Db /\ clock \in Times
         /\ lost \subseteq Ids /\ unembedded \subseteq Ids
         /\ \A p \in Procs : ProcOk(procs[p], db, lost) /\ procs[p] \in Proc
BY StoreConstants DEF StoreInv, StoreTypeOK, ProcOk, Times

LEMMA RememberCommitTables ==
  ASSUME StoreInv, NEW p \in Procs, NEW e \in BOOLEAN, RememberCommit(p, e)
  PROVE  TablesMove
<1> DEFINE c == procs[p]
<1>0. /\ TableInv(db, lost, unembedded) /\ db \in Db /\ clock \in Times
      /\ lost \subseteq Ids /\ unembedded \subseteq Ids /\ ProcOk(c, db, lost) /\ c \in Proc
  BY InvFacts
<1>1. c.body \in Bodies /\ c.name \in Names
  BY <1>0 DEF RememberCommit, ProcOk, Proc
<1>2. CASE /\ c.id # 0 /\ Exists(db, c.id)
           /\ Commit(p, RememberMerge(db, c, e), c.id, e \/ db.mem[c.id].body = c.body)
           /\ lost' = IF UpdateMatches(db, c.id, c.seen) THEN lost ELSE lost \cup {c.id}
  <2> DEFINE g == RememberMerge(db, c, e)
  <2>1. /\ db' = g
        /\ unembedded' = IF e \/ db.mem[c.id].body = c.body THEN unembedded
                         ELSE unembedded \cup {c.id}
    BY <1>2 DEF Commit
  <2>2. /\ lost \subseteq lost' /\ (UpdateMatches(db, c.id, c.seen) \/ c.id \in lost')
        /\ unembedded \subseteq unembedded'
        /\ (e \/ db.mem[c.id].body = c.body \/ c.id \in unembedded')
    BY <1>2, <2>1
  <2> HIDE DEF c
  <2>3. TableInv(g, lost', unembedded') /\ Keeps(db, g, lost') /\ Writes(db, g)
    BY <1>0, <1>1, <1>2, <2>2, MergeStep
  <2> HIDE DEF g
  <2>4. c.id \in Ids
    BY <1>2 DEF Exists
  <2>5. lost' \subseteq Ids /\ unembedded' \subseteq Ids
    BY <1>0, <1>2, <2>1, <2>4
  <2> QED BY <2>1, <2>2, <2>3, <2>5, WritesAreShown DEF TablesMove
<1>3. CASE /\ c.id = 0 /\ Holder(db, c.name) = {} /\ db.next \in Ids
           /\ Commit(p, RememberCreate(db, c.name, c.body, e), db.next, e)
           /\ UNCHANGED lost
  <2> DEFINE g == RememberCreate(db, c.name, c.body, e)
  <2>1. db' = g /\ unembedded' = IF e THEN unembedded ELSE unembedded \cup {db.next}
    BY <1>3 DEF Commit
  <2>2. TableInv(g, lost, unembedded) /\ Keeps(db, g, lost) /\ Writes(db, g)
    BY <1>0, <1>1, <1>3, CreateStep
  <2> HIDE DEF g, c
  <2>3. unembedded \subseteq unembedded' /\ unembedded' \subseteq Ids
    BY <1>0, <1>3, <2>1
  <2>4. TableInv(g, lost, unembedded')
    BY <2>2, <2>3, Unembed
  <2> QED BY <1>0, <1>3, <2>1, <2>2, <2>3, <2>4, WritesAreShown DEF TablesMove
<1> QED BY <1>2, <1>3 DEF RememberCommit
LEMMA EditCommitTables ==
  ASSUME StoreInv, NEW p \in Procs, NEW e \in BOOLEAN, EditCommit(p, e)
  PROVE  TablesMove /\ lost' = lost /\ SameBut(db, db', procs[p].id)
<1> DEFINE c == procs[p]
           g == Edited(db, c, e)
<1>1. /\ TableInv(db, lost, unembedded) /\ clock \in Times
      /\ lost \subseteq Ids /\ unembedded \subseteq Ids /\ ProcOk(c, db, lost) /\ c \in Proc
  BY InvFacts
<1>2. /\ c.pc = "edit" /\ UpdateMatches(db, c.id, c.seen) /\ lost' = lost
      /\ db' = g
      /\ unembedded' = IF IF c.body = c.snap.body THEN db.mem[c.id].body = c.body ELSE e
                       THEN unembedded ELSE unembedded \cup {c.id}
  BY DEF EditCommit, Commit, Edited
<1>3. c.body \in Bodies /\ c.snap \in Row /\ c.id \in Ids
  BY <1>1, <1>2 DEF ProcOk
<1> HIDE DEF c
<1>4. /\ unembedded \subseteq unembedded' /\ unembedded' \subseteq Ids
      /\ \/ c.id \in unembedded'
         \/ IF c.body = c.snap.body THEN db.mem[c.id].body = c.body ELSE e
  BY <1>1, <1>2, <1>3
<1>5. TableInv(g, lost, unembedded') /\ Keeps(db, g, lost) /\ Writes(db, g) /\ SameBut(db, g, c.id)
  BY <1>1, <1>2, <1>3, <1>4, EditStep
<1> HIDE DEF g
<1> QED BY <1>1, <1>2, <1>4, <1>5, WritesAreShown DEF TablesMove, c

LEMMA RestoreCommitTables ==
  ASSUME StoreInv, NEW p \in Procs, NEW e \in BOOLEAN, RestoreCommit(p, e)
  PROVE  TablesMove /\ lost' = lost /\ SameBut(db, db', procs[p].id)
<1> DEFINE c == procs[p]
           g == Restored(db, c, e)
<1>1. /\ TableInv(db, lost, unembedded) /\ clock \in Times
      /\ lost \subseteq Ids /\ unembedded \subseteq Ids /\ ProcOk(c, db, lost) /\ c \in Proc
  BY InvFacts
<1>2. /\ c.pc = "restore" /\ Exists(db, c.id) /\ lost' = lost
      /\ db' = g /\ unembedded' = IF e THEN unembedded ELSE unembedded \cup {c.id}
  BY DEF RestoreCommit, RestoreMatches, Commit, Restored
<1>3. c.body \in Bodies /\ c.snap \in Row /\ c.id \in Ids
  BY <1>1, <1>2 DEF ProcOk
<1> HIDE DEF c
<1>4. /\ unembedded \subseteq unembedded' /\ unembedded' \subseteq Ids
      /\ c.id \in unembedded' \/ e
  BY <1>1, <1>2, <1>3
<1>5. TableInv(g, lost, unembedded') /\ Keeps(db, g, lost) /\ Writes(db, g) /\ SameBut(db, g, c.id)
  BY <1>1, <1>2, <1>3, <1>4, RestoreStep
<1> HIDE DEF g
<1> QED BY <1>1, <1>2, <1>4, <1>5, WritesAreShown DEF TablesMove, c

LEMMA RenameCommitTables ==
  ASSUME StoreInv, NEW p \in Procs, RenameCommit(p)
  PROVE  TablesMove /\ lost' = lost /\ SameBut(db, db', procs[p].id)
<1> DEFINE c == procs[p]
           i == c.id
           n == c.arg
           r == [db.mem[i] EXCEPT !.name = n]
           g == AddVersion(SyncFts(UpdateRow(db, i, r), i, Fields(c.snap), <<n, c.snap.body>>),
                           i, n, c.snap.body, "rename")
<1>1. /\ TableInv(db, lost, unembedded) /\ clock \in Times
      /\ lost \subseteq Ids /\ unembedded \subseteq Ids /\ ProcOk(c, db, lost) /\ c \in Proc
  BY InvFacts
<1>2. /\ c.pc = "rename" /\ UpdateMatches(db, i, c.seen) /\ lost' = lost
      /\ Holder(db, n) \subseteq FindByName(db, n) \cap {i}
      /\ db' = g /\ unembedded' = unembedded
  BY DEF RenameCommit, Commit
<1>3. c.snap \in Row /\ i \in Ids /\ n \in Names /\ IsLive(db, i) /\ Exists(db, i)
  BY <1>1, <1>2 DEF ProcOk, Proc, UpdateMatches, IsLive
<1>4. n = db.mem[i].name \/ Holder(db, n) = {}
  <2> SUFFICES ASSUME Holder(db, n) # {} PROVE n = db.mem[i].name
    OBVIOUS
  <2>1. i \in Holder(db, n)
    BY <1>2
  <2> QED BY <2>1 DEF Holder
<1>5. i \notin lost /\ db.vers[i] = << >> => c.snap.body = db.mem[i].body
  BY <1>1, <1>2, <1>3 DEF ProcOk
<1>6. db.mem[i] \in Row
  BY <1>1, <1>3, ExistsRow DEF TableInv
<1>7. Stored(db, g, i, Stamped(r), lost, unembedded)
  <2> DEFINE snap == c.snap
  <2>1. snap \in Row /\ (i \notin lost /\ db.vers[i] = << >> => snap.body = db.mem[i].body)
    BY <1>3, <1>5
  <2> HIDE DEF c, i, n, snap
  <2>2. Stored(db, AddVersion(SyncFts(UpdateRow(db, i, r), i, Fields(snap), <<n, snap.body>>),
                              i, n, snap.body, "rename"), i, Stamped(r), lost, unembedded)
    BY <1>1, <1>3, <1>4, <2>1, RenameStep
  <2> QED BY <2>2 DEF snap
<1>8. /\ Stamped(r).name = n /\ Stamped(r).body = db.mem[i].body
      /\ Stamped(r).del = db.mem[i].del /\ Stamped(r) \in Row
  BY <1>1, <1>3, <1>6 DEF Stamped, Row
<1> HIDE DEF g, r, c, i, n
<1>9. /\ SameBut(db, g, i) /\ g.mem[i] = Stamped(r) /\ TableInv(g, lost, unembedded)
      /\ Keeps(db, g, lost)
  BY <1>7 DEF Stored
<1>10. IsLive(g, i)
  BY <1>3, <1>8, <1>9, RowIsNotNoRow DEF IsLive, Exists
<1>11. Moved(db, g)
  BY <1>2, <1>3, <1>8, <1>9, <1>10 DEF Moved
<1> QED BY <1>1, <1>2, <1>9, <1>11 DEF TablesMove, c, i

LEMMA BatchTables ==
  ASSUME StoreInv, NEW p \in Procs, NEW n \in Targets, NEW b \in Bodies, NEW e \in BOOLEAN,
         \/ \E force \in BOOLEAN : BatchLine(p, n, b, force, e)
         \/ \E m \in Targets \ {n} : BatchTransaction(p, n, m, b, e)
  PROVE  TablesMove
<1>1. /\ TableInv(db, lost, unembedded) /\ clock \in Times /\ n \in Names
      /\ lost \subseteq Ids /\ unembedded \subseteq Ids
  BY InvFacts, StoreConstants
<1>2. \A g, k : FindByName(g, k) \subseteq Holder(g, k) /\ Holder(g, k) \subseteq Ids
  BY DEF FindByName, Holder
<1>3. ASSUME NEW force \in BOOLEAN, BatchLine(p, n, b, force, e) PROVE TablesMove
  <2> DEFINE g == ProcessLine(db, n, b, force, e)
  <2>1. /\ db.next \in Ids /\ db' = g /\ lost' = lost
        /\ unembedded' = IF e THEN unembedded ELSE unembedded \cup Holder(g, n)
    BY <1>3 DEF BatchLine
  <2>2. /\ unembedded \subseteq unembedded' /\ unembedded' \subseteq Ids
        /\ e \/ FindByName(g, n) \subseteq unembedded'
    BY <1>1, <1>2, <2>1
  <2>3. TableInv(g, lost, unembedded') /\ Keeps(db, g, lost) /\ Writes(db, g)
    BY <1>1, <2>1, <2>2, LineStep
  <2> HIDE DEF g
  <2> QED BY <1>1, <2>1, <2>2, <2>3, WritesAreShown DEF TablesMove
<1>4. ASSUME NEW m \in Targets \ {n}, BatchTransaction(p, n, m, b, e) PROVE TablesMove
  <2> DEFINE f == ProcessLine(db, n, b, TRUE, e)
             g == ProcessLine(f, m, b, TRUE, TRUE)
  <2>1. /\ db.next + 1 \in Ids /\ db' = g /\ lost' = lost
        /\ unembedded' = IF e THEN unembedded ELSE unembedded \cup Holder(g, n)
    BY <1>4 DEF BatchTransaction
  <2>2. m \in Names /\ db \in Db /\ db.next \in Ids
    BY <1>1, <2>1, StoreConstants DEF TableInv, Db, Ids
  <2>3. /\ TableInv(f, lost, unembedded \cup FindByName(f, n)) /\ Keeps(db, f, lost)
        /\ Writes(db, f) /\ f.next \in {db.next, db.next + 1}
    <3> DEFINE V == unembedded \cup FindByName(f, n)
    <3>1. unembedded \subseteq V /\ (e \/ FindByName(f, n) \subseteq V)
      OBVIOUS
    <3> HIDE DEF V
    <3>2. TableInv(f, lost, V) /\ Keeps(db, f, lost) /\ Writes(db, f)
          /\ f.next \in {db.next, db.next + 1}
      BY <1>1, <2>2, <3>1, LineStep
    <3> QED BY <3>2 DEF V
  <2>4. e => TableInv(f, lost, unembedded)
    <3> SUFFICES ASSUME e PROVE TableInv(f, lost, unembedded)
      OBVIOUS
    <3>1. e \/ FindByName(f, n) \subseteq unembedded
      OBVIOUS
    <3> QED BY <1>1, <2>2, <3>1, LineStep
  <2>5. f.next \in Ids /\ f \in Db
    BY <2>1, <2>2, <2>3 DEF TableInv
  <2> HIDE DEF f
  <2>6. ASSUME NEW V, TableInv(f, lost, V)
        PROVE  TableInv(g, lost, V) /\ Keeps(f, g, lost) /\ Writes(f, g)
    <3> DEFINE force == TRUE
    <3> HIDE DEF force
    <3>1. force = TRUE
      BY DEF force
    <3>2. force \/ FindByName(ProcessLine(f, m, b, force, force), m) \subseteq V
      BY <3>1
    <3>3. force \in BOOLEAN
      BY <3>1
    <3> QED BY <1>1, <2>2, <2>5, <2>6, <3>1, <3>2, <3>3, LineStep
  <2>7. Keeps(f, g, lost) /\ Writes(f, g) /\ g \in Db
    BY <2>3, <2>6 DEF TableInv
  <2>8. TableInv(g, lost, unembedded')
    <3>1. CASE e
      BY <2>1, <2>4, <2>6, <3>1
    <3>2. CASE ~e
      <4>1. TableInv(g, lost, unembedded \cup FindByName(f, n))
        BY <2>3, <2>6
      <4>2. FindByName(f, n) \subseteq Holder(g, n)
        BY <2>7 DEF FindByName, Holder, Writes, IsLive
      <4>3. unembedded \cup FindByName(f, n) \subseteq unembedded'
        BY <2>1, <3>2, <4>2
      <4> QED BY <4>1, <4>3, Unembed
    <3> QED BY <3>1, <3>2
  <2>9. Keeps(db, g, lost) /\ Writes(db, g)
    <3>1. Keeps(db, g, lost)
      BY <2>2, <2>3, <2>5, <2>7, KeepsTransitive
    <3>2. Writes(db, g)
      BY <2>3, <2>7, WritesTransitive
    <3> QED BY <3>1, <3>2
  <2>10. unembedded' \subseteq Ids
    BY <1>1, <1>2, <2>1
  <2> HIDE DEF g
  <2> QED BY <1>1, <2>1, <2>8, <2>9, <2>10, WritesAreShown DEF TablesMove
<1> QED BY <1>3, <1>4
LEMMA SplitCommitTables ==
  ASSUME StoreInv, NEW p \in Procs, SplitCommit(p)
  PROVE  TablesMove
<1> DEFINE c == procs[p]
           g == Divided(db, c)
<1>1. /\ TableInv(db, lost, unembedded) /\ clock \in Times
      /\ lost \subseteq Ids /\ unembedded \subseteq Ids /\ ProcOk(c, db, lost) /\ c \in Proc
  BY InvFacts
<1>2. /\ c.pc = "split" /\ UNCHANGED <<lost, unembedded>>
      /\ \/ UNCHANGED db
         \/ /\ Holder(db, Child[c.name][1]) = {} /\ Holder(db, Child[c.name][2]) = {}
            /\ IsLive(db, c.id) /\ db.next + 1 \in Ids /\ db' = g
  BY DEF SplitCommit, Divided
<1>3. CASE UNCHANGED db
  BY <1>2, <1>3, TablesStay
<1>4. CASE /\ Holder(db, Child[c.name][1]) = {} /\ Holder(db, Child[c.name][2]) = {}
           /\ IsLive(db, c.id) /\ db.next + 1 \in Ids /\ db' = g
  <2>1. /\ c.name \in DOMAIN Child /\ c.snap \in Row /\ c.snap.body \in DOMAIN Parts
        /\ c.id \notin lost /\ db.vers[c.id] = << >> => c.snap.body = db.mem[c.id].body
    BY <1>1, <1>2, <1>4 DEF ProcOk, IsLive
  <2> HIDE DEF c
  <2>2. TableInv(g, lost, unembedded) /\ Keeps(db, g, lost) /\ Writes(db, g)
    BY <1>1, <1>4, <2>1, SplitStep
  <2> HIDE DEF g
  <2> QED BY <1>1, <1>2, <1>4, <2>2, WritesAreShown DEF TablesMove
<1> QED BY <1>2, <1>3, <1>4

\* Every step keeps the tables' invariant and what running commands rely on.
LEMMA TablesStep ==
  ASSUME StoreInv, [Next]_vars
  PROVE  TablesMove
<1>0. /\ TableInv(db, lost, unembedded) /\ clock \in Times /\ db \in Db
      /\ lost \subseteq Ids /\ unembedded \subseteq Ids
  BY InvFacts
<1>1. CASE Tick \/ UNCHANGED vars
  BY <1>1, TablesStay DEF Tick, vars
<1>2. ASSUME NEW p \in Procs, Step(p) PROVE TablesMove
  <2>1. CASE \E n \in Targets : ReadMemory(p, n) \/ ForgetProbe(p, n) \/ SplitBegin(p, n)
    BY <2>1, TablesStay DEF ReadMemory, ForgetProbe, SplitBegin
  <2>2. ASSUME NEW n \in Targets, NEW b \in Bodies \cup {NoBody}, NEW force \in BOOLEAN,
               RememberBegin(p, n, b, force)
        PROVE  TablesMove
    <3>1. UNCHANGED <<lost, unembedded>>
      BY <2>2 DEF RememberBegin
    <3>2. UNCHANGED db \/ \E i \in Holder(db, n) : db' = ClearDeletedAt(db, i)
      BY <2>2 DEF RememberBegin
    <3>3. CASE UNCHANGED db
      BY <3>1, <3>3, TablesStay
    <3>4. ASSUME NEW i \in Holder(db, n), db' = ClearDeletedAt(db, i) PROVE TablesMove
      <4> DEFINE g == ClearDeletedAt(db, i)
      <4>1. Exists(db, i)
        BY DEF Holder
      <4>2. TableInv(g, lost, unembedded) /\ Keeps(db, g, lost) /\ Writes(db, g)
        BY <1>0, <4>1, ClearStep
      <4> HIDE DEF g
      <4>3. db' = g
        BY <3>4 DEF g
      <4> QED BY <1>0, <3>1, <4>2, <4>3, WritesAreShown DEF TablesMove
    <3> QED BY <3>2, <3>3, <3>4
  <2>3. CASE RememberLookup(p) \/ RememberRefused(p) \/ WriteRefused(p) \/ EmbeddingFails(p) \/ Crash(p)
    BY <2>3, TablesStay DEF RememberLookup, RememberRefused, WriteRefused, Refuse, EmbeddingFails, Crash
  <2>4. ASSUME NEW e \in BOOLEAN, RememberCommit(p, e) \/ EditCommit(p, e) \/ RestoreCommit(p, e)
        PROVE  TablesMove
    BY <2>4, RememberCommitTables, EditCommitTables, RestoreCommitTables
  <2>5. CASE \/ \E n \in Targets, b \in Bodies, force, e \in BOOLEAN : BatchLine(p, n, b, force, e)
             \/ \E n \in Targets : \E m \in Targets \ {n}, b \in Bodies, e \in BOOLEAN :
                  BatchTransaction(p, n, m, b, e)
    BY <2>5, BatchTables
  <2>6. CASE \/ \E n \in Targets, b \in Bodies : EditBegin(p, n, b) \/ RestoreBegin(p, n, b)
             \/ \E n, m \in Targets : RenameBegin(p, n, m)
    BY <2>6, TablesStay DEF EditBegin, RestoreBegin, RenameBegin, Begin
  <2>7. CASE RenameCommit(p)
    BY <2>7, RenameCommitTables
  <2>8. CASE ForgetVec(p)
    <3> DEFINE i == procs[p].id
               g == DeleteVec(db, i)
    <3>1. /\ procs[p].pc = "forget_vec" /\ UNCHANGED <<lost, unembedded>> /\ (db' = g \/ UNCHANGED db)
      BY <2>8 DEF ForgetVec
    <3>2. i \in Ids
      BY <3>1, InvFacts DEF ProcOk
    <3>3. CASE UNCHANGED db
      BY <3>1, <3>3, TablesStay
    <3>4. CASE db' = g
      <4> HIDE DEF i
      <4>1. TableInv(g, lost, unembedded) /\ Keeps(db, g, lost) /\ g.mem = db.mem
        BY <1>0, <3>2, DeleteVecStep
      <4>2. Shown(db, g)
        BY <4>1 DEF Shown, IsLive, Exists
      <4> QED BY <1>0, <3>1, <3>4, <4>1, <4>2 DEF TablesMove
    <3> QED BY <3>1, <3>3, <3>4
  <2>9. CASE ForgetRow(p)
    <3> DEFINE n == procs[p].name
               g == SoftDelete(db, n)
    <3>1. UNCHANGED <<lost, unembedded>> /\ db' = g
      BY <2>9 DEF ForgetRow
    <3> HIDE DEF n
    <3>2. TableInv(g, lost, unembedded) /\ Keeps(db, g, lost) /\ Shown(db, g)
      BY <1>0, SoftDeleteStep
    <3> QED BY <1>0, <3>1, <3>2 DEF TablesMove
  <2>10. CASE SplitCommit(p)
    BY <2>10, SplitCommitTables
  <2>11. ASSUME NEW cutoff \in 1..clock, Purge(p, cutoff) PROVE TablesMove
    <3> DEFINE S == {i \in Ids : Exists(db, i) /\ db.mem[i].del \in 1..cutoff}
               g == DeleteRows(db, S)
    <3>1. UNCHANGED <<lost, unembedded>> /\ db' = g
      BY <2>11 DEF Purge
    <3>2. S \in SUBSET Ids /\ \A i \in S : Exists(db, i) /\ ~IsLive(db, i)
      BY DEF IsLive
    <3> HIDE DEF S
    <3>3. TableInv(g, lost, unembedded) /\ Keeps(db, g, lost) /\ Shown(db, g)
      BY <1>0, <3>2, DeleteStep
    <3> QED BY <1>0, <3>1, <3>3 DEF TablesMove
  <2> QED BY <1>2, <2>1, <2>2, <2>3, <2>4, <2>5, <2>6, <2>7, <2>8, <2>9, <2>10, <2>11 DEF Step
<1> QED BY <1>1, <1>2, NextIsStep

-----------------------------------------------------------------------------
(* Steps: the commands *)

\* p's own record afterwards, and nobody else's.
ProcsMove(p, r) == procs' = [procs EXCEPT ![p] = r] /\ ProcOk(r, db', lost')

LEMMA EndMoves ==
  ASSUME NEW p, End(p)
  PROVE  ProcsMove(p, Idle)
BY IdleIsOk DEF End, ProcsMove

\* edit, rename and restore begin.
LEMMA BeginMoves ==
  ASSUME StoreInv, NEW p \in Procs, NEW pc \in {"edit", "rename", "restore"},
         NEW n \in Names, NEW arg \in Names, NEW b \in Bodies \cup {NoBody},
         pc = "rename" \/ b \in Bodies, NEW rows, rows \subseteq Ids,
         \A i \in rows : Exists(db, i), Begin(p, pc, n, arg, b, rows)
  PROVE  \E r : ProcsMove(p, r)
<1>1. CASE End(p)
  BY <1>1, EndMoves
<1>2. ASSUME NEW i \in rows,
             Goto(p, [procs[p] EXCEPT !.pc = pc, !.name = n, !.arg = arg, !.body = b,
                        !.id = i, !.snap = db.mem[i]])
      PROVE  \E r : ProcsMove(p, r)
  <2> DEFINE s == db.mem[i]
             r == [procs[p] EXCEPT !.pc = pc, !.name = n, !.arg = arg, !.body = b, !.id = i, !.snap = s]
  <2>1. UNCHANGED <<db, lost>>
    BY DEF Begin
  <2>2. Exists(db, i) /\ i \in Ids /\ i < db.next
    BY InvFacts, ExistsBelowNext
  <2>3. s \in Row
    BY <2>2, InvFacts, ExistsRow
  <2>4. i \in 0..MaxId /\ pc \in Pc
    BY <2>2, StoreConstants DEF Ids, Pc
  <2>5. procs[p] \in Proc
    BY InvFacts
  <2> HIDE DEF s
  <2>6. r \in Proc /\ r.pc = pc /\ r.body = b /\ r.id = i /\ r.snap = s
    BY <2>3, <2>4, <2>5 DEF Proc
  <2>7. procs' = [procs EXCEPT ![p] = r]
    BY <1>2 DEF Goto, s
  <2> HIDE DEF r
  <2>8. s.body = db.mem[i].body
    BY DEF s
  <2>9. ProcOk(r, db, lost)
    BY <2>2, <2>3, <2>6, <2>8 DEF ProcOk
  <2> QED BY <2>1, <2>7, <2>9 DEF ProcsMove
<1> QED BY <1>1, <1>2 DEF Begin

LEMMA LookupMoves ==
  ASSUME StoreInv, NEW p \in Procs, RememberLookup(p)
  PROVE  \E r : ProcsMove(p, r)
<1> DEFINE c     == procs[p]
           found == FindByName(db, c.name)
           i     == CHOOSE j \in found : TRUE
           id    == IF found = {} THEN 0 ELSE i
           b     == IF c.body = NoBody THEN db.mem[i].body ELSE c.body
           r     == [c EXCEPT !.pc = "commit", !.id = id, !.body = b]
<1>1. UNCHANGED <<db, lost>> /\ c \in Proc
  BY InvFacts DEF RememberLookup
<1>2. CASE End(p)
  BY <1>2, EndMoves
<1>3. CASE ~((found # {} /\ ~c.force) \/ (found = {} /\ c.body = NoBody)) /\ Goto(p, r)
  <2>1. found # {} => i \in Ids /\ db.mem[i] \in Row
    <3>1. ASSUME found # {} PROVE i \in Ids /\ Exists(db, i)
      <4>1. i \in found
        BY <3>1
      <4> QED BY <4>1 DEF FindByName, Holder
    <3> QED BY <3>1, InvFacts, ExistsRow
  <2>2. id \in 0..MaxId /\ (~c.force => id = 0)
    BY <1>3, <2>1, StoreConstants DEF Ids
  <2>3. b \in Bodies
    BY <1>1, <1>3, <2>1 DEF Row, Proc
  <2> HIDE DEF id, b, c
  <2>4. r \in Proc /\ r.pc = "commit" /\ r.id = id /\ r.body = b /\ r.force = c.force
    BY <1>1, <2>2, <2>3 DEF Proc, Pc
  <2>5. procs' = [procs EXCEPT ![p] = r]
    BY <1>3 DEF Goto
  <2> HIDE DEF r
  <2>6. ProcOk(r, db', lost')
    BY <2>2, <2>3, <2>4 DEF ProcOk
  <2> QED BY <2>5, <2>6 DEF ProcsMove
<1> QED BY <1>2, <1>3 DEF RememberLookup
LEMMA ProcsStep ==
  ASSUME StoreInv, NEW p \in Procs, Step(p)
  PROVE  UNCHANGED procs \/ \E r : ProcsMove(p, r)
<1>0. procs[p] \in Proc /\ db \in Db /\ ProcOk(procs[p], db, lost)
  BY InvFacts
<1>1. CASE \/ RememberRefused(p) \/ WriteRefused(p) \/ EmbeddingFails(p) \/ ForgetRow(p)
           \/ SplitCommit(p) \/ Crash(p) \/ RenameCommit(p)
           \/ \E e \in BOOLEAN : RememberCommit(p, e) \/ EditCommit(p, e) \/ RestoreCommit(p, e)
  <2>1. End(p)
    BY <1>1 DEF RememberRefused, WriteRefused, Refuse, EmbeddingFails, ForgetRow, SplitCommit,
                Crash, RenameCommit, RememberCommit, EditCommit, RestoreCommit, Commit
  <2> QED BY <2>1, EndMoves
<1>2. CASE \/ \E n \in Targets, b \in Bodies, force, e \in BOOLEAN : BatchLine(p, n, b, force, e)
           \/ \E n \in Targets : \E m \in Targets \ {n}, b \in Bodies, e \in BOOLEAN :
                BatchTransaction(p, n, m, b, e)
           \/ \E cutoff \in 1..clock : Purge(p, cutoff)
  BY <1>2 DEF BatchLine, BatchTransaction, Purge
<1>3. CASE RememberLookup(p)
  BY <1>3, LookupMoves
<1>4. \A n \in Targets : /\ n \in Names
                         /\ FindByName(db, n) \subseteq Holder(db, n) /\ Holder(db, n) \subseteq Ids
                         /\ \A i \in Holder(db, n) : Exists(db, i)
  BY StoreConstants DEF FindByName, Holder
<1>5. ASSUME NEW n \in Targets, NEW b \in Bodies, EditBegin(p, n, b) \/ RestoreBegin(p, n, b)
      PROVE  \E r : ProcsMove(p, r)
  <2>1. CASE EditBegin(p, n, b)
    <3> DEFINE rows == FindByName(db, n)
    <3>1. Begin(p, "edit", n, n, b, rows)
      BY <2>1 DEF EditBegin
    <3>2. rows \subseteq Ids /\ \A i \in rows : Exists(db, i)
      BY <1>4
    <3> HIDE DEF rows
    <3> QED BY <1>4, <3>1, <3>2, BeginMoves
  <2>2. CASE RestoreBegin(p, n, b)
    <3> DEFINE rows == Holder(db, n)
    <3>1. Begin(p, "restore", n, n, b, rows)
      BY <2>2 DEF RestoreBegin
    <3>2. rows \subseteq Ids /\ \A i \in rows : Exists(db, i)
      BY <1>4
    <3> HIDE DEF rows
    <3> QED BY <1>4, <3>1, <3>2, BeginMoves
  <2> QED BY <1>5, <2>1, <2>2
<1>6. ASSUME NEW n \in Targets, NEW m \in Targets, RenameBegin(p, n, m) PROVE \E r : ProcsMove(p, r)
  <2> DEFINE rows == FindByName(db, n)
  <2>1. Begin(p, "rename", n, m, NoBody, rows)
    BY <1>6 DEF RenameBegin
  <2>2. rows \subseteq Ids /\ \A i \in rows : Exists(db, i)
    BY <1>4
  <2>3. m \in Names /\ NoBody \in Bodies \cup {NoBody}
    BY <1>4
  <2> HIDE DEF rows
  <2> QED BY <1>4, <2>1, <2>2, <2>3, BeginMoves
<1>7. ASSUME NEW n \in Targets, NEW i \in FindByName(db, n)
      PROVE  i \in Ids /\ i < db.next /\ db.mem[i] \in Row /\ i \in 0..MaxId /\ n \in Names
  <2>1. Exists(db, i)
    BY <1>4
  <2> QED BY <1>4, <2>1, InvFacts, ExistsBelowNext, ExistsRow, StoreConstants DEF Ids
<1>8. ASSUME NEW n \in Targets, ReadMemory(p, n) PROVE \E r : ProcsMove(p, r)
  <2>1. PICK i \in FindByName(db, n) :
               Goto(p, [Idle EXCEPT !.pc = "read", !.name = n, !.seen = db.mem[i]])
    BY <1>8 DEF ReadMemory
  <2> DEFINE s == db.mem[i]
             r == [Idle EXCEPT !.pc = "read", !.name = n, !.seen = s]
  <2>2. s \in Row /\ n \in Names
    BY <1>7
  <2>3. procs' = [procs EXCEPT ![p] = r]
    BY <2>1 DEF Goto
  <2> HIDE DEF s
  <2>4. r \in Proc /\ r.pc = "read"
    BY <2>2, IdleIsOk DEF Proc, Pc
  <2> HIDE DEF r
  <2>5. ProcOk(r, db', lost')
    BY <2>4 DEF ProcOk
  <2> QED BY <2>3, <2>5 DEF ProcsMove
<1>9. ASSUME NEW n \in Targets, ForgetProbe(p, n) PROVE \E r : ProcsMove(p, r)
  <2>1. PICK i \in FindByName(db, n) : Goto(p, [Idle EXCEPT !.pc = "forget_vec", !.name = n, !.id = i])
    BY <1>9 DEF ForgetProbe
  <2> DEFINE r == [Idle EXCEPT !.pc = "forget_vec", !.name = n, !.id = i]
  <2>2. n \in Names /\ i \in Ids /\ i < db.next /\ i \in 0..MaxId
    BY <1>7
  <2>3. procs' = [procs EXCEPT ![p] = r] /\ UNCHANGED <<db, lost>>
    BY <1>9, <2>1 DEF Goto, ForgetProbe
  <2>4. r \in Proc /\ r.pc = "forget_vec" /\ r.id = i
    BY <2>2, IdleIsOk DEF Proc, Pc
  <2> HIDE DEF r
  <2>5. ProcOk(r, db, lost)
    BY <2>2, <2>4 DEF ProcOk
  <2> QED BY <2>3, <2>5 DEF ProcsMove
<1>10. ASSUME NEW n \in Targets, SplitBegin(p, n) PROVE \E r : ProcsMove(p, r)
  <2>1. PICK i \in FindByName(db, n) :
               /\ db.mem[i].body \in DOMAIN Parts
               /\ Goto(p, [Idle EXCEPT !.pc = "split", !.name = n, !.id = i, !.snap = db.mem[i]])
    BY <1>10 DEF SplitBegin
  <2> DEFINE s == db.mem[i]
             r == [Idle EXCEPT !.pc = "split", !.name = n, !.id = i, !.snap = s]
  <2>2. n \in Names /\ i \in Ids /\ i < db.next /\ i \in 0..MaxId /\ s \in Row
    BY <1>7
  <2>3. /\ procs' = [procs EXCEPT ![p] = r] /\ UNCHANGED <<db, lost>>
        /\ n \in DOMAIN Child /\ s.body \in DOMAIN Parts
    BY <1>10, <2>1 DEF Goto, SplitBegin
  <2>4. s.body = db.mem[i].body
    OBVIOUS
  <2> HIDE DEF s
  <2>5. r \in Proc /\ r.pc = "split" /\ r.id = i /\ r.name = n /\ r.snap = s
    BY <2>2, IdleIsOk DEF Proc, Pc
  <2> HIDE DEF r
  <2>6. ProcOk(r, db, lost)
    BY <2>2, <2>3, <2>4, <2>5 DEF ProcOk
  <2> QED BY <2>3, <2>6 DEF ProcsMove
<1>11. ASSUME NEW n \in Targets, NEW b \in Bodies \cup {NoBody}, NEW force \in BOOLEAN,
              RememberBegin(p, n, b, force)
       PROVE  \E r : ProcsMove(p, r)
  <2> DEFINE r == [procs[p] EXCEPT !.pc = "lookup", !.name = n, !.body = b, !.force = force]
  <2>1. End(p) \/ procs' = [procs EXCEPT ![p] = r]
    BY <1>11 DEF RememberBegin, Goto
  <2>2. r \in Proc /\ r.pc = "lookup"
    BY <1>0, <1>4 DEF Proc, Pc
  <2> HIDE DEF r
  <2>3. ProcOk(r, db', lost')
    BY <2>2 DEF ProcOk
  <2> QED BY <2>1, <2>3, EndMoves DEF ProcsMove
<1>12. CASE ForgetVec(p)
  <2> DEFINE r == [procs[p] EXCEPT !.pc = "forget_row"]
  <2>1. /\ procs' = [procs EXCEPT ![p] = r] /\ procs[p].pc = "forget_vec"
        /\ db'.next = db.next
    <3>1. DeleteVec(db, procs[p].id).next = db.next
      BY <1>0 DEF DeleteVec, Db
    <3>2. db' \in {DeleteVec(db, procs[p].id), db}
      BY <1>12 DEF ForgetVec
    <3>3. db' = DeleteVec(db, procs[p].id) \/ db' = db
      BY <3>2
    <3>4. db'.next = db.next
      BY <3>1, <3>3
    <3> QED BY <1>12, <3>4 DEF ForgetVec, Goto
  <2>2. r \in Proc /\ r.pc = "forget_row" /\ r.id = procs[p].id
    BY <1>0 DEF Proc, Pc
  <2>3. r.id \in Ids /\ r.id < db'.next
    BY <1>0, <2>1, <2>2 DEF ProcOk
  <2> HIDE DEF r
  <2>4. ProcOk(r, db', lost')
    BY <2>2, <2>3 DEF ProcOk
  <2> QED BY <2>1, <2>4 DEF ProcsMove
<1> QED BY <1>1, <1>2, <1>3, <1>5, <1>6, <1>8, <1>9, <1>10, <1>11, <1>12 DEF Step

LEMMA ClockStep ==
  ASSUME StoreTypeOK, [Next]_vars
  PROVE  clock' \in 1..MaxClock
<1>0. clock \in 1..MaxClock
  BY DEF StoreTypeOK
<1>1. CASE Tick
  BY <1>0, <1>1, StoreConstants DEF Tick
<1>2. CASE UNCHANGED vars
  BY <1>0, <1>2 DEF vars
<1>3. ASSUME NEW p \in Procs, Step(p) PROVE UNCHANGED clock
  BY <1>3 DEF Step, ReadMemory, ForgetProbe, SplitBegin, RememberBegin, RememberLookup,
     RememberRefused, Refuse, RememberCommit, Commit, EditCommit, RestoreCommit, BatchLine,
     BatchTransaction, EditBegin, RestoreBegin, RenameBegin, Begin, RenameCommit, WriteRefused,
     EmbeddingFails, ForgetVec, ForgetRow, SplitCommit, Crash, Purge
<1> QED BY <1>0, <1>1, <1>2, <1>3, NextIsStep

LEMMA EventsStep ==
  ASSUME StoreTypeOK, [Next]_vars
  PROVE  events' \in [commands: 0..MaxCommands, crashes: 0..MaxCrashes]
<1> DEFINE Ev == [commands: 0..MaxCommands, crashes: 0..MaxCrashes]
<1>0. events \in Ev /\ MaxCommands \in Nat /\ MaxCrashes \in Nat
  BY StoreConstants DEF StoreTypeOK
<1>1. CASE Started
  BY <1>0, <1>1 DEF Started
<1>2. CASE events.crashes < MaxCrashes /\ events' = [events EXCEPT !.crashes = @ + 1]
  BY <1>0, <1>2
<1>3. ASSUME NEW p \in Procs, Step(p)
      PROVE  \/ UNCHANGED events \/ Started
             \/ events.crashes < MaxCrashes /\ events' = [events EXCEPT !.crashes = @ + 1]
  BY <1>3 DEF Step, ReadMemory, ForgetProbe, SplitBegin, RememberBegin, RememberLookup,
     RememberRefused, Refuse, RememberCommit, Commit, EditCommit, RestoreCommit, BatchLine,
     BatchTransaction, EditBegin, RestoreBegin, RenameBegin, Begin, RenameCommit, WriteRefused,
     EmbeddingFails, ForgetVec, ForgetRow, SplitCommit, Crash, Purge
<1>4. CASE UNCHANGED events
  BY <1>0, <1>4
<1>5. Tick \/ UNCHANGED vars => UNCHANGED events
  BY DEF Tick, vars
<1> QED BY <1>1, <1>2, <1>3, <1>4, <1>5, NextIsStep

LEMMA InvStep == StoreInv /\ [Next]_vars => StoreInv'
<1> SUFFICES ASSUME StoreInv, [Next]_vars PROVE StoreInv'
  OBVIOUS
<1>1. TablesMove
  BY TablesStep
<1>2. /\ TableInv(db', lost', unembedded') /\ Keeps(db, db', lost') /\ lost \subseteq lost'
      /\ lost' \subseteq Ids /\ unembedded' \subseteq Ids /\ db' \in Db /\ db \in Db
  BY <1>1, InvFacts DEF TablesMove, TableInv
<1>3. procs \in [Procs -> Proc]
  BY DEF StoreInv, StoreTypeOK
<1>4. \A q \in Procs : ProcOk(procs[q], db', lost')
  BY <1>2, InvFacts, ProcKept
<1>5. procs' \in [Procs -> Proc] /\ \A q \in Procs : ProcOk(procs'[q], db', lost')
  <2>1. CASE UNCHANGED procs
    BY <1>3, <1>4, <2>1
  <2>2. ASSUME NEW p \in Procs, NEW r, ProcsMove(p, r)
        PROVE  procs' \in [Procs -> Proc] /\ \A q \in Procs : ProcOk(procs'[q], db', lost')
    <3>1. procs' = [procs EXCEPT ![p] = r] /\ ProcOk(r, db', lost') /\ r \in Proc
      BY <2>2 DEF ProcsMove, ProcOk
    <3>2. procs' \in [Procs -> Proc]
      BY <1>3, <3>1
    <3>3. ASSUME NEW q \in Procs PROVE ProcOk(procs'[q], db', lost')
      <4>1. CASE q = p
        BY <1>3, <3>1, <4>1
      <4>2. CASE q # p
        <5>1. procs'[q] = procs[q]
          BY <1>3, <3>1, <4>2
        <5> QED BY <1>4, <5>1
      <4> QED BY <4>1, <4>2
    <3> QED BY <3>2, <3>3
  <2>3. Tick \/ UNCHANGED vars => UNCHANGED procs
    BY DEF Tick, vars
  <2> QED BY <2>1, <2>2, <2>3, NextIsStep, ProcsStep
<1>6. clock' \in 1..MaxClock /\ events' \in [commands: 0..MaxCommands, crashes: 0..MaxCrashes]
  BY ClockStep, EventsStep DEF StoreInv
<1>7. StoreTypeOK'
  BY <1>2, <1>5, <1>6 DEF StoreTypeOK
<1>8. TableInv(db, lost, unembedded)' /\ (\A q \in Procs : ProcOk(procs[q], db, lost))'
  BY <1>2, <1>5 DEF TableInv, RowSound, HasBody, Distinct, Unused, Exists, ProcOk
<1> QED BY <1>7, <1>8 DEF StoreInv

LEMMA Invariance == Spec => []StoreInv
BY InvInit, InvStep, PTL DEF Spec

LEMMA InvIsSound == StoreInv => StoreSound
<1> SUFFICES ASSUME StoreInv PROVE StoreSound
  OBVIOUS
<1>1. ASSUME NEW i \in Ids \ lost, Exists(db, i)
      PROVE  /\ db.vers[i] # << >> =>
                  \E v \in 1..Len(db.vers[i]) : db.vers[i][v].body = db.mem[i].body
             /\ \E x \in db.fts[i] : x[2] = db.mem[i].body
             /\ i \notin unembedded => db.vec[i] \in {NoBody, db.mem[i].body}
  <2>1. RowSound(db, i, lost, unembedded)
    BY <1>1 DEF StoreInv, TableInv
  <2> QED BY <2>1 DEF RowSound, HasBody
<1>2. Restorable
  BY <1>1 DEF Restorable, IsLive
<1>3. BodySearchable
  BY <1>1 DEF BodySearchable, IsLive
<1>4. VectorOfBody
  BY <1>1 DEF VectorOfBody
<1> QED BY <1>2, <1>3, <1>4 DEF StoreSound, StoreInv

\* Whatever commands interleave or die and however many they are, a live memory with a
\* history can be restored to its body, full-text search finds it by its body, and its
\* vector is the embedding of its body, outside the rows lost and unembedded name.
THEOREM StoreIsSound == Spec => []StoreSound
BY Invariance, InvIsSound, PTL
-----------------------------------------------------------------------------
(* Writes are guarded *)

\* The process whose record changes is the one that acts.
LEMMA Actor ==
  ASSUME StoreInv, Next, NEW p \in Procs, procs'[p] # procs[p]
  PROVE  Step(p)
<1>1. ~Tick /\ ~UNCHANGED procs
  BY DEF Tick
<1>2. PICK q \in Procs : Step(q)
  BY <1>1, NextIsStep
<1>3. PICK r : procs' = [procs EXCEPT ![q] = r]
  BY <1>1, <1>2, ProcsStep DEF ProcsMove
<1>4. q = p
  BY <1>3 DEF StoreInv, StoreTypeOK
<1> QED BY <1>2, <1>4

LEMMA CommitCases ==
  ASSUME NEW p \in Procs, Step(p), procs[p].pc = "commit"
  PROVE  UNCHANGED db \/ \E e \in BOOLEAN : RememberCommit(p, e)
BY DEF Step, Ready, ReadMemory, ForgetProbe, SplitBegin, RememberBegin, RememberLookup,
   RememberRefused, Refuse, EditCommit, RestoreCommit, BatchLine, BatchTransaction, EditBegin,
   RestoreBegin, RenameBegin, Begin, RenameCommit, WriteRefused, EmbeddingFails, ForgetVec,
   ForgetRow, SplitCommit, Crash, Purge

LEMMA LockedCases ==
  ASSUME NEW p \in Procs, Step(p), procs[p].pc \in {"edit", "rename", "restore"}
  PROVE  \/ UNCHANGED db
         \/ \E e \in BOOLEAN : EditCommit(p, e) \/ RestoreCommit(p, e)
         \/ RenameCommit(p)
BY DEF Step, Ready, ReadMemory, ForgetProbe, SplitBegin, RememberBegin, RememberLookup,
   RememberRefused, Refuse, RememberCommit, BatchLine, BatchTransaction, EditBegin,
   RestoreBegin, RenameBegin, Begin, WriteRefused, EmbeddingFails, ForgetVec,
   ForgetRow, SplitCommit, Crash, Purge

LEMMA CreateSpares ==
  ASSUME StoreInv, Next
  PROVE  CreateNeverClobbers
<1> SUFFICES ASSUME NEW p \in Procs, procs[p].pc = "commit", ~procs[p].force,
                    procs'[p] # procs[p], NEW i \in Ids, Exists(db, i)
             PROVE  db'.mem[i] = db.mem[i]
  BY DEF CreateNeverClobbers
<1>1. CASE UNCHANGED db
  BY <1>1
<1>2. ASSUME NEW e \in BOOLEAN, RememberCommit(p, e) PROVE db'.mem[i] = db.mem[i]
  <2> DEFINE n == procs[p].name
             b == procs[p].body
             g == RememberCreate(db, n, b, e)
  <2>1. procs[p].id = 0 /\ b \in Bodies /\ n \in Names
    BY InvFacts DEF ProcOk, Proc
  <2>2. db' = g /\ Holder(db, n) = {} /\ db.next \in Ids
    BY <1>2, <2>1 DEF RememberCommit, Commit
  <2>3. TableInv(db, lost, unembedded) /\ clock \in Times /\ i < db.next /\ db.next \in Nat
    BY InvFacts, ExistsBelowNext
  <2> HIDE DEF n, b
  <2>4. \A k \in Ids \ {db.next} : g.mem[k] = db.mem[k]
    BY <2>1, <2>2, <2>3, CreateStep
  <2>5. i # db.next
    BY <2>3
  <2> QED BY <2>2, <2>4, <2>5
<1> QED BY <1>1, <1>2, Actor, CommitCases

LEMMA LockedWrites ==
  ASSUME StoreInv, Next
  PROVE  LockedWriteWithinSecond
<1> SUFFICES ASSUME NEW p \in Procs, NEW i \in Ids, procs[p].pc \in {"edit", "rename", "restore"},
                    procs[p].seen # NoRow, procs'[p] # procs[p], db'.mem[i] # db.mem[i]
             PROVE  procs[p].id = i /\ db.mem[i].upd = procs[p].seen.upd
  BY DEF LockedWriteWithinSecond
<1> DEFINE k == procs[p].id
<1>1. /\ SameBut(db, db', k)
      /\ db.mem[k].upd = procs[p].seen.upd
  <2>1. ASSUME NEW e \in BOOLEAN, EditCommit(p, e)
        PROVE  SameBut(db, db', k) /\ db.mem[k].upd = procs[p].seen.upd
    BY <2>1, EditCommitTables DEF EditCommit, UpdateMatches
  <2>2. ASSUME NEW e \in BOOLEAN, RestoreCommit(p, e)
        PROVE  SameBut(db, db', k) /\ db.mem[k].upd = procs[p].seen.upd
    BY <2>2, RestoreCommitTables DEF RestoreCommit, RestoreMatches
  <2>3. CASE RenameCommit(p)
    BY <2>3, RenameCommitTables DEF RenameCommit, UpdateMatches
  <2>4. ~UNCHANGED db
    OBVIOUS
  <2> QED BY <2>1, <2>2, <2>3, <2>4, Actor, LockedCases
<1>2. k = i
  BY <1>1 DEF SameBut
<1> QED BY <1>1, <1>2

\* However long ago a remember looked its name up, creating changes no row that exists;
\* and edit, rename and restore with an expected timestamp change only the row of that
\* timestamp.
THEOREM GuardedWrites == Spec => WritesAreGuarded
<1>1. StoreInv /\ [Next]_vars => WritesAreGuarded!1
  <2>1. CASE UNCHANGED vars
    BY <2>1 DEF vars, CreateNeverClobbers, LockedWriteWithinSecond
  <2> QED BY <2>1, CreateSpares, LockedWrites
<1> QED BY <1>1, Invariance, PTL DEF Spec, WritesAreGuarded

-----------------------------------------------------------------------------
(* The map of memories *)

\* What MemoryStore substitutes for MemoryMap's store.
View(d) ==
  [n \in Names |->
     IF Holder(d, n) = {} THEN [state |-> "absent"]
     ELSE LET r == d.mem[CHOOSE i \in Holder(d, n) : TRUE]
          IN  [state |-> IF r.del = 0 THEN "live" ELSE "gone", body |-> r.body]]

LEMMA ViewOfAbsent ==
  ASSUME NEW d, NEW n \in Names, Holder(d, n) = {}
  PROVE  View(d)[n] = Map!Absent
BY DEF View, Map!Absent

LEMMA ViewOfRow ==
  ASSUME NEW d \in Db, Distinct(d), NEW i, Exists(d, i)
  PROVE  /\ d.mem[i].name \in Names /\ d.mem[i].body \in Bodies
         /\ View(d)[d.mem[i].name] =
              [state |-> IF d.mem[i].del = 0 THEN "live" ELSE "gone", body |-> d.mem[i].body]
<1> DEFINE n == d.mem[i].name
<1>1. i \in Ids /\ d.mem[i] \in Row
  BY ExistsRow
<1>2. n \in Names /\ d.mem[i].body \in Bodies
  BY <1>1 DEF Row
<1>3. i \in Holder(d, n)
  BY <1>1 DEF Holder
<1>4. \A k \in Holder(d, n) : k = i
  BY <1>1 DEF Holder, Distinct
<1>5. (CHOOSE k \in Holder(d, n) : TRUE) = i
  BY <1>3, <1>4
<1> HIDE DEF n
<1>6. View(d)[n] = [state |-> IF d.mem[i].del = 0 THEN "live" ELSE "gone", body |-> d.mem[i].body]
  BY <1>2, <1>3, <1>5 DEF View
<1> QED BY <1>2, <1>6 DEF n

LEMMA ViewIsSlots ==
  ASSUME NEW d \in Db, Distinct(d)
  PROVE  View(d) \in [Names -> Map!Slots]
<1>0. View(d) = [n \in Names |-> View(d)[n]]
  BY DEF View
<1> SUFFICES ASSUME NEW n \in Names PROVE View(d)[n] \in Map!Slots
  BY <1>0
<1>1. CASE Holder(d, n) = {}
  BY <1>1, ViewOfAbsent DEF Map!Slots
<1>2. ASSUME NEW i \in Holder(d, n) PROVE View(d)[n] \in Map!Slots
  <2>1. Exists(d, i) /\ d.mem[i].name = n
    BY DEF Holder
  <2>2. /\ d.mem[i].body \in Bodies
        /\ View(d)[n] = [state |-> IF d.mem[i].del = 0 THEN "live" ELSE "gone", body |-> d.mem[i].body]
    BY <2>1, ViewOfRow
  <2> QED BY <2>2 DEF Map!Slots, Map!Holding
<1> QED BY <1>1, <1>2

LEMMA MapInitially == StoreInv /\ Init => Map!MapInit
<1> SUFFICES ASSUME StoreInv, Init PROVE Map!MapInit
  OBVIOUS
<1>1. \A n \in Names : Holder(db, n) = {}
  BY DEF Init, Holder, Exists
<1>2. View(db) = [n \in Names |-> Map!Absent]
  BY <1>1 DEF View, Map!Absent
<1> QED BY <1>2 DEF View, Map!MapInit

LEMMA ChangeFromShown ==
  ASSUME NEW d \in Db, NEW e \in Db, Distinct(d), Distinct(e), Shown(d, e), NEW n \in Names
  PROVE  \/ View(e)[n] = View(d)[n]
         \/ Map!Write(View(d)[n], View(e)[n])
         \/ Map!Forget(View(d)[n], View(e)[n])
         \/ Map!Purge(View(d)[n], View(e)[n])
<1>1. CASE Holder(e, n) = {}
  <2>1. View(e)[n] = Map!Absent
    BY <1>1, ViewOfAbsent
  <2>2. CASE Holder(d, n) = {}
    BY <2>1, <2>2, ViewOfAbsent
  <2>3. ASSUME NEW i \in Holder(d, n)
        PROVE  Map!Purge(View(d)[n], View(e)[n])
    <3>1. Exists(d, i) /\ d.mem[i].name = n /\ i \in Ids
      BY DEF Holder
    <3>2. ~IsLive(d, i)
      BY <1>1, <3>1 DEF Shown, Holder
    <3>3. d.mem[i].del # 0
      BY <3>1, <3>2 DEF IsLive
    <3>4. View(d)[n] = [state |-> "gone", body |-> d.mem[i].body]
      <4>1. View(d)[n] = [state |-> IF d.mem[i].del = 0 THEN "live" ELSE "gone", body |-> d.mem[i].body]
        BY <3>1, ViewOfRow
      <4> QED BY <3>3, <4>1
    <3> QED BY <2>1, <3>4 DEF Map!Purge
  <2> QED BY <2>2, <2>3
<1>2. ASSUME NEW i \in Holder(e, n)
      PROVE  \/ View(e)[n] = View(d)[n]
             \/ Map!Write(View(d)[n], View(e)[n])
             \/ Map!Forget(View(d)[n], View(e)[n])
  <2>1. Exists(e, i) /\ e.mem[i].name = n /\ i \in Ids
    BY DEF Holder
  <2>2. CASE e.mem[i].del = 0
    <3>1. View(e)[n] = [state |-> "live", body |-> e.mem[i].body]
      <4>1. View(e)[n] = [state |-> IF e.mem[i].del = 0 THEN "live" ELSE "gone", body |-> e.mem[i].body]
        BY <2>1, ViewOfRow
      <4> QED BY <2>2, <4>1
    <3>2. View(d)[n].state \in {"absent", "live", "gone"}
      BY ViewIsSlots DEF Map!Slots, Map!Absent, Map!Holding
    <3> QED BY <3>1, <3>2 DEF Map!Write
  <2>3. CASE e.mem[i].del # 0
    <3>1. Exists(d, i) /\ d.mem[i].name = n /\ d.mem[i].body = e.mem[i].body
      BY <2>1, <2>3 DEF Shown, IsLive
    <3>2. View(e)[n] = [state |-> "gone", body |-> e.mem[i].body]
      BY <2>1, <2>3, ViewOfRow
    <3>3. View(d)[n] = [state |-> IF d.mem[i].del = 0 THEN "live" ELSE "gone", body |-> e.mem[i].body]
      BY <3>1, ViewOfRow
    <3>4. CASE d.mem[i].del = 0
      BY <3>2, <3>3, <3>4 DEF Map!Forget
    <3>5. CASE d.mem[i].del # 0
      BY <3>2, <3>3, <3>5
    <3> QED BY <3>4, <3>5
  <2> QED BY <2>2, <2>3
<1> QED BY <1>1, <1>2

LEMMA MovedIsRename ==
  ASSUME NEW d \in Db, NEW e \in Db, Distinct(d), Distinct(e), Moved(d, e), View(e) # View(d)
  PROVE  \E n, m \in Names :
           /\ View(d)[n].state = "live" /\ View(d)[m] = Map!Absent
           /\ View(e) = [View(d) EXCEPT ![n] = Map!Absent, ![m] = View(d)[n]]
<1>1. PICK i \in Ids, m \in Names :
        /\ SameBut(d, e, i) /\ IsLive(d, i) /\ IsLive(e, i)
        /\ e.mem[i].name = m /\ e.mem[i].body = d.mem[i].body
        /\ Holder(d, m) \subseteq {i}
  BY DEF Moved
<1> DEFINE n == d.mem[i].name
           s == [state |-> "live", body |-> d.mem[i].body]
<1>2. n \in Names /\ View(d)[n] = s /\ View(e)[m] = s
  BY <1>1, ViewOfRow DEF IsLive
<1>3. \A k \in Ids \ {i} : d.mem[k] = e.mem[k] /\ (Exists(d, k) <=> Exists(e, k))
  BY <1>1 DEF SameBut, Exists
<1>4. ASSUME NEW k \in Names, k # n, k # m PROVE View(e)[k] = View(d)[k]
  <2>1. Holder(e, k) = Holder(d, k) /\ i \notin Holder(d, k)
    BY <1>1, <1>3, <1>4 DEF Holder
  <2>2. CASE Holder(d, k) = {}
    BY <2>1, <2>2, ViewOfAbsent
  <2>3. ASSUME NEW j \in Holder(d, k) PROVE View(e)[k] = View(d)[k]
    <3>1. j \in Ids \ {i} /\ Exists(d, j) /\ d.mem[j].name = k
      BY <2>1 DEF Holder
    <3>2. Exists(e, j) /\ e.mem[j] = d.mem[j]
      BY <1>3, <3>1
    <3> DEFINE r == d.mem[j]
               slot == [state |-> IF r.del = 0 THEN "live" ELSE "gone", body |-> r.body]
    <3>3. View(d)[k] = slot
      BY <3>1, ViewOfRow
    <3>4. View(e)[e.mem[j].name] =
            [state |-> IF e.mem[j].del = 0 THEN "live" ELSE "gone", body |-> e.mem[j].body]
      BY <3>2, ViewOfRow
    <3>5. View(e)[k] = slot
      BY <3>1, <3>2, <3>4
    <3> QED BY <3>3, <3>5
  <2> QED BY <2>2, <2>3
<1>5. View(d) = [k \in Names |-> View(d)[k]] /\ View(e) = [k \in Names |-> View(e)[k]]
  BY DEF View
<1>6. n # m
  <2> SUFFICES ASSUME n = m PROVE FALSE
    OBVIOUS
  <2>1. \A k \in Names : View(e)[k] = View(d)[k]
    BY <1>2, <1>4
  <2> QED BY <1>5, <2>1
<1>7. View(d)[m] = Map!Absent
  <2>1. Holder(d, m) = {}
    BY <1>1, <1>6 DEF Holder
  <2> QED BY <2>1, ViewOfAbsent
<1>8. View(e)[n] = Map!Absent
  <2>1. \A j \in Ids \ {i} : Exists(e, j) => e.mem[j].name # n
    BY <1>1, <1>3 DEF Distinct, IsLive
  <2>2. Holder(e, n) = {}
    BY <1>1, <1>6, <2>1 DEF Holder
  <2> QED BY <1>2, <2>2, ViewOfAbsent
<1> HIDE DEF n, s
<1>9. \A k \in Names : View(e)[k] = [View(d) EXCEPT ![n] = Map!Absent, ![m] = View(d)[n]][k]
  BY <1>2, <1>4, <1>5, <1>6, <1>8
<1>10. View(e) = [View(d) EXCEPT ![n] = Map!Absent, ![m] = View(d)[n]]
  BY <1>5, <1>9
<1>11. View(d)[n].state = "live"
  BY <1>2 DEF s
<1> QED BY <1>1, <1>2, <1>7, <1>10, <1>11

\* Whatever interleaves, crashes or fails, name by name the namespace changes as MemoryMap
\* says: no memory is destroyed that was not forgotten first, no forgotten body changes,
\* and a rename is one step to a name nobody holds.
THEOREM StoreImplementsMap == Spec => ImplementsMemoryMap
<1>1. StoreInv /\ Init => Map!MapInit
  BY MapInitially
<1>2. StoreInv /\ [Next]_vars => Map!MapSpec!2!1
  <2> SUFFICES ASSUME StoreInv, [Next]_vars PROVE Map!MapSpec!2!1
    OBVIOUS
  <2>1. /\ db \in Db /\ db' \in Db /\ Distinct(db) /\ Distinct(db')
        /\ Shown(db, db') \/ Moved(db, db')
    BY TablesStep DEF TablesMove, StoreInv, TableInv
  <2>2. CASE Shown(db, db')
    <3>1. Map!Change
      <4>1. View(db') \in [Names -> Map!Slots]
        BY <2>1, ViewIsSlots
      <4>2. \A n \in Names : \/ View(db')[n] = View(db)[n]
                             \/ Map!Write(View(db)[n], View(db')[n])
                             \/ Map!Forget(View(db)[n], View(db')[n])
                             \/ Map!Purge(View(db)[n], View(db')[n])
        BY <2>1, <2>2, ChangeFromShown
      <4> QED BY <4>1, <4>2 DEF Map!Change, View
    <3> QED BY <3>1 DEF Map!MapNext
  <2>3. CASE Moved(db, db')
    <3>1. CASE View(db') = View(db)
      <4>1. View(db') \in [Names -> Map!Slots]
        BY <2>1, ViewIsSlots
      <4>2. Map!Change
        BY <3>1, <4>1 DEF Map!Change, View
      <4> QED BY <4>2 DEF Map!MapNext
    <3>2. CASE View(db') # View(db)
      <4>1. PICK n \in Names, m \in Names :
              /\ View(db)[n].state = "live" /\ View(db)[m] = Map!Absent
              /\ View(db') = [View(db) EXCEPT ![n] = Map!Absent, ![m] = View(db)[n]]
        BY <2>1, <2>3, <3>2, MovedIsRename
      <4>2. Map!Rename(n, m)
        BY <4>1 DEF Map!Rename, View
      <4> QED BY <4>2 DEF Map!MapNext
    <3> QED BY <3>1, <3>2
  <2> QED BY <2>1, <2>2, <2>3
<1> QED BY <1>1, <1>2, Invariance, InvInit, PTL DEF Spec, ImplementsMemoryMap, Map!MapSpec
=============================================================================
