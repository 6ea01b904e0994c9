----------------------------- MODULE AgentSurface -----------------------------
(***************************************************************************)
(* The last mile of every command: the answer is refused or shaped by the  *)
(* global flags (--filter, --sort, --dedupe-by, --max-items, --select,     *)
(* --count-only, --truncate-content, --max-output-bytes) and annotated     *)
(* with what was left out.  It is shown on a `list`, which reads a page    *)
(* and then counts the table while others write, and on a search, whose    *)
(* answer has a second array and a top-k ceiling.                          *)
(*   A row is an element of the array: its key (0 when it has none) and    *)
(* whether its text is long.  Lengths are in units, numbers to base Base.  *)
(***************************************************************************)
EXTENDS Integers, Sequences, FiniteSets, FiniteSetsExt, SequencesExt, Totals

CONSTANTS
  Tables,         \* what is stored: sequences of [key, long]
  Pages,          \* of the command: limit and offset of a list, length of the second array of a search
  Surfaces,       \* the flags
  Base            \* of numbers

ASSUME SurfaceConstants ==
  /\ Base \in Nat \ {0, 1}
  /\ \A t \in Tables : t \in Seq([key: Nat, long: BOOLEAN])
  /\ Pages \subseteq [limit: Nat, offset: Nat, second: Nat]
  /\ \A s \in Surfaces :
       s \in [filter: BOOLEAN, sort: BOOLEAN, dedupe: BOOLEAN, max: Nat, countOnly: BOOLEAN, select: BOOLEAN, truncate: BOOLEAN,
             bytes: Nat, pageScope: BOOLEAN]

VARIABLES
  pc, table, surface, command, page,
  items, second,  \* the two arrays of the answer
  ceiling,        \* the QueryCeiling: [kind, applied, offset, total]
  meta,           \* the member agent_surface: numbers, 0 for a mark
  matched,        \* history: the elements after filter, sort and dedupe
  out, forgets
surfaceVars == <<pc, table, surface, command, page, items, second, ceiling, meta, matched, out, forgets>>

FirstOf(seq, n) == SubSeq(seq, 1, IF n < Len(seq) THEN n ELSE Len(seq))
Numbered(rows) == [i \in 1..Len(rows) |-> [id |-> i, key |-> rows[i].key, long |-> rows[i].long, whole |-> TRUE]]
SurfaceInit ==
  /\ table \in {Numbered(t) : t \in Tables} /\ surface \in Surfaces /\ page \in Pages /\ command \in {"list", "search"}
  /\ second = (IF command = "search" THEN page.second ELSE 0)
  /\ pc = "read" /\ items = <<>> /\ matched = <<>> /\ meta = <<>> /\ forgets = 0
  /\ ceiling = [kind |-> "none"] /\ out = [form |-> "none"]

----------------------------------------------------------------------------
(* The command. *)

\* LIMIT and OFFSET over the table in its order.
ListRows(rows, limit, offset) ==
  SubSeq(rows, offset + 1, IF offset + limit < Len(rows) THEN offset + limit ELSE Len(rows))
\* The rows of the page; --max-items and the rest come later.
ReadPage ==
  /\ pc = "read" /\ pc' = "count"
  /\ items' = ListRows(table, page.limit, page.offset)
  /\ UNCHANGED <<table, surface, command, page, second, ceiling, meta, matched, out, forgets>>
\* The total is read after the page; a search knows none.
Count ==
  /\ pc = "count" /\ pc' = "gate"
  /\ ceiling' = IF command = "list" THEN [kind |-> "pagination", applied |-> page.limit, offset |-> page.offset, total |-> Len(table)]
                ELSE [kind |-> "top-k", applied |-> page.limit, offset |-> 0]
  /\ UNCHANGED <<table, surface, command, page, items, second, meta, matched, out, forgets>>
\* Somebody forgets a memory.
ForgetRow ==
  /\ pc \in {"read", "count"} /\ command = "list" /\ forgets = 0 /\ forgets' = 1
  /\ \E i \in 1..Len(table) : table' = SubSeq(table, 1, i - 1) \o SubSeq(table, i + 1, Len(table))
  /\ UNCHANGED <<pc, surface, command, page, items, second, ceiling, meta, matched, out>>

----------------------------------------------------------------------------
(* gate.rs. *)

\* truncated_the_universe.
Truncated == ceiling.kind = "pagination" /\ (ceiling.offset > 0 \/ ceiling.applied < ceiling.total)
\* A predicate or a count over a part of the rows is refused unless it is asked for.
RefusesPage == Truncated /\ ~surface.pageScope /\ (surface.filter \/ surface.countOnly)
\* A key no element has cannot be filtered, sorted, made unique by or projected to.
RefusesKey ==
  items # <<>> /\ (\A i \in 1..Len(items) : items[i].key = 0) /\ (surface.filter \/ surface.sort \/ surface.dedupe \/ surface.select)

Noop == surface = [filter |-> FALSE, sort |-> FALSE, dedupe |-> FALSE, max |-> 0, countOnly |-> FALSE, select |-> FALSE,
                   truncate |-> FALSE, bytes |-> 0, pageScope |-> surface.pageScope]
\* An answer nobody wants shaped leaves as it is.
Evaluate ==
  /\ pc = "gate"
  /\ IF Noop THEN pc' = "done" /\ out' = [form |-> "plain", items |-> items]
     ELSE IF RefusesPage \/ RefusesKey THEN pc' = "done" /\ out' = [form |-> "refused"]
     ELSE pc' = "shape" /\ UNCHANGED out
  /\ UNCHANGED <<table, surface, command, page, items, second, ceiling, meta, matched, forgets>>

----------------------------------------------------------------------------
(* shape_items. *)

\* The rows at some positions, each after as many of them as earlier tells.
InPlace(rows, at, earlier) == [k \in 1..Cardinality(at) |-> rows[CHOOSE i \in at : earlier[i] = k - 1]]
\* The rows at some positions, in their order.
RowsAt(rows, at) == InPlace(rows, at, [i \in at |-> Cardinality({j \in at : j < i})])
Matches(r) == ~surface.filter \/ r.key = 1
Filter(rows) == RowsAt(rows, {i \in 1..Len(rows) : Matches(rows[i])})
\* Rows without the key come last; the order is stable.
SortsBefore(rows, i, j) ==
  IF rows[i].key = rows[j].key THEN i < j ELSE rows[j].key = 0 \/ (rows[i].key # 0 /\ rows[i].key < rows[j].key)
SortBy(rows) ==
  LET all == 1..Len(rows)
  IN  IF surface.sort THEN InPlace(rows, all, [i \in all |-> Cardinality({j \in all : SortsBefore(rows, j, i)})]) ELSE rows
\* The first row with a key stands for it; rows without one all stay.
Dedupe(rows) ==
  RowsAt(rows, {i \in 1..Len(rows) : ~surface.dedupe \/ rows[i].key = 0 \/ \A j \in 1..(i - 1) : rows[j].key # rows[i].key})
Matched(rows) == Dedupe(SortBy(Filter(rows)))
Limit(rows)   == IF surface.max > 0 THEN FirstOf(rows, surface.max) ELSE rows
Project(rows) == IF surface.select THEN [i \in 1..Len(rows) |-> [rows[i] EXCEPT !.whole = FALSE]] ELSE rows
Shaped(rows) == Project(Limit(Matched(rows)))

\* base_meta and the mark of the alias that list and related restate their array under.
BaseFields ==
  {"input_count", "output_count", "query_limit"}
  \cup (IF surface.filter THEN {"filters"} ELSE {}) \cup (IF surface.sort THEN {"sort"} ELSE {})
  \cup (IF surface.dedupe THEN {"dedupe_by"} ELSE {}) \cup (IF surface.select THEN {"select"} ELSE {})
  \cup (IF surface.max > 0 THEN {"max_items"} ELSE {}) \cup (IF command = "list" THEN {"universe_total", "aliases_removed"} ELSE {})
BaseMeta(input, output) ==
  [f \in BaseFields |->
     CASE f = "input_count" -> input [] f = "output_count" -> output [] f = "filters" -> 1 [] f = "max_items" -> surface.max
       [] f = "query_limit" -> ceiling.applied [] f = "universe_total" -> ceiling.total [] OTHER -> 0]
\* An annotation and the marks it gets.
Add(marks, m) == [f \in DOMAIN marks \cup DOMAIN m |-> IF f \in DOMAIN marks THEN marks[f] ELSE m[f]]
CountScope(output, n) == IF Truncated THEN "page" ELSE IF output < n THEN "emitted" ELSE "matched"

\* Mutant: the second array is cut without a word.
CappedSilently(n) == FALSE
\* cap_secondary_arrays.
Capped(n) == surface.max > 0 /\ n > surface.max

Shape ==
  /\ pc = "shape"
  /\ LET rows == Shaped(items)
     IN  /\ matched' = Matched(items)
         /\ IF surface.countOnly
            THEN /\ out' = [form |-> "count", count |-> Len(rows), scope |-> CountScope(Len(rows), Len(Matched(items)))]
                 /\ pc' = "done" /\ UNCHANGED <<items, second, meta>>
            ELSE /\ items' = rows /\ second' = (IF surface.max > 0 /\ second > surface.max THEN surface.max ELSE second)
                 /\ meta' = (IF Capped(second) THEN Add([secondary_capped |-> 0], BaseMeta(Len(items), Len(rows)))
                              ELSE BaseMeta(Len(items), Len(rows)))
                 /\ pc' = "finalize" /\ UNCHANGED out
  /\ UNCHANGED <<table, surface, command, page, ceiling, forgets>>

----------------------------------------------------------------------------
(* finalize and budget.rs. *)

Width(n) == IF n < Base THEN 1 ELSE IF n < Base * Base THEN 2 ELSE 3
MetaFields == <<"input_count", "output_count", "filters", "sort", "dedupe_by", "select", "max_items", "query_limit", "universe_total",
                "aliases_removed", "secondary_capped", "content_truncated", "truncate_content", "output_truncated", "dropped",
                "max_output_bytes">>
FieldLen(m, f) == IF f \in DOMAIN m THEN 1 + Width(m[f]) ELSE 0
MetaLen(m) == Total([i \in 1..Len(MetaFields) |-> FieldLen(m, MetaFields[i])])
RowLen(r)  == 1 + (IF r.whole THEN 1 ELSE 0) + (IF r.whole /\ r.long THEN 2 ELSE 0)
RowsLen(rows) == IF rows = <<>> THEN 0 ELSE Total([i \in 1..Len(rows) |-> RowLen(rows[i])]) + Len(rows) - 1
Mark == 1       \* the member "truncated"
EncodedLen(rows, n, m, marked) == 2 + RowsLen(rows) + n + MetaLen(m) + (IF marked THEN Mark ELSE 0)

\* The marks of a cut answer.
CutMarks(dropped) == [output_truncated |-> 0, dropped |-> dropped, max_output_bytes |-> surface.bytes]

\* budget_headroom: what they will take, with as many dropped as came in.
Headroom(m, marked) == MetaLen(Add(CutMarks(m.input_count), m)) - MetaLen(m) + (IF marked THEN 0 ELSE Mark)

\* enforce: the second array goes first if the rest alone is too long, then rows from the
\* end; a skeleton that is too long becomes a stub.
Enforce(rows, n, m, marked, max) ==
  LET drained == n > 0 /\ EncodedLen(<<>>, n, m, marked) > max
      left    == IF drained THEN 0 ELSE n
      fits    == {b \in 1..Len(rows) : EncodedLen(FirstOf(rows, b), left, m, marked) <= max}
  IN  CASE EncodedLen(rows, n, m, marked) <= max -> [rows |-> rows, second |-> n, dropped |-> 0, cut |-> FALSE, stub |-> FALSE]
        [] EncodedLen(rows, n, m, marked) > max /\ fits # {} ->
             LET b == Max(fits)
             IN  [rows |-> FirstOf(rows, b), second |-> left, dropped |-> Len(rows) - b + n - left, cut |-> TRUE, stub |-> FALSE]
        [] EncodedLen(rows, n, m, marked) > max /\ fits = {} ->
             [rows |-> <<>>, second |-> left, dropped |-> Len(rows) + n - left, cut |-> TRUE,
              stub |-> EncodedLen(<<>>, left, m, marked) > max]

Surviving(rows, m) == [m EXCEPT !.output_count = Len(rows)]

Finalize ==
  /\ pc = "finalize" /\ pc' = "done"
  /\ LET shortens == surface.truncate /\ \E i \in 1..Len(items) : items[i].whole /\ items[i].long
         rows == IF shortens THEN [i \in 1..Len(items) |-> [items[i] EXCEPT !.long = FALSE]] ELSE items
         m    == IF shortens THEN Add([content_truncated |-> 0, truncate_content |-> 1], meta) ELSE meta
         max  == IF surface.bytes > Headroom(m, shortens) THEN surface.bytes - Headroom(m, shortens) ELSE 1
         cut  == IF surface.bytes = 0 THEN [rows |-> rows, second |-> second, dropped |-> 0, cut |-> FALSE, stub |-> FALSE]
                 ELSE Enforce(rows, second, m, shortens, max)
     IN  /\ items' = cut.rows /\ second' = cut.second
         /\ meta' = (IF cut.cut /\ ~cut.stub THEN Surviving(cut.rows, Add(CutMarks(cut.dropped), m)) ELSE m)
         /\ out' = [form |-> IF cut.stub THEN "stub" ELSE "answer", marked |-> shortens \/ cut.cut]
  /\ UNCHANGED <<table, surface, command, page, ceiling, matched, forgets>>

SurfaceNext == ReadPage \/ Count \/ ForgetRow \/ Evaluate \/ Shape \/ Finalize
SurfaceSpec == SurfaceInit /\ [][SurfaceNext]_surfaceVars

----------------------------------------------------------------------------
(* Properties. *)

\* An invocation that agent_surface shapes answers once, at its end, in one of the forms.
SurfaceTypeOK ==
  /\ pc \in {"read", "count", "gate", "shape", "finalize", "done"}
  /\ out.form \in {"none", "plain", "refused", "count", "answer", "stub"}
  /\ pc = "done" <=> out.form # "none"

Answered == out.form = "answer"

\* The counts of the annotation are those of the arrays beside it, after the cut too.
CountsTell == Answered => meta.output_count = Len(items) /\ meta.output_count <= meta.input_count

\* Whatever left the answer is recorded: rows by a filter, a duplicate, a limit or the byte
\* budget, the tail of the second array, and text.
NothingSilent ==
  Answered =>
    /\ meta.output_count < meta.input_count => DOMAIN meta \cap {"filters", "dedupe_by", "max_items", "output_truncated"} # {}
    /\ meta.output_count < Len(matched) => DOMAIN meta \cap {"max_items", "output_truncated"} # {}
    /\ "output_truncated" \in DOMAIN meta => out.marked /\ meta.dropped > 0
    /\ command = "search" /\ second < page.second => DOMAIN meta \cap {"secondary_capped", "output_truncated"} # {}

\* An answer keeps to --max-output-bytes with its annotation: the room for the marks is set
\* aside before rows are cut.  The width of "dropped" is that of the count that came in, so
\* elements of a second array may push it over.
BudgetKept ==
  Answered /\ surface.bytes > 0 /\ ("dropped" \in DOMAIN meta => Width(meta.dropped) <= Width(meta.input_count)) =>
    EncodedLen(items, second, meta, out.marked) <= surface.bytes

\* With --sort, what a limit or the budget leaves out comes after all that stays in.
LeastStay ==
  Answered /\ surface.sort =>
    \A i \in 1..Len(items), r \in Range(matched) :
      r.id \notin {items[j].id : j \in 1..Len(items)} => r.key = 0 \/ (items[i].key # 0 /\ items[i].key <= r.key)

\* A count or a filter of a list speaks of the whole table unless the caller settled for the
\* page: no row beyond the page is missed, unless somebody wrote between the two reads.
OfTheWholeTable ==
  command = "list" /\ forgets = 0 /\ ~surface.pageScope =>
    /\ out.form = "count" /\ out.scope = "matched" => out.count = Len(Matched(table))
    /\ Answered /\ surface.filter => {r.id : r \in Range(matched)} = {r.id : r \in Range(Matched(table))}
\* For every combination of the global flags an answer tells what was left out of it: its
\* counts, the marks of each cut, its budget, the order of a cut and the scope of a count.
SurfaceSound == SurfaceTypeOK /\ CountsTell /\ NothingSilent /\ BudgetKept /\ LeastStay /\ OfTheWholeTable
==============================================================================
