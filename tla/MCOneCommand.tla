----------------------------- MODULE MCOneCommand -----------------------------
(***************************************************************************)
(* What one command goes through: its start, the cutting of its text, the  *)
(* calls to the provider, the search, the shaping of the answer.  They     *)
(* hand each other a value and share no state, so a behaviour is of one of *)
(* them, the others at rest in some first state.                           *)
(***************************************************************************)
EXTENDS ProviderCalls, Retrieval, AgentSurface, CliStartup, TextSplit

VARIABLE part
vars == <<callVars, searchVars, surfaceVars, startVars, textVars, part>>

\* A batch of several chunks, one that repeats a text, and one that overlaps the others.
MCBatches == {<<1, 2, 3>>, <<2, 2>>, <<3, 4>>}

Edge(f, t, w) == [from |-> f, to |-> t, weight |-> w]
\* A cycle with a short cut and a memory that was forgotten, a memory with two entities;
\* and a diamond, in which the far corner has a weak way as well.
MCDatabases ==
  { [live |-> {1, 2, 4}, vec |-> {1, 2}, bound |-> {<<1, 1>>, <<2, 2>>, <<3, 3>>, <<4, 4>>},
     edges |-> {Edge(1, 2, 2), Edge(2, 3, 2), Edge(3, 1, 2), Edge(3, 4, 2)}],
    [live |-> {1, 2, 3}, vec |-> {1, 2, 3}, bound |-> {<<1, 1>>, <<2, 2>>, <<2, 4>>, <<3, 3>>, <<4, 4>>},
     edges |-> {Edge(1, 2, 3), Edge(1, 3, 2), Edge(2, 4, 2), Edge(3, 4, 3), Edge(1, 4, 1)}] }
Near1 == [vec |-> <<1, 2, 3>>, text |-> <<2, 1>>, entity |-> <<2>>, close |-> {1}]
Near2 == [vec |-> <<3, 1, 2>>, text |-> <<1, 4>>, entity |-> <<1>>, close |-> {3}]
MCRankings == {<<Near1, Near2>>}
Command(kind, emb, k, limit, cap, seed) ==
  [kind |-> kind, emb |-> emb, k |-> k, hops |-> 2, floor |-> 2, cap |-> cap, graph |-> TRUE, limit |-> limit,
   strict |-> kind = "recall" /\ limit = 1, seed |-> seed, weights |-> <<1, 1>>]
NoSeed == [entity |-> FALSE, id |-> 0]
MCCommands ==
  { Command("recall", TRUE, 1, 1, 9, NoSeed), Command("recall", FALSE, 2, 2, 9, NoSeed),
    [Command("recall", TRUE, 2, 2, 9, NoSeed) EXCEPT !.graph = FALSE],
    Command("hybrid", TRUE, 1, 2, 9, NoSeed), Command("hybrid", FALSE, 2, 1, 9, NoSeed),
    [Command("hybrid", TRUE, 1, 1, 9, NoSeed) EXCEPT !.weights = <<0, 2>>, !.hops = 0],
    [Command("hybrid", TRUE, 2, 1, 9, NoSeed) EXCEPT !.weights = <<-1, 0>>, !.hops = 0],
    Command("deep", TRUE, 1, 2, 1, NoSeed), Command("deep", FALSE, 1, 1, 9, NoSeed),
    [Command("deep", TRUE, 1, 1, 1, NoSeed) EXCEPT !.hops = 0],
    Command("related", FALSE, 1, 1, 9, [entity |-> FALSE, id |-> 1]),
    Command("related", FALSE, 1, 2, 9, [entity |-> FALSE, id |-> 2]),
    Command("related", FALSE, 1, 1, 9, [entity |-> TRUE, id |-> 4]) }

Row(k, l) == [key |-> k, long |-> l]
\* Keys in and out of order, a key twice, rows without it, long texts; more rows than a page.
MCTables == { <<>>, <<Row(0, TRUE)>>, <<Row(2, FALSE), Row(1, TRUE), Row(1, FALSE)>>,
              <<Row(2, TRUE), Row(0, FALSE), Row(1, FALSE), Row(2, FALSE), Row(1, TRUE)>> }
MCPages == {[limit |-> 2, offset |-> 0, second |-> 3], [limit |-> 9, offset |-> 1, second |-> 0], [limit |-> 9, offset |-> 0, second |-> 3]}
\* --page-scope matters to a filter or a count; a count leaves no elements to select or cut.
MCSurfaces ==
  {s \in [filter: BOOLEAN, sort: BOOLEAN, dedupe: BOOLEAN, max: {0, 2}, countOnly: BOOLEAN, select: BOOLEAN, truncate: BOOLEAN,
           bytes: {0, 12, 26}, pageScope: BOOLEAN] :
     /\ s.pageScope => s.filter \/ s.countOnly
     /\ s.countOnly => ~s.select /\ ~s.truncate}

\* Commands of every kind; with and without --db, --use-active, good flags, a key.
Asks(c, d, u, flags, knobs, b, m, k) ==
  [command |-> c, db |-> d, useActive |-> u, flagsOk |-> flags, knobsOk |-> knobs, backend |-> b, model |-> m, key |-> k]
MCArgvs ==
  {Asks(c, d, u, TRUE, k, "unset", "unset", "unset") :
     c \in {"remember", "ingest", "recompute-degree"}, d \in {"unset", "a"}, u, k \in BOOLEAN}
  \cup {Asks("graph", "unset", FALSE, TRUE, k, "unset", "unset", "unset") : k \in BOOLEAN}
  \cup {Asks(c, "unset", FALSE, TRUE, TRUE, "unset", "given", "unset") : c \in {"init", "cache", "schema", "enrich"}}
  \cup {Asks("enrich", "..", FALSE, TRUE, TRUE, "unset", "given", "unset")}
  \cup {Asks(c, "a", FALSE, TRUE, TRUE, "openrouter", m, k) : c \in {"recall", "enrich-status"}, m, k \in {"unset", "given"}}
  \cup {Asks("recall", "a", FALSE, FALSE, TRUE, "openrouter", "unset", "given")}
MCConfigFiles ==
  { [readable |-> TRUE, db |-> "unset", backend |-> "unset", model |-> "unset", key |-> "unset"],
    [readable |-> TRUE, db |-> "b", backend |-> "openrouter", model |-> "set", key |-> "unset"],
    [readable |-> TRUE, db |-> "b", backend |-> "unset", model |-> "set", key |-> "set"],
    [readable |-> FALSE, db |-> "b", backend |-> "unset", model |-> "unset", key |-> "unset"] }

\* Every text of up to seven characters: plain, the first of a header line, two bytes wide.
Char(b, t, h) == [bytes |-> b, tokens |-> t, head |-> h]
MCBodies == UNION {[1..n -> {Char(1, 1, FALSE), Char(1, 0, TRUE), Char(2, 1, FALSE)}] : n \in 0..7}

----------------------------------------------------------------------------
Some(S) == CHOOSE x \in S : TRUE
SearchRests  == db = Some(Databases) /\ near = Some(Rankings) /\ cmd = (CHOOSE c \in Commands : c.kind = "recall") /\ SearchInit
SurfaceRests == /\ table = Numbered(Some(Tables)) /\ surface = Some(Surfaces) /\ page = Some(Pages) /\ command = "list"
                /\ SurfaceInit
StartRests   == argv = Some(Argvs) /\ conf = Some(ConfigFiles) /\ StartInit
TextRests    == text = << >> /\ pieces = << >>

Init ==
  \/ part = "calls"   /\ CallsInit /\ SearchRests /\ SurfaceRests /\ StartRests /\ TextRests
  \/ part = "search"  /\ CallsInit /\ SearchInit /\ SurfaceRests /\ StartRests /\ TextRests
  \/ part = "surface" /\ CallsInit /\ SearchRests /\ SurfaceInit /\ StartRests /\ TextRests
  \/ part = "start"   /\ CallsInit /\ SearchRests /\ SurfaceRests /\ StartInit /\ TextRests
  \/ part = "text"    /\ CallsInit /\ SearchRests /\ SurfaceRests /\ StartRests /\ TextInit

Next ==
  /\ UNCHANGED part
  /\ \/ part = "calls"   /\ CallsNext   /\ UNCHANGED <<searchVars, surfaceVars, startVars, textVars>>
     \/ part = "search"  /\ SearchNext  /\ UNCHANGED <<callVars, surfaceVars, startVars, textVars>>
     \/ part = "surface" /\ SurfaceNext /\ UNCHANGED <<callVars, searchVars, startVars, textVars>>
     \/ part = "start"   /\ StartNext   /\ UNCHANGED <<callVars, searchVars, surfaceVars, textVars>>
     \/ part = "text"    /\ TextNext    /\ UNCHANGED <<callVars, searchVars, surfaceVars, startVars>>

\* The fairness of the parts.
Spec ==
  /\ Init /\ [][Next]_vars
  /\ \A c \in Callers :
       WF_<<call[c]>>(part = "calls" /\ Steps(c) /\ UNCHANGED <<searchVars, surfaceVars, startVars, textVars, part>>)
  /\ WF_vars(part = "search" /\ Search /\ UNCHANGED <<callVars, surfaceVars, startVars, textVars, part>>)

\* A search that was asked for ends (SearchEnds of Retrieval): the sub-queries of a
\* deep-research share a semaphore, and pipeline.rs joins all of them before it merges.
SearchesEnd == part = "search" => SearchEnds
\* Every provider call and every search comes to an end, whatever replies and failures.
CommandEnds == CallsEnd /\ SearchesEnd
==============================================================================
