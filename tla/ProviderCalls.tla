---------------------------- MODULE ProviderCalls ----------------------------
(***************************************************************************)
(* Calls to the model provider: HTTP with retries, entity texts embedded   *)
(* in parallel chunks behind a process-wide cache, the embedding of a      *)
(* query along the chain of backends, and a chat completion with its       *)
(* retries for truncation and for models that insist on reasoning.         *)
(* Callers are threads of one process.  The vector of a text is the text.  *)
(***************************************************************************)
EXTENDS Integers, Sequences, FiniteSets, SequencesExt

CONSTANTS
  Callers,
  Batches,        \* the lists of entity texts callers ask for
  Chunk,          \* texts per request
  FanOut,         \* requests of one call in flight
  Ceiling, Ttl,   \* of the cache: entries, age
  MaxRetries,     \* requests of execute_with_retry
  LengthRetries, TokenCeiling,
  FirstTokens,    \* the max_tokens complete may be called with
  MaxCalls, MaxTicks       \* bounds: calls made, time

ASSUME CallConstants ==
  /\ Chunk \in Nat \ {0} /\ FanOut \in Nat \ {0} /\ MaxRetries \in Nat \ {0}
  /\ Ceiling \in Nat /\ Ttl \in Nat /\ LengthRetries \in Nat /\ MaxCalls \in Nat /\ MaxTicks \in Nat
  /\ FirstTokens \subseteq Nat /\ TokenCeiling \in Nat
  /\ \A b \in Batches : b \in Seq(Range(b))

VARIABLES
  cache,          \* ENTITY_EMBED_CACHE: text and age of the entries
  call,           \* what each caller is doing
  calls, ticks

callVars == <<cache, call, calls, ticks>>

NoCall    == [pc |-> "idle", kind |-> "none"]
Texts   == UNION {Range(b) : b \in Batches}
\* Network errors, 5xx and answers without data are tried again, 429 after its delay;
\* a timeout or another transient answer ends the request, as does any other status.
\* "short": fewer vectors than texts.  "quota": a refusal whose text speaks of a quota.
Again   == {"unreachable", "limited"}
Replies == Again \cup {"ok", "short", "timeout", "refused", "quota"}
Refusals == {"refused", "quota", "short", "reasoning"}
ClassOf(reply) == IF reply \in Again \cup {"timeout"} THEN "transient" ELSE "hard"

\* BackendChains of backend_choice.rs for a client that is or is not initialised.
BackendChains ==
  [ready: {TRUE}, backends: {<<"openrouter">>, <<"openrouter", "openrouter", "none">>, <<"openrouter", "none">>}]
  \cup [ready: {FALSE}, backends: {<<"openrouter">>, <<"openrouter", "none">>, <<"none">>}]

CallsInit ==
  /\ cache = {} /\ call = [c \in Callers |-> NoCall] /\ calls = 0 /\ ticks = 0

\* One answer to execute_with_retry that is no success.
Sent(tries, reply) ==
  IF reply \in Again /\ tries + 1 < MaxRetries THEN [state |-> "sent", tries |-> tries + 1]
  ELSE [state |-> "failed", class |-> ClassOf(reply)]

Begins(c, record) ==
  /\ call[c] = NoCall /\ calls < MaxCalls
  /\ calls' = calls + 1 /\ call' = [call EXCEPT ![c] = record]
  /\ UNCHANGED <<cache, ticks>>
Becomes(c, record) == call' = [call EXCEPT ![c] = record] /\ UNCHANGED <<calls, ticks>>
Done(c, result)    == Becomes(c, [pc |-> "done", kind |-> call[c].kind, result |-> result])
Return(c) ==
  /\ call[c].pc = "done" /\ Becomes(c, NoCall) /\ UNCHANGED cache
Tick ==
  /\ ticks < MaxTicks /\ ticks' = ticks + 1
  /\ cache' = {[e EXCEPT !.age = @ + 1] : e \in cache}
  /\ UNCHANGED <<call, calls>>

----------------------------------------------------------------------------
(* embed_entity_texts_cached and embed_passages_parallel_shared, with the client set up. *)

EmbedEntities(c, texts) == Begins(c, [pc |-> "lookup", kind |-> "entities", texts |-> texts, hard |-> FALSE])

Fresh == {e \in cache : e.age < Ttl}
ChunksOf(miss) == [k \in 1..((Len(miss) + Chunk - 1) \div Chunk) |->
                     SubSeq(miss, (k - 1) * Chunk + 1, IF k * Chunk < Len(miss) THEN k * Chunk ELSE Len(miss))]

Misses(texts) == {i \in 1..Len(texts) : \A e \in Fresh : e.text # texts[i]}
Increasing(s) == \A j, k \in DOMAIN s : j < k => s[j] < s[k]

\* Under the lock of the cache: which positions miss, in their order.
LookupCache(c) ==
  /\ call[c].pc = "lookup"
  /\ LET texts == call[c].texts
     IN  IF Misses(texts) = {} THEN Done(c, [texts |-> texts, out |-> texts])
         ELSE \E miss \in [1..Cardinality(Misses(texts)) -> Misses(texts)] :
                /\ Increasing(miss)
                /\ Becomes(c, [pc |-> "fanout", kind |-> "entities", texts |-> texts, miss |-> miss, hard |-> FALSE,
                               tasks |-> <<>>, parts |-> <<>>])
  /\ UNCHANGED cache

Joined(c)   == {call[c].parts[k][1] : k \in 1..Len(call[c].parts)}
InFlight(c) == (1..Len(call[c].tasks)) \ Joined(c)
Chunks(c)   == ChunksOf(call[c].miss)

SpawnChunk(c) ==
  /\ call[c].pc = "fanout" /\ Len(call[c].tasks) < Len(Chunks(c))
  /\ Cardinality(InFlight(c)) < FanOut
  /\ Becomes(c, [call[c] EXCEPT !.tasks = Append(@, [state |-> "sent", tries |-> 0])])
  /\ UNCHANGED cache

\* sort_by_key of pairs of a key and a value: an item's place is the number of lower keys.
SortedByKey(items) ==
  LET lower(k) == {j \in 1..Len(items) : items[j][1] < items[k][1]}
  IN  [n \in 1..Len(items) |-> items[CHOOSE k \in 1..Len(items) : Cardinality(lower(k)) = n - 1]]

\* embed_batch: the vectors come in any order and are sorted by index.
Vectors(c, t, order) ==
  LET texts  == Chunks(c)[t]
      sorted == SortedByKey([i \in 1..Len(texts) |-> <<order[i], call[c].texts[texts[order[i]]]>>])
  IN  [i \in 1..Len(texts) |-> sorted[i][2]]
Orders(n) == {o \in [1..n -> 1..n] : \A i, j \in 1..n : o[i] = o[j] => i = j}

ChunkReplies(c, t, reply) ==
  /\ call[c].pc = "fanout" /\ t \in 1..Len(call[c].tasks) /\ call[c].tasks[t].state = "sent"
  /\ \/ /\ reply = "ok"
        /\ \E o \in Orders(Len(Chunks(c)[t])) :
             Becomes(c, [call[c] EXCEPT !.tasks[t] = [state |-> "ok", vecs |-> Vectors(c, t, o)]])
     \/ /\ reply # "ok"
        /\ Becomes(c, [call[c] EXCEPT !.tasks[t] = Sent(call[c].tasks[t].tries, reply),
                                      !.hard = @ \/ reply \in Refusals])
  /\ UNCHANGED cache

\* join_next, when the set is full or every chunk is on its way; an error ends the call.
JoinNext(c, t) ==
  /\ call[c].pc = "fanout" /\ t \in InFlight(c) /\ call[c].tasks[t].state # "sent"
  /\ Cardinality(InFlight(c)) >= FanOut \/ Len(call[c].tasks) = Len(Chunks(c))
  /\ IF call[c].tasks[t].state = "failed"
     THEN Done(c, [error |-> call[c].tasks[t].class, hard |-> call[c].hard])
     ELSE Becomes(c, [call[c] EXCEPT !.parts = Append(@, <<t, call[c].tasks[t].vecs>>)])
  /\ UNCHANGED cache

\* Mutant: the parts stay in the order they came in.
ReassembleAsJoined(parts) == FlattenSeq([k \in 1..Len(parts) |-> parts[k][2]])
ReassembleOrdered(parts) ==
  LET sorted == SortedByKey(parts)
  IN  FlattenSeq([k \in 1..Len(sorted) |-> sorted[k][2]])

\* evict_expired_and_overflow: what may be left; the oldest go, in any order among equals.
Kept(incoming) ==
  LET target == IF incoming < Ceiling THEN Ceiling - incoming ELSE 0
  IN  IF Cardinality(Fresh) <= target THEN {Fresh}
      ELSE {K \in SUBSET Fresh : Cardinality(K) = target /\ \A k \in K, g \in Fresh \ K : k.age <= g.age}

\* Under the lock again; another caller may have filled the cache meanwhile.
Insert(c) ==
  /\ call[c].pc = "fanout" /\ Len(call[c].parts) = Len(Chunks(c))
  /\ LET miss == call[c].miss
         vecs == ReassembleOrdered(call[c].parts)
         new  == {vecs[k] : k \in 1..Len(miss)}
         out  == [i \in 1..Len(call[c].texts) |->
                    IF \E k \in 1..Len(miss) : miss[k] = i
                    THEN vecs[CHOOSE k \in 1..Len(miss) : miss[k] = i] ELSE call[c].texts[i]]
     IN  /\ \E K \in Kept(Len(miss)) : cache' = {e \in K : e.text \notin new} \cup {[text |-> t, age |-> 0] : t \in new}
         /\ Done(c, [texts |-> call[c].texts, out |-> out])

----------------------------------------------------------------------------
(* The embedding of a query: embed_with_fallback, then what the command does without one. *)

EmbedQuery(c, chain, ftsOnly, failOnDegraded) ==
  Begins(c, [pc |-> "slot", kind |-> "query", chain |-> chain, at |-> 1, tries |-> 0, last |-> "none", requests |-> 0,
             ftsOnly |-> ftsOnly, strict |-> failOnDegraded])

TransientCodes == {"timeout", "slot_exhausted", "oauth_quota", "cancelled"}
\* degradation_failure.
ExitOf(code, strict) ==
  IF ~strict \/ code = "fallback_fts_only" THEN "served" ELSE IF code \in TransientCodes THEN "retry later" ELSE "failed"
Degraded(c, code) ==
  Done(c, [vec |-> FALSE, code |-> code, exit |-> ExitOf(code, call[c].strict), asked |-> call[c].ftsOnly,
           strict |-> call[c].strict, requests |-> call[c].requests])

\* classify_embedding_error reads the message: of the refusals only a quota has a code.
CodeOf(last) == IF last = "quota" THEN "oauth_quota" ELSE "embedding_failed"

AcquireSlot(c) ==
  /\ call[c].pc = "slot"
  /\ \/ call[c].ftsOnly /\ Degraded(c, "fallback_fts_only")
     \/ ~call[c].ftsOnly /\ \/ Becomes(c, [call[c] EXCEPT !.pc = "backend"])
                            \/ Degraded(c, "slot_exhausted")       \* waited for in vain
                            \/ Degraded(c, "embedding_failed")     \* not waited for: LockBusy has no code
  /\ UNCHANGED cache

\* The probe of a client that is missing fails; "none" is an answer, without a vector,
\* only when nothing failed before it.
TryBackend(c) ==
  /\ call[c].pc = "backend"
  /\ LET b == call[c]
     IN  IF b.at > Len(b.chain.backends) THEN Degraded(c, CodeOf(b.last))
         ELSE IF b.chain.backends[b.at] = "none" THEN Degraded(c, IF b.last = "none" THEN "dim_zero" ELSE CodeOf(b.last))
         ELSE IF ~b.chain.ready THEN Becomes(c, [b EXCEPT !.at = @ + 1, !.last = "refused"])
         ELSE Becomes(c, [b EXCEPT !.pc = "request", !.tries = 0])
  /\ UNCHANGED cache

QueryReplies(c, reply) ==
  /\ call[c].pc = "request"
  /\ LET b    == [call[c] EXCEPT !.requests = @ + 1]
         next == Sent(b.tries, reply)
     IN  IF reply = "ok"
         THEN Done(c, [vec |-> TRUE, code |-> "none", exit |-> "served", asked |-> FALSE, strict |-> b.strict, requests |-> b.requests])
         ELSE Becomes(c, IF next.state = "sent" THEN [b EXCEPT !.tries = next.tries]
                         ELSE [b EXCEPT !.pc = "backend", !.at = @ + 1, !.last = reply])
  /\ UNCHANGED cache

----------------------------------------------------------------------------
(* complete: a chat completion. *)

\* finish_completion of a full or of a truncated answer: a JSON object, or text that is none.
ChatReplies == Again \cup {"ok", "no json", "truncated", "timeout", "refused", "reasoning"}

Complete(c, maxTokens) ==
  Begins(c, [pc |-> "chat", kind |-> "chat", reasoning |-> TRUE, tries |-> 0, length |-> 0, tokens |-> maxTokens,
             requests |-> 0, hard |-> FALSE])

\* Twice as many, up to the ceiling; a budget above it shrinks.
GrowMaxTokens(tokens) == IF tokens * 2 < TokenCeiling THEN tokens * 2 ELSE TokenCeiling

\* A model that insists on reasoning is asked once more without the setting, and its first
\* error stands if that fails too; a truncated answer is asked for again with more tokens.
ChatReplied(c, reply) ==
  /\ call[c].pc = "chat"
  /\ LET b    == [call[c] EXCEPT !.requests = @ + 1, !.hard = @ \/ reply \in Refusals]
         next == Sent(b.tries, reply)
     IN  \/ reply = "ok" /\ Done(c, [json |-> TRUE, requests |-> b.requests])
         \/ /\ reply = "truncated" /\ b.length < LengthRetries
            /\ Becomes(c, [b EXCEPT !.length = @ + 1, !.tokens = GrowMaxTokens(@), !.reasoning = TRUE, !.tries = 0])
         \/ /\ reply = "truncated" /\ b.length = LengthRetries     \* what there is may be mended
            /\ \/ Done(c, [json |-> TRUE, requests |-> b.requests])
               \/ Done(c, [error |-> "transient", hard |-> b.hard, requests |-> b.requests])
         \/ reply = "no json" /\ Done(c, [error |-> "transient", hard |-> b.hard, requests |-> b.requests])
         \/ reply = "reasoning" /\ b.reasoning /\ Becomes(c, [b EXCEPT !.reasoning = FALSE, !.tries = 0])
         \/ /\ reply \in Again \cup {"timeout", "refused"} \/ (reply = "reasoning" /\ ~b.reasoning)
            /\ IF next.state = "sent" THEN Becomes(c, [b EXCEPT !.tries = next.tries])
               ELSE Done(c, [error |-> IF b.reasoning THEN next.class ELSE "hard", hard |-> b.hard, requests |-> b.requests])
  /\ UNCHANGED cache

----------------------------------------------------------------------------

EntityStep(c) ==
  \/ LookupCache(c) \/ SpawnChunk(c) \/ Insert(c)
  \/ call[c].pc = "fanout" /\ \E t \in 1..Len(call[c].tasks) : JoinNext(c, t)
QueryStep(c) == AcquireSlot(c) \/ TryBackend(c)
\* The provider answers, or the client's timeout does.
ProviderAnswers(c) ==
  \/ call[c].pc = "fanout" /\ \E t \in 1..Len(call[c].tasks), reply \in Replies : ChunkReplies(c, t, reply)
  \/ \E reply \in Replies \ {"short"} : QueryReplies(c, reply)
  \/ \E reply \in ChatReplies : ChatReplied(c, reply)
\* Bound: queries and chats share no state with other calls, so each is looked at alone.
Begin(c) ==
  \/ (\A d \in Callers : call[d].kind \in {"none", "entities"}) /\ \E b \in Batches : EmbedEntities(c, b)
  \/ calls = 0 /\ \E chain \in BackendChains, f, s \in BOOLEAN : EmbedQuery(c, chain, f, s)
  \/ calls = 0 /\ \E maxTokens \in FirstTokens : Complete(c, maxTokens)
Steps(c) == EntityStep(c) \/ QueryStep(c) \/ ProviderAnswers(c) \/ Return(c)
CallsNext == Tick \/ \E c \in Callers : Begin(c) \/ Steps(c)
CallsFairness == \A c \in Callers : WF_callVars(Steps(c))
CallsSpec == CallsInit /\ [][CallsNext]_callVars /\ CallsFairness

----------------------------------------------------------------------------
(* Properties. *)

\* Every call is in some step; the cache has one entry per text, a token budget is the one
\* asked for or keeps to its ceiling, and no fan-out has more requests in flight than
\* --llm-parallelism.
CallsTypeOK ==
  /\ cache \subseteq [text: Texts, age: 0..MaxTicks] /\ calls \in 0..MaxCalls
  /\ \A e, f \in cache : e.text = f.text => e = f
  /\ \A c \in Callers :
       /\ call[c].pc \in {"idle", "lookup", "fanout", "slot", "backend", "request", "chat", "done"}
       /\ call[c].pc = "chat" => call[c].tokens \in FirstTokens \/ call[c].tokens <= TokenCeiling
       /\ call[c].pc = "fanout" => Cardinality(InFlight(c)) <= FanOut

\* Every text gets its own vector: whatever the order in which chunks and the vectors
\* within them come back, and however hits of the cache and misses mix.
VectorsAligned ==
  \A c \in Callers : call[c].pc = "done" /\ call[c].kind = "entities" /\ "out" \in DOMAIN call[c].result =>
    call[c].result.out = call[c].result.texts

\* The cache holds its ceiling although callers look up, embed and insert side by side:
\* room is made for a whole batch before it goes in.  A batch that is longer than the
\* ceiling clears the cache and all of it goes in; nothing is ever above the ceiling but
\* the texts of one such batch.
CacheBounded ==
  Cardinality(cache) <= Ceiling \/ \E b \in Batches : Len(b) > Ceiling /\ {e.text : e \in cache} \subseteq Range(b)

\* Retries of one call are bounded: one round per backend for a query, and for a chat one
\* round with and one without the reasoning setting per token budget.
RequestsBounded ==
  \A c \in Callers :
    /\ call[c].pc \in {"request", "backend"} => call[c].requests <= 2 * MaxRetries
    /\ call[c].pc = "chat" => call[c].requests <= 2 * MaxRetries * (LengthRetries + 1)

\* A failure counts as hard only if the provider refused something: outages, rate limits
\* and timeouts alone never turn an item of the queue dead.
HardMeansRefused ==
  \A c \in Callers : call[c].pc = "done" /\ "error" \in DOMAIN call[c].result =>
    (call[c].result.error = "hard" => call[c].result.hard)

\* A query without a vector says so, and with --fail-on-degraded it fails unless the
\* caller asked for it; it never passes for an answer with a vector.
DegradedIsSaid ==
  \A c \in Callers : call[c].pc = "done" /\ call[c].kind = "query" =>
    LET r == call[c].result
    IN  /\ r.vec <=> r.code = "none"
        /\ r.vec => r.requests > 0
        /\ r.exit = "served" <=> r.vec \/ r.asked \/ ~r.strict

\* Every call comes to an end, for the client's timeout answers where the provider does not.
CallsEnd == \A c \in Callers : call[c].pc # "idle" ~> call[c].pc = "idle"
\* Whatever the provider replies, in whatever order: vectors meet their texts, cache and
\* requests stay within bounds, and what went wrong is told as what it was.
CallsSound == CallsTypeOK /\ VectorsAligned /\ CacheBounded /\ RequestsBounded /\ HardMeansRefused /\ DegradedIsSaid
==============================================================================
