------------------------------ MODULE Runtime ------------------------------
(***************************************************************************)
(* The execution engine: one request goes through the default pipeline     *)
(* (resolve the context, exact cache, semantic cache, provider router) and *)
(* its answer is written back to both caches.  Every process has its own   *)
(* Runtime; the exact cache (RedisCache) and the semantic cache's stream   *)
(* are shared, the semantic cache's mirror and the router's round-robin    *)
(* cursor are per process.  A step is the code between two awaits that     *)
(* touch shared state.                                                     *)
(*                                                                         *)
(* Names of messages, models and texts are model values: a request is what *)
(* the cache key tells apart (prompt, history, query, model and options)   *)
(* plus whether it streams.                                                *)
(***************************************************************************)
EXTENDS Integers, Sequences, FiniteSets, SequencesExt

CONSTANTS
    Procs,          \* processes that run a Runtime
    Requests,       \* request ids, each used once
    Req,            \* what a request asks: [prompt, query, model, session, stream]
    Providers,      \* the router's provider list, a sequence
    Adapter,        \* the adapter of each provider: anthropic, openai, gemini, function
    Score,          \* similarity of two queries
    Threshold,      \* SemanticCacheLookup.threshold
    MaxRetries,     \* RetryPolicy.max_retries
    Capacity,       \* capacity of the semantic cache
    MaxFaults,      \* bound on cache, embedder and result-store failures
    Nothing         \* Python's None

\* SemanticCacheLookup compares embeddings, each of which stands for its query.
Similarity(q, emb) == Score[q, emb]

ASSUME RuntimeAssumption ==
    /\ Capacity \in Nat \ {0}
    /\ MaxRetries \in Nat
    /\ Providers \in Seq(Range(Providers)) /\ Len(Providers) > 0
    /\ Threshold \in Int
    /\ \A r, s \in Requests : Similarity(Req[r].query, Req[s].query) \in Int
    /\ Nothing \notin {"exact", "semantic", "ok", "unavailable"}

VARIABLES
    ctx,        \* RequestContext of each request, with its place in the code
    exact,      \* RedisCache: cache key -> [answer]
    semStream,  \* the semantic cache's Redis stream; an entry's id is its index
    mirror,     \* MemorySemanticCache mirror per process: [slots, next]
    lastId,     \* RedisSemanticCache._last_id per process
    rr,         \* _RoundRobinSelection._next per process
    faults      \* failures injected so far

rtvars == <<ctx, exact, semStream, mirror, lastId, rr, faults>>

Provider == Range(Providers)

FreshContext ==
    [pc |-> "idle", proc |-> Nothing, hist |-> FALSE, key |-> Nothing,
     emb |-> Nothing, reply |-> {}, own |-> 0,
     order |-> <<>>, attempt |-> 0, calls |-> 0, spent |-> {},
     yielded |-> FALSE, text |-> FALSE, sent |-> {},
     answer |-> Nothing, cached |-> Nothing, outcome |-> Nothing]

EmptyMirror == [slots |-> <<>>, next |-> 1]

RtInit ==
    /\ ctx = [r \in Requests |-> FreshContext]
    /\ exact = <<>>
    /\ semStream = <<>>
    /\ mirror = [p \in Procs |-> EmptyMirror]
    /\ lastId = [p \in Procs |-> 0]
    /\ rr = [p \in Procs |-> 0]
    /\ faults = 0

\* What the provider is asked; the answer to it is the answer to nothing else.
Asked(r) == [prompt |-> Req[r].prompt, hist |-> ctx[r].hist,
             query |-> Req[r].query, model |-> Req[r].model]

\* The request is answered: request.completed, and the result is the caller's.
Completed(c) ==
    [FreshContext EXCEPT !.pc = "end", !.outcome = "ok", !.proc = c.proc, !.hist = c.hist,
                         !.answer = c.answer, !.cached = c.cached]

\* The request ends without an answer; nothing of it is left but how.
Ended(c, how) == [FreshContext EXCEPT !.pc = "end", !.outcome = how, !.proc = c.proc]

Set(r, c) == ctx' = [ctx EXCEPT ![r] = c]
Put(f, k, v) == [x \in {k} \cup DOMAIN f |-> IF x = k THEN v ELSE f[x]]
Fault == faults < MaxFaults /\ faults' = faults + 1

-----------------------------------------------------------------------------
(* The context resolver and the exact cache.                               *)

\* Runtime.execute / stream up to the first cache stage: the context is made,
\* the stream flag set, and ContextResolver puts the prompt, the session's
\* history and the input together; a history that cannot be read is left out.
Enter(p, r) ==
    /\ ctx[r].pc = "idle"
    /\ \E h \in IF Req[r].session THEN BOOLEAN ELSE {FALSE} :
           Set(r, [ctx[r] EXCEPT !.proc = p, !.hist = h,
                      !.pc = IF Req[r].stream THEN "semantic" ELSE "exact"])
    /\ UNCHANGED <<exact, semStream, mirror, lastId, rr, faults>>

\* CacheLookup.fingerprint: messages, model, options and filters; provider
\* metadata is left out of it.
FingerprintDropsModel(r) == <<Req[r].prompt, ctx[r].hist, Req[r].query>>
Fingerprint(r) == <<Req[r].prompt, ctx[r].hist, Req[r].query, Req[r].model>>

\* RedisCache.get: the value under the key.  How long ago it was set is not
\* kept: an entry's time to live may be over at any lookup.
ExactHit(key) == key \in DOMAIN exact

\* CacheLookup.execute: a hit ends the pipeline, a miss or an outage of the
\* cache goes on; the key is kept for the write-back either way.
LookupExact(r) ==
    LET c == [ctx[r] EXCEPT !.key = Fingerprint(r)] IN
    /\ ctx[r].pc = "exact"
    /\ \/ /\ ExactHit(c.key)
          /\ Set(r, Completed([c EXCEPT !.answer = exact[c.key].answer, !.cached = "exact"]))
          /\ UNCHANGED faults
       \/ /\ Set(r, [c EXCEPT !.pc = "semantic"])
          /\ UNCHANGED faults
       \/ /\ Fault
          /\ Set(r, [c EXCEPT !.pc = "semantic"])
    /\ UNCHANGED <<exact, semStream, mirror, lastId, rr>>

\* _RoundRobinSelection, called as the provider stage begins: start where the
\* process's last call left off, in ring order.
Routed(c) ==
    LET start == rr[c.proc] % Len(Providers) IN
    [c EXCEPT !.pc = "call",
              !.order = SubSeq(Providers, start + 1, Len(Providers))
                        \o SubSeq(Providers, 1, start)]
Advance(p) == rr' = [rr EXCEPT ![p] = (@ + 1) % Len(Providers)]

-----------------------------------------------------------------------------
(* The semantic cache: a shared stream and a mirror of it in every process. *)

\* MemorySemanticCache.add: the next slot of the ring, used before or not.
RingAdd(m, e) ==
    [slots |-> Put(m.slots, m.next, e), next |-> (m.next % Capacity) + 1]

\* MemorySemanticCache._find_best: the best of the slots that have not expired,
\* the first of equals, when its score reaches the threshold.
FindBest(m, q, live) ==
    LET best(i) == /\ \A j \in live : Similarity(q, m.slots[i].emb) >= Similarity(q, m.slots[j].emb)
                   /\ \A j \in live : Similarity(q, m.slots[j].emb) = Similarity(q, m.slots[i].emb)
                                          => i <= j
    IN  IF \E i \in live : Similarity(q, m.slots[i].emb) >= Threshold
        THEN m.slots[CHOOSE i \in live : best(i)].answer ELSE Nothing

\* XRANGE after an id: what is left of the stream after XTRIM MAXLEN.
RangeAfter(id) ==
    {i \in (id + 1) .. Len(semStream) : i > Len(semStream) - Capacity}

\* SemanticCacheLookup.execute up to the reply of _sync's XRANGE.  An embedder
\* or Redis failure is a miss, and there is nothing to write back.
LookupSemantic(r) ==
    /\ ctx[r].pc = "semantic"
    /\ \/ /\ Set(r, [ctx[r] EXCEPT !.pc = "sync", !.emb = Req[r].query,
                        !.reply = RangeAfter(lastId[ctx[r].proc])])
          /\ UNCHANGED <<rr, faults>>
       \/ /\ Fault
          /\ Set(r, Routed(ctx[r]))
          /\ Advance(ctx[r].proc)
    /\ UNCHANGED <<exact, semStream, mirror, lastId>>

\* RedisSemanticCache._sync's replay of the reply: MemorySemanticCache.add for
\* each entry in the order of the ids.  There are no more than the ring has
\* slots, so each gets its own.
Replay(m, reply) ==
    LET slot(i) == ((m.next - 1 + Cardinality({j \in reply : j < i})) % Capacity) + 1
        taken   == {slot(i) : i \in reply}
    IN  [slots |-> [k \in taken \cup DOMAIN m.slots |->
                      IF k \in taken THEN semStream[CHOOSE i \in reply : slot(i) = k]
                      ELSE m.slots[k]],
         next  |-> ((m.next - 1 + Cardinality(reply)) % Capacity) + 1]

\* The rest of find: replay the reply into the mirror, move _last_id to its
\* last entry, and search the slots still alive; a hit ends the pipeline.
SyncAndFind(r, live) ==
    LET p   == ctx[r].proc
        m   == Replay(mirror[p], ctx[r].reply)
        hit == FindBest(m, ctx[r].emb, live)
        c   == [ctx[r] EXCEPT !.reply = {}]
    IN  /\ ctx[r].pc = "sync"
        /\ live \subseteq DOMAIN m.slots
        /\ mirror' = [mirror EXCEPT ![p] = m]
        /\ lastId' = [lastId EXCEPT ![p] = IF ctx[r].reply = {} THEN @
                                           ELSE Max(ctx[r].reply)]
        /\ Set(r, IF hit = Nothing THEN Routed(c)
                  ELSE Completed([c EXCEPT !.answer = hit, !.cached = "semantic"]))
        /\ IF hit = Nothing THEN Advance(p) ELSE UNCHANGED rr
        /\ UNCHANGED <<exact, semStream, faults>>

-----------------------------------------------------------------------------
(* The provider router.                                                    *)

\* The next provider in the order, or AllProvidersFailedError.
FallThrough(c) ==
    IF Len(c.order) = 1 THEN [Ended(c, "unavailable") EXCEPT !.spent = c.spent]
    ELSE [c EXCEPT !.order = Tail(@), !.attempt = 0, !.calls = 0]

\* What follows a ProviderError: back off and try again, or fall through.
\* calls and spent only record the history: the calls made to this provider,
\* and the providers that refused for good or were called as often as allowed.
Called(c, retryable) ==
    [c EXCEPT !.calls = @ + 1,
              !.spent = IF ~retryable \/ c.calls = MaxRetries
                        THEN @ \cup {Head(c.order)} ELSE @]
AfterError(c, retryable) ==
    LET d == Called(c, retryable) IN
    IF retryable /\ c.attempt < MaxRetries THEN [d EXCEPT !.attempt = @ + 1]
    ELSE FallThrough(d)

\* What one complete() call of a provider comes to.  Rate limits, time-outs,
\* 5xx and transport errors are retryable; other statuses and malformed bodies
\* are not (raise_for_status, parse_json_response).
HttpFailures == {"retryable", "fatal"}

\* A wrapped function's own exceptions are never retryable, a ProviderError it
\* raises keeps its flag (FunctionProvider.complete).
FunctionFailures == {"retryable", "fatal"}

CompleteOutcomes(p) ==
    {"text", "toolcall"}
        \cup (IF Adapter[p] = "function" THEN FunctionFailures ELSE HttpFailures)

\* A provider's answer to request r; a turn of tool calls has no text.
AnswerOf(r, text) == [asked |-> Asked(r), text |-> text]

\* ProviderCall.execute: one attempt of ProviderRouter.complete.
Complete(r) ==
    LET c == ctx[r]
        p == Head(c.order)
    IN  /\ c.pc = "call" /\ ~Req[r].stream
        /\ \E o \in CompleteOutcomes(p) :
               Set(r, IF o \in {"text", "toolcall"}
                      THEN [c EXCEPT !.answer = AnswerOf(r, o = "text"), !.pc = "write"]
                      ELSE AfterError(c, o = "retryable"))
        /\ UNCHANGED <<exact, semStream, mirror, lastId, rr, faults>>

\* AnthropicProvider.stream: text and tool-input deltas; an in-band error is
\* retryable when it is a rate limit or an overload, as is a transport error;
\* a malformed event or tool input is not; message_stop ends the stream.
AnthropicEvents == {"text", "tool", "done", "retryable", "fatal"}

\* OpenAICompatProvider.stream: an in-band error is never retryable, a status
\* or transport error may be.
OpenAIEvents == {"text", "tool", "done", "retryable", "fatal"}

\* GeminiProvider.stream: no tool calls; in-band errors carry a status code.
GeminiEvents == {"text", "done", "retryable", "fatal"}

\* FunctionProvider.stream: without a stream function every stream is refused.
FunctionEvents == {"fatal"}

StreamEvents(p) ==
    CASE Adapter[p] = "anthropic" -> AnthropicEvents
      [] Adapter[p] = "openai"    -> OpenAIEvents
      [] Adapter[p] = "gemini"    -> GeminiEvents
      [] Adapter[p] = "function"  -> FunctionEvents

\* What a ProviderError does to a stream: once content has gone to the client
\* it is raised, before that it is handled like a failed completion.
AfterStreamErrorForgets(c, retryable) == AfterError(c, retryable)
AfterStreamError(c, retryable) ==
    IF c.yielded THEN Ended(c, "failed")
    ELSE AfterError(c, retryable)

\* One chunk of ProviderRouter.stream, passed on by Runtime.stream.
StreamChunk(r) ==
    LET c == ctx[r]
        p == Head(c.order)
    IN  /\ c.pc = "call" /\ Req[r].stream
        /\ \E e \in StreamEvents(p) :
               Set(r, CASE e \in {"text", "tool"} ->
                             [c EXCEPT !.yielded = TRUE, !.sent = @ \cup {p},
                                       !.text = @ \/ e = "text"]
                        [] e = "done" -> [c EXCEPT !.answer = AnswerOf(r, c.text),
                                                   !.pc = "write"]
                        [] OTHER -> AfterStreamError(c, e = "retryable"))
        /\ UNCHANGED <<exact, semStream, mirror, lastId, rr, faults>>

\* The client of a stream goes away: the generator is closed where it stands,
\* and nothing after the yield runs.
Disconnect(r) ==
    /\ ctx[r].pc = "call" /\ Req[r].stream
    /\ Set(r, Ended(ctx[r], "gone"))
    /\ UNCHANGED <<exact, semStream, mirror, lastId, rr, faults>>

-----------------------------------------------------------------------------
(* Runtime._write_back_cache.                                              *)

\* The exact cache's half: only an uncached answer with text, only under a key
\* CacheLookup computed; a failing cache is logged and passed over.
WriteExact(r) ==
    LET c == ctx[r] IN
    /\ c.pc = "write"
    /\ Set(r, IF c.answer.text THEN [c EXCEPT !.pc = "append"] ELSE Completed(c))
    /\ \/ /\ exact' = IF c.key = Nothing \/ ~c.answer.text THEN exact
                      ELSE Put(exact, c.key, [answer |-> c.answer])
          /\ UNCHANGED faults
       \/ /\ c.key # Nothing /\ c.answer.text
          /\ Fault
          /\ UNCHANGED exact
    /\ UNCHANGED <<semStream, mirror, lastId, rr>>

\* RedisSemanticCache.add up to the reply of XADD, when the lookup left an
\* embedding behind.
AppendSemantic(r) ==
    LET c == ctx[r] IN
    /\ c.pc = "append"
    /\ \/ /\ c.emb = Nothing
          /\ Set(r, Completed(c))
          /\ UNCHANGED <<semStream, faults>>
       \/ /\ c.emb # Nothing
          /\ semStream' = Append(semStream,
                              [emb |-> c.emb, answer |-> c.answer])
          /\ Set(r, [c EXCEPT !.pc = "mirror", !.own = Len(semStream) + 1])
          /\ UNCHANGED faults
       \/ /\ c.emb # Nothing
          /\ Fault
          /\ Set(r, Completed(c))
          /\ UNCHANGED semStream
    /\ UNCHANGED <<exact, mirror, lastId, rr>>

\* The rest of add: _last_id becomes the id of the entry just added, which is
\* mirrored here.
MirrorOwn(r) ==
    LET c == ctx[r] IN
    /\ c.pc = "mirror"
    /\ lastId' = [lastId EXCEPT ![c.proc] = c.own]
    /\ mirror' = [mirror EXCEPT ![c.proc] = RingAdd(@, semStream[c.own])]
    /\ Set(r, Completed(c))
    /\ UNCHANGED <<exact, semStream, rr, faults>>

\* One step of the request's own task.
RequestStep(r) ==
    \/ LookupExact(r) \/ LookupSemantic(r) \/ (\E live \in SUBSET (1 .. Capacity) : SyncAndFind(r, live))
    \/ Complete(r) \/ StreamChunk(r)
    \/ WriteExact(r) \/ AppendSemantic(r) \/ MirrorOwn(r)
=============================================================================
