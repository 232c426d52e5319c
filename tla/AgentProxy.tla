----------------------------- MODULE AgentProxy -----------------------------
(***************************************************************************)
(* The proxy an agent talks to instead of its model's API                  *)
(* (agent_context_cache/main.py): the Shield guard on what goes out, the   *)
(* evidence recorder on both directions, and the mandate gate on the       *)
(* tool_use blocks that come back, in a body (enforce_response_body) or    *)
(* frame by frame in a stream (SseEnforcer).  A model may also be served   *)
(* by an OpenAI-shaped backend, whose stream is translated.                *)
(*                                                                         *)
(* The module follows one request; the session's other calls, before and   *)
(* during it, reach it through the denial latch.  A step ends where the    *)
(* handler awaits or yields.  A frame stands for a chunk, or it is cut     *)
(* before the blank line that ends it and no more comes; the deltas of a   *)
(* block travel with its start.                                            *)
(***************************************************************************)
EXTENDS Integers, Sequences, FiniteSets

CONSTANTS
    None,
    Tools,          \* tool names
    Threshold,      \* DenialLatch._threshold
    MaxBlocks,      \* bound: content blocks of a response
    Confs,          \* environments a proxy is started in
    Asks            \* requests an agent makes

ConfTypes == [guard : {"off", "observe", "enforce"}, strict : BOOLEAN, recorder : BOOLEAN,
              enforce : BOOLEAN, gates : 0..2, closed : BOOLEAN, base : BOOLEAN]
AskTypes == [route : {"messages", "count_tokens", "openai", "other"},
             token : BOOLEAN, body : {"none", "bad", "ok"},
             verdict : {"allow", "redact", "block"}, compat : BOOLEAN, stream : BOOLEAN,
             result : BOOLEAN, agent : {"none", "known", "unknown"}]

\* A block of text, and the one that stands for a refused call, are no tools.
ASSUME ProxyAssumption ==
    /\ Threshold \in Nat \ {0} /\ MaxBlocks \in Nat
    /\ Confs \subseteq ConfTypes /\ Asks \subseteq AskTypes
    /\ {"text", "denial"} \cap Tools = {} /\ None \notin {"tool_use", "end_turn"}

VARIABLES
    conf,       \* the environment variables
    mandate,    \* tools the gate's snapshot permits
    attempts,   \* the session's buckets in the DenialLatch
    ask,        \* the request being served
    pc,         \* where its handler is
    form,       \* the body it holds: as received, or as the guard rewrote it
    sent,       \* what went upstream for it
    wire,       \* frames that have arrived and are not forwarded yet
    source,     \* what the upstream, or the translator, has open, or was cut in
    gate,       \* SseEnforcer: blocks held and counts, and the decisions so far
    seen,       \* StreamExtractor
    ledger,     \* rows written for this request
    lost,       \* rows that could not be written
    client      \* what the agent received

proxyVars == <<conf, mandate, attempts>>
streamVars == <<wire, source, gate, seen>>
vars == <<conf, mandate, attempts, ask, pc, form, sent, wire, source, gate, seen,
          ledger, lost, client>>

NoSource == [next |-> 0, open |-> {}, phase |-> "start", tools |-> FALSE, kinds |-> <<>>,
             cut |-> None]
NoGate == [held |-> {}, denied |-> 0, survivors |-> 0, decided |-> [i \in {} |-> "allow"]]
NoSeen == [started |-> FALSE, stopped |-> FALSE, open |-> {}, unfed |-> {}]
NoClient == [status |-> None, open |-> {}, blocks |-> [i \in {} |-> "text"],
             stop |-> None, tail |-> None]

IsTool(k) == k \in Tools
Kinds == Tools \cup {"text"}
With(f, i, v) == [j \in DOMAIN f \cup {i} |-> IF j = i THEN v ELSE f[j]]

Init ==
    /\ conf \in Confs
    /\ mandate \in IF conf.gates > 0 THEN SUBSET Tools ELSE {{}}
    /\ attempts = [t \in Tools |-> 0]
    /\ ask = None /\ pc = "idle" /\ form = None /\ sent = {}
    /\ wire = <<>> /\ source = NoSource /\ gate = NoGate /\ seen = NoSeen
    /\ ledger = {} /\ lost = {} /\ client = NoClient

-----------------------------------------------------------------------------
(* Recorder.record_many: in strict mode the first write that fails raises, *)
(* and the rows after it are not tried.                                    *)

\* Rows are in the order of their numbers, the markers last.
Before(y, x) ==
    \/ y[1] # "aborted" /\ x[1] = "aborted"
    \/ (y[1] = "aborted" => x[1] = "aborted") /\ y[2] < x[2]

\* ok are those that could be written.
Writable(rows, ok) ==
    /\ ok \subseteq rows
    /\ ~conf.recorder => ok = {}
    /\ conf.strict => \A x \in ok : \A y \in rows : Before(y, x) => y \in ok

Raised(rows, ok) == conf.recorder /\ conf.strict /\ ok # rows

Write(rows, ok) ==
    /\ Writable(rows, ok)
    /\ ledger' = ledger \cup ok
    /\ lost' = IF conf.recorder THEN lost \cup (rows \ ok) ELSE lost

-----------------------------------------------------------------------------
(* ProxyEnforcer.                                                          *)

\* _lookup: does the request name a gate, or is there just one?
Resolved ==
    \/ ask.agent = "known" /\ conf.gates > 0
    \/ ask.agent = "none" /\ conf.gates = 1

Halted(att) == \E t \in Tools : att[t] >= Threshold

\* _decide and _unresolved: an allowance, and the latch afterwards.
Decide(att, t) ==
    IF ~Resolved THEN [allow |-> ~conf.closed, att |-> att]
    ELSE IF Halted(att) THEN [allow |-> FALSE, att |-> att]
    ELSE IF att[t] > 0 THEN [allow |-> FALSE, att |-> [att EXCEPT ![t] = @ + 1]]
    ELSE IF t \in mandate THEN [allow |-> TRUE, att |-> att]
    ELSE [allow |-> FALSE, att |-> [att EXCEPT ![t] = 1]]

\* Another call of the session is refused the tool, at this seam or another.
Elsewhere(t) ==
    /\ conf.gates > 0 /\ t \notin mandate /\ ~Halted(attempts)
    /\ attempts' = [attempts EXCEPT ![t] = @ + 1]
    /\ UNCHANGED <<conf, mandate, ask, pc, form, sent, ledger, lost, client>>
    /\ UNCHANGED streamVars

\* A refresh brings a new version, which forgets the session's denials.
Refresh(m) ==
    /\ conf.gates > 0 /\ m # mandate /\ mandate' = m
    /\ attempts' = [t \in Tools |-> 0]
    /\ UNCHANGED <<conf, ask, pc, form, sent, ledger, lost, client>>
    /\ UNCHANGED streamVars

\* enforce_response_body, one block: what replaces it in the content.
EnforceBlock(acc, k) ==
    IF ~IsTool(k) THEN [acc EXCEPT !.out = Append(@, k), !.said = Append(@, "none")]
    ELSE LET d == Decide(acc.att, k)
         IN [att |-> d.att,
             out |-> Append(acc.out, IF d.allow THEN k ELSE "denial"),
             said |-> Append(acc.said, IF d.allow THEN "allow" ELSE "deny")]

EnforceBody(blocks) ==
    LET after[n \in 0..Len(blocks)] ==
            IF n = 0 THEN [att |-> attempts, out |-> <<>>, said |-> <<>>]
            ELSE EnforceBlock(after[n - 1], blocks[n])
    IN  after[Len(blocks)]

-----------------------------------------------------------------------------
(* Serving a request, up to the upstream.                                  *)

Answer(status) == client' = [client EXCEPT !.status = status] /\ pc' = "answered"

Arrive(a) ==
    /\ pc = "idle"
    /\ ask' = a /\ pc' = "arrived" /\ form' = "original"
    /\ UNCHANGED <<sent, ledger, lost, client>>
    /\ UNCHANGED proxyVars /\ UNCHANGED streamVars

\* _proxy_auth_gate
Unauthorised ==
    /\ pc = "arrived" /\ ~ask.token /\ Answer(401)
    /\ UNCHANGED <<ask, form, sent, ledger, lost>>
    /\ UNCHANGED proxyVars /\ UNCHANGED streamVars

\* _shield_gate, with the guard off or nothing to read.
GuardSkipped ==
    /\ pc = "arrived" /\ ask.token
    /\ conf.guard = "off" \/ ask.body = "none"
    /\ pc' = "checked"
    /\ UNCHANGED <<ask, form, sent, ledger, lost, client>>
    /\ UNCHANGED proxyVars /\ UNCHANGED streamVars

\* record_evidence writes nothing about a request nothing was found in.
EvidenceRows == IF ask.verdict = "allow" THEN {} ELSE {<<"evidence", 0>>}

\* guard_raw, in a thread: what becomes of the request, and of its body.
\* Outside enforce mode a finding is only recorded.
Blocked == conf.guard = "enforce" /\ ask.verdict = "block"
Guarded == IF conf.guard = "enforce" /\ ask.verdict = "redact" THEN "rewritten" ELSE form

\* _shield_gate: guard_raw, then record_evidence.
Guard ==
    /\ pc = "arrived" /\ ask.token /\ conf.guard # "off" /\ ask.body # "none"
    /\ \E ok \in SUBSET EvidenceRows :
         /\ Write(EvidenceRows, ok)
         /\ IF Raised(EvidenceRows, ok) THEN Answer(503) /\ UNCHANGED form
            ELSE IF Blocked THEN Answer(403) /\ UNCHANGED form
            ELSE pc' = "checked" /\ form' = Guarded /\ UNCHANGED client
    /\ UNCHANGED <<ask, sent>>
    /\ UNCHANGED proxyVars /\ UNCHANGED streamVars

\* proxy_claude_messages, before the request is one for a model.
NotAMessage ==
    /\ pc = "checked" /\ ask.route = "messages"
    /\ \/ ask.body = "none" /\ Answer(200)
       \/ ask.body = "bad" /\ Answer(400)
    /\ UNCHANGED <<ask, form, sent, ledger, lost>>
    /\ UNCHANGED proxyVars /\ UNCHANGED streamVars

\* proxy_count_tokens for a model Anthropic does not know: an estimate.
Estimate ==
    /\ pc = "checked" /\ ask.route = "count_tokens" /\ ask.body = "ok" /\ ask.compat
    /\ Answer(200)
    /\ UNCHANGED <<ask, form, sent, ledger, lost>>
    /\ UNCHANGED proxyVars /\ UNCHANGED streamVars

\* The pass-through routes relay the answer untouched.
PassThrough ==
    /\ pc = "checked"
    /\ \/ ask.route \in {"openai", "other"}
       \/ ask.route = "count_tokens" /\ ~(ask.body = "ok" /\ ask.compat)
    /\ sent' = sent \cup {form}
    /\ Answer(200)
    /\ UNCHANGED <<ask, form, ledger, lost>>
    /\ UNCHANGED proxyVars /\ UNCHANGED streamVars

IsMessage == pc = "checked" /\ ask.route = "messages" /\ ask.body = "ok"

\* proxy_openai_compat_request, up to its upstream call; nothing is recorded.
Bridge ==
    /\ IsMessage /\ ask.compat
    /\ IF ~conf.base THEN Answer(500) /\ UNCHANGED sent
       ELSE pc' = "upstream" /\ sent' = sent \cup {form} /\ UNCHANGED client
    /\ UNCHANGED <<ask, form, ledger, lost>>
    /\ UNCHANGED proxyVars /\ UNCHANGED streamVars

\* real_token_count: a sampled body is sent to be counted.
Counted(sampled) == IF sampled THEN sent \cup {form} ELSE sent

\* The optimizer, and a benchmark sample.
Optimise(sampled) ==
    /\ IsMessage /\ ~ask.compat
    /\ sent' = Counted(sampled)
    /\ pc' = "optimised"
    /\ UNCHANGED <<ask, form, ledger, lost, client>>
    /\ UNCHANGED proxyVars /\ UNCHANGED streamVars

\* extract_request_events: the results of the last user message.
RequestRows == IF ask.result THEN {<<"result", 0>>} ELSE {}

\* record_request_body, then the call to the upstream.
SendUpstream ==
    /\ pc = "optimised"
    /\ \E ok \in SUBSET RequestRows :
         /\ Write(RequestRows, ok)
         /\ IF Raised(RequestRows, ok) THEN Answer(503) /\ UNCHANGED sent
            ELSE pc' = "upstream" /\ sent' = sent \cup {form} /\ UNCHANGED client
    /\ UNCHANGED <<ask, form>>
    /\ UNCHANGED proxyVars /\ UNCHANGED streamVars

\* No connection, or an error status, whose body is relayed.
UpstreamRefuses ==
    /\ pc = "upstream"
    /\ \/ Answer(502)
       \/ Answer(429)
    /\ UNCHANGED <<ask, form, sent, ledger, lost>>
    /\ UNCHANGED proxyVars /\ UNCHANGED streamVars

-----------------------------------------------------------------------------
(* An answer in one body.                                                  *)

StopReason(blocks) == IF \E i \in 1..Len(blocks) : IsTool(blocks[i]) THEN "tool_use" ELSE "end_turn"

\* extract_response_events
ResponseRows(blocks) == {<<"block", i - 1>> : i \in 1..Len(blocks)}

\* The content as the agent gets it, and the stop_reason that goes with it.
Delivered(blocks, stop) ==
    [status |-> 200, open |-> {}, blocks |-> [i \in 0..(Len(blocks) - 1) |-> blocks[i + 1]],
     stop |-> stop, tail |-> None]

Enforced == conf.enforce

Body(blocks) ==
    /\ pc = "upstream" /\ ~ask.stream
    /\ LET rows == IF ask.compat THEN {} ELSE ResponseRows(blocks)
           e == EnforceBody(blocks)
           survivors == \E i \in 1..Len(e.out) : IsTool(e.out[i])
           stop == StopReason(blocks)
       IN \E ok \in SUBSET rows :
          /\ Write(rows, ok)
          /\ source' = [source EXCEPT !.next = Len(blocks),
                                      !.kinds = blocks]
          /\ IF Raised(rows, ok)
             THEN Answer(503) /\ UNCHANGED <<attempts, gate>>
             ELSE /\ pc' = "answered"
                  /\ IF ~Enforced
                     THEN client' = Delivered(blocks, stop) /\ UNCHANGED <<attempts, gate>>
                     ELSE /\ attempts' = e.att
                          /\ gate' = [gate EXCEPT !.decided =
                                [i \in 0..(Len(blocks) - 1) |-> e.said[i + 1]]]
                          /\ client' = Delivered(e.out,
                                IF ~survivors /\ e.out # blocks THEN "end_turn" ELSE stop)
    /\ UNCHANGED <<conf, mandate, ask, form, sent, wire, seen>>

-----------------------------------------------------------------------------
(* A stream.  Anthropic's frames arrive as they are; an OpenAI stream goes *)
(* through translate_openai_stream_to_anthropic_sse.                       *)

Start(i, k) == [type |-> "start", i |-> i, k |-> k]
Stop(i) == [type |-> "stop", i |-> i]
MessageStart == [type |-> "message_start"]
MessageDelta(stop) == [type |-> "message_delta", stop |-> stop]
MessageStop == [type |-> "message_stop"]
ErrorFrame == [type |-> "error"]

Opens ==
    /\ pc = "upstream" /\ ask.stream
    /\ pc' = "stream"
    /\ client' = [client EXCEPT !.status = 200]
    /\ wire' = IF ask.compat THEN <<MessageStart>> ELSE <<>>
    /\ source' = [NoSource EXCEPT !.phase = IF ask.compat THEN "blocks" ELSE "start"]
    /\ UNCHANGED <<ask, form, sent, gate, seen, ledger, lost>>
    /\ UNCHANGED proxyVars

Relays == pc = "stream" /\ ~ask.compat
Translates == pc = "stream" /\ ask.compat

\* The upstream's next frame.
Emits(f, next) ==
    /\ pc = "stream" /\ wire = <<>>
    /\ wire' = <<f>> /\ source' = next
    /\ UNCHANGED <<ask, pc, form, sent, gate, seen, ledger, lost, client>>
    /\ UNCHANGED proxyVars

OpenBlock(k) ==
    [source EXCEPT !.next = @ + 1, !.open = @ \cup {source.next}, !.kinds = Append(@, k),
                   !.tools = @ \/ IsTool(k)]

StopNow == IF source.tools THEN "tool_use" ELSE "end_turn"

\* Anthropic's stream; blocks may overlap, as their indices allow.
AnthropicStarts ==
    Relays /\ source.phase = "start"
    /\ Emits(MessageStart, [source EXCEPT !.phase = "blocks"])
AnthropicBlock(k) ==
    /\ Relays /\ source.phase = "blocks" /\ source.next < MaxBlocks
    /\ Emits(Start(source.next, k), OpenBlock(k))
AnthropicBlockEnds(i) ==
    /\ Relays /\ source.phase = "blocks" /\ i \in source.open
    /\ Emits(Stop(i), [source EXCEPT !.open = @ \ {i}])
AnthropicEnds ==
    /\ Relays /\ source.phase = "blocks" /\ source.open = {}
    /\ Emits(MessageDelta(StopNow), [source EXCEPT !.phase = "delta"])
AnthropicStops ==
    Relays /\ source.phase = "delta" /\ Emits(MessageStop, [source EXCEPT !.phase = "stop"])
AnthropicErrs ==
    Relays /\ source.phase = "blocks" /\ Emits(ErrorFrame, [source EXCEPT !.phase = "stop"])

\* The translator: text and each tool call become a block when they first
\* appear, and every block ends where the stream does.
TextDelta ==
    /\ Translates /\ source.phase = "blocks" /\ source.next < MaxBlocks
    /\ ~\E i \in source.open : source.kinds[i + 1] = "text"
    /\ Emits(Start(source.next, "text"), OpenBlock("text"))
ToolCallDelta(t) ==
    /\ Translates /\ source.phase = "blocks" /\ source.next < MaxBlocks
    /\ Emits(Start(source.next, t), OpenBlock(t))

\* The n-th has n of them up to it.
InOrder(S) ==
    [n \in 1..Cardinality(S) |-> CHOOSE i \in S : Cardinality({j \in S : j <= i}) = n]

\* Text first, then the tool calls in the order they were opened.
ClosingOrder ==
    LET text == {i \in source.open : source.kinds[i + 1] = "text"}
    IN InOrder(text) \o InOrder(source.open \ text)

\* [DONE], or an upstream that closes early: finish_reason is None then.
TranslatorEnds(finished) ==
    /\ Translates /\ source.phase = "blocks" /\ wire = <<>>
    /\ LET order == ClosingOrder
           stop == IF finished /\ source.tools THEN "tool_use" ELSE "end_turn"
       IN wire' = [n \in 1..Len(order) |-> Stop(order[n])]
                  \o <<MessageDelta(stop), MessageStop>>
    /\ source' = [source EXCEPT !.open = {}, !.phase = "stop"]
    /\ UNCHANGED <<ask, pc, form, sent, gate, seen, ledger, lost, client>>
    /\ UNCHANGED proxyVars

-----------------------------------------------------------------------------
(* SseEnforcer._frame, and the agent assembling what it is sent.           *)

\* The agent reads a frame.
Reads(c, f) ==
    CASE f.type = "start" -> [c EXCEPT !.open = @ \cup {f.i}, !.blocks = With(@, f.i, f.k)]
      [] f.type = "stop" -> [c EXCEPT !.open = @ \ {f.i}]
      [] f.type = "message_delta" -> [c EXCEPT !.stop = f.stop]
      [] OTHER -> c

\* Mutant: one block is held at a time.
HoldsOne(f) == f.type = "start" /\ IsTool(f.k) /\ gate.held = {}

\* content_block_start of a tool_use block: held.
Holds(f) == f.type = "start" /\ IsTool(f.k)

\* _resolve, at the block's end.
Resolves(f) == f.type = "stop" /\ f.i \in gate.held

\* Mutant: a message that lost its tool calls keeps its stop_reason.
RewriteStopNever(f) == f

\* _rewrite_stop_reason
RewriteStop(f) ==
    IF f.type = "message_delta" /\ gate.denied > 0 /\ gate.survivors = 0 /\ f.stop = "tool_use"
    THEN MessageDelta("end_turn") ELSE f

\* _denial_frames: one block at the same index.
Denial(i) == With(client.blocks, i, "denial")

\* A frame comes out of the stream; what the gate makes of it is yielded.
\* Frames of a block in flight yield nothing.
Forward ==
    /\ pc = "stream" /\ wire # <<>>
    /\ LET f == Head(wire)
       IN \/ /\ ~Enforced \/ (~Holds(f) /\ ~Resolves(f))
             /\ client' = Reads(client, IF Enforced THEN RewriteStop(f) ELSE f)
             /\ pc' = "yielded"
             /\ UNCHANGED <<attempts, gate>>
          \/ /\ Enforced /\ Holds(f)
             /\ gate' = [gate EXCEPT !.held = @ \cup {f.i}]
             /\ pc' = "feed" /\ UNCHANGED <<attempts, client>>
          \/ /\ Enforced /\ Resolves(f)
             /\ LET k == source.kinds[f.i + 1]
                    d == Decide(attempts, k)
                IN /\ attempts' = d.att
                   /\ gate' = [gate EXCEPT !.held = @ \ {f.i},
                                 !.survivors = @ + (IF d.allow THEN 1 ELSE 0),
                                 !.denied = @ + (IF d.allow THEN 0 ELSE 1),
                                 !.decided = With(@, f.i, IF d.allow THEN "allow" ELSE "deny")]
                   /\ client' = [client EXCEPT
                        !.blocks = IF d.allow THEN With(@, f.i, k) ELSE Denial(f.i)]
             /\ pc' = "yielded"
    /\ UNCHANGED <<conf, mandate, ask, form, sent, wire, source, seen, ledger, lost>>

-----------------------------------------------------------------------------
(* StreamExtractor._handle_event: a block becomes a row when it ends.      *)

Extracts(s, f) ==
    CASE f.type = "message_start" -> [s EXCEPT !.started = TRUE]
      [] f.type = "start" -> [s EXCEPT !.open = @ \cup {f.i}]
      [] f.type = "stop" -> [s EXCEPT !.open = @ \ {f.i}]
      [] f.type = "message_stop" -> [s EXCEPT !.stopped = TRUE]
      [] OTHER -> s

FrameRows(s, f) ==
    CASE f.type = "stop" /\ f.i \in s.open -> {<<"block", f.i>>}
      [] f.type = "error" -> {<<"api_error", 0>>}
      [] OTHER -> {}

\* feed_stream_chunk, once the agent has taken the bytes; a failure to write
\* is logged and the stream goes on.
Feed ==
    /\ pc \in {"yielded", "feed"}
    /\ LET f == Head(wire)
           rows == IF ask.compat THEN {} ELSE FrameRows(seen, f)
       IN /\ \E ok \in SUBSET rows : Write(rows, ok)
          /\ seen' = IF ask.compat \/ ~conf.recorder THEN seen ELSE Extracts(seen, f)
    /\ wire' = Tail(wire) /\ pc' = "stream"
    /\ UNCHANGED <<ask, form, sent, source, gate, client>>
    /\ UNCHANGED proxyVars

\* What may have come of the upstream's next frame when it comes to its end:
\* nothing that can be read, or all but the blank line.  The translator
\* yields whole frames.
Cuts ==
    {None} \cup
    IF ask.compat \/ wire # <<>> THEN {}
    ELSE CASE source.phase = "start" -> {MessageStart}
           [] source.phase = "delta" -> {MessageStop}
           [] source.phase = "stop" -> {}
           [] OTHER -> {Start(source.next, k) : k \in IF source.next < MaxBlocks THEN Kinds ELSE {}}
                       \cup {Stop(i) : i \in source.open}
                       \cup (IF source.open = {} THEN {MessageDelta(StopNow)} ELSE {})
                       \cup {ErrorFrame}

\* The handler leaves its loop, with f still in the extractor's buffer.
Leaves(f) == pc' = "closing" /\ source' = [source EXCEPT !.cut = f]

\* The agent hangs up; a frame just yielded to it is not fed.
Disconnects ==
    /\ \/ pc = "stream" /\ (\E f \in Cuts : Leaves(f)) /\ UNCHANGED seen
       \/ pc = "yielded" /\ Leaves(None) /\ seen' = [seen EXCEPT !.unfed = {Head(wire)}]
    /\ UNCHANGED <<ask, form, sent, wire, gate, ledger, lost, client>>
    /\ UNCHANGED proxyVars

\* The upstream's connection fails or times out: an error event, on the
\* Anthropic road; what the gate held, a frame cut short included, is
\* dropped.  Without a gate the bytes went out as they came.
UpstreamFails ==
    /\ pc = "stream" /\ wire = <<>> /\ source.phase # "stop"
    /\ \E f \in Cuts :
         /\ Leaves(f)
         /\ client' = IF Enforced THEN client ELSE [client EXCEPT !.tail = f]
    /\ UNCHANGED <<ask, form, sent, wire, gate, seen, ledger, lost>>
    /\ UNCHANGED proxyVars

\* The upstream closes, done or not.  SseEnforcer.close drops the blocks it
\* holds and returns its buffer, which is yielded as it is.
StreamEnds ==
    /\ pc = "stream" /\ wire = <<>> /\ (ask.compat => source.phase = "stop")
    /\ \E f \in Cuts : Leaves(f) /\ client' = [client EXCEPT !.tail = f]
    /\ gate' = [gate EXCEPT !.held = {}]
    /\ UNCHANGED <<ask, form, sent, wire, seen, ledger, lost>>
    /\ UNCHANGED proxyVars

\* Mutant: only an unfinished block is worth a marker.
AbortedBlocksOnly(s) == {<<"aborted", i>> : i \in s.open}

\* A marker for every block cut short, or for a message that never stopped.
AbortedRows(s) ==
    IF s.open # {} THEN {<<"aborted", i>> : i \in s.open}
    ELSE IF s.started /\ ~s.stopped THEN {<<"aborted", -1>>}
    ELSE {}

\* StreamExtractor.close: a frame with no blank line after it is dispatched
\* like any other, then come the markers.
CloseRows ==
    IF source.cut = None THEN AbortedRows(seen)
    ELSE FrameRows(seen, source.cut) \cup AbortedRows(Extracts(seen, source.cut))

\* The finally of stream_and_close.
CloseStream ==
    /\ pc = "closing"
    /\ \E ok \in SUBSET CloseRows : Write(CloseRows, ok)
    /\ pc' = "answered"
    /\ UNCHANGED <<ask, form, sent, wire, source, gate, seen, client>>
    /\ UNCHANGED proxyVars

-----------------------------------------------------------------------------

Bodies == UNION {[1..n -> Kinds] : n \in 0..MaxBlocks}

Next ==
    \/ \E t \in Tools : Elsewhere(t)
    \/ \E m \in SUBSET Tools : Refresh(m)
    \/ \E a \in Asks : Arrive(a)
    \/ Unauthorised
    \/ GuardSkipped
    \/ Guard
    \/ NotAMessage
    \/ Estimate
    \/ PassThrough
    \/ Bridge
    \/ \E s \in BOOLEAN : Optimise(s)
    \/ SendUpstream
    \/ UpstreamRefuses
    \/ \E b \in Bodies : Body(b)
    \/ Opens
    \/ AnthropicStarts
    \/ \E k \in Kinds : AnthropicBlock(k)
    \/ \E i \in 0..(MaxBlocks - 1) : AnthropicBlockEnds(i)
    \/ AnthropicEnds
    \/ AnthropicStops
    \/ AnthropicErrs
    \/ TextDelta
    \/ \E t \in Tools : ToolCallDelta(t)
    \/ \E finished \in BOOLEAN : TranslatorEnds(finished)
    \/ Forward
    \/ Feed
    \/ Disconnects
    \/ UpstreamFails
    \/ StreamEnds
    \/ CloseStream

Spec == Init /\ [][Next]_vars

-----------------------------------------------------------------------------
(* Properties.                                                             *)

\* Is the block a call that was decided, and allowed?
Allowed(i) == i \in DOMAIN gate.decided /\ gate.decided[i] = "allow"

\* The agent, had it read the frame it was sent without its blank line.
ReadsTail == IF client.tail = None THEN client ELSE Reads(client, client.tail)

\* proxy_gate.py: of whole frames an agent never gets a tool_use block, or a
\* part of one, that its gate did not decide and allow; not when blocks
\* overlap, when the stream is cut or translated, or when the latch moves
\* meanwhile.  The frame the stream was cut in is sent as it came: it may
\* announce a call the gate never saw, or a stop_reason not rewritten, but
\* an agent that reads even that one has no finished call out of it.
NothingUngatedReachesAgent ==
    conf.enforce =>
        /\ \A i \in DOMAIN client.blocks : IsTool(client.blocks[i]) => Allowed(i)
        /\ \A i \in DOMAIN ReadsTail.blocks \ ReadsTail.open :
              IsTool(ReadsTail.blocks[i]) => Allowed(i)

\* proxy_gate.py _denial_frames, _rewrite_stop_reason: a message that ended
\* has a block at every index, every block is closed, and stop_reason says
\* tool_use just when there is a tool call to make.  (A translated stream
\* that broke off ends as end_turn, whatever it holds.)
MessageIsWhole ==
    client.stop # None =>
        /\ DOMAIN client.blocks = 0..(source.next - 1) /\ client.open = {}
        /\ client.stop = "tool_use" => \E i \in DOMAIN client.blocks : IsTool(client.blocks[i])
        /\ ~ask.compat /\ client.stop # "tool_use" =>
               \A i \in DOMAIN client.blocks : ~IsTool(client.blocks[i])

\* Is the row on the record, or counted as lost?
Told(x) == x \in ledger \cup lost

\* main.py, extract.py: with the recorder on, nothing goes upstream whose
\* guard evidence or tool results are untold, in strict mode unwritten, and
\* after the answer every block the agent got, or was refused, is told, and
\* so is every block or message that was cut short, but for the one frame
\* the agent hung up on.  A block that wanted only the blank line after its
\* end is told as finished.
EverythingTold ==
    conf.recorder =>
        /\ sent # {} =>
             /\ conf.guard # "off" /\ ask.body # "none" => \A x \in EvidenceRows : Told(x)
             /\ conf.strict => <<"evidence", 0>> \notin lost
        /\ pc \in {"upstream", "stream", "yielded", "feed"} /\ ~ask.compat =>
             /\ \A x \in RequestRows : Told(x)
             /\ conf.strict => <<"result", 0>> \notin lost
        /\ pc = "answered" /\ client.status = 200 /\ ~ask.compat =>
             /\ \A i \in (DOMAIN client.blocks \ client.open) \cup DOMAIN gate.decided :
                    Told(<<"block", i>>) \/ Stop(i) \in seen.unfed
             /\ \A i \in client.open :
                    \/ Told(<<"aborted", i>>) \/ (source.cut = Stop(i) /\ Told(<<"block", i>>))
                    \/ \E f \in seen.unfed : f.type = "start" /\ f.i = i
             /\ ask.stream /\ client.stop = None /\ source.phase # "start" /\ seen.started =>
                    \E i \in -1..(MaxBlocks - 1) : Told(<<"aborted", i>>)
=============================================================================
