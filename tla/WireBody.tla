------------------------------ MODULE WireBody ------------------------------
(***************************************************************************)
(* What the agent proxy does to a request body in the Anthropic format:    *)
(* PromptCacheInjection and SessionDedup (stages.py) on its way to         *)
(* Anthropic, or the translation for an OpenAI-compatible backend          *)
(* (agent_context_cache/openai_compat.py).                                 *)
(*                                                                         *)
(* The client (external) sends a conversation in which the user turn after *)
(* a turn with tool calls holds the tools' results, before, after or       *)
(* without words of the user.  A tool's output is known by its size, its   *)
(* ends and its error lines; a text is known by what it keeps of an        *)
(* output.  A string content is a list of one text.                        *)
(***************************************************************************)
EXTENDS Naturals, SequencesExt

CONSTANTS
    Outputs,        \* what tools print: [name, size, ends, errors]
    Tools,          \* tool names
    Noisy,          \* those _tool_name_is_noisy_log_source takes for logs
    Openings,       \* what a body may start with: [system, tools, client], where
                    \* client counts the cache_control marks the client set
    CallLists,      \* the tools a turn may call, in order
    MaxRounds       \* bound: rounds of tool calls

MAX_CACHE_CONTROL_BREAKPOINTS == 4

Sizes == {"short", "mid", "big", "huge"}    \* up to 1200, 2000, 4000, more

ASSUME WireBodyAssumption ==
    /\ \A o \in Outputs : o.size \in Sizes /\ o.errors \in {"none", "few", "many"}
    /\ Openings \subseteq [system : BOOLEAN, tools : BOOLEAN, client : 0..4]
    /\ Noisy \subseteq Tools
    /\ MaxRounds \in Nat

VARIABLES
    body,       \* the client's request
    sent        \* what goes upstream

bodyVars == <<body, sent>>

NotSent == [pc |-> "none"]

Words(n) == [type |-> "text", n |-> n]
Call(id) == [type |-> "tool_use", id |-> id]
Result(id, texts) == [type |-> "tool_result", id |-> id, texts |-> texts]
Full(output) == [kind |-> "full", of |-> output]
Note == Full([name |-> "note", size |-> "short", ends |-> "note", errors |-> "none"])

-----------------------------------------------------------------------------
(* PromptCacheInjection.inject                                             *)

Marks(b) == b.client + (IF b.systemMark THEN 1 ELSE 0) + (IF b.toolMark THEN 1 ELSE 0)

Inject(b) ==
    IF Marks(b) > 0 THEN b
    ELSE [b EXCEPT !.systemMark = b.system, !.toolMark = b.tools]

-----------------------------------------------------------------------------
(* SessionDedup.optimize                                                   *)

\* _truncate_log_like: the last error lines, or else the first 600 characters.
TruncateLogLike(t) ==
    IF t.of.size = "short" THEN t
    ELSE IF t.of.errors # "none" THEN [kind |-> "errors", of |-> t.of.errors]
    ELSE [kind |-> "head", of |-> t.of.ends]

\* _truncate_generic: both ends of what is over 4000 characters.
TruncateGeneric(t) ==
    IF t.of.size # "huge" THEN t ELSE [kind |-> "cut", of |-> t.of.ends]

\* _build_tool_use_name_map, and the truncation it chooses; an id is a round
\* and the tool it calls.
Truncate(id, t) == IF id[2] \in Noisy THEN TruncateLogLike(t) ELSE TruncateGeneric(t)

\* A change to every text of every tool result of the user's turns, by place.
EachResultText(messages, New(_, _, _)) ==
    [m \in DOMAIN messages |->
        [messages[m] EXCEPT !.blocks =
            [b \in DOMAIN messages[m].blocks |->
                LET block == messages[m].blocks[b]
                IN  IF messages[m].role # "user" \/ block.type # "tool_result" THEN block
                    ELSE [block EXCEPT !.texts =
                            [k \in DOMAIN block.texts |->
                                New(<<m, b, k>>, block.id, block.texts[k])]]]]]

\* _truncate_oversized_tool_results
TruncateOversizedToolResults(messages) ==
    EachResultText(messages, LAMBDA place, id, t : Truncate(id, t))

\* Is the text longer than DEDUP_MIN_CHARS?
Long(t) ==
    CASE t.kind = "full" -> t.of.size \in {"big", "huge"}
      [] t.kind = "cut" -> TRUE
      [] t.kind = "errors" -> t.of = "many"
      [] OTHER -> FALSE

Places(messages) ==
    {<<m, b, k>> \in (DOMAIN messages) \X (1..4) \X (1..2) :
        /\ messages[m].role = "user" /\ b \in DOMAIN messages[m].blocks
        /\ messages[m].blocks[b].type = "tool_result"
        /\ k \in DOMAIN messages[m].blocks[b].texts}
TextAt(messages, p) == messages[p[1]].blocks[p[2]].texts[p[3]]
Before(p, q) ==
    \/ p[1] < q[1]
    \/ p[1] = q[1] /\ (p[2] < q[2] \/ (p[2] = q[2] /\ p[3] < q[3]))

\* Mutant: the first copy is kept, and the later ones collapsed.
RepeatedEarlier(messages, p) ==
    \E q \in Places(messages) : Before(q, p) /\ TextAt(messages, q) = TextAt(messages, p)

\* Does the same payload come again later in this body?
Repeated(messages, p) ==
    \E q \in Places(messages) : Before(p, q) /\ TextAt(messages, q) = TextAt(messages, p)

\* _collapse_repeated_tool_results: every copy but the last.
CollapseRepeatedToolResults(messages) ==
    EachResultText(messages, LAMBDA place, id, t :
        IF Long(t) /\ Repeated(messages, place) THEN [kind |-> "notice", of |-> t] ELSE t)

Optimize(messages) == CollapseRepeatedToolResults(TruncateOversizedToolResults(messages))

-----------------------------------------------------------------------------
(* anthropic_to_openai_request                                             *)

BlocksOf(msg, type) == SelectSeq(msg.blocks, LAMBDA b : b.type = type)
IdsOf(blocks) == [i \in DOMAIN blocks |-> blocks[i].id]

\* _anthropic_content_to_openai_parts: a result becomes a message of its own.
ToolMessages(msg) ==
    LET results == BlocksOf(msg, "tool_result")
    IN  [i \in DOMAIN results |->
            [role |-> "tool", answers |-> results[i].id, texts |-> results[i].texts]]

\* The results come first, then what is left of the turn.
OpenAIUserTurn(msg) ==
    ToolMessages(msg) \o
    (IF BlocksOf(msg, "text") = <<>> THEN <<>>
     ELSE <<[role |-> "user", words |-> BlocksOf(msg, "text")]>>)

OpenAIMessages(msg) ==
    IF msg.role = "assistant"
    THEN <<[role |-> "assistant", words |-> BlocksOf(msg, "text"),
            calls |-> IdsOf(BlocksOf(msg, "tool_use"))]>>
    ELSE OpenAIUserTurn(msg)

AnthropicToOpenAIRequest(messages) ==
    FlattenSeq([m \in DOMAIN messages |-> OpenAIMessages(messages[m])])

-----------------------------------------------------------------------------
(* The client, and the proxy.                                              *)

BodyInit ==
    /\ \E prefix \in Openings :
         body = [system |-> prefix.system, tools |-> prefix.tools, client |-> prefix.client,
                 systemMark |-> FALSE, toolMark |-> FALSE,
                 messages |-> <<[role |-> "user", blocks |-> <<Words(1)>>]>>]
    /\ sent = NotSent

Round == (Len(body.messages) + 1) \div 2
CallsOf(called) == [i \in DOMAIN called |-> Call(<<Round, called[i]>>)]
ResultsOf(called, out, parts) ==
    [i \in DOMAIN called |->
        Result(<<Round, called[i]>>,
               IF parts THEN <<Note, Full(out[called[i]])>> ELSE <<Full(out[called[i]])>>)]
UserBlocks(results, words) ==
    CASE words = "none" -> results
      [] words = "first" -> <<Words(Round + 1)>> \o results
      [] words = "last" -> results \o <<Words(Round + 1)>>

\* One more round: the model calls these tools, which print this.
ClientAdds(called, out, parts, words) ==
    /\ sent = NotSent /\ Round <= MaxRounds
    /\ body' = [body EXCEPT !.messages = @ \o
         <<[role |-> "assistant", blocks |-> <<Words(0)>> \o CallsOf(called)],
           [role |-> "user", blocks |-> UserBlocks(ResultsOf(called, out, parts), words)]>>]
    /\ UNCHANGED sent

\* proxy_claude_messages: the optimizer may be switched off.
SendToAnthropic(is_enabled) ==
    /\ sent = NotSent
    /\ LET injected == Inject(body)
       IN  sent' = [pc |-> "anthropic", body |->
                     IF is_enabled
                     THEN [injected EXCEPT !.messages = Optimize(@)] ELSE injected]
    /\ UNCHANGED body

\* proxy_openai_compat_request: neither stage applies.
SendToOpenAI ==
    /\ sent = NotSent
    /\ sent' = [pc |-> "openai", messages |-> AnthropicToOpenAIRequest(body.messages)]
    /\ UNCHANGED body

BodyNext ==
    \/ \E called \in CallLists : \E out \in [ToSet(called) -> Outputs], parts \in BOOLEAN,
            words \in {"none", "first", "last"} : ClientAdds(called, out, parts, words)
    \/ \E is_enabled \in BOOLEAN : SendToAnthropic(is_enabled)
    \/ SendToOpenAI

-----------------------------------------------------------------------------
(* Properties.                                                             *)

\* SessionDedup: nothing but tool results is rewritten and no short one.  A
\* notice that the identical output comes in full later is true of an output
\* that was not truncated.  Of one that was, only what is left of it comes
\* later, and may be the rest of another output with the same ends or error
\* lines: the notice says more than is so, but the model is not shown less
\* than truncation alone would leave it.
NoticesAreTrue ==
    sent.pc = "anthropic" =>
        LET was == body.messages
            is == sent.body.messages
        IN  /\ EachResultText(is, LAMBDA p, id, t : "x") = EachResultText(was, LAMBDA p, id, t : "x")
            /\ \A p \in Places(was) :
                 TextAt(was, p).of.size = "short" => TextAt(is, p) = TextAt(was, p)
            /\ \A p \in Places(is) : TextAt(is, p).kind = "notice" =>
                 LET output == TextAt(was, p)
                     left == Truncate(is[p[1]].blocks[p[2]].id, output)
                     later == {q \in Places(is) : Before(p, q)}
                 IN  IF left = output
                     THEN \E q \in later : TextAt(was, q) = output /\ TextAt(is, q) = output
                     ELSE \E q \in later : TextAt(is, q) = left

\* PromptCacheInjection: no more breakpoints than Anthropic allows, and none
\* of the proxy's when the client set its own.
MarksAreAllowed ==
    sent.pc = "anthropic" =>
        /\ Marks(sent.body) <= MAX_CACHE_CONTROL_BREAKPOINTS
        /\ body.client > 0 => Marks(sent.body) = body.client

\* After a turn with calls come the replies to all of them and nothing else, in
\* order; every reply and all words arrive.
CallsMeetTheirReplies ==
    sent.pc = "openai" =>
        LET chat == sent.messages
            count(role) == Len(SelectSeq(chat, LAMBDA m : m.role = role))
            turns(type) == Len(SelectSeq(body.messages, LAMBDA m :
                              m.role = "user" /\ BlocksOf(m, type) # <<>>))
        IN  /\ \A i \in DOMAIN chat : chat[i].role = "assistant" =>
                 \A k \in DOMAIN chat[i].calls :
                    /\ i + k \in DOMAIN chat
                    /\ chat[i + k].role = "tool" /\ chat[i + k].answers = chat[i].calls[k]
            /\ count("tool") = FoldLeft(LAMBDA n, m : n + Len(BlocksOf(m, "tool_use")), 0,
                                        body.messages)
            /\ count("user") = turns("text")

\* stages.py SessionDedup and PromptCacheInjection, openai_compat.py: however a
\* body is truncated, collapsed, marked or translated, what goes upstream says
\* what the client's did but for what truncation takes, and in an order the
\* provider takes.
BodyKeepsItsMeaning == NoticesAreTrue /\ MarksAreAllowed /\ CallsMeetTheirReplies
=============================================================================
