---------------------------- MODULE Conversation ----------------------------
(***************************************************************************)
(* The messages a request sends to a provider: ContextResolver in          *)
(* stages.py, which puts the system prompt, the session history the        *)
(* application stored and the call's own input together, and the check the *)
(* OpenAI-compatible adapter makes of the result (providers/               *)
(* openai_compat.py _payload).                                             *)
(*                                                                         *)
(* The history is the application's (external): the runtime only reads it. *)
(* It is an alternating conversation, with tool calls.  The store may have *)
(* lost a turn's calls, with its words or without them, or the whole of    *)
(* it, and it keeps the replies, with their ids.  A text is the sequence   *)
(* of the utterances merged into it, and the empty sequence is null.       *)
(***************************************************************************)
EXTENDS Naturals, SequencesExt

CONSTANTS
    CallIds,        \* tool call ids
    Windows,        \* values of max_history_messages to try
    MaxItems        \* bound: items in the stored history

ASSUME ConversationAssumption ==
    /\ Windows \subseteq Nat
    /\ MaxItems \in Nat

VARIABLES
    history,    \* what the application stored
    turn,       \* external: whose turn it is, the replies still to come, and
                \* the calls no null turn was left in place of
    request     \* ctx.messages, once a request was built

conversationVars == <<history, turn, request>>

Message(role, text, calls, answers) ==
    [role |-> role, text |-> text, calls |-> calls, answers |-> answers]

NoRequest == [pc |-> "none"]
Utterance == Len(history) + 1
NoneText == 0       \* str(None)

-----------------------------------------------------------------------------
(* ContextResolver.                                                        *)

\* _is_dropped_tool_call_turn
IsDroppedToolCallTurn(item) ==
    item.role = "assistant" /\ item.text = <<>> /\ item.calls = {}

\* _coerce_message: an entry without content or calls is no message, and only
\* a live tool-call turn may keep null content.
IsMalformed(item) == item.role = "malformed"
CoerceMessage(item) ==
    IF item.text = <<>> /\ item.role # "assistant" THEN [item EXCEPT !.text = <<NoneText>>]
    ELSE item

\* _merge_messages
MergeMessages(a, b) ==
    [a EXCEPT !.text = @ \o b.text, !.calls = @ \cup b.calls,
              !.answers = @ \cup b.answers]

\* Mutant: the seam is never merged.
AppendMessagesPlain(dest, new, pending_merge) == dest \o new

\* _append_messages
AppendMessages(dest, new, pending_merge) ==
    IF /\ pending_merge /\ dest # <<>> /\ new # <<>>
       /\ Last(dest).role = Head(new).role
       /\ Last(dest).role \in {"user", "assistant"}
    THEN Front(dest) \o <<MergeMessages(Last(dest), Head(new))>> \o Tail(new)
    ELSE dest \o new

\* One round of the loop of _coerce_messages.
CoerceNext(acc, item) ==
    IF acc.skip_tool_replies /\ item.role = "tool" THEN acc
    ELSE IF IsDroppedToolCallTurn(item)
    THEN [acc EXCEPT !.skip_tool_replies = TRUE, !.pending_merge = TRUE]
    ELSE IF IsMalformed(item) THEN [acc EXCEPT !.skip_tool_replies = FALSE]
    ELSE [out |-> AppendMessages(acc.out, <<CoerceMessage(item)>>, acc.pending_merge),
          skip_tool_replies |-> FALSE, pending_merge |-> FALSE]

\* _coerce_messages
CoerceMessages(items) ==
    FoldLeft(CoerceNext,
             [out |-> <<>>, skip_tool_replies |-> FALSE, pending_merge |-> FALSE], items)

\* _drop_until_valid_start
DropUntilValidStart(messages) ==
    LET users == {i \in DOMAIN messages : messages[i].role = "user"}
    IN  IF users = {} THEN <<>>
        ELSE SubSeq(messages, CHOOSE i \in users : \A j \in users : i <= j, Len(messages))

\* out[-n:]
LastOf(s, n) == IF Len(s) <= n THEN s ELSE SubSeq(s, Len(s) - n + 1, Len(s))

\* _history: the messages, and whether the last one still owes a merge; a
\* store that cannot be read is no history.
History(window, readable) ==
    IF window = 0 \/ ~readable THEN [messages |-> <<>>, trailing |-> FALSE]
    ELSE LET all == CoerceMessages(history)
             sliced == DropUntilValidStart(LastOf(all.out, window))
         IN  [messages |-> sliced, trailing |-> sliced # <<>> /\ all.pending_merge]

\* _normalize: text is one user message; a list is coerced.
Normalize(input) ==
    IF input.kind = "text" THEN <<Message("user", input.text, {}, {})>>
    ELSE CoerceMessages(input.items).out

\* execute
Resolve(prompt, window, readable, input) ==
    LET system == IF prompt THEN <<Message("system", <<Utterance>>, {}, {})>> ELSE <<>>
        past == History(window, readable)
    IN  AppendMessages(system \o past.messages, Normalize(input), past.trailing)

\* OpenAICompatProvider._payload refuses null content on anything but a live
\* tool-call turn, and a tool reply that names no call.
Refused(m) ==
    \/ m.text = <<>> /\ ~(m.role = "assistant" /\ m.calls # {})
    \/ m.role = "tool" /\ m.answers = {}

-----------------------------------------------------------------------------
(* The application and its calls.                                          *)

ConversationInit ==
    history = <<>> /\ turn = [who |-> "user", owed |-> {}, lost |-> {}] /\ request = NoRequest

Store(item, who, owed) ==
    /\ Len(history) < MaxItems /\ request = NoRequest
    /\ history' = Append(history, item)
    /\ turn' = [turn EXCEPT !.who = who, !.owed = owed]
    /\ UNCHANGED request

UserSays ==
    /\ turn.owed = {} /\ turn.who \in {"user", "tools"}
    /\ Store(Message("user", <<Utterance>>, {}, {}), "assistant", {})

AssistantSays ==
    /\ turn.owed = {} /\ turn.who \in {"assistant", "tools"}
    /\ Store(Message("assistant", <<Utterance>>, {}, {}), "user", {})

\* The id of a call is its own.
Named(called) == {<<Utterance, id>> : id \in called}
Content(said) == IF said THEN <<Utterance>> ELSE <<>>

\* A tool-call turn.  What is left of it: its calls, or words or null without
\* them, or a dictionary without content.
AssistantCalls(called, left, said) ==
    /\ turn.owed = {} /\ turn.who \in {"assistant", "tools"}
    /\ Len(history) < MaxItems /\ request = NoRequest
    /\ history' = Append(history,
            CASE left = "calls" -> Message("assistant", Content(said), Named(called), {})
              [] left = "words" -> Message("assistant", Content(said), {}, {})
              [] left = "nothing" -> Message("malformed", <<>>, {}, {}))
    /\ turn' = [who |-> "tools", owed |-> Named(called),
                lost |-> IF left = "nothing" \/ (left = "words" /\ said)
                         THEN turn.lost \cup Named(called) ELSE turn.lost]
    /\ UNCHANGED request

\* The reply to a call; it may have no content either.
ToolReplies(id, said) ==
    /\ id \in turn.owed
    /\ Store(Message("tool", Content(said), {}, {id}), "tools", turn.owed \ {id})

\* An entry with neither content nor calls, between two turns.
StoreMalformed ==
    /\ turn.who = "user" /\ (history # <<>> => ~IsMalformed(Last(history)))
    /\ Store(Message("malformed", <<>>, {}, {}), turn.who, turn.owed)

Inputs ==
    LET said == Message("user", <<Utterance>>, {}, {})
    IN  [kind : {"text"}, text : {<<Utterance>>}] \cup
        [kind : {"list"}, items : {<<said>>,
            <<said, Message("assistant", <<>>, {}, {}), Message("tool", <<>>, {}, {<<0, "x">>}),
              Message("user", <<Utterance + 1>>, {}, {})>>}]

\* Runtime.execute with the user's next words.
Ask(prompt, window, readable, input) ==
    /\ request = NoRequest /\ turn.owed = {} /\ turn.who \in {"user", "tools"}
    /\ request' = [pc |-> "built", window |-> window, readable |-> readable, input |-> input,
                   messages |-> Resolve(prompt, window, readable, input)]
    /\ UNCHANGED <<history, turn>>

ConversationNext ==
    \/ UserSays
    \/ AssistantSays
    \/ \E called \in (SUBSET CallIds) \ {{}}, left \in {"calls", "words", "nothing"},
          said \in BOOLEAN : AssistantCalls(called, left, said)
    \/ \E id \in turn.owed, said \in BOOLEAN : ToolReplies(id, said)
    \/ StoreMalformed
    \/ \E prompt, readable \in BOOLEAN, window \in Windows, input \in Inputs :
         Ask(prompt, window, readable, input)

-----------------------------------------------------------------------------
(* Properties.                                                             *)

\* The items that say something a provider can be told: not a lost call, and
\* not the reply to one.
Lost(items, i) ==
    \E j \in 1..i : /\ IsDroppedToolCallTurn(items[j])
                    /\ \A k \in (j + 1)..i : items[k].role = "tool"
Tellable(items) ==
    LET told(i) == IF Lost(items, i) \/ IsMalformed(items[i]) THEN <<>>
                   ELSE CoerceMessage(items[i]).text
    IN  FlattenSeq([i \in DOMAIN items |-> told(i)])
TextsOf(messages) == FlattenSeq([i \in DOMAIN messages |-> messages[i].text])
ChatOf(messages) == SelectSeq(messages, LAMBDA m : m.role # "system")

\* The replies right after message i.
RepliesTo(chat, i) ==
    UNION {chat[j].answers : j \in {k \in (i + 1)..Len(chat) :
                                      \A l \in (i + 1)..k : chat[l].role = "tool"}}

\* stages.py ContextResolver: wherever the window cuts, the chat starts with
\* the user, no two user or assistant turns are neighbours, every call has its
\* replies right after it, the OpenAI adapter takes it, and what it says is
\* the end of what was said: all of it when the window does not cut.  Of the
\* calls the store lost, the replies go with a turn that is null; after a turn
\* that kept its words, or is no message at all, they stay without a call, as
\* test_coerce_messages_keeps_tool_replies_not_orphaned_by_a_drop and
\* test_coerce_messages_does_not_drop_a_tool_reply_after_a_keyless_assistant_dict
\* have it.
RequestIsValid ==
    request # NoRequest =>
        LET chat == ChatOf(request.messages)
            said == (IF request.readable THEN Tellable(history) ELSE <<>>) \o
                    (IF request.input.kind = "text" THEN request.input.text
                     ELSE Tellable(request.input.items))
        IN  /\ chat[1].role = "user"
            /\ \A i \in 1..(Len(chat) - 1) :
                 chat[i].role = chat[i + 1].role => chat[i].role = "tool"
            /\ \A i \in DOMAIN chat :
                 chat[i].role # "tool" => RepliesTo(chat, i) \ turn.lost = chat[i].calls
            /\ \A i \in DOMAIN chat : ~Refused(chat[i])
            /\ IsSuffix(TextsOf(chat), said)
            /\ request.window >= MaxItems => TextsOf(chat) = said
=============================================================================
