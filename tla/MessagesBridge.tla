---------------------------- MODULE MessagesBridge ----------------------------
(***************************************************************************)
(* POST /v1/messages of lmml-node: a request in the form of the Anthropic  *)
(* Messages API is turned into a chat completion, and its answer back into *)
(* a message, sent whole or as a stream of events.  A client that works    *)
(* with tools calls again and again, each time with all of the             *)
(* conversation: what it got as an answer it sends back as history.        *)
(*                                                                         *)
(* A text is empty, blank or has words; what is in it does not matter.     *)
(***************************************************************************)
EXTENDS Naturals, Sequences, FiniteSets

CONSTANTS
  Prompt,    \* the first messages of the user: contents, valid or not
  Reply,     \* the answers of the upstream
  MaxTurns,  \* bound on the length of a conversation
  MaxNesting, \* bound on how deep tool results lie within each other
  Null       \* a JSON null

VARIABLES
  talk,     \* the messages of the conversation, as the client has them
  asked,    \* the request: whether it is to be streamed, its tools and choice
  bridge,   \* "client", "request", "upstream", "answer", "refused", "failed" or "done"
  chat,     \* the chat completion request made of it
  message   \* the message made of the upstream's answer

bridgeVars == <<talk, asked, bridge, chat, message>>

--------------------------------------------------------------------------------

Text == {"empty", "blank", "words"}

\* A content is a text or a sequence of blocks.
Plain(t) == [text |-> t, blocks |-> <<>>]
Blocks(bs) == [text |-> Null, blocks |-> bs]

\* The blocks of a content.  A tool result holds a content again.
TextBlock(t) == [type |-> "text", text |-> t]
ToolUse(id, input) == [type |-> "tool_use", id |-> id, input |-> input]
ToolResult(content) == [type |-> "tool_result", content |-> content]
Thinking(t) == [type |-> "thinking", text |-> t]
Redacted == [type |-> "redacted_thinking"]
Image == [type |-> "image"]

Message(role, content) == [role |-> role, content |-> content]

\* What lies within the tool results of some contents, and within one content at any depth.
Nested(cs) ==
  UNION {{c.blocks[i].content : i \in {j \in DOMAIN c.blocks : c.blocks[j].type = "tool_result"}}
           : c \in cs}

Contents(content) ==
  LET at[n \in 0 .. MaxNesting] == IF n = 0 THEN {content} ELSE Nested(at[n - 1])
  IN UNION {at[n] : n \in 0 .. MaxNesting}

CallText == {"object", "broken"}

ASSUME BridgeAssumption ==
  /\ MaxTurns \in Nat /\ MaxNesting \in Nat \ {0}
  /\ \A p \in Prompt : Nested(Contents(p)) \subseteq Contents(p)
  /\ Reply \subseteq [text : Text \union {Null}, calls : Seq(CallText), finish : STRING,
                     named : BOOLEAN, tokens : Nat]
  /\ Null \notin Text

\* What a request asks for besides: fields that are there, not, or malformed.
Asked == [stream : BOOLEAN, tools : {"none", "valid", "malformed"},
          choice : {"none", "auto", "any", "tool", "malformed"}]

NoChat == [messages |-> <<>>, tools |-> "none", choice |-> "none"]

BridgeInit ==
  /\ talk \in {<<Message("user", p)>> : p \in Prompt}
  /\ asked \in Asked
  /\ bridge = "request"
  /\ chat = NoChat
  /\ message = Null

--------------------------------------------------------------------------------
(* The request. *)

\* anthropic_content_to_text: a content can be sent on unless a block, at any
\* depth, is of a kind that cannot or is a text of nothing.
CanBeSent(b) == b.type # "image" /\ (b.type = "text" => b.text # "empty")

ContentOk(content) ==
  \A c \in Contents(content) : \A i \in DOMAIN c.blocks : CanBeSent(c.blocks[i])

\* Its text is joined of parts: the texts, and a tag for each other block that shows.
Parts(content) ==
  IF content.text # Null THEN <<content.text>>
  ELSE LET shown == SelectSeq(content.blocks, LAMBDA b : b.type # "redacted_thinking")
       IN [i \in DOMAIN shown |-> IF shown[i].type = "text" THEN shown[i].text ELSE "tag"]

\* The text has something besides blanks.
Shows(b) ==
  b.type \in {"tool_result", "tool_use", "thinking"} \/ (b.type = "text" /\ b.text = "words")

HasWords(content) ==
  IF content.text # Null THEN content.text = "words"
  ELSE \E i \in DOMAIN content.blocks : Shows(content.blocks[i])

\* append_anthropic_message
Appended(m) ==
  [ok |-> m.role \in {"user", "assistant", "system"} /\ ContentOk(m.content) /\ HasWords(m.content),
   message |-> [role |-> m.role, parts |-> Parts(m.content)]]

\* map_anthropic_tools and map_anthropic_tool_choice: a choice is made for the
\* upstream of each that is well formed, whether or not there are tools.
ToolsValid(a) == a.tools # "malformed"
Choice(c) == CASE c = "any" -> "required" [] c = "tool" -> "function" [] OTHER -> c

\* build_anthropic_chat_request: every message is translated, or none is sent.
BuildChat ==
  /\ bridge = "request"
  /\ IF /\ talk # <<>> /\ \A i \in DOMAIN talk : Appended(talk[i]).ok
        /\ ToolsValid(asked) /\ asked.choice # "malformed"
     THEN /\ bridge' = "upstream"
          /\ chat' = [messages |-> [i \in DOMAIN talk |-> Appended(talk[i]).message],
                      tools |-> asked.tools, choice |-> Choice(asked.choice)]
     ELSE bridge' = "refused" /\ UNCHANGED chat
  /\ UNCHANGED <<talk, asked, message>>

--------------------------------------------------------------------------------
(* The answer. *)

\* parse_tool_arguments: arguments that are no JSON are wrapped.
ParsedArguments(a) == IF a = "broken" THEN "wrapped" ELSE "object"

\* The content: a text unless it is empty, and a block for each tool call, under
\* the upstream's id or one made of its index.
ContentBlocks(r) ==
  (IF r.text \in {Null, "empty"} THEN <<>> ELSE <<TextBlock(r.text)>>)
    \o [i \in DOMAIN r.calls |-> ToolUse(IF r.named THEN <<"upstream", i>> ELSE <<"lmml", i>>,
                                         ParsedArguments(r.calls[i]))]

HasToolUse(blocks) == \E i \in DOMAIN blocks : blocks[i].type = "tool_use"

\* anthropic_stop_reason
StopReason(finish, blocks) ==
  IF HasToolUse(blocks) THEN "tool_use"
  ELSE CASE finish = "length" -> "max_tokens"
         [] finish \in {"tool_calls", "function_call"} -> "tool_use"
         [] finish = "content_filter" -> "refusal"
         [] OTHER -> "end_turn"

\* map_upstream_chat_to_anthropic_message
Mapped(r) ==
  LET blocks == ContentBlocks(r) IN
  [content |-> blocks, stop_reason |-> StopReason(r.finish, blocks), output_tokens |-> r.tokens]

\* call_upstream_chat_json and the mapping; an upstream that fails, times out
\* or sends neither text nor tool calls is an error for the client.
UpstreamAnswers(r) ==
  /\ bridge = "upstream"
  /\ IF ContentBlocks(r) = <<>>
     THEN bridge' = "failed" /\ UNCHANGED message
     ELSE bridge' = "answer" /\ message' = Mapped(r)
  /\ chat' = NoChat
  /\ UNCHANGED <<talk, asked>>

UpstreamFails ==
  /\ bridge = "upstream"
  /\ bridge' = "failed" /\ chat' = NoChat
  /\ UNCHANGED <<talk, asked, message>>

--------------------------------------------------------------------------------
(* The stream. *)

\* anthropic_stream_start_block: the block without what the delta brings.
StartBlock(b) ==
  CASE b.type = "tool_use" -> [b EXCEPT !.input = Null]
    [] b.type = "text" -> [b EXCEPT !.text = "empty"]

\* anthropic_stream_delta
Delta(b) ==
  CASE b.type = "tool_use" -> [type |-> "input_json_delta", value |-> b.input]
    [] b.type = "text" -> [type |-> "text_delta", value |-> b.text]

\* Mutant: each delta is of the first block.
BlockEventsMisnumbered(b, i) ==
  <<[event |-> "content_block_start", index |-> i, block |-> StartBlock(b)],
    [event |-> "content_block_delta", index |-> 1, delta |-> Delta(b)],
    [event |-> "content_block_stop", index |-> i]>>

\* anthropic_sse_response: what is sent of a block, before them and after.
BlockEvents(b, i) ==
  <<[event |-> "content_block_start", index |-> i, block |-> StartBlock(b)],
    [event |-> "content_block_delta", index |-> i, delta |-> Delta(b)],
    [event |-> "content_block_stop", index |-> i]>>

StartEvent ==
  [event |-> "message_start",
   message |-> [content |-> <<>>, stop_reason |-> Null, output_tokens |-> 0]]

EndEvents(m) ==
  <<[event |-> "message_delta", stop_reason |-> m.stop_reason, output_tokens |-> m.output_tokens],
    [event |-> "message_stop"]>>

Events(m) ==
  LET sent[n \in 0 .. Len(m.content)] ==
        IF n = 0 THEN <<StartEvent>> ELSE sent[n - 1] \o BlockEvents(m.content[n], n)
  IN sent[Len(m.content)] \o EndEvents(m)

\* What a client makes of the events: it puts the deltas of a block to it.
Filled(b, delta) ==
  IF delta.type = "text_delta" THEN [b EXCEPT !.text = delta.value]
  ELSE [b EXCEPT !.input = delta.value]

Applied(m, e) ==
  CASE e.event = "message_start" -> e.message
    [] e.event = "content_block_start" -> [m EXCEPT !.content = Append(m.content, e.block)]
    [] e.event = "content_block_delta" ->
         [m EXCEPT !.content = [m.content EXCEPT ![e.index] = Filled(m.content[e.index], e.delta)]]
    [] e.event = "message_delta" ->
         [content |-> m.content, stop_reason |-> e.stop_reason, output_tokens |-> e.output_tokens]
    [] OTHER -> m

Replayed(events) ==
  LET after[k \in 0 .. Len(events)] == IF k = 0 THEN Null ELSE Applied(after[k - 1], events[k])
  IN after[Len(events)]

--------------------------------------------------------------------------------
(* The client. *)

Uses(blocks) == {i \in DOMAIN blocks : blocks[i].type = "tool_use"}

\* The client goes on: with a result of every tool it was asked to use, where
\* that is why the answer ended, or with words of the user.
NextMessage(m) ==
  IF m.stop_reason = "tool_use"
  THEN Message("user", Blocks([i \in 1 .. Cardinality(Uses(m.content)) |-> ToolResult(Plain("empty"))]))
  ELSE Message("user", Plain("words"))

ClientGoesOn ==
  /\ bridge = "answer"
  /\ LET m == IF asked.stream THEN Replayed(Events(message)) ELSE message IN
       talk' = talk \o <<Message("assistant", Blocks(m.content)), NextMessage(m)>>
  /\ bridge' = IF Len(talk) >= 2 * MaxTurns THEN "done" ELSE "request"
  /\ message' = Null
  /\ UNCHANGED <<asked, chat>>

BridgeNext ==
  \/ BuildChat
  \/ \E r \in Reply : UpstreamAnswers(r)
  \/ UpstreamFails
  \/ ClientGoesOn

BridgeSpec == BridgeInit /\ [][BridgeNext]_bridgeVars

--------------------------------------------------------------------------------

\* A client that reads the stream has in the end the message that it would have
\* got whole: every block in its place with its text or input, the reason of
\* the end and the usage.
StreamRebuilds ==
  bridge = "answer" => Replayed(Events(message)) = message

\* The bridge does not refuse what it made itself: once a conversation was
\* accepted, it is refused only if the model answered with nothing but blanks,
\* or asked for tools without naming one.
ConversationGoesOn ==
  bridge = "refused" /\ Len(talk) > 1 =>
    \E i \in 2 .. Len(talk) :
      \/ talk[i].content = Blocks(<<TextBlock("blank")>>)
      \/ talk[i].content = Blocks(<<>>)

\* Whenever an answer holds a tool to use, the client is told that this is why
\* it ended, whatever the upstream gave as its reason: clients run the tools of
\* such an answer only, and every one of them gets its result.
ToolsAreRun ==
  \A i \in 1 .. Len(talk) - 1 :
    talk[i].role = "assistant" =>
      LET uses == Uses(talk[i].content.blocks) IN
      uses # {} => Len(talk[i + 1].content.blocks) = Cardinality(uses)

(* Nothing is lost between the two protocols, and a conversation can go on. *)
BridgeInv == StreamRebuilds /\ ConversationGoesOn /\ ToolsAreRun

================================================================================
