---------------------------- MODULE ProviderWire ----------------------------
(***************************************************************************)
(* What the adapters of the vendors (providers/) make of a conversation:   *)
(* the answer of a vendor, streamed or whole, becomes a message with calls  *)
(* (streaming.py, models.py), and the messages become the next request in   *)
(* the vendor's own form.  A vendor hands out state of its own with a call  *)
(* (signed reasoning) and wants it back as it was.  The vendor is external: *)
(* it sends any blocks its form allows.                                     *)
(***************************************************************************)
EXTENDS Integers, Sequences, SequencesExt, FiniteSets

CONSTANTS
  MaxBlocks,    \* blocks the vendors send in a conversation
  MaxMessages   \* messages of a conversation

Formats == {"messages", "responses", "chat", "gemini"}

VARIABLES
  format,    \* the form the provider in use speaks
  history,   \* the messages of the agent
  blocks,    \* what the vendor has sent of its answer
  number     \* blocks and messages so far: they name texts and calls

wireVars == <<format, history, blocks, number>>

NoState == [key |-> "none", blocks |-> <<>>]
Part(kind, id) == [kind |-> kind, id |-> id]
Item(role, parts) == [role |-> role, parts |-> parts]
Kinds(parts) == {p.kind : p \in ToSet(parts)}

\* A message: `said` is what the vendor sent for it, and `fresh` that nothing
\* has taken the vendor's state from it; neither is in the code.
Message(role, content, calls, result) ==
  [role |-> role, content |-> content, calls |-> calls, result |-> result,
   said |-> <<>>, from |-> "none", fresh |-> FALSE]
System(id) == Message("system", <<Part("text", id)>>, <<>>, 0)
User(content) == Message("user", content, <<>>, 0)

Calls(m) == ToSet(m.calls)
HasFiles(m) == "file" \in Kinds(m.content)
Texts(m) == SelectSeq(m.content, LAMBDA p : p.kind = "text")

\* The id a call goes out with, and the one its result goes out with.
CallId(call) == IF call.vendor # 0 THEN call.vendor ELSE call.id
wire_tool_call_ids(messages, id) ==
  LET named == {c \in UNION {Calls(m) : m \in ToSet(messages)} : c.id = id}
  IN  IF named = {} THEN id ELSE CallId(CHOOSE c \in named : TRUE)

without_vendor_state(messages) ==
  [i \in DOMAIN messages |->
     [messages[i] EXCEPT !.calls = [j \in DOMAIN @ |-> [@[j] EXCEPT !.state = NoState, !.vendor = 0]],
                         !.fresh = FALSE]]

-----------------------------------------------------------------------------
\* Requests.  Runs of text become one part.
Merged(content) ==
  FoldLeft(LAMBDA parts, p :
             IF p.kind = "text" /\ parts # <<>> /\ Last(parts).kind = "text"
             THEN parts ELSE Append(parts, p), <<>>, content)
AnthropicBlocks(m) == Merged(m.content)
OpenAIContent(m)   == Merged(m.content)
GeminiParts(m)     == Merged(m.content)
ResponsesContent(m) == m.content

Plain(m) == IF Texts(m) = <<>> THEN <<>> ELSE <<Head(Texts(m))>>
CallParts(m) == [i \in DOMAIN m.calls |-> Part("call", CallId(m.calls[i]))]
Result(messages, m) == Part("result", wire_tool_call_ids(messages, m.result))

\* The content that came with reasoning goes back as it was, if its calls are
\* the message's.
Stored(m) ==
  /\ m.calls # <<>> /\ m.calls[1].state.key = "anthropic_content"
  /\ LET parts == m.calls[1].state.blocks
     IN  SelectSeq(parts, LAMBDA p : p.kind = "call") = CallParts(m)
AnthropicContent(messages, m) ==
  CASE m.role = "tool" -> <<Result(messages, m)>>
    [] m.role = "assistant" /\ Stored(m) -> m.calls[1].state.blocks
    [] m.role = "assistant" /\ m.calls # <<>> -> AnthropicBlocks(m) \o CallParts(m)
    [] OTHER -> IF HasFiles(m) THEN AnthropicBlocks(m) ELSE Plain(m)

\* Users' messages that follow each other are one, its results first.
ResultsFirst(parts) ==
  SelectSeq(parts, LAMBDA p : p.kind = "result") \o SelectSeq(parts, LAMBDA p : p.kind # "result")
AnthropicMessages(messages) ==
  FoldLeft(LAMBDA wire, m :
             LET content == AnthropicContent(messages, m)
                 role == IF m.role = "assistant" THEN "assistant" ELSE "user"
             IN  IF role = "user" /\ wire # <<>> /\ Last(wire).role = "user"
                 THEN Append(Front(wire), Item("user", ResultsFirst(Last(wire).parts \o content)))
                 ELSE Append(wire, Item(role, content)),
           <<>>, messages)

\* Two of the forms take the system's messages out of the conversation.
Hoisted(messages) ==
  Item("system", FlattenSeq([i \in DOMAIN messages |->
                   IF messages[i].role = "system" THEN Plain(messages[i]) ELSE <<>>]))
Spoken(messages) == SelectSeq(messages, LAMBDA m : m.role # "system")
AnthropicBody(messages) == <<Hoisted(messages)>> \o AnthropicMessages(Spoken(messages))

OpenAIMessage(messages, m) ==
  IF m.role = "tool" THEN Item("user", <<Result(messages, m)>>)
  ELSE Item(m.role, (IF HasFiles(m) THEN OpenAIContent(m) ELSE Plain(m)) \o CallParts(m))
ChatBody(messages) == [i \in DOMAIN messages |-> OpenAIMessage(messages, messages[i])]

Reasoning(m) ==
  IF m.calls[1].state.key = "responses_reasoning_items" THEN m.calls[1].state.blocks ELSE <<>>
ResponsesBody(messages) ==
  FlattenSeq([i \in DOMAIN messages |->
    LET m == messages[i] IN
    CASE m.role = "tool" -> <<Item("user", <<Result(messages, m)>>)>>
      [] m.role = "assistant" /\ m.calls # <<>> ->
           <<Item("assistant", Reasoning(m)), Item("assistant", Plain(m))>>
           \o [j \in DOMAIN m.calls |->
                 Item("assistant", <<Part("call", wire_tool_call_ids(messages, m.calls[j].id))>>)]
      [] OTHER -> <<Item(m.role, ResponsesContent(m))>>])

\* A result names the function it answers, in the order of the calls; a
\* message without parts is left out.
SignedCall(call) ==
  IF call.state.key = "thoughtSignature" THEN <<Part("reasoning", call.id), Part("call", CallId(call))>>
  ELSE <<Part("call", call.id)>>
GeminiContents(messages) ==
  FlattenSeq([i \in DOMAIN messages |->
    LET m == messages[i]
        parts == (IF HasFiles(m) THEN GeminiParts(m) ELSE Plain(m))
                 \o FlattenSeq([j \in DOMAIN m.calls |-> SignedCall(m.calls[j])])
    IN  CASE m.role = "system" -> <<>>
          [] m.role = "tool" -> <<Item("user", <<Part("result", m.result)>>)>>
          [] parts = <<>> -> <<>>
          [] OTHER -> <<Item(m.role, parts)>>])

GeminiBody(messages) == <<Hoisted(messages)>> \o GeminiContents(messages)

Wire(messages) ==
  CASE format = "messages" -> AnthropicBody(messages)
    [] format = "responses" -> ResponsesBody(messages)
    [] format = "chat" -> ChatBody(messages)
    [] OTHER -> GeminiBody(messages)

-----------------------------------------------------------------------------
\* Answers.  A block of the vendor: a tool's may lack its id, be cut, or (of
\* Gemini) be signed.
Block(kind, id, named, whole, signed) ==
  [kind |-> kind, id |-> id, named |-> named, whole |-> whole, signed |-> signed]
Tools(bs) == SelectSeq(bs, LAMBDA b : b.kind = "call")
Has(bs, kind) == \E b \in ToSet(bs) : b.kind = kind
AsParts(bs) == [i \in DOMAIN bs |->
                  Part(bs[i].kind, IF bs[i].kind = "call" /\ ~bs[i].named THEN 0 ELSE bs[i].id)]
\* The texts of an answer are one text.
Content(bs) == Merged(AsParts(SelectSeq(bs, LAMBDA b : b.kind = "text")))

State(key, parts) == [key |-> key, blocks |-> parts]
Call(b, state) == [id |-> b.id, vendor |-> IF b.named THEN b.id ELSE 0, state |-> state]
CallsOf(tools, state) ==
  [i \in DOMAIN tools |-> Call(tools[i], IF i = 1 THEN state ELSE NoState)]
Answer(content, calls) == Message("assistant", content, calls, 0)

\* Mutant: a fallback withdraws nothing.
AnthropicEventsKept(bs) == [content |-> bs, tools |-> Tools(bs)]

\* The events of a streamed answer: a fallback to another model withdraws the
\* calls and the reasoning before it, not the text.
AnthropicEvents(bs) ==
  FoldLeft(LAMBDA s, b :
             IF b.kind = "fallback"
             THEN [content |-> Append(SelectSeq(s.content, LAMBDA x : x.kind \notin {"reasoning", "call"}), b),
                   tools |-> <<>>]
             ELSE [content |-> Append(s.content, b),
                   tools |-> IF b.kind = "call" THEN Append(s.tools, b) ELSE s.tools],
           [content |-> <<>>, tools |-> <<>>], bs)
AnthropicStream(bs) ==
  LET s == AnthropicEvents(bs)
  IN  [tools |-> s.tools,
       state |-> IF (Has(s.content, "reasoning") \/ Has(s.content, "fallback")) /\ s.tools # <<>>
                 THEN State("anthropic_content", AsParts(s.content)) ELSE NoState]
\* The assembler of the chunks puts each call together.
Assemble(content, stream) == Answer(content, CallsOf(stream.tools, stream.state))

ParseAnthropic(bs) ==
  Answer(Content(bs),
         CallsOf(Tools(bs), IF Has(bs, "reasoning") THEN State("anthropic_content", AsParts(bs))
                            ELSE NoState))
ReasoningItems(bs) == AsParts(SelectSeq(bs, LAMBDA b : b.kind = "reasoning"))
ParseResponses(bs) ==
  Answer(Content(bs),
         CallsOf(Tools(bs), IF Has(bs, "reasoning")
                            THEN State("responses_reasoning_items", ReasoningItems(bs)) ELSE NoState))
\* The completed event holds the whole answer, and it is what counts.
ResponsesStream(bs) == ParseResponses(bs)
ParseChat(bs) == Answer(Content(bs), CallsOf(Tools(bs), NoState))
ChatStream(bs) == Assemble(Content(bs), [tools |-> Tools(bs), state |-> NoState])
Signature(b) == IF b.signed THEN State("thoughtSignature", <<>>) ELSE NoState
ParseGemini(bs) ==
  Answer(Content(bs), [i \in DOMAIN Tools(bs) |-> Call(Tools(bs)[i], Signature(Tools(bs)[i]))])
GeminiStream(bs) == ParseGemini(bs)

Streamed(bs) ==
  CASE format = "messages" -> Assemble(Content(bs), AnthropicStream(bs))
    [] format = "responses" -> ResponsesStream(bs)
    [] format = "chat" -> ChatStream(bs)
    [] OTHER -> GeminiStream(bs)
Whole(bs) ==
  CASE format = "messages" -> ParseAnthropic(bs)
    [] format = "responses" -> ParseResponses(bs)
    [] format = "chat" -> ParseChat(bs)
    [] OTHER -> ParseGemini(bs)

\* A call that the answer's length cut is kept, without its arguments, when
\* the answer is put together from chunks; elsewhere its text does not parse.
Readable(bs, streams, stop) ==
  (\A b \in ToSet(bs) : b.whole) \/ (streams /\ stop = "length" /\ format \in {"messages", "chat"})

-----------------------------------------------------------------------------
\* The conversation: what a person or a notice says, an answer, its results.
Unanswered ==
  IF Last(history).role # "assistant" THEN <<>> ELSE Last(history).calls
Waiting == Last(history).role \notin {"system", "assistant"}

Init == format \in Formats /\ history = <<System(0)>> /\ blocks = <<>> /\ number = 1

Says ==
  /\ blocks = <<>> /\ Unanswered = <<>> /\ Len(history) < MaxMessages
  /\ \E kinds \in {<<"text">>, <<"text", "text", "file", "text">>} :
       history' = Append(history, User([i \in DOMAIN kinds |-> Part(kinds[i], number)]))
  /\ number' = number + 1
  /\ UNCHANGED <<format, blocks>>

Sends ==
  /\ Waiting /\ Len(history) < MaxMessages /\ number < MaxBlocks
  /\ ~(blocks # <<>> /\ ~Last(blocks).whole)
  /\ \E kind \in {"text", "reasoning", "call", "fallback"}, named, whole, signed \in BOOLEAN :
       /\ kind # "call" => named /\ whole /\ ~signed
       /\ kind = "fallback" => format = "messages"
       /\ kind = "reasoning" => format # "chat"
       /\ signed => format = "gemini"
       /\ whole \/ format # "gemini"
       /\ LET id == IF kind = "text" /\ blocks # <<>> THEN blocks[1].id ELSE number
          IN  blocks' = Append(blocks, Block(kind, id, named, whole, signed))
  /\ number' = number + 1
  /\ UNCHANGED <<format, history>>

\* The answer is complete: a refusal and an unreadable one are not kept.
Completes ==
  /\ blocks # <<>>
  /\ \E streams \in BOOLEAN, stop \in {"end", "length", "refusal"} :
       /\ ~streams => ~Has(blocks, "fallback")
       /\ ~(\A b \in ToSet(blocks) : b.whole) => stop = "length"
       /\ IF stop = "refusal" \/ ~Readable(blocks, streams, stop) THEN UNCHANGED history
          ELSE history' = Append(history,
                 [(IF streams THEN Streamed(blocks) ELSE Whole(blocks))
                    EXCEPT !.said = blocks, !.from = format, !.fresh = TRUE])
  /\ blocks' = <<>>
  /\ UNCHANGED <<format, number>>

Answers ==
  /\ Unanswered # <<>>
  /\ history' = history \o [i \in DOMAIN Unanswered |->
                              Message("tool", <<>>, <<>>, Unanswered[i].id)]
  /\ UNCHANGED <<format, blocks, number>>

\* A compaction: the older messages become a summary, but for what the system
\* and the first person said, and what stays loses the stored content of
\* Anthropic.
Compacted(messages) ==
  [i \in DOMAIN messages |->
     [messages[i] EXCEPT
        !.calls = [j \in DOMAIN @ |->
                     IF @[j].state.key = "anthropic_content" THEN [@[j] EXCEPT !.state = NoState]
                     ELSE @[j]],
        !.fresh = @ /\ messages[i].from # "messages"]]
FirstUser == CHOOSE i \in DOMAIN history :
               history[i].role = "user" /\ \A j \in 1 .. i - 1 : history[j].role # "user"
Prefix(first) ==
  FlattenSeq([i \in 1 .. first - 1 |->
    IF i = 1 \/ (history[i].role = "user" /\ (i = FirstUser \/ history[first].role = "assistant"))
    THEN <<history[i]>> ELSE <<>>])
Compact ==
  /\ blocks = <<>> /\ Unanswered = <<>> /\ number < MaxBlocks
  /\ \E first \in 2 .. Len(history) :
       /\ history[first].role \in {"user", "assistant"}
       /\ history' = Compacted(Prefix(first)) \o <<System(number)>>
                     \o Compacted(SubSeq(history, first, Len(history)))
  /\ number' = number + 1
  /\ UNCHANGED <<format, blocks>>

\* Another provider, or the conversation is opened again under one.
SelectProvider ==
  /\ blocks = <<>> /\ Unanswered = <<>>
  /\ format' \in Formats \ {format}
  /\ history' = without_vendor_state(history)
  /\ UNCHANGED <<blocks, number>>

Next == Says \/ Sends \/ Completes \/ Answers \/ Compact \/ SelectProvider

Spec == Init /\ [][Next]_wireVars

-----------------------------------------------------------------------------
TypeOK ==
  /\ format \in Formats /\ number \in 1 .. MaxBlocks + MaxMessages
  /\ \A m \in ToSet(history) : m.role \in {"system", "user", "assistant", "tool"}

\* The sides of a request: its items, those of one role together, and those
\* without parts left out.
Sides(wire) ==
  FoldLeft(LAMBDA sides, item :
             IF item.parts = <<>> \/ item.role = "system" THEN sides
             ELSE IF sides # <<>> /\ Last(sides).role = item.role
             THEN Append(Front(sides), Item(item.role, Last(sides).parts \o item.parts))
             ELSE Append(sides, item), <<>>, wire)
Only(parts, kind) == SelectSeq(parts, LAMBDA p : p.kind = kind)

\* What a request is made from: all messages, or (for a model the run falls
\* back to) the messages without the vendor's state.
Requests == IF blocks = <<>> /\ Unanswered = <<>> THEN {history, without_vendor_state(history)} ELSE {}

\* Every call of a request is answered by what follows it, under the id it
\* goes out with, in the order of the calls, before anything a person says;
\* and nothing else is answered.
CallsAreAnswered ==
  \A messages \in Requests :
    LET sides == Sides(Wire(messages)) IN
    \A i \in DOMAIN sides :
      LET results == Only(sides[i].parts, "result")
          calls == IF i = 1 THEN <<>> ELSE Only(sides[i - 1].parts, "call") IN
      /\ [k \in DOMAIN results |-> results[k].id] = [k \in DOMAIN calls |-> calls[k].id]
      /\ SubSeq(sides[i].parts, 1, Len(results)) = results
      /\ i = Len(sides) => Only(sides[i].parts, "call") = <<>>

\* Nothing that was said is lost, doubled or given to the other side.
Plainly(parts) == {p \in ToSet(parts) : p.kind \in {"text", "file"}}
Instructed(items) ==
  FlattenSeq([i \in DOMAIN items |->
    IF items[i].role # "system" THEN <<>>
    ELSE IF "parts" \in DOMAIN items[i] THEN items[i].parts ELSE items[i].content])
NothingIsLost ==
  \A messages \in Requests :
    LET said == Sides([i \in DOMAIN messages |->
                  Item(IF messages[i].role = "tool" THEN "user" ELSE messages[i].role,
                       messages[i].content \o CallParts(messages[i])
                       \o IF messages[i].role = "tool" THEN <<Part("result", 0)>> ELSE <<>>)])
        sides == Sides(Wire(messages))
        Heard(s) == [i \in DOMAIN s |-> [role |-> s[i].role, parts |-> Plainly(s[i].parts)]] IN
    /\ Heard(sides) = Heard(said)
    /\ Instructed(Wire(messages)) = Instructed(messages)

\* A fallback inside an answer leaves the calls after it: nothing the vendor
\* withdrew is run.
Standing(bs) ==
  LET falls == {i \in DOMAIN bs : bs[i].kind = "fallback"}
      kept == {i \in DOMAIN bs : bs[i].kind \in {"text", "fallback"} \/ \A j \in falls : i > j}
  IN  [i \in 1 .. Cardinality(kept) |-> bs[CHOOSE k \in kept : Cardinality({j \in kept : j <= k}) = i]]
OnlyStandingCalls ==
  \A m \in ToSet(history) :
    [i \in DOMAIN m.calls |-> m.calls[i].id] = [i \in DOMAIN Tools(Standing(m.said)) |->
                                                  Tools(Standing(m.said))[i].id]

\* The state of a vendor goes back to this vendor only, with all the calls it
\* came with, and it does as long as nothing took it and the vendor named its
\* calls.
Marked(m) ==
  IF format = "gemini" THEN \E b \in ToSet(m.said) : b.signed
  ELSE Tools(Standing(m.said)) # <<>> /\ Has(Standing(m.said), "reasoning")
StateGoesBack ==
  \A messages \in Requests : \A i \in DOMAIN messages :
    LET m == messages[i]
        sides == Wire(<<m>>)
        parts == FlattenSeq([k \in DOMAIN sides |-> sides[k].parts])
        returned == "reasoning" \in Kinds(parts) IN
    m.role = "assistant" =>
      /\ returned => m.fresh /\ m.from = format
      /\ returned /\ format = "messages" => parts = AsParts(Standing(m.said))
      /\ m.fresh /\ m.from = format /\ Marked(m) /\ (\A b \in ToSet(m.said) : b.named) => returned

\* What a format's history and stream are made of agrees with what was said
\* and done, whatever format said it.
WireHolds == CallsAreAnswered /\ NothingIsLost /\ OnlyStandingCalls /\ StateGoesBack
=============================================================================
