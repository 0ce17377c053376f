----------------------------- MODULE ClientApis -----------------------------
(***************************************************************************)
(* The OpenAI interfaces: /v1/chat/completions (anthropic/openai.rs) and   *)
(* /v1/responses (anthropic/responses.rs) answer a streamed request by     *)
(* translating, event by event, the message stream that the handlers send, *)
(* and any other by translating the whole message.  What the handlers may  *)
(* send is SseProtocol's; the connection to them may break at any point.   *)
(***************************************************************************)
EXTENDS SseProtocol, SequencesExt

CONSTANTS
    MaxSse,         \* bound: events about blocks
    MaxSseBlocks,   \* bound: blocks
    Tools,          \* declared tools: flat name, own name and kind
    CalledAs        \* names the upstream may call

ASSUME DeclaredAssumption ==
    /\ MaxSse \in Nat /\ MaxSseBlocks \in Nat
    /\ \A t, u \in Tools : t.flat = u.flat => t = u

VARIABLES
    sse,            \* the message stream so far
    chat,           \* ChatStreamContext, and what it sent
    resp            \* ResponsesStreamContext, and what it sent

apiVars == <<sse, chat, resp>>

(* An event about a block has a payload s: numbers, that tell the pieces    *)
(* apart; a start has the name of the call.  aside is the thinking of a     *)
(* search loop (kiro_thinking), 0 if there is none.                         *)
SseEvent(e, i, what, s, aside) == [e |-> e, i |-> i, what |-> what, s |-> s, aside |-> aside]

Concat(ss) == FlattenSeq(ss)

-----------------------------------------------------------------------------
(* Chat completions: chunks. *)

\* map_finish_reason
FinishReason(reason, calls) ==
    CASE reason = "refusal" -> "content_filter"
      [] reason = "tool_use" -> "tool_calls"
      [] reason \in {"max_tokens", "model_context_window_exceeded"} -> "length"
      [] OTHER -> IF calls THEN "tool_calls" ELSE "stop"

Chunk(c, kind, n, s) == [c EXCEPT !.out = Append(@, [c |-> kind, n |-> n, s |-> s])]

ChatFails(c) == Chunk([c EXCEPT !.over = TRUE], "error", 0, <<>>)

\* Slip: whatever fills a call is about the newest one.
NewestCall(c, i) == Len(c.calls)

CallNumber(c, i) == CHOOSE n \in DOMAIN c.calls : c.calls[n] = i

\* ChatStreamContext::handle.  Thinking is left out.
ChatEvent(c, ev) ==
    CASE c.over -> c
      [] ~c.over /\ ev.e = "message_start" -> Chunk(c, "role", 0, <<>>)
      [] ~c.over /\ ev.e = "start" /\ ev.what = "tool" ->
            Chunk([c EXCEPT !.calls = Append(@, ev.i)], "call", Len(c.calls) + 1, ev.s)
      [] ~c.over /\ ev.e = "delta" /\ ev.what = "text" -> Chunk(c, "text", 0, ev.s)
      [] ~c.over /\ ev.e = "delta" /\ ev.what = "tool" ->
            IF ev.i \in ToSet(c.calls) THEN Chunk(c, "args", CallNumber(c, ev.i), ev.s)
            ELSE ChatFails(c)
      [] ~c.over /\ ev.e = "message_delta" -> [c EXCEPT !.reason = ev.what]
      [] ~c.over /\ ev.e = "message_stop" ->
            [Chunk(Chunk(c, "finish", 0, <<FinishReason(c.reason, c.calls # <<>>)>>), "done", 0, <<>>)
                EXCEPT !.over = TRUE]
      [] ~c.over /\ ev.e = "error" -> ChatFails(c)
      [] OTHER -> c

-----------------------------------------------------------------------------
(* Responses: items, each at an output index, from 1; 0 is none. *)

\* resolve_declared_tool: the flat name, or a name only one tool has.
Resolved(name) ==
    LET exact == {t \in Tools : t.flat = name}
        bare == {t \in Tools : t.name = name}
        found == IF exact # {} THEN exact ELSE bare
    IN  IF Cardinality(found) = 1 THEN CHOOSE t \in found : TRUE
        ELSE [flat |-> name, name |-> name, kind |-> "function"]

Item(at, what, s, tool) == [at |-> at, what |-> what, s |-> s, tool |-> tool]
NoTool == [flat |-> "none", name |-> "none", kind |-> "none"]

Sends(c, kind, at, s) == [c EXCEPT !.out = Append(@, [r |-> kind, at |-> at, s |-> s])]

\* An item is done: it joins the output, and its last events are sent.
Finishes(c, item, kinds) ==
    [c EXCEPT !.output = Append(@, item),
              !.out = @ \o [k \in DOMAIN kinds |-> [r |-> kinds[k], at |-> item.at, s |-> item.s]]]

Allocate(c) == [c EXCEPT !.next = @ + 1]

\* handle_block_start: a search is shown as it starts, all else when it has
\* something to say.
ItemStarts(c, ev) ==
    LET d == IF ev.what = "server_tool_use" THEN Allocate(c) ELSE c
        at == IF ev.what = "server_tool_use" THEN c.next ELSE 0
        b == [what |-> ev.what, at |-> at, s |-> <<>>, name |-> ev.s]
        e == [d EXCEPT !.blocks = [i \in {ev.i} \cup DOMAIN @ |-> IF i = ev.i THEN b ELSE @[i]]]
    IN  IF ev.what = "server_tool_use" THEN Sends(e, "added", at, <<>>) ELSE e

\* handle_text_delta, handle_reasoning_delta and the fragments of a call.
ItemGrows(c, ev) ==
    LET b == c.blocks[ev.i]
        first == b.at = 0
        at == IF first THEN c.next ELSE b.at
        grown == [b EXCEPT !.s = b.s \o ev.s, !.at = at]
        d == [c EXCEPT !.blocks[ev.i] = grown, !.next = IF first THEN @ + 1 ELSE @]
        begun == IF ~first THEN d
                 ELSE IF b.what = "text" THEN Sends(Sends(d, "added", at, <<>>), "part", at, <<>>)
                 ELSE Sends(d, "added", at, <<>>)
    IN  CASE b.what = "tool" -> [c EXCEPT !.blocks[ev.i].s = @ \o ev.s]
          [] b.what \in {"text", "thinking"} /\ ev.s # <<>> -> Sends(begun, "delta", at, ev.s)
          [] OTHER -> c

\* finish_text, finish_reasoning, finish_tool and finish_web_search.
ItemStops(c, ev) ==
    LET b == c.blocks[ev.i]
        d == [c EXCEPT !.blocks = [i \in DOMAIN @ \ {ev.i} |-> @[i]]]
    IN  CASE b.what = "text" /\ b.at # 0 ->
                Finishes(d, Item(b.at, "message", b.s, NoTool), <<"text_done", "part_done", "done">>)
          [] b.what = "thinking" /\ b.at # 0 ->
                Finishes(d, Item(b.at, "reasoning", b.s, NoTool), <<"text_done", "done">>)
          [] b.what = "tool" ->
                Finishes(Allocate(Sends(d, "added", c.next, <<>>)),
                         Item(c.next, "call", b.s, Resolved(b.name[1])),
                         <<"delta", "text_done", "done">>)
          [] b.what = "server_tool_use" ->
                Finishes(d, Item(b.at, "search", <<>>, NoTool), <<"done">>)
          [] OTHER -> d

\* emit_reasoning_summary: before whatever brings it.
Aside(c, ev) ==
    IF ev.aside = 0 THEN c
    ELSE Finishes(Allocate(Sends(c, "added", c.next, <<>>)),
                  Item(c.next, "reasoning", <<ev.aside>>, NoTool), <<"delta", "text_done", "done">>)

\* incomplete_reason_for_stop
Incomplete(reason) ==
    CASE reason \in {"max_tokens", "model_context_window_exceeded"} -> "max_output_tokens"
      [] reason = "refusal" -> "content_filter"
      [] OTHER -> "none"

Concludes(c, kind) == Sends([c EXCEPT !.over = TRUE], kind, 0, <<>>)

\* handle_anthropic_event
ResponsesEvent(c, ev) ==
    LET d == Aside(c, ev)
    IN  CASE c.over -> c
          [] ~c.over /\ ev.e = "start" -> ItemStarts(d, ev)
          [] ~c.over /\ ev.e = "delta" -> ItemGrows(d, ev)
          [] ~c.over /\ ev.e = "stop"  -> ItemStops(d, ev)
          [] ~c.over /\ ev.e = "message_delta" -> [d EXCEPT !.reason = ev.what]
          [] ~c.over /\ ev.e = "message_stop" ->
                Concludes(d, IF Incomplete(d.reason) = "none" THEN "completed" ELSE "incomplete")
          [] ~c.over /\ ev.e = "error" -> Concludes(d, "failed")
          [] OTHER -> d

-----------------------------------------------------------------------------
(* The same message as a whole (parse_anthropic_message), and what the two  *)
(* interfaces make of it.                                                   *)

Payload(i) == Concat([j \in DOMAIN sse |-> IF sse[j].e = "delta" /\ sse[j].i = i THEN sse[j].s ELSE <<>>])
Contents == [i \in 1 .. Cardinality(At(sse, "start")) |->
                LET start == CHOOSE j \in At(sse, "start") : sse[j].i = i
                IN  [what |-> sse[start].what, name |-> sse[start].s, s |-> Payload(i)]]
Parts(what) == SelectSeq(Contents, LAMBDA b : b.what = what)
Payloads(blocks) == Concat([k \in DOMAIN blocks |-> blocks[k].s])

Parsed ==
    [text |-> Payloads(Parts("text")),
     thinking |-> Payloads(Parts("thinking"))
                    \o SelectSeq([j \in DOMAIN sse |-> sse[j].aside], LAMBDA x : x # 0),
     searches |-> Len(Parts("server_tool_use")),
     calls |-> [k \in DOMAIN Parts("tool") |-> [name |-> Parts("tool")[k].name, s |-> Parts("tool")[k].s]],
     finish |-> FinishReason(sse[Len(sse) - 1].what, Parts("tool") # <<>>)]

\* build_view: all thinking, the searches, all text, the calls.
View ==
    LET p == Parsed
        items(what, s) == IF s = <<>> THEN <<>> ELSE <<Item(0, what, s, NoTool)>>
    IN  [incomplete |-> CASE p.finish = "length" -> "max_output_tokens"
                          [] p.finish = "content_filter" -> "content_filter"
                          [] OTHER -> "none",
         output |-> items("reasoning", p.thinking)
                    \o [k \in 1 .. p.searches |-> Item(0, "search", <<>>, NoTool)]
                    \o items("message", p.text)
                    \o [k \in DOMAIN p.calls |->
                          Item(0, "call", p.calls[k].s, Resolved(p.calls[k].name[1]))]]

-----------------------------------------------------------------------------

ApiInit ==
    /\ sse = <<>>
    /\ chat = [out |-> <<>>, calls |-> <<>>, reason |-> "end_turn", over |-> FALSE]
    /\ resp = [out |-> <<[r |-> "created", at |-> 0, s |-> <<>>], [r |-> "in_progress", at |-> 0, s |-> <<>>]>>,
               blocks |-> <<>>, next |-> 1, output |-> <<>>, reason |-> "none", over |-> FALSE]

\* A message that has only its end to come.
Ending(log) == log # <<>> /\ Last(log).e = "message_delta"
Allowed(log) ==
    InProtocol(IF Ending(log) THEN Append(log, SseEvent("message_stop", 0, "none", <<>>, 0)) ELSE log)

Receive(ev) ==
    /\ ~resp.over /\ Allowed(Append(sse, ev))
    /\ Ending(sse) => ev.e = "message_stop"
    /\ sse' = Append(sse, ev)
    /\ chat' = ChatEvent(chat, ev)
    /\ resp' = ResponsesEvent(resp, ev)

SseRoom == Len(sse) <= MaxSse
Kinds == {"text", "thinking", "tool", "server_tool_use", "other"}
BlocksSeen == Cardinality(At(sse, "start"))

\* The search loop sends its thinking with the first event of the answer, or
\* with message_delta, and no thinking blocks.
MayBeAside ==
    {0} \cup (IF \A j \in DOMAIN sse : sse[j].aside = 0 /\ sse[j].what # "thinking" THEN {Len(sse)} ELSE {})

MessageStarts == sse = <<>> /\ Receive(SseEvent("message_start", 0, "none", <<>>, 0))

BlockStarts ==
    /\ SseRoom /\ sse # <<>> /\ BlocksSeen < MaxSseBlocks
    /\ \E what \in Kinds, aside \in MayBeAside :
         /\ aside # 0 => what \in {"text", "tool"}
         /\ what = "thinking" => \A j \in DOMAIN sse : sse[j].aside = 0
         /\ \E name \in IF what = "tool" THEN {<<n>> : n \in CalledAs} ELSE {<<>>} :
              Receive(SseEvent("start", BlocksSeen + 1, what, name, aside))

KindOf(i) == sse[CHOOSE j \in At(sse, "start") : sse[j].i = i].what

\* A call has arguments, if only {}; searches and their results come whole.
BlockGrows ==
    /\ SseRoom
    /\ \E i \in 1 .. BlocksSeen, s \in {<<>>, <<Len(sse)>>} :
         /\ KindOf(i) \in {"text", "thinking", "tool"}
         /\ Receive(SseEvent("delta", i, KindOf(i), s, 0))

BlockStops ==
    /\ \E i \in 1 .. BlocksSeen :
         /\ KindOf(i) = "tool" => Payload(i) # <<>>
         /\ Receive(SseEvent("stop", i, KindOf(i), <<>>, 0))

MessageEnds ==
    \/ /\ sse # <<>>
       /\ \E reason \in {"end_turn", "max_tokens", "refusal"}, aside \in MayBeAside :
             Receive(SseEvent("message_delta", 0, reason, <<>>, aside))
    \/ Ending(sse) /\ Receive(SseEvent("message_stop", 0, "none", <<>>, 0))
    \/ sse # <<>> /\ Receive(SseEvent("error", 0, "none", <<>>, 0))

\* Slip: the stream of chunks just ends.
BreaksSilently ==
    /\ ~resp.over
    /\ chat' = [chat EXCEPT !.over = TRUE] /\ resp' = Concludes(resp, "failed")
    /\ UNCHANGED sse

\* The body ends early, cannot be read, or has a frame that is damaged
\* (chat_streaming_response, responses_streaming_response).
Breaks ==
    /\ ~resp.over
    /\ chat' = ChatFails(chat) /\ resp' = Concludes(resp, "failed")
    /\ UNCHANGED sse

ApiNext ==
    \/ MessageStarts \/ BlockStarts \/ BlockGrows \/ BlockStops \/ MessageEnds \/ Breaks

ApiSpec == ApiInit /\ [][ApiNext]_apiVars

-----------------------------------------------------------------------------

ApiTypeOK ==
    /\ chat.over = resp.over
    /\ ToSet(chat.calls) \subseteq 1 .. MaxSseBlocks
    /\ DOMAIN resp.blocks \subseteq 1 .. MaxSseBlocks
    /\ resp.next \in 1 .. MaxSseBlocks + 2

Chunks(kind) == {j \in DOMAIN chat.out : chat.out[j].c = kind}

\* A client of chat completions reads the role first, calls numbered as they
\* come, each named before it is filled, and at the end either why and [DONE]
\* or one error, whatever the handlers send and wherever it breaks off.
ChatWellFormed ==
    LET out == chat.out
    IN  /\ Chunks("role") \subseteq {1} /\ Chunks("call") \cup Chunks("text") # {} => Chunks("role") = {1}
        /\ \A j \in Chunks("call") : out[j].n = Cardinality({k \in Chunks("call") : k <= j})
        /\ \A j \in Chunks("args") : \E k \in Chunks("call") : k < j /\ out[k].n = out[j].n
        /\ chat.over => \/ Chunks("error") = {Len(out)} /\ Chunks("finish") \cup Chunks("done") = {}
                        \/ /\ Chunks("finish") = {Len(out) - 1} /\ Chunks("done") = {Len(out)}
                           /\ Chunks("error") = {}

Stands(kind, at) == {j \in DOMAIN resp.out : resp.out[j].r = kind /\ resp.out[j].at = at}
Terminal == UNION {Stands(k, 0) : k \in {"completed", "incomplete", "failed"}}
About(at) == {j \in DOMAIN resp.out : resp.out[j].at = at}

Overlap ==
    \E j \in At(sse, "start") : \E i \in 1 .. sse[j].i - 1 : \A k \in Of(sse, "stop", i) : j < k

\* A client of the Responses interface reads of every item that it is added,
\* before all else of it, and if the message ends well that it is done, after
\* all else; one event ends the response; its output lists the items that were
\* done, in the order of their indices unless calls overlapped.
ResponsesWellFormed ==
    LET out == resp.out
    IN  /\ \A at \in 1 .. resp.next - 1 :
              /\ \E j \in Stands("added", at) : Stands("added", at) = {j} /\ \A k \in About(at) : j <= k
              /\ \A j \in Stands("done", at) : Stands("done", at) = {j} /\ \A k \in About(at) : k <= j
              /\ Stands("done", at) # {} <=> \E k \in DOMAIN resp.output : resp.output[k].at = at
        /\ Len(resp.output) = Cardinality({k \in DOMAIN out : out[k].r = "done"})
        /\ IF resp.over THEN Terminal = {Len(out)} ELSE Terminal = {}
        /\ resp.over /\ out[Len(out)].r # "failed" =>
              /\ Len(resp.output) = resp.next - 1
              /\ Overlap \/ \A k \in DOMAIN resp.output : resp.output[k].at = k

Told(what) == SelectSeq(resp.output, LAMBDA x : x.what = what)
Viewed(what) == SelectSeq(View.output, LAMBDA x : x.what = what)
Texts(items) == Concat([k \in DOMAIN items |-> items[k].s])
Bare(items) == {[x EXCEPT !.at = 0] : x \in ToSet(items)}

Fills(n) == Concat([j \in DOMAIN chat.out |->
                IF chat.out[j].c = "args" /\ chat.out[j].n = n THEN chat.out[j].s ELSE <<>>])

\* Streamed or whole, a message is translated to the same text, thinking,
\* searches, calls and end, although the two translations share little code:
\* the streamed one does not wait for the end of a block, nor of the message.
TranslationsSame ==
    Ending(Front(sse)) =>
        /\ \A what \in {"message", "reasoning"} : Texts(Told(what)) = Texts(Viewed(what))
        /\ \A what \in {"search", "call"} :
              Bare(Told(what)) = Bare(Viewed(what)) /\ Len(Told(what)) = Len(Viewed(what))
        /\ Incomplete(resp.reason) = View.incomplete
        /\ Concat([j \in DOMAIN chat.out |-> IF chat.out[j].c = "text" THEN chat.out[j].s ELSE <<>>])
              = Parsed.text
        /\ Parsed.calls = [n \in 1 .. Cardinality(Chunks("call")) |->
              [name |-> chat.out[CHOOSE j \in Chunks("call") : chat.out[j].n = n].s, s |-> Fills(n)]]
        /\ chat.out[Len(chat.out) - 1].s = <<Parsed.finish>>

=============================================================================
