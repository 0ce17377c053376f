----------------------------- MODULE LiveReply -----------------------------
(***************************************************************************)
(* The answer to a streaming request: StreamContext turns each upstream    *)
(* event into SSE events while it arrives, and SseStateManager says which  *)
(* content blocks are open (anthropic/stream.rs).  A context is a record;  *)
(* its log is all that was sent.                                           *)
(***************************************************************************)
EXTENDS ReplyText

\* new_with_thinking.  Blocks are numbered from 1, 0 is no block.
NewContext(thinks) ==
    [thinks |-> thinks, log |-> <<>>, blocks |-> <<>>,
     text |-> 0, think |-> 0, tools |-> [t \in ToolIds |-> 0],
     inTag |-> FALSE, extracted |-> FALSE, buf |-> <<>>,
     held |-> <<>>, native_tools |-> FALSE, tripped |-> FALSE,
     acc |-> NoCalls, bad |-> FALSE, hasTool |-> FALSE,
     stop |-> "none", native |-> "none", full |-> FALSE, signature |-> "none",
     visible |-> FALSE, thought |-> FALSE, credits |-> 0]

-----------------------------------------------------------------------------
(* SseStateManager. *)

Sse(e, i, what, s) == [e |-> e, i |-> i, what |-> what, s |-> s]
Send(c, ev) == [c EXCEPT !.log = Append(@, ev)]

IsOpen(c, i, kind) == i # 0 /\ c.blocks[i].open /\ c.blocks[i].kind = kind

StopBlock(c, i) ==
    IF c.blocks[i].open
    THEN Send([c EXCEPT !.blocks[i].open = FALSE], Sse("stop", i, c.blocks[i].kind, <<>>))
    ELSE c

StopKinds(c, kinds) ==
    FoldLeft(LAMBDA d, i : IF d.blocks[i].kind \in kinds THEN StopBlock(d, i) ELSE d,
             c, [i \in DOMAIN c.blocks |-> i])

\* A tool block stops the text block that is open.
NewBlock(c, kind) ==
    Send([c EXCEPT !.blocks = Append(@, [kind |-> kind, open |-> TRUE])],
         Sse("start", Len(c.blocks) + 1, kind, <<>>))
StartBlock(c, kind) ==
    NewBlock(IF kind = "tool" THEN StopKinds([c EXCEPT !.hasTool = TRUE], {"text"}) ELSE c, kind)

Newest(c) == Len(c.blocks)

\* What has no open block is dropped.
Delta(c, i, what, s) == IF c.blocks[i].open THEN Send(c, Sse("delta", i, what, s)) ELSE c

\* A refusal is final.
SetStop(c, reason) == IF c.stop = "refusal" THEN c ELSE [c EXCEPT !.stop = reason]

StopReason(c) ==
    IF c.stop # "none" THEN c.stop ELSE IF c.hasTool THEN "tool_use" ELSE "end_turn"

EndMessage(c) ==
    [StopKinds(c, {"text", "thinking", "redacted", "tool"})
        EXCEPT !.log = @ \o <<Sse("message_delta", 0, StopReason(c), <<>>),
                              Sse("message_stop", 0, "none", <<>>)>>]

-----------------------------------------------------------------------------
(* Text. *)

StartText(c) == [StartBlock(c, "text") EXCEPT !.text = Newest(c) + 1]
AddText(c, s) == Delta(c, c.text, "text", s)
Say(c, s) ==
    IF s = <<>> THEN c
    ELSE AddText(IF IsOpen(c, c.text, "text") THEN c ELSE StartText(c), s)

\* The repeat guard drops the flood and all text after it.
EmitText(c, s) ==
    LET kept == IF c.tripped THEN <<>> ELSE Unflooded(s)
    IN  Say([c EXCEPT !.tripped = @ \/ Flooded(s), !.visible = @ \/ ~Blank(kept)], kept)

\* The sniffer holds the <invoke> blocks the text ends with, until a native
\* call shows that the reply does not write its calls as text.
Text(c, s) ==
    LET all == c.held \o s
        d == [c EXCEPT !.held = IF c.native_tools THEN <<>> ELSE Held(all)]
    IN  EmitText(d, IF c.native_tools THEN all ELSE Released(all))

Abandon(c) == EmitText([c EXCEPT !.native_tools = TRUE, !.held = <<>>], c.held)

StopText(c) ==
    LET d == [c EXCEPT !.text = 0] IN IF IsOpen(c, c.text, "text") THEN StopBlock(d, c.text) ELSE d

-----------------------------------------------------------------------------
(* Thinking, between tags or native. *)

\* A thinking delta is sent whether or not its block is open.
ThinkingDelta(c, s) ==
    Send([c EXCEPT !.thought = @ \/ ~Blank(s)], Sse("delta", c.think, "thinking", s))

SignAndStop(c, signature) ==
    StopBlock(Send(ThinkingDelta(c, <<>>), Sse("delta", c.think, signature, <<>>)), c.think)

CloseThinking(c) ==
    IF ~IsOpen(c, c.think, "thinking") THEN c
    ELSE SignAndStop([c EXCEPT !.signature = "none"],
                     IF c.signature = "none" THEN "placeholder" ELSE c.signature)

StartThinking(c) == [StartBlock(c, "thinking") EXCEPT !.think = Newest(c) + 1]

\* The tag at position i of the buffer ends the thinking block.
EndThinking(c, i) ==
    LET d == IF i = 1 THEN c ELSE ThinkingDelta(c, Before(c.buf, i))
    IN  SignAndStop([d EXCEPT !.inTag = FALSE, !.extracted = TRUE,
                              !.buf = Trimmed(From(@, i + 2))], "placeholder")

\* At the start of a reply: the tag, text that is not the tag, or wait.
Opening(c) ==
    LET head == Trimmed(c.buf)
    IN  IF c.inTag \/ c.extracted \/ head \in {<<>>, <<"o1">>} THEN c
        ELSE IF StartTag(head)
             THEN StartThinking([c EXCEPT !.inTag = TRUE, !.buf = Trimmed(From(head, 3))])
             ELSE [c EXCEPT !.extracted = TRUE]

\* Slip: only the last letter is kept back.
InsideEager(c) ==
    LET safe == Len(c.buf) - 1
    IN  IF ~c.inTag THEN c
        ELSE IF EndTag(c.buf) # 0 THEN EndThinking(c, EndTag(c.buf))
        ELSE IF safe <= 0 THEN c
        ELSE [ThinkingDelta(c, SubSeq(c.buf, 1, safe)) EXCEPT !.buf = From(@, safe + 1)]

\* Inside: the last two letters may be the beginning of the closing tag.
Inside(c) ==
    LET safe == Len(c.buf) - 2
    IN  IF ~c.inTag THEN c
        ELSE IF EndTag(c.buf) # 0 THEN EndThinking(c, EndTag(c.buf))
        ELSE IF safe <= 0 THEN c
        ELSE [ThinkingDelta(c, SubSeq(c.buf, 1, safe)) EXCEPT !.buf = From(@, safe + 1)]

FlushBuffer(c) == IF c.buf = <<>> THEN c ELSE Text([c EXCEPT !.buf = <<>>], c.buf)

Rest(c) == IF c.extracted /\ ~c.inTag THEN FlushBuffer(c) ELSE c

\* Thinking that is not between tags ends where text or a call begins.
EndNative(c) == IF c.inTag THEN c ELSE CloseThinking(c)

AssistantResponse(c, s) ==
    LET d == EndNative(c)
    IN  IF c.thinks THEN Rest(Inside(Opening([d EXCEPT !.buf = @ \o s]))) ELSE Text(d, s)

EnsureThinking(c) ==
    IF IsOpen(c, c.think, "thinking") THEN c
    ELSE [StartThinking(StopText(IF Blank(c.buf) THEN [c EXCEPT !.buf = <<>>] ELSE FlushBuffer(c)))
             EXCEPT !.extracted = TRUE]

\* A redacted block is complete when it starts.
StopNewest(c) == StopBlock(c, Newest(c))
Redacted(c, ev) ==
    IF ~ev.redacted THEN c ELSE StopNewest(StartBlock(StopText(CloseThinking(c)), "redacted"))

Signature(c, ev) == IF ev.signed THEN EnsureThinking([c EXCEPT !.signature = "native"]) ELSE c
Thoughts(c, ev) == IF ev.s = <<>> THEN c ELSE ThinkingDelta(EnsureThinking(c), ev.s)

ReasoningContent(c, ev) ==
    LET heard == [c EXCEPT !.thought = @ \/ ~Blank(ev.s)]
    IN  IF c.thinks THEN Redacted(Thoughts(Signature(heard, ev), ev), ev) ELSE heard

-----------------------------------------------------------------------------
(* Tool calls. *)

\* A call has one block; its id says which.
StartTool(c, t) ==
    IF c.tools[t] # 0 THEN c
    ELSE [StartBlock(c, "tool") EXCEPT !.tools[t] = Newest(c) + 1]

Input(c, i, frags) ==
    FoldLeft(LAMBDA d, f : Delta(d, i, "json", <<f>>), c, frags)

Complete(c, i, frags) == StopBlock(Input(c, i, IF frags = <<>> THEN <<"{}">> ELSE frags), i)

Answered(c, t, frags) == Complete(c, c.tools[t], frags)
EmitCall(c, t, frags) == Answered(StartTool(c, t), t, frags)

EmitSynthetic(c) == Complete(StartBlock(c, "tool"), Newest(c) + 1, <<>>)

\* What is buffered when a call begins is thinking up to a closing tag at its
\* end, or text if the reply has not thought.
FlushThinking(c) ==
    IF c.inTag /\ EndTagAtEnd(c.buf) # 0 THEN EndThinking(c, EndTagAtEnd(c.buf))
    ELSE IF ~c.inTag /\ ~c.extracted THEN FlushBuffer(c)
    ELSE c
BeforeCall(c) == FlushThinking(Abandon(EndNative([c EXCEPT !.hasTool = TRUE])))

\* A call whose block is there: what its event adds to the arguments.
Passed(c, ev, frags) ==
    LET sent == Input(c, c.tools[ev.id], frags)
    IN  IF ev.stop THEN StopBlock(sent, c.tools[ev.id]) ELSE sent

\* The arguments of a call that needs no rewriting are passed on at once.
Called(c, ev) ==
    LET args == Arguments(c.acc, ev)
        pushed == [c EXCEPT !.acc = Pushed(@, ev)]
        streamed == (c.acc[ev.id].named \/ ev.named) /\ ev.id \notin Rewritten
        fresh == IF c.tools[ev.id] = 0 THEN args ELSE Fragment(ev.frag)
    IN  IF Invalid(c.acc, ev) THEN SetStop([pushed EXCEPT !.bad = TRUE], "error")
        ELSE IF streamed /\ (ev.stop \/ args # <<>>)
             THEN Passed(StartTool(pushed, ev.id), ev, IF args = <<>> THEN <<"{}">> ELSE fresh)
        ELSE IF ~streamed /\ ev.stop THEN EmitCall(pushed, ev.id, args)
        ELSE pushed

ToolUse(c, ev) == Called(BeforeCall(c), ev)

-----------------------------------------------------------------------------
(* Reports of the upstream, and the end. *)

CutShort == {"max_tokens", "stop_sequence", "model_context_window_exceeded"}

Metadata(c, ev) ==
    LET d == IF ev.reason \in CutShort /\ c.stop = "none" THEN SetStop(c, ev.reason) ELSE c
        e == IF ev.reason = "none" THEN d ELSE [d EXCEPT !.native = ev.reason]
    IN  IF ev.reason = "refusal" THEN SetStop(e, "refusal") ELSE e

Process(c, ev) ==
    CASE ev.e = "text"      -> AssistantResponse(c, ev.s)
      [] ev.e = "reasoning" -> ReasoningContent(c, ev)
      [] ev.e = "tool"      -> ToolUse(c, ev)
      [] ev.e = "metadata"  -> Metadata(c, ev)
      [] ev.e = "context"   -> [c EXCEPT !.full = TRUE]
      [] ev.e = "metering"  -> [c EXCEPT !.credits = @ + 1]
      [] ev.e = "too_long"  -> SetStop(c, "max_tokens")

InitialEvents(c) ==
    LET d == Send(c, Sse("message_start", 0, "none", <<>>))
    IN  IF c.thinks THEN d ELSE StartText(d)

\* Slip: an open thinking block is only stopped.
ErrorUnsigned(c, what) ==
    Send(StopKinds(c, {"text", "thinking", "redacted"}), Sse("error", 0, what, <<>>))

\* Thinking blocks are signed before they are stopped; calls stay open, so
\* that nobody takes them for complete.
ErrorEvents(c, what) ==
    Send(StopKinds(CloseThinking(c), {"text", "thinking", "redacted"}), Sse("error", 0, what, <<>>))

\* What is still buffered: thinking up to a closing tag, all of it if there is
\* none, or text.
FlushEnd(c) ==
    LET i == EndTagAtEnd(c.buf)
        unclosed == SignAndStop(ThinkingDelta(c, c.buf), "placeholder")
    IN  IF ~c.thinks \/ c.buf = <<>> THEN c
        ELSE IF ~c.inTag THEN FlushBuffer(c)
        ELSE IF i # 0 THEN EndThinking(c, i)
        ELSE [unclosed EXCEPT !.buf = <<>>]

\* InvokeSniffer::finish: the blocks the reply ends with become calls.
SniffEnd(c) == FoldLeft(LAMBDA d, x : EmitSynthetic(d), [c EXCEPT !.held = <<>>], Calls(c.held))

FinishCalls(c) ==
    IF StopReason(c) = "refusal" THEN [c EXCEPT !.bad = FALSE]
    ELSE IF c.bad THEN c
    ELSE IF Truncated(c.acc) THEN SetStop([c EXCEPT !.bad = TRUE, !.acc = NoCalls], "error")
    ELSE FoldLeft(LAMBDA d, t : EmitCall(d, t, <<>>), [c EXCEPT !.acc = NoCalls], Recovered(c.acc))

ApplyNativeStop(c) ==
    IF c.native \in {"max_tokens", "model_context_window_exceeded"} THEN SetStop(c, c.native)
    ELSE IF c.native = "none" /\ c.full THEN SetStop(c, "model_context_window_exceeded")
    ELSE c

OpenCall(c) == \E t \in ToolIds : IsOpen(c, c.tools[t], "tool")

Unseen(c) == c.thought /\ ~c.visible /\ ~c.hasTool /\ StopReason(c) = "end_turn"

Conclude(c) ==
    IF StopReason(c) = "refusal" /\ OpenCall(c) THEN ErrorEvents(c, "refused")
    ELSE IF c.bad THEN ErrorEvents(c, "tool_json")
    ELSE IF c.tripped THEN ErrorEvents(c, "flood")
    ELSE IF Unseen(ApplyNativeStop(c)) THEN ErrorEvents(ApplyNativeStop(c), "no_output")
    ELSE EndMessage(ApplyNativeStop(c))

FinalEvents(c) == Conclude(FinishCalls(SniffEnd(FlushEnd(EndNative(c)))))

=============================================================================
