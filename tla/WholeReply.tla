----------------------------- MODULE WholeReply -----------------------------
(***************************************************************************)
(* The answer to a request that is not streamed: the events are collected  *)
(* and the message is built when the reply has ended                       *)
(* (execute_non_stream_request_with_format of anthropic/handlers.rs).      *)
(***************************************************************************)
EXTENDS ReplyText

NewCollection(thinks) ==
    [thinks |-> thinks, text |-> <<>>, native_thinking |-> <<>>, signed |-> FALSE,
     redacted |-> 0, calls |-> <<>>, acc |-> NoCalls, bad |-> FALSE, hasTool |-> FALSE,
     stop |-> "end_turn", native |-> "none", full |-> FALSE, refused |-> FALSE, credits |-> 0]

CollectReasoning(w, ev) ==
    [w EXCEPT !.native_thinking = @ \o ev.s, !.signed = @ \/ ev.signed,
              !.redacted = IF ev.redacted THEN @ + 1 ELSE @]

CollectTool(w, ev) ==
    LET d == [w EXCEPT !.hasTool = TRUE, !.acc = Pushed(@, ev)]
    IN  IF Invalid(w.acc, ev) THEN [d EXCEPT !.bad = TRUE]
        ELSE IF ev.stop THEN [d EXCEPT !.calls = Append(@, ev.id)]
        ELSE d

CollectMetadata(w, ev) ==
    [w EXCEPT !.native = IF ev.reason = "none" THEN @ ELSE ev.reason,
              !.refused = @ \/ ev.reason = "refusal"]

Collect(w, ev) ==
    CASE ev.e = "text"      -> [w EXCEPT !.text = @ \o ev.s]
      [] ev.e = "reasoning" -> CollectReasoning(w, ev)
      [] ev.e = "tool"      -> CollectTool(w, ev)
      [] ev.e = "metadata"  -> CollectMetadata(w, ev)
      [] ev.e = "context"   -> [w EXCEPT !.full = TRUE]
      [] ev.e = "metering"  -> [w EXCEPT !.credits = @ + 1]
      [] ev.e = "too_long"  -> [w EXCEPT !.stop = "max_tokens"]

-----------------------------------------------------------------------------

WholeCalls(w) ==
    IF w.refused THEN [w EXCEPT !.bad = FALSE]
    ELSE IF w.bad THEN w
    ELSE IF Truncated(w.acc) THEN [w EXCEPT !.bad = TRUE]
    ELSE [w EXCEPT !.calls = @ \o Recovered(w.acc)]

WholeStop(w) ==
    LET ended == w.stop = "end_turn"
        reason == IF w.native \in {"max_tokens", "model_context_window_exceeded", "stop_sequence"}
                  THEN w.native
                  ELSE IF w.native = "none" /\ w.full /\ ended
                  THEN "model_context_window_exceeded"
                  ELSE w.stop
    IN  IF w.refused THEN "refusal"
        ELSE IF w.hasTool /\ reason = "end_turn" THEN "tool_use" ELSE reason

\* extract_thinking_from_complete_text
Extracted(text) ==
    LET body == From(Trimmed(text), 3)
        i == IF EndTag(body) # 0 THEN EndTag(body) ELSE EndTagAtEnd(body)
    IN  IF ~StartTag(Trimmed(text)) \/ i = 0 THEN [thinking |-> <<>>, text |-> text]
        ELSE [thinking |-> Trimmed(Before(body, i)), text |-> Trimmed(From(body, i + 2))]

\* build_non_stream_content; of the blocks, what they say.
WholeContent(w) ==
    LET native == w.native_thinking # <<>> \/ w.signed
    IN  IF w.thinks /\ native THEN [thinking |-> w.native_thinking, text |-> w.text]
        ELSE IF w.thinks THEN Extracted(w.text)
        ELSE [thinking |-> <<>>, text |-> w.text]

\* Redacted blocks come after text, unless there is native thinking.
TextIsLast(w) == ~w.thinks \/ w.redacted = 0 \/ w.native_thinking # <<>> \/ w.signed

\* reclaim_trailing_invoke_text
Reclaimed(m) ==
    LET kept == Unflooded(m.text)
    IN  IF m.stop # "end_turn" \/ m.calls # <<>> \/ Calls(Held(kept)) = <<>> THEN m
        ELSE [m EXCEPT !.text = Released(kept), !.stop = "tool_use",
                       !.calls = [i \in DOMAIN Calls(Held(kept)) |-> Synthetic]]

Wordless(w, said) ==
    /\ WholeStop(w) = "end_turn" /\ w.calls = <<>> /\ Blank(said.text)
    /\ ~Blank(said.thinking) \/ ~Blank(w.native_thinking)

Composed(w, said) ==
    LET message == [kind |-> "message", thinking |-> said.thinking, text |-> said.text,
                    calls |-> w.calls, stop |-> WholeStop(w)]
    IN  IF w.bad THEN [kind |-> "tool_json"]
        ELSE IF Wordless(w, said) THEN [kind |-> "no_output"]
        ELSE IF TextIsLast(w) THEN Reclaimed(message) ELSE message

\* Calls that were never stopped do not change what was said.
Message(w) == Composed(WholeCalls(w), WholeContent(w))

=============================================================================
