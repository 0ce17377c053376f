------------------------------ MODULE Replies ------------------------------
(***************************************************************************)
(* One upstream reply, answered live and as a whole: both decoders take    *)
(* the same events, so that what they make of them can be compared.  The   *)
(* stream may break or the client leave after any event.  Every exchange   *)
(* is settled: its usage goes to the records and its credits to the        *)
(* credential (handlers.rs, StreamSettlement and CreditUsageGuard).        *)
(***************************************************************************)
EXTENDS LiveReply, WholeReply, SseProtocol

CONSTANTS
    Flavours,    \* kinds of replies: tags, plain, native, tools, ends
    MaxEvents    \* bound: events of a reply

ASSUME EventsAssumption ==
    /\ Flavours \subseteq {"tags", "plain", "native", "tools", "ends"}
    /\ MaxEvents \in [Flavours -> Nat]

VARIABLES
    flavour,     \* what the upstream sends
    live,        \* StreamContext
    whole,       \* what the other answer has collected
    answer,      \* and what it says in the end
    arrived,     \* events so far
    over,        \* ids of the calls that were stopped
    phase,       \* open, ended (as live and whole say) or gone
    snapshot,    \* credits the settlement of the stream has been told of
    records,     \* usage records of the stream: status and credits
    charged      \* what the two guards charged to the credential

replyVars == <<flavour, live, whole, answer, arrived, over, phase, snapshot, records, charged>>

TextEv(s) == [e |-> "text", s |-> s]
Reasoning(s, signed, redacted) ==
    [e |-> "reasoning", s |-> s, signed |-> signed, redacted |-> redacted]
ToolEv(t, named, frag, stop) ==
    [e |-> "tool", id |-> t, named |-> named, frag |-> frag, stop |-> stop]
Report(e) == [e |-> e]
Meta(reason) == [e |-> "metadata", reason |-> reason]

Reasons == {"none", "max_tokens", "stop_sequence", "model_context_window_exceeded", "other", "refusal"}

\* What a kind of reply is made of.
Events(f) ==
    CASE f = "tags" ->
            {TextEv(s) : s \in {<<"o1">>, <<"o2">>, <<"c1">>, <<"c2">>, <<"w">>, <<"sp">>,
                                <<"o1", "o2">>, <<"c1", "c2">>, <<"w", "c1", "c2", "sp", "w">>}}
            \cup {ToolEv(1, TRUE, "none", TRUE)}
      [] f = "plain" ->
            {TextEv(<<x>>) : x \in {"w", "sp", "iv", "fl"}} \cup {ToolEv(1, TRUE, "none", TRUE)}
      [] f = "native" ->
            {Reasoning(<<"w">>, FALSE, FALSE), Reasoning(<<>>, TRUE, FALSE),
             Reasoning(<<>>, FALSE, TRUE), Reasoning(<<"w">>, TRUE, TRUE)}
            \cup {TextEv(<<x>>) : x \in {"w", "sp", "iv"}}
            \cup {ToolEv(1, TRUE, "l", FALSE), ToolEv(1, TRUE, "r", TRUE)}
      [] f = "tools" ->
            {ToolEv(t, TRUE, x, b) : t \in ToolIds, x \in {"none", "l", "r"}, b \in BOOLEAN}
            \cup {ToolEv(1, FALSE, x, FALSE) : x \in {"none", "l"}}
            \cup {TextEv(<<"w">>), Meta("refusal")}
      [] f = "ends" ->
            {Meta(r) : r \in Reasons}
            \cup {Report(e) : e \in {"context", "metering", "too_long"}}
            \cup {TextEv(<<"w">>), TextEv(<<"iv">>), ToolEv(1, TRUE, "none", FALSE)}

Usage(status, credits) == [status |-> status, credits |-> credits]

ReplyInit ==
    /\ flavour \in Flavours
    /\ \E thinks \in IF flavour = "tags" THEN {TRUE} ELSE BOOLEAN :
          /\ live = InitialEvents(NewContext(thinks))
          /\ whole = NewCollection(thinks)
    /\ answer = [kind |-> "none"]
    /\ arrived = 0 /\ over = {} /\ phase = "open"
    /\ snapshot = 0 /\ records = <<>> /\ charged = [live |-> 0, whole |-> 0]

\* The upstream does not go on with a call it has stopped, and it says once
\* why its reply ends.
Arrive ==
    /\ phase = "open" /\ arrived < MaxEvents[flavour]
    /\ \E ev \in Events(flavour) :
          /\ ev.e = "tool" => ev.id \notin over
          /\ ev.e = "metadata" => ev.reason = "none" \/ live.native = "none"
          /\ live' = Process(live, ev)
          /\ whole' = Collect(whole, ev)
          /\ over' = IF ev.e = "tool" /\ ev.stop THEN over \cup {ev.id} ELSE over
    /\ arrived' = arrived + 1
    /\ snapshot' = live'.credits
    /\ UNCHANGED <<flavour, answer, phase, records, charged>>

Settled(c, status) ==
    /\ snapshot' = c.credits
    /\ records' = Append(records, Usage(status, c.credits))

Outcome(c) == c.log[Len(c.log)]

\* The stream ends on a frame boundary.
End ==
    /\ phase = "open" /\ arrived > 0
    /\ live' = FinalEvents(live)
    /\ answer' = Message(whole)
    /\ Settled(live', IF Outcome(live').e = "message_stop" THEN "success" ELSE "error")
    /\ phase' = "ended"
    /\ charged' = [charged EXCEPT !.whole = whole.credits]
    /\ UNCHANGED <<flavour, whole, arrived, over>>

\* An error frame, a damaged or truncated one, a failing read, or no data.
Interrupt ==
    /\ phase = "open"
    /\ live' = ErrorEvents(live, "interrupted")
    /\ answer' = [kind |-> "interrupted"]
    /\ Settled(live, "error")
    /\ phase' = "ended"
    /\ charged' = [charged EXCEPT !.whole = whole.credits]
    /\ UNCHANGED <<flavour, whole, arrived, over>>

\* Slip: it does not ask whether the usage is recorded.
DropAgain ==
    /\ phase # "gone"
    /\ records' = Append(records, Usage("error", snapshot))
    /\ charged' = [charged EXCEPT !.live = snapshot,
                                  !.whole = IF phase = "open" THEN whole.credits ELSE @]
    /\ phase' = "gone"
    /\ UNCHANGED <<flavour, live, whole, answer, arrived, over, snapshot>>

\* Drop, of a stream that has ended or that the client leaves: the usage is
\* recorded unless it was, the guards settle.
Drop ==
    /\ phase # "gone"
    /\ records' = IF records = <<>> THEN <<Usage("error", snapshot)>> ELSE records
    /\ charged' = [charged EXCEPT !.live = snapshot,
                                  !.whole = IF phase = "open" THEN whole.credits ELSE @]
    /\ phase' = "gone"
    /\ UNCHANGED <<flavour, live, whole, answer, arrived, over, snapshot>>

ReplyNext == Arrive \/ End \/ Interrupt \/ Drop

ReplySpec == ReplyInit /\ [][ReplyNext]_replyVars

-----------------------------------------------------------------------------

\* The parts of the state are what the decoders make of it: a context is open
\* exactly as long as the stream is, and the bound is kept.
ReplyTypeOK ==
    /\ flavour \in Flavours
    /\ arrived \in 0 .. MaxEvents[flavour]
    /\ over \subseteq ToolIds
    /\ phase \in {"open", "ended", "gone"}
    /\ \A t \in ToolIds : live.tools[t] \in 0 .. Len(live.blocks)
    /\ live.text \in 0 .. Len(live.blocks) /\ live.think \in 0 .. Len(live.blocks)

\* SseStateManager promises (stream.rs:1292): one message_start, every block
\* started, filled and stopped in this order, one message_delta when all of
\* them are stopped, message_stop or an error last, never both - for every
\* order in which text, thinking and calls may arrive and break off.
WellFormed == InProtocol(live.log)

ThinkingText(log, b) == {i \in Of(log, "delta", b) : log[i].what = "thinking" /\ ~Blank(log[i].s)}
Signatures(log, b) == {i \in Of(log, "delta", b) : log[i].what \in {"placeholder", "native"}}

\* A thinking block that holds text is signed once, with the signature of the
\* upstream if it sent one, before it is stopped, also when the stream breaks:
\* a client cannot send back a thinking block without signature.
ThinkingSigned ==
    \A i \in At(live.log, "stop") :
        live.log[i].what = "thinking" /\ ThinkingText(live.log, live.log[i].i) # {}
            => Cardinality(Signatures(live.log, live.log[i].i)) = 1

Said(what) ==
    LET deltas == SelectSeq(live.log, LAMBDA ev : ev.e = "delta" /\ ev.what = what)
    IN  FoldLeft(LAMBDA all, ev : all \o Words(ev.s), <<>>, deltas)

IdOf(b) == IF \E t \in ToolIds : live.tools[t] = b
           THEN CHOOSE t \in ToolIds : live.tools[t] = b ELSE Synthetic

\* How often a call is in the streamed message, and in the whole one.
CallsLive(t) == Cardinality({i \in At(live.log, "start") : live.log[i].what = "tool" /\ IdOf(live.log[i].i) = t})
CallsWhole(t) == Cardinality({i \in DOMAIN answer.calls : answer.calls[i] = t})

\* What the two make of a reply differently, and know to: a flood is an error
\* for one, a refusal in the middle of a call is, calls written as text are
\* taken up after an early stop, or with a redacted block behind them; the
\* report that the reply is too long yields to another one; thinking that no
\* tag ends is thinking; and a call cuts tags and ends thinking, text or not.
Unclosed(s) == StartTag(Trimmed(s)) /\ EndTag(Trimmed(s)) = 0 /\ EndTagAtEnd(Trimmed(s)) = 0

Torn(log) == \E i \in At(log, "delta") : log[i].what = "text" /\ Last(log[i].s) = "o1"

EndedByCall(log) ==
    \E i \in At(log, "start"), j \in At(log, "delta") :
        /\ i < j /\ log[i].what = "tool" /\ log[j].what = "text"
        /\ log[i - 1].e = "stop" /\ log[i - 1].what = "thinking"

Different ==
    \/ live.tripped
    \/ whole.refused /\ OpenCall(live)
    \/ Calls(Held(whole.text)) # <<>> /\ (WholeStop(whole) # "end_turn" \/ ~TextIsLast(whole))
    \/ whole.stop = "max_tokens" /\ (whole.full \/ whole.native = "stop_sequence")
    \/ whole.thinks /\ Unclosed(whole.text)
    \/ whole.hasTool /\ Torn(live.log)
    \/ StartTag(Trimmed(whole.text)) /\ EndedByCall(live.log)

\* Whether a request is streamed does not change the answer: a reply that ends
\* is a message for both or the same error for both, and then text, thinking,
\* calls and stop reason are the same.
SameAnswer ==
    phase = "ended" /\ ~Different =>
        IF Outcome(live).e = "error" THEN answer.kind = Outcome(live).what
        ELSE /\ answer.kind = "message"
             /\ Said("text") = Words(answer.text)
             /\ Said("thinking") = Words(answer.thinking)
             /\ \A t \in ToolIds \cup {Synthetic} : CallsLive(t) = CallsWhole(t)
             /\ StopReason(live) = answer.stop

\* Every stream leaves exactly one usage record, however it ends: it has all
\* the upstream reported, and the credential is charged the same.
UsageSettledOnce ==
    /\ Len(records) <= 1
    /\ phase # "open" => records = <<Usage(records[1].status, live.credits)>>
    /\ phase = "gone" => charged.live = live.credits /\ charged.whole = live.credits

=============================================================================
