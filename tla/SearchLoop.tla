----------------------------- MODULE SearchLoop -----------------------------
(***************************************************************************)
(* Requests with the web_search tool (anthropic/websearch_loop.rs).  Each  *)
(* round is a call to the upstream whose reply is read whole; a round that *)
(* only searches is answered here and the next one asked for, any other    *)
(* goes to the client.  A streamed request is told of the searches, and of *)
(* the text that can be nothing but text, while the loop runs; the client  *)
(* may leave at any time, which drops the loop where it is.                *)
(***************************************************************************)
EXTENDS SseProtocol, SequencesExt

CONSTANTS
    MaxRounds,    \* MAX_WEB_SEARCH_ROUNDS
    MaxRetries,   \* MAX_EMPTY_TOOL_RESULT_RETRIES
    MaxUses,      \* max_uses of the tool, or more than any run searches
    MaxCalls      \* bound: tool calls of a round

ASSUME RoundsAssumption ==
    MaxRounds \in Nat /\ MaxRetries \in Nat /\ MaxUses \in Nat /\ MaxCalls \in Nat

VARIABLES
    form,         \* the request: streamed, text at once, after a tool's result
    at,           \* call, decode, search, mcp (a search is running), done
    round,        \* rounds that were searched
    retries,      \* of this round
    got,          \* RoundOutcome so far
    next,         \* the next of its calls to search
    requests,     \* searches made
    shown,        \* search results of all rounds
    used,         \* WebSearchUsageSettlement: rounds and credits
    recorded,     \* the usage records of the request
    paid,         \* credits charged to the credentials, round by round
    emitter,      \* WebSearchSseEmitter: what was sent, open blocks, text block
    reply         \* how the request ended, and the content if it did well

searchVars == <<form, at, round, retries, got, next, requests, shown, used, recorded, paid,
                emitter, reply>>

\* Text is plain (p), or a call written as text (x), with which it ends.
NoRound == [text |-> "", uses |-> <<>>, half |-> FALSE, stop |-> "none", credits |-> 0,
            sent |-> FALSE, torn |-> FALSE]

SearchInit ==
    /\ form \in [stream : BOOLEAN, at_once : BOOLEAN, result : BOOLEAN]
    /\ form.at_once => form.stream
    /\ at = "call" /\ round = 0 /\ retries = 0 /\ got = NoRound /\ next = 1
    /\ requests = 0 /\ shown = 0 /\ used = [rounds |-> 0, credits |-> 0]
    /\ recorded = <<>> /\ paid = 0
    /\ emitter = [log |-> <<[e |-> "message_start"]>>, blocks |-> 0, open |-> {}, text |-> 0]
    /\ reply = [status |-> "none", content |-> <<>>, stop |-> "none"]

-----------------------------------------------------------------------------
(* WebSearchSseEmitter.  Blocks are numbered from 1, 0 is no block.        *)

Sent(m, ev) == [m EXCEPT !.log = Append(@, ev)]

Started(m, what) ==
    LET i == m.blocks + 1
    IN  Sent([m EXCEPT !.blocks = i, !.open = @ \cup {i}], [e |-> "start", i |-> i, what |-> what])

Stopped(m, i) == Sent([m EXCEPT !.open = @ \ {i}], [e |-> "stop", i |-> i])

Block(m, what) == LET n == Started(m, what) IN Stopped(n, n.blocks)

TextDelta(m) ==
    LET n == IF m.text # 0 THEN m
             ELSE LET o == Started(m, "text") IN [o EXCEPT !.text = o.blocks]
    IN  Sent(n, [e |-> "delta", i |-> n.text])

CloseText(m) == IF m.text = 0 THEN m ELSE Stopped([m EXCEPT !.text = 0], m.text)

BeginSearch(m) == Started(CloseText(m), "server_tool_use")

\* Slip: a search without results shows none.
CompleteEmpty(m) == Stopped(m, m.blocks)

\* The search block is the newest one.
AbortSearch(m) == Stopped(m, m.blocks)
CompleteSearch(m) == Block(Stopped(m, m.blocks), "result")

FinishMessage(m, content, reason) ==
    LET n == FoldLeft(Block, CloseText(m), content)
    IN  [n EXCEPT !.log = @ \o <<[e |-> "message_delta", stop |-> reason], [e |-> "message_stop"]>>]

FailMessage(m) ==
    LET n == FoldLeft(Stopped, m, SetToSeq(m.open))
    IN  Sent([n EXCEPT !.text = 0], [e |-> "error"])

-----------------------------------------------------------------------------
(* The end of the loop: usage, and the reply.                             *)

SettleLoop(status, usage) ==
    recorded' = Append(recorded, [status |-> status, rounds |-> usage.rounds, credits |-> usage.credits])

Add(credits) == [rounds |-> used.rounds + 1, credits |-> used.credits + credits]

\* What the loop knew is gone with it.
Gone(status) ==
    /\ at' = "done" /\ reply' = [reply EXCEPT !.status = status]
    /\ round' = 0 /\ retries' = 0 /\ got' = NoRound /\ next' = 1 /\ requests' = 0 /\ shown' = 0
    /\ UNCHANGED form

\* The loop returns an error, which ends a stream as an error event.
Fails(m) ==
    /\ Gone("error")
    /\ emitter' = IF form.stream THEN FailMessage(m) ELSE m

-----------------------------------------------------------------------------
(* run_round: the call and its reply.                                      *)

Call ==
    /\ at = "call" /\ at' = "decode" /\ got' = NoRound
    /\ UNCHANGED <<form, round, retries, next, requests, shown, used, recorded, paid, emitter, reply>>

\* Slip: no round leaves a record if its first call is refused.
RefusedUnsettled ==
    /\ at = "call"
    /\ IF retries = 0 THEN UNCHANGED recorded ELSE SettleLoop("error", used)
    /\ Fails(emitter)
    /\ UNCHANGED <<used, paid>>

\* A call that is not authorized is not counted; the first one of a request
\* leaves no record at all.
CallRefused ==
    /\ at = "call"
    /\ IF round = 0 /\ retries = 0 THEN UNCHANGED recorded ELSE SettleLoop("error", used)
    /\ Fails(emitter)
    /\ UNCHANGED <<used, paid>>

CallFails ==
    /\ at = "call"
    /\ used' = Add(0) /\ SettleLoop("error", used')
    /\ Fails(emitter)
    /\ UNCHANGED paid

Decoding == at = "decode"

Heard(outcome, m) ==
    /\ got' = outcome /\ emitter' = m
    /\ UNCHANGED <<form, at, round, retries, next, requests, shown, used, recorded, paid, reply>>

\* Plain text is passed on at once; from the first mark-up on, text waits.
RoundText ==
    /\ Decoding
    /\ \E s \in {"p", "x"} :
          LET once == s = "p" /\ got.text = "" /\ form.at_once
          IN  /\ got.text = "" \/ (got.text = "p" /\ s = "x")
              /\ Heard([got EXCEPT !.text = IF @ = "p" THEN "px" ELSE s, !.sent = @ \/ once],
                       IF once THEN TextDelta(emitter) ELSE emitter)

RoundTool ==
    /\ Decoding /\ Len(got.uses) < MaxCalls /\ ~got.half
    /\ \E u \in {"web", "no_query", "client", "half"} :
          Heard(IF u = "half" THEN [got EXCEPT !.half = TRUE] ELSE [got EXCEPT !.uses = Append(@, u)],
                emitter)

\* A refusal is final.
RoundStop ==
    /\ Decoding /\ got.stop # "refusal"
    /\ \E r \in {"refusal", "max_tokens"} \ {got.stop} : Heard([got EXCEPT !.stop = r], emitter)

RoundMetering == Decoding /\ got.credits = 0 /\ Heard([got EXCEPT !.credits = 1], emitter)

\* An error frame, a damaged one, a failing read, a flood; or half a call at
\* the end, unless the upstream refused.
RoundBreaks ==
    /\ Decoding
    /\ used' = Add(got.credits) /\ SettleLoop("error", used')
    /\ paid' = paid + got.credits
    /\ Fails(CloseText(emitter))

Empty(r) == r.text = "" /\ r.uses = <<>> /\ r.stop = "none"

\* What refuses does not call, and its text is not searched for calls.
Accepted(r) == IF r.stop = "refusal" THEN [r EXCEPT !.uses = <<>>] ELSE r

\* The stream ends, on a frame boundary or in the middle of a frame: the loop
\* does not ask which.  A round without text or calls after the result of a
\* tool is asked for again.
RoundEnds ==
    /\ Decoding /\ (got.half => got.stop = "refusal")
    /\ used' = Add(got.credits)
    /\ paid' = paid + got.credits
    /\ \E torn \in BOOLEAN :
          LET empty == form.result /\ Empty(got)
          IN  IF empty /\ retries >= MaxRetries
              THEN /\ SettleLoop("error", used') /\ Fails(CloseText(emitter))
              ELSE /\ IF empty
                      THEN at' = "call" /\ retries' = retries + 1 /\ UNCHANGED got
                      ELSE /\ at' = "search" /\ got' = [Accepted(got) EXCEPT !.torn = torn]
                           /\ UNCHANGED retries
                   /\ emitter' = CloseText(emitter)
                   /\ UNCHANGED <<form, round, next, requests, shown, recorded, reply>>

-----------------------------------------------------------------------------
(* The searches of a round, one after the other.                           *)

IsSearch(u) == u \in {"web", "no_query"}

\* Slip: the last round searches as well.
SearchOnTooLong == got.uses # <<>> /\ (\A i \in DOMAIN got.uses : IsSearch(got.uses[i])) /\ round <= MaxRounds

\* should_search_round
SearchOn == got.uses # <<>> /\ (\A i \in DOMAIN got.uses : IsSearch(got.uses[i])) /\ round < MaxRounds

SkipClientCall ==
    /\ at = "search" /\ next <= Len(got.uses) /\ ~IsSearch(got.uses[next])
    /\ next' = next + 1
    /\ UNCHANGED <<form, at, round, retries, got, requests, shown, used, recorded, paid, emitter, reply>>

Present(m) == IF form.stream THEN m ELSE emitter

\* A search without a query, or beyond the limit, is answered at once.
SearchBegins ==
    /\ at = "search" /\ next <= Len(got.uses) /\ IsSearch(got.uses[next])
    /\ IF got.uses[next] = "web" /\ requests < MaxUses
       THEN /\ at' = "mcp" /\ requests' = requests + 1
            /\ emitter' = Present(BeginSearch(emitter))
            /\ UNCHANGED <<next, shown>>
       ELSE /\ emitter' = Present(CompleteSearch(BeginSearch(emitter)))
            /\ next' = next + 1 /\ shown' = shown + 1
            /\ UNCHANGED <<at, requests>>
    /\ UNCHANGED <<form, round, retries, got, used, recorded, paid, reply>>

SearchEnds ==
    /\ at = "mcp" /\ at' = "search"
    /\ emitter' = Present(CompleteSearch(emitter))
    /\ next' = next + 1 /\ shown' = shown + 1
    /\ UNCHANGED <<form, round, retries, got, requests, used, recorded, paid, reply>>

SearchFails ==
    /\ at = "mcp"
    /\ SettleLoop("error", used)
    /\ Fails(Present(AbortSearch(emitter)))
    /\ UNCHANGED <<used, paid>>

\* append_search_round: the next round follows the results of a tool.
NextRound ==
    /\ at = "search" /\ next > Len(got.uses) /\ SearchOn
    /\ at' = "call" /\ round' = round + 1 /\ retries' = 0 /\ next' = 1 /\ got' = NoRound
    /\ form' = [form EXCEPT !.result = TRUE]
    /\ UNCHANGED <<requests, shown, used, recorded, paid, emitter, reply>>

\* build_flush_content.  Calls written as text are taken up if there are no
\* others and nothing was refused.
FlushText ==
    LET call == IF got.uses = <<>> /\ got.stop # "refusal" THEN <<"client">> ELSE <<"text">>
    IN  CASE got.text = ""   -> <<>>
          [] got.text = "p"  -> <<"text">>
          [] got.text = "x"  -> call
          [] got.text = "px" -> IF call = <<"text">> THEN call ELSE <<"text">> \o call

ClientCalls == FlattenSeq([i \in DOMAIN got.uses |-> IF IsSearch(got.uses[i]) THEN <<>> ELSE <<got.uses[i]>>])

\* What a stream has not sent yet; of the text, what was not passed on.
Unsent ==
    (IF got.sent THEN (IF got.text = "p" THEN <<>>
                       ELSE IF FlushText = <<"text">> THEN FlushText ELSE Tail(FlushText))
     ELSE FlushText) \o ClientCalls

\* resolve_flush_stop_reason
FlushStop ==
    IF got.stop # "none" THEN got.stop
    ELSE IF \E i \in DOMAIN (FlushText \o ClientCalls) : (FlushText \o ClientCalls)[i] = "client"
         THEN "tool_use" ELSE "end_turn"

Flush ==
    /\ at = "search" /\ next > Len(got.uses) /\ ~SearchOn
    /\ at' = "done"
    /\ SettleLoop("success", used)
    /\ reply' = [status |-> "success", content |-> FlushText \o ClientCalls, stop |-> FlushStop]
    /\ emitter' = Present(FinishMessage(emitter, Unsent, FlushStop))
    /\ UNCHANGED <<form, round, retries, got, next, requests, shown, used, paid>>

\* The content does not have the structure the request asks for.
FlushInvalid ==
    /\ at = "search" /\ next > Len(got.uses) /\ ~SearchOn
    /\ SettleLoop("error", used)
    /\ Fails(emitter)
    /\ UNCHANGED <<used, paid>>

-----------------------------------------------------------------------------
(* The loop is dropped: its guards settle what they know.                  *)

Dropped ==
    /\ SettleLoop("error", used)
    /\ paid' = IF at = "decode" THEN paid + got.credits ELSE paid
    /\ UNCHANGED used

LeaveSearch == at # "done" /\ Dropped /\ Gone("left") /\ UNCHANGED emitter

Panics == form.stream /\ at # "done" /\ Dropped /\ Fails(emitter)

SearchNext ==
    \/ Call \/ CallRefused \/ CallFails
    \/ RoundText \/ RoundTool \/ RoundStop \/ RoundMetering \/ RoundBreaks \/ RoundEnds
    \/ SkipClientCall \/ SearchBegins \/ SearchEnds \/ SearchFails \/ NextRound
    \/ Flush \/ FlushInvalid \/ LeaveSearch \/ Panics

SearchSpec == SearchInit /\ [][SearchNext]_searchVars

-----------------------------------------------------------------------------

SearchTypeOK ==
    /\ at \in {"call", "decode", "search", "mcp", "done"}
    /\ round \in 0 .. MaxRounds /\ retries \in 0 .. MaxRetries
    /\ got.uses \in BoundedSeq({"web", "no_query", "client"}, MaxCalls)
    /\ next \in 1 .. MaxCalls + 1 /\ requests \in 0 .. MaxUses
    /\ emitter.open \subseteq 1 .. emitter.blocks /\ emitter.text \in {0} \cup emitter.open

Blocks(what) == {i \in At(emitter.log, "start") : emitter.log[i].what = what}

Shows(ev) == ev.e = "error" \/ (ev.e = "start" /\ ev.what = "result")

\* The stream is one message, whatever round breaks off, and never shows a
\* raw search: a search block is stopped, and its results follow at once
\* unless the message ends with an error.
SearchWellFormed ==
    /\ InProtocol(emitter.log)
    /\ \A i \in Blocks("server_tool_use") :
          \A k \in Of(emitter.log, "stop", emitter.log[i].i) :
             k < Len(emitter.log) => Shows(emitter.log[k + 1])

Count(s, x) == Cardinality({i \in DOMAIN s : s[i] = x})

\* A stream and a whole reply say the same: every search and its results, the
\* calls of the last round, its text, which the stream may split, and why it ends.
SearchSameAnswer ==
    reply.status = "success" /\ form.stream =>
        /\ Cardinality(Blocks("result")) = shown
        /\ Cardinality(Blocks("client")) = Count(reply.content, "client")
        /\ Count(reply.content, "text") > 0 => Blocks("text") # {}
        /\ emitter.log[Len(emitter.log) - 1].stop = reply.stop
        /\ (reply.stop = "tool_use") => Blocks("client") # {}

\* However the loop ends, its usage is recorded once, with all rounds; only a
\* request that was not let in at all leaves none.  The credentials are
\* charged for no less, and for no more but a round that was cut short.
SearchSettledOnce ==
    /\ Len(recorded) <= 1
    /\ at # "done" => recorded = <<>>
    /\ at = "done" /\ recorded = <<>> => used.rounds = 0 /\ reply.status = "error"
    /\ at = "done" /\ recorded # <<>> =>
          /\ recorded[1].rounds = used.rounds /\ recorded[1].credits = used.credits
          /\ (recorded[1].status = "success") <=> (reply.status = "success")
    /\ used.credits <= paid /\ paid <= used.credits + 1

\* decoder.rs:107 says that bytes left at the end of a stream mean that a frame
\* was cut, and websearch_loop.rs:391 that such a round is not a normal end:
\* then no reply is made of a round that was cut.
RoundsAreWhole == reply.status = "success" => ~got.torn

=============================================================================
