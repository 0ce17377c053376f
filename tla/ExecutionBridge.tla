-------------------------- MODULE ExecutionBridge --------------------------
(***************************************************************************)
(* Requests that declare the code_execution tool                           *)
(* (anthropic/code_execution.rs).  The upstream knows it as two ordinary   *)
(* tools; a round that calls one is told that nothing can be run, and the  *)
(* next round is asked for, until a round needs no such answer.  What the  *)
(* rounds said is one message to the client, which may have been streamed  *)
(* a part of it; the bridge has two minutes, and the client may leave.     *)
(***************************************************************************)
EXTENDS SseProtocol, SequencesExt

CONSTANTS
    BridgeRounds,     \* MAX_ROUNDS
    BridgeRetries,    \* MAX_CONTINUATION_RETRIES
    BridgeSearches,   \* max_uses of a web search tool in the same request
    RoundBlocks       \* bound: what the upstream may say in a round

ASSUME BridgeAssumption ==
    /\ BridgeRounds \in Nat \ {0} /\ BridgeRetries \in Nat /\ BridgeSearches \in Nat
    /\ RoundBlocks \subseteq Seq({"text", "exec", "client", "search"})

\* stream: asked for a stream; format: asked for structured output; at: call,
\* wait (to retry), publish, deliver, done; content: presentation; stop: of the
\* last round; emitted: blocks published; queue: events to send; log: events
\* sent; answered: rounds that were; searches: as their usage tells; listens:
\* the client does; reply: how run_rounds ended; counted: calls counted.
VARIABLE bridge

BridgeInit ==
    \E stream, format \in BOOLEAN :
        bridge = [stream |-> stream, format |-> format, at |-> "call", round |-> 1, retry |-> 0,
                  content |-> <<>>, stop |-> "none", emitted |-> 0, queue |-> <<>>,
                  log |-> IF stream THEN <<[e |-> "message_start"]>> ELSE <<>>,
                  answered |-> 0, searches |-> 0, listens |-> TRUE, reply |-> "none", counted |-> 0]

Progress == bridge.stream /\ ~bridge.format

\* content_events: of the blocks behind the first offset ones.
BlockEvents(content, offset) ==
    FlattenSeq([k \in 1 .. Len(content) - offset |->
        LET ev(e) == [e |-> e, i |-> offset + k, what |-> content[offset + k].what]
        IN  IF content[offset + k].what = "result" THEN <<ev("start"), ev("stop")>>
            ELSE <<ev("start"), ev("delta"), ev("stop")>>])

EndEvents(b) == <<[e |-> "message_delta", stop |-> b.stop], [e |-> "message_stop"]>>

\* Slip: the blocks that were published are sent again.
DeliverAll(b) == BlockEvents(b.content, 0) \o EndEvents(b)

\* What is left of the message when run_rounds is over.
Deliver(b) == BlockEvents(b.content, b.emitted) \o EndEvents(b)

\* run_rounds returns; a stream has yet to hear of it.
Returns(b, reply) ==
    [b EXCEPT !.reply = reply,
              !.counted = IF reply = "ok" THEN @ + 1 ELSE @,
              !.at = IF b.stream THEN "deliver" ELSE "done",
              !.queue = CASE ~b.stream     -> <<>>
                          [] b.stream /\ reply = "ok" -> Deliver(b)
                          [] OTHER         -> <<[e |-> "error"]>>]

-----------------------------------------------------------------------------

\* continuation_retry_delay: only a later round, only if told to, and only if
\* there is time.
RoundLimited ==
    /\ bridge.at = "call"
    /\ bridge' = IF bridge.round > 1 /\ bridge.retry < BridgeRetries
                 THEN [bridge EXCEPT !.at = "wait", !.retry = @ + 1]
                 ELSE Returns(bridge, "refused")

Waited == bridge.at = "wait" /\ bridge' = [bridge EXCEPT !.at = "call"]

\* Another error, or a body that cannot be used.
RoundFails == bridge.at = "call" /\ bridge' = Returns(bridge, "refused")

\* Blocks of the message as the client is shown them: a call of the execution
\* tool is the server's, and is answered at once (result_for).
PresentedBlocks(said) ==
    FlattenSeq([k \in DOMAIN said |->
        LET block(what) == [what |-> what, of |-> <<bridge.round, k>>]
        IN  IF said[k] = "exec" THEN <<block("server"), block("result")>> ELSE <<block(said[k])>>])

Searched(said) == Cardinality({k \in DOMAIN said : said[k] = "search"})

\* A round is answered: what it said joins the message, and is published.
RoundAnswers ==
    /\ bridge.at = "call"
    /\ \E said \in RoundBlocks, stop \in {"tool_use", "end_turn", "max_tokens"} :
          /\ Searched(said) <= BridgeSearches - bridge.searches
          /\ LET over == stop = "max_tokens"
                 heard == [bridge EXCEPT !.answered = @ + 1, !.searches = @ + Searched(said), !.stop = stop]
                 told == [heard EXCEPT !.content = @ \o PresentedBlocks(said)]
             IN  bridge' = IF over /\ "exec" \in ToSet(said) THEN Returns(heard, "refused")
                           ELSE [told EXCEPT !.at = "publish",
                                   !.queue = IF Progress THEN BlockEvents(told.content, bridge.emitted)
                                             ELSE <<>>]

\* Progress::publish and, when the message is ready, the stream's last events.
Publish ==
    /\ bridge.at \in {"publish", "deliver"} /\ bridge.queue # <<>> /\ bridge.listens
    /\ bridge' = [bridge EXCEPT !.log = Append(@, Head(bridge.queue)), !.queue = Tail(@)]

OfRound(what) == \E k \in DOMAIN bridge.content :
                    bridge.content[k].of[1] = bridge.round /\ bridge.content[k].what = what

\* The round is published: the message is ready, or the next round is asked
\* for, with what the tools said.
RoundOver ==
    /\ bridge.at = "publish" /\ bridge.queue = <<>>
    /\ LET b == [bridge EXCEPT !.emitted = IF Progress THEN Len(bridge.content) ELSE @,
                               !.stop = IF OfRound("server") THEN "tool_use" ELSE @]
       IN  IF ~OfRound("server") \/ OfRound("client")
           THEN bridge' \in {Returns(b, "ok")} \cup
                    (IF b.format /\ b.stop = "end_turn" THEN {Returns(b, "refused")} ELSE {})
           ELSE bridge' = IF b.round = BridgeRounds THEN Returns(b, "refused")
                          ELSE [b EXCEPT !.at = "call", !.round = @ + 1, !.retry = 0]

\* TIMEOUT, or a panic, wherever the rounds are.
BridgeTimesOut ==
    /\ bridge.at \in {"call", "wait", "publish"}
    /\ bridge' = Returns(bridge, "timeout")

Delivered ==
    /\ bridge.at = "deliver" /\ bridge.queue = <<>>
    /\ bridge' = [bridge EXCEPT !.at = "done"]

\* The client leaves; whatever runs for it is dropped, sooner or later.
BridgeLeft ==
    /\ bridge.listens /\ bridge.at # "done"
    /\ bridge' = [bridge EXCEPT !.listens = FALSE]

BridgeDropped ==
    /\ ~bridge.listens /\ bridge.at # "done"
    /\ bridge' = [bridge EXCEPT !.at = "done"]

BridgeNext ==
    \/ RoundLimited \/ Waited \/ RoundFails \/ RoundAnswers \/ Publish \/ RoundOver
    \/ BridgeTimesOut \/ Delivered \/ BridgeLeft \/ BridgeDropped

BridgeSpec == BridgeInit /\ [][BridgeNext]_bridge

-----------------------------------------------------------------------------

BridgeTypeOK ==
    /\ bridge.at \in {"call", "wait", "publish", "deliver", "done"}
    /\ bridge.round \in 1 .. BridgeRounds /\ bridge.retry \in 0 .. BridgeRetries
    /\ bridge.emitted \in 0 .. Len(bridge.content) /\ bridge.answered \in 0 .. BridgeRounds

Completes(log) == log # <<>> /\ Last(log).e = "message_stop"

\* A streamed message is one message, whatever rounds it is made of and
\* wherever it breaks off; no call of the execution tool reaches the client as
\* one it should answer, and each is answered by the block behind it.
BridgeWellFormed ==
    /\ bridge.stream /\ (Completes(bridge.log) \/ At(bridge.log, "message_delta") = {}) =>
          InProtocol(bridge.log)
    /\ bridge.at = "done" /\ bridge.listens /\ bridge.stream =>
          Last(bridge.log).e = (IF bridge.reply = "ok" THEN "message_stop" ELSE "error")
    /\ \A k \in DOMAIN bridge.content :
          /\ bridge.content[k].what # "exec"
          /\ bridge.content[k].what = "server" =>
                k < Len(bridge.content) /\ bridge.content[k + 1] = [bridge.content[k] EXCEPT !.what = "result"]

\* Streamed, the message has the blocks it has as a whole, each once.
BridgeSame ==
    Completes(bridge.log) =>
        /\ Cardinality(At(bridge.log, "start")) = Len(bridge.content)
        /\ \A j \in At(bridge.log, "start") : bridge.log[j].what = bridge.content[bridge.log[j].i].what

\* The rounds are one call of the key, if they end well, and they search no
\* more often together than the request allows.
BridgeSettledOnce ==
    /\ bridge.counted = IF bridge.reply = "ok" THEN 1 ELSE 0
    /\ bridge.searches <= BridgeSearches
    /\ bridge.searches = Cardinality({k \in DOMAIN bridge.content : bridge.content[k].what = "search"})
          \/ bridge.reply = "refused"

=============================================================================
