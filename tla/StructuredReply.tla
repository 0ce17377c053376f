-------------------------- MODULE StructuredReply --------------------------
(***************************************************************************)
(* Requests for structured output (anthropic/structured_output.rs).  The   *)
(* answer is made as a whole, validated, and presented; a client that      *)
(* asked for a stream gets it as one.  If the answer takes longer than a   *)
(* grace period the stream is begun without it: from then on an error can  *)
(* only be an event.                                                       *)
(***************************************************************************)
EXTENDS SseProtocol, SequencesExt

CONSTANTS
    Answers,       \* bound: contents the upstream may answer with
    Presentation,  \* the value that presents the gateway
    Conforming     \* the values the schema admits

ASSUME AnswersAssumption ==
    Answers \subseteq Seq([what : {"thinking", "text", "tool"}, s : Seq(STRING)])

\* stream: asked for a stream; shown: the key has its identity presented;
\* at: work, deliver, done; begun: the stream was; made: the answer; queue:
\* events to send; log: events sent; http: the status, if the stream was not
\* begun; content: of an answer without stream; listens: the client does.
VARIABLE strict

TextOf(content) == FlattenSeq([k \in DOMAIN content |-> IF content[k].what = "text" THEN content[k].s ELSE <<>>])

TextsIn(content) == {k \in DOMAIN content : content[k].what = "text"}

\* One text, in the place of the first.
Replaced(content, text) ==
    LET first == CHOOSE k \in TextsIn(content) : \A n \in TextsIn(content) : k <= n
    IN  FlattenSeq([k \in DOMAIN content |->
            CASE k = first -> <<[what |-> "text", s |-> text]>>
              [] k \in TextsIn(content) \ {first} -> <<>>
              [] OTHER -> <<content[k]>>])

\* rewrite_content: the text becomes the last value of it that conforms, if
\* there is one (extract_conforming_json).
Fitted(content) ==
    LET text == TextOf(content)
        fits == {k \in DOMAIN text : text[k] \in Conforming}
        last == CHOOSE k \in fits : \A n \in fits : n <= k
    IN  IF fits = {} THEN content ELSE Replaced(content, <<text[last]>>)

\* validate: only an answer that ended by itself has to conform.
Valid(content, stop) ==
    stop = "end_turn" => \E v \in Conforming : TextOf(content) = <<v>>

\* present_identity: if the schema admits it.
Presented(content, stop) ==
    IF strict.shown /\ stop = "end_turn" /\ Presentation \in Conforming /\ Valid(content, stop)
    THEN Replaced(content, <<Presentation>>) ELSE content

\* sse_events, without message_start.
MessageEvents(content, stop) ==
    FlattenSeq([k \in DOMAIN content |->
        LET ev(e) == [e |-> e, i |-> k, what |-> content[k].what, s |-> content[k].s]
        IN  <<ev("start"), ev("delta"), ev("stop")>>])
      \o <<[e |-> "message_delta", stop |-> stop], [e |-> "message_stop"]>>

Start == [e |-> "message_start"]
Failure == [e |-> "error"]

StrictInit ==
    \E stream, shown \in BOOLEAN :
        strict = [stream |-> stream, shown |-> shown, at |-> "work", begun |-> FALSE,
                  queue |-> <<>>, log |-> <<>>, http |-> "none", content |-> <<>>,
                  stop |-> "none", listens |-> TRUE]

-----------------------------------------------------------------------------

\* The client of a stream is told what the work came to; before the stream is
\* begun a failure has a status of its own.
TellsStrict(s, events, status) ==
    IF s.begun THEN [s EXCEPT !.at = "deliver", !.queue = events]
    ELSE IF s.stream /\ status = "ok" THEN [s EXCEPT !.at = "deliver", !.queue = <<Start>> \o events, !.http = status]
    ELSE [s EXCEPT !.at = "done", !.http = status]

\* Slip: an answer that does not conform is returned as it is.
MadeUnvalidated(content, stop) ==
    LET fit == IF stop = "end_turn" THEN Fitted(content) ELSE content
    IN  [ok |-> TRUE, content |-> Presented(fit, stop)]

\* The answer of the upstream is rewritten, validated and presented.
Made(content, stop) ==
    LET fit == IF stop = "end_turn" THEN Fitted(content) ELSE content
    IN  [ok |-> Valid(fit, stop), content |-> Presented(fit, stop)]

WorkDone ==
    /\ strict.at = "work"
    /\ \E content \in Answers, stop \in {"end_turn", "tool_use", "max_tokens"} :
          LET made == Made(content, stop)
              s == [strict EXCEPT !.content = made.content, !.stop = stop]
          IN  strict' = IF made.ok THEN TellsStrict(s, MessageEvents(made.content, stop), "ok")
                        ELSE TellsStrict(s, <<Failure>>, "refused")

\* An error of the upstream, a panic, or a body that cannot be used.
WorkFails == strict.at = "work" /\ strict' = TellsStrict(strict, <<Failure>>, "refused")

\* The grace period is over.
GraceOver ==
    /\ strict.at = "work" /\ strict.stream /\ ~strict.begun /\ strict.listens
    /\ strict' = [strict EXCEPT !.begun = TRUE, !.log = <<Start>>]

StrictSend ==
    /\ strict.at = "deliver" /\ strict.listens
    /\ strict' = IF strict.queue = <<>> THEN [strict EXCEPT !.at = "done"]
                 ELSE [strict EXCEPT !.log = Append(@, Head(strict.queue)), !.queue = Tail(@)]

StrictLeft ==
    /\ strict.at # "done" /\ strict.listens
    /\ strict' = [strict EXCEPT !.listens = FALSE, !.at = "done"]

StrictNext == WorkDone \/ WorkFails \/ GraceOver \/ StrictSend \/ StrictLeft

StrictSpec == StrictInit /\ [][StrictNext]_strict

-----------------------------------------------------------------------------

StrictTypeOK ==
    /\ strict.at \in {"work", "deliver", "done"} /\ strict.http \in {"none", "ok", "refused"}
    /\ strict.begun => strict.stream

StrictEnded == strict.at = "done" /\ strict.listens

\* The client of a stream reads one message or an error, and a client that is
\* told a status is told it before anything else.
StrictWellFormed ==
    /\ strict.log # <<>> /\ (StrictEnded \/ At(strict.log, "message_delta") = {}) => InProtocol(strict.log)
    /\ StrictEnded /\ strict.log # <<>> => Last(strict.log).e \in {"message_stop", "error"}
    /\ strict.begun => strict.http = "none"
    /\ strict.http = "refused" => strict.log = <<>>

\* Streamed or not, begun early or not, an answer that ended by itself is one
\* value the schema admits; and calls and thinking are left as they were.
StrictSame ==
    /\ StrictEnded /\ (strict.http = "ok" \/ At(strict.log, "message_stop") # {}) =>
          /\ Valid(strict.content, strict.stop)
          /\ \E content \in Answers :
                SelectSeq(content, LAMBDA b : b.what # "text")
                  = SelectSeq(strict.content, LAMBDA b : b.what # "text")
    /\ StrictEnded /\ At(strict.log, "message_stop") # {} =>
          strict.content = [i \in 1 .. Cardinality(At(strict.log, "start")) |->
              LET j == CHOOSE j \in At(strict.log, "delta") : strict.log[j].i = i
              IN  [what |-> strict.log[j].what, s |-> strict.log[j].s]]

=============================================================================
