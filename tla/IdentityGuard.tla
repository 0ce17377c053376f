--------------------------- MODULE IdentityGuard ---------------------------
(***************************************************************************)
(* Questions about the assistant itself (anthropic/identity_guard.rs).  A  *)
(* small call of the upstream classifies the question; then the request is *)
(* passed on, answered here, or answered as a whole and reviewed by a third *)
(* call.  The usage of all calls is captured, and settled once, when the   *)
(* request ends or is dropped (Settlement); a call that is dropped settles *)
(* first, because it is dropped first.                                     *)
(***************************************************************************)
EXTENDS SseProtocol, SequencesExt

\* stream: asked for a stream; at: classify, pass, flow (an inner stream is
\* passed on), answer (as a whole), review, deliver, done; class: what the
\* question is; inner: the inner stream; doubt: sentences are to be reviewed,
\* or were; capture: calls recorded; queue: events to send; log: events sent;
\* shown: the usage the client was told; settled: records of the request;
\* listens: the client does; reply: how it ends.
VARIABLE guard

GuardInit ==
    \E stream \in BOOLEAN :
        guard = [stream |-> stream, at |-> "classify", class |-> "none", inner |-> "none",
                 doubt |-> "none", capture |-> <<>>, queue |-> <<>>,
                 log |-> IF stream THEN <<[e |-> "message_start"]>> ELSE <<>>,
                 shown |-> <<>>, settled |-> <<>>, listens |-> TRUE, reply |-> "none"]

\* UsageCapture::record, by the call that ends; or by none, if it failed early.
Captured(g, call) == [g EXCEPT !.capture = Append(@, call)]
MaybeCaptured(g, call) == {g, Captured(g, call)}

\* The inner stream records before its last events, or when it is dropped.
InnerDropped(g) ==
    IF g.inner \in {"begun", "open"} THEN [Captured(g, "answer") EXCEPT !.inner = "dropped"] ELSE g

\* Settlement::finish
Settles(g, ok) ==
    [g EXCEPT !.settled = IF @ = <<>> THEN <<[of |-> g.capture, ok |-> ok]>> ELSE @, !.at = "done"]

\* An answer that is no success: its error is the reply.
Refuses(g) ==
    Settles([g EXCEPT !.reply = "error", !.log = IF g.stream THEN Append(@, [e |-> "error"]) ELSE @], FALSE)

\* A whole answer: its usage becomes that of all calls (merge_json_usage).
RepliesWhole(g) ==
    IF g.stream
    THEN [g EXCEPT !.at = "deliver", !.reply = "ok",
                   !.queue = <<[e |-> "start", i |-> 1, what |-> "text"], [e |-> "stop", i |-> 1],
                               [e |-> "message_delta"], [e |-> "message_stop"]>>]
    ELSE Settles([g EXCEPT !.reply = "ok", !.shown = g.capture], TRUE)

-----------------------------------------------------------------------------
(* check: a call whose answer must be whole, in time, and what was asked    *)
(* for; there are so many permits, and a wait for one is short.             *)

Classified ==
    /\ guard.at = "classify"
    /\ \E class \in {"pass", "local", "review"} :
          LET g == [Captured(guard, "classify") EXCEPT !.class = class]
          IN  guard' = CASE class = "pass"  -> [g EXCEPT !.at = "pass"]
                         [] class = "local" -> RepliesWhole(g)
                         [] OTHER           -> [g EXCEPT !.at = "answer"]

CheckFails ==
    /\ guard.at \in {"classify", "review"}
    /\ \E g \in MaybeCaptured(guard, guard.at) : guard' = Refuses(g)

-----------------------------------------------------------------------------
(* The request is passed on; a stream is read event by event.               *)

PassedWhole ==
    /\ guard.at = "pass"
    /\ \/ ~guard.stream /\ guard' = RepliesWhole(Captured(guard, "answer"))
       \/ guard.stream /\ guard' = [guard EXCEPT !.at = "flow", !.inner = "begun"]
       \/ \E g \in MaybeCaptured(guard, "answer") : guard' = Refuses(g)

Tells(g, ev) == [g EXCEPT !.log = Append(@, ev)]

\* stream_response: the inner message_start is left out, message_delta is
\* given the usage of all calls.
Flow ==
    /\ guard.at = "flow" /\ guard.listens
    /\ \/ guard.inner = "begun" /\ guard' = [guard EXCEPT !.inner = "open"]
       \/ /\ guard.inner = "open" /\ At(guard.log, "start") = {}
          /\ guard' = Tells(Tells(guard, [e |-> "start", i |-> 1, what |-> "text"]), [e |-> "stop", i |-> 1])
       \/ /\ guard.inner = "open"
          /\ LET g == [Captured(guard, "answer") EXCEPT !.inner = "ending"]
             IN  guard' = [Tells(g, [e |-> "message_delta"]) EXCEPT !.shown = g.capture]
       \/ guard.inner = "ending" /\ guard' = [Tells(guard, [e |-> "message_stop"]) EXCEPT !.inner = "ended"]

\* Slip: the request is settled before the inner stream is dropped.
FlowSettledEarly ==
    /\ guard.at = "flow" /\ guard.listens
    /\ guard.inner # "ended" /\ guard' = InnerDropped(Refuses(guard))

\* The inner stream ends: well, with an error of its own, or too early, or it
\* cannot be read.  It is dropped before the request is settled.
FlowEnds ==
    /\ guard.at = "flow" /\ guard.listens
    /\ \/ guard.inner = "ended" /\ guard' = Settles([guard EXCEPT !.reply = "ok"], TRUE)
       \/ guard.inner # "ended" /\ guard' = Refuses(InnerDropped(guard))

-----------------------------------------------------------------------------
(* A whole answer, and its review (audit_response).                         *)

AnsweredWhole ==
    /\ guard.at = "answer"
    /\ \/ guard' = RepliesWhole(Captured(guard, "answer"))
       \/ guard' = [Captured(guard, "answer") EXCEPT !.at = "review", !.doubt = "open"]
       \/ \E g \in MaybeCaptured(guard, "answer") : guard' = Refuses(g)

\* apply_review: all edits concern sentences that were asked about, each once,
\* and none that code is a part of; or none is made.
Reviewed ==
    /\ guard.at = "review"
    /\ \E edits \in SUBSET {"plain", "with code", "unasked"} :
          LET g == Captured(guard, "review")
          IN  guard' = IF edits \subseteq {"plain"} THEN RepliesWhole([g EXCEPT !.doubt = "settled"])
                       ELSE Refuses(g)

-----------------------------------------------------------------------------

DeliverGuarded ==
    /\ guard.at = "deliver" /\ guard.listens
    /\ IF guard.queue = <<>> THEN guard' = Settles(guard, TRUE)
       ELSE guard' = [guard EXCEPT !.log = Append(@, Head(guard.queue)), !.queue = Tail(@),
                                   !.shown = IF Head(guard.queue).e = "message_delta" THEN guard.capture
                                             ELSE @]

GuardLeft ==
    /\ guard.listens /\ guard.at # "done"
    /\ guard' = [guard EXCEPT !.listens = FALSE]

\* The task returns, or the handler is dropped: calls first, Settlement last.
\* A call that may be made twice has a settlement of its own.
GuardDropped ==
    /\ ~guard.listens /\ guard.at # "done"
    /\ \E g \in IF guard.at \in {"pass", "answer"} THEN MaybeCaptured(guard, "answer")
                ELSE {InnerDropped(guard)} :
          guard' = Settles(g, FALSE)

GuardNext ==
    \/ Classified \/ CheckFails \/ PassedWhole \/ Flow \/ FlowEnds \/ AnsweredWhole \/ Reviewed
    \/ DeliverGuarded \/ GuardLeft \/ GuardDropped

GuardSpec == GuardInit /\ [][GuardNext]_guard

-----------------------------------------------------------------------------

GuardTypeOK ==
    /\ guard.at \in {"classify", "pass", "flow", "answer", "review", "deliver", "done"}
    /\ guard.inner \in {"none", "begun", "open", "ending", "ended", "dropped"}
    /\ Len(guard.capture) <= 3 /\ Len(guard.settled) <= 1

\* The client reads one message or an error, and no sentence in doubt.
GuardWellFormed ==
    LET told == At(guard.log, "message_delta") = {} \/ At(guard.log, "message_stop") # {}
    IN  /\ guard.stream /\ told => InProtocol(guard.log)
        /\ guard.at = "done" /\ guard.listens /\ guard.stream =>
              Last(guard.log).e = (IF guard.reply = "ok" THEN "message_stop" ELSE "error")
        /\ At(guard.log, "start") # {} \/ guard.shown # <<>> => guard.doubt # "open"

\* However it ends, the request is settled once, with every call that was made
\* for it; the client is told the usage that is settled, and it counts as a
\* success only if all of the answer was sent.
GuardSettledOnce ==
    /\ guard.at = "done" <=> guard.settled # <<>>
    /\ guard.settled # <<>> =>
          /\ guard.settled[1].of = guard.capture
          /\ guard.shown # <<>> => guard.shown = guard.capture
          /\ guard.settled[1].ok /\ guard.stream => Last(guard.log).e = "message_stop"
    /\ \A k, n \in DOMAIN guard.capture : guard.capture[k] = guard.capture[n] => k = n

=============================================================================
