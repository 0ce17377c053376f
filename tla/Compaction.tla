----------------------------- MODULE Compaction -----------------------------
(***************************************************************************)
(* A Responses request whose last item is a compaction_trigger             *)
(* (anthropic/responses_compaction.rs): the upstream is asked for a        *)
(* summary of the conversation, once more with shorter tool outputs if it  *)
(* does not fit, and once more without tools if a call is all it answers.  *)
(***************************************************************************)
EXTENDS Integers, Sequences, FiniteSets

\* given: lengths of the tool outputs, oldest first; outputs: as they are sent;
\* asks: the requests made (bounded: outputs are cut; inert: without tools); last: the last answer;
\* paid: the attempts that answered; outcome: how it ended, with the attempt a
\* summary is of; usage: the attempts the client is told of; counted: calls.
VARIABLE compact

CONSTANTS
    OutputBudget,    \* TOOL_OUTPUT_RETRY_TOTAL_BUDGET_BYTES
    OutputFloor,     \* TOOL_OUTPUT_RETRY_MIN_BYTES
    OutputLengths    \* bound: lengths of the tool outputs of a conversation

ASSUME BudgetAssumption ==
    OutputBudget \in Nat /\ OutputFloor \in Nat /\ OutputLengths \subseteq Seq(Nat)

NoAnswer == [stop |-> "none", calls |-> FALSE, text |-> FALSE]

CompactInit ==
    \E outputs \in OutputLengths :
        compact = [given |-> outputs, outputs |-> outputs, asks |-> <<[bounded |-> FALSE, inert |-> FALSE]>>,
                   last |-> NoAnswer, paid |-> {}, outcome |-> [what |-> "none", of |-> 0],
                   usage |-> {}, counted |-> 0]

Total(outputs) == LET sum[k \in 0 .. Len(outputs)] == IF k = 0 THEN 0 ELSE sum[k - 1] + outputs[k]
                  IN  sum[Len(outputs)]

Lesser(m, n) == IF m <= n THEN m ELSE n

\* bound_tool_outputs_for_retry: what is too much is taken from the oldest
\* outputs, none of which falls below an equal share of the budget.
Bounded(outputs) ==
    LET share == Lesser(OutputFloor, OutputBudget \div Len(outputs))
        \* What is still too much when the first k outputs were cut.
        over[k \in 0 .. Len(outputs)] ==
            IF k = 0 THEN Total(outputs) - OutputBudget
            ELSE over[k - 1] - Lesser(over[k - 1], outputs[k] - Lesser(share, outputs[k]))
    IN  IF outputs = <<>> \/ Total(outputs) <= OutputBudget THEN outputs
        ELSE [k \in DOMAIN outputs |->
                outputs[k] - Lesser(over[k - 1], outputs[k] - Lesser(share, outputs[k]))]

Now == Len(compact.asks)
Busy == compact.outcome.what = "none"

Asks(c, bounded, inert) == [c EXCEPT !.asks = Append(@, [bounded |-> bounded, inert |-> inert])]

\* Slip: whatever has a text is a summary.
ConcludedUnchecked(c) ==
    [c EXCEPT !.outcome = IF c.last.text THEN [what |-> "complete", of |-> Len(c.asks)]
                          ELSE [what |-> "failed", of |-> 0],
              !.usage = c.paid, !.counted = IF c.last.text THEN @ + 1 ELSE @]

\* validate, and the end of handle: only a summary counts as a call.
Concluded(c) ==
    LET what == CASE c.last.stop = "max_tokens"         -> "incomplete"
                  [] c.last.stop \in {"none", "window"} -> "overflow"
                  [] c.last.stop = "refusal"            -> "refused"
                  [] OTHER -> IF c.last.calls \/ ~c.last.text THEN "failed" ELSE "complete"
    IN  [c EXCEPT !.outcome = [what |-> what, of |-> IF what = "complete" THEN Len(c.asks) ELSE 0],
                  !.usage = c.paid,
                  !.counted = IF what = "complete" THEN @ + 1 ELSE @]

\* What follows an attempt that did not fit: shorter outputs, if there are any
\* to be shortened; what follows a call: no tools.
Continued(c) ==
    LET ask == c.asks[Len(c.asks)]
        cut == Bounded(c.outputs)
    IN  IF Len(c.asks) = 1 /\ c.last.stop \in {"none", "window"} /\ cut # c.outputs
        THEN Asks([c EXCEPT !.outputs = cut], TRUE, FALSE)
        ELSE IF ~ask.inert /\ c.last.calls THEN Asks(c, ask.bounded, TRUE)
        ELSE Concluded(c)

\* run_attempt answers.
SummaryAnswers ==
    /\ Busy
    /\ \E stop \in {"end_turn", "tool_use", "max_tokens", "window", "refusal"}, calls, text \in BOOLEAN :
          compact' = Continued([compact EXCEPT !.last = [stop |-> stop, calls |-> calls, text |-> text],
                                               !.paid = @ \cup {Now}])

\* The upstream refuses the request because it is too long.
SummaryTooLong == Busy /\ compact' = Continued([compact EXCEPT !.last = NoAnswer])

\* Any other error is the client's answer.
SummaryFails == Busy /\ compact' = [compact EXCEPT !.outcome = [what |-> "error", of |-> 0]]

CompactNext == SummaryAnswers \/ SummaryTooLong \/ SummaryFails

CompactSpec == CompactInit /\ [][CompactNext]_compact

-----------------------------------------------------------------------------

CompactTypeOK ==
    /\ Now \in 1 .. 3 /\ compact.paid \subseteq 1 .. Now /\ compact.counted \in 0 .. 1

\* A conversation is only ever replaced by a whole summary: one that was not
\* cut, has no call, and was asked for last.  It is one call of the key, and
\* the client is told of all attempts.  Outputs are cut only after a request
\* that was too long, and then fit the budget, the newest last.
SummarySound ==
    LET outcome == compact.outcome
    IN  /\ outcome.what = "complete" =>
              /\ outcome.of = Now /\ compact.last.text /\ ~compact.last.calls
              /\ compact.last.stop \notin {"none", "max_tokens", "window", "refusal"}
        /\ compact.counted = IF outcome.what = "complete" THEN 1 ELSE 0
        /\ outcome.what \in {"complete", "incomplete", "overflow", "refused", "failed"} =>
              compact.usage = compact.paid
        /\ Cardinality({k \in DOMAIN compact.asks : compact.asks[k].inert}) <= 1
        /\ \A k \in DOMAIN compact.asks : compact.asks[k].inert => k = Now
        /\ ~compact.asks[Now].bounded => compact.outputs = compact.given
        /\ compact.asks[Now].bounded =>
              /\ Total(compact.outputs) <= OutputBudget
              /\ \A k \in DOMAIN compact.outputs \ {1} :
                    compact.outputs[k] < compact.given[k] => compact.outputs[k - 1] <= OutputFloor

=============================================================================
