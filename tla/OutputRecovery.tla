--------------------------- MODULE OutputRecovery ---------------------------
(***************************************************************************)
(* A reply that only thinks is asked for once more, before the client has  *)
(* seen anything of it (anthropic/output_recovery.rs).  A task reads the   *)
(* inner answer, holds its events until one of them is visible, and passes *)
(* them on; the usage of both attempts is settled together, when the task  *)
(* ends or is dropped (identity_guard.rs, Settlement and UsageCapture).    *)
(* What the inner answer looks like is LiveReply's and WholeReply's.       *)
(***************************************************************************)
EXTENDS Integers, SequencesExt, FiniteSets

CONSTANTS MaxPassed    \* bound: events held and sent before the answer ends

ASSUME PassedAssumption == MaxPassed \in Nat

VARIABLES
    mode,        \* stream or json
    task,        \* read, ask (for the second attempt) or done
    attempt,     \* 1 or 2
    source,      \* the inner answer: what it has sent, or dropped
    held,        \* events held back
    committed,   \* the client gets what arrives
    sent,        \* what the client was sent: events, their attempt, the usage shown
    client,      \* TRUE while it listens
    capture,     \* usage records of the attempts
    settled      \* usage records of the request

recoveryVars == <<mode, task, attempt, source, held, committed, sent, client, capture, settled>>

Attempts(records) == {records[i].of : i \in DOMAIN records}

Ev(e) == [e |-> e, of |-> attempt, used |-> {}]

RecoveryInit ==
    /\ mode \in {"stream", "json"}
    /\ task = "read" /\ attempt = 1 /\ source = "begin"
    /\ held = <<>> /\ committed = FALSE /\ sent = <<>>
    /\ client = TRUE /\ capture = <<>> /\ settled = <<>>

-----------------------------------------------------------------------------
(* The inner answer.  It records its usage before its last events leave,   *)
(* or when it is dropped.                                                  *)

\* Which events may follow.
Follows(e) ==
    CASE e = "message_start" -> source = "begin"
      [] e = "thinking"      -> source \in {"started", "visible"} /\ Len(held) + Len(sent) < MaxPassed
      [] e = "visible"       -> source = "started"
      [] e = "no_output"     -> source = "started"
      [] e = "error"         -> source \in {"started", "visible"}
      [] e = "message_delta" -> source \in {"started", "visible"}
      [] e = "message_stop"  -> source = "ending"

After(e) ==
    CASE e \in {"message_start", "thinking"} -> IF source = "visible" THEN source ELSE "started"
      [] e = "visible"                       -> "visible"
      [] e = "message_delta"                 -> "ending"

Recorded == source \in {"ending", "dropped"}

\* UsageCapture::record: the record of an attempt that ends or is dropped now.
Closing == IF Recorded THEN capture ELSE Append(capture, [of |-> attempt])

\* Settlement::finish, once.
Settle(records, ok) ==
    IF settled = <<>> THEN <<[of |-> Attempts(records), ok |-> ok]>> ELSE settled

-----------------------------------------------------------------------------
(* stream_response. *)

Reading == mode = "stream" /\ task = "read" /\ client

\* The task is over.  The source is dropped first, so that it has recorded;
\* what did not end well ends with an error, unless one was sent.
Finish(last, told, ok) ==
    /\ task' = "done" /\ source' = "dropped" /\ held' = <<>>
    /\ capture' = Closing
    /\ settled' = Settle(capture', ok)
    /\ sent' = IF ~client THEN sent
               ELSE sent \o last \o (IF ok \/ told THEN <<>> ELSE <<Ev("error")>>)
    /\ UNCHANGED <<mode, attempt, committed, client>>

\* An event that is held or passed on, and does not end the answer; the last
\* but one is given the usage of all attempts.
Pass ==
    /\ Reading
    /\ \E e \in {"message_start", "thinking", "visible", "message_delta"} :
          /\ Follows(e)
          /\ source' = After(e)
          /\ capture' = IF e = "message_delta" THEN Closing ELSE capture
          /\ committed' = (committed \/ e = "visible")
          /\ LET ev == IF e = "message_delta" THEN [Ev(e) EXCEPT !.used = Attempts(capture')] ELSE Ev(e)
                 all == Append(held, ev)
             IN  /\ held' = IF committed' THEN <<>> ELSE all
                 /\ sent' = IF committed' THEN sent \o all ELSE sent
    /\ UNCHANGED <<mode, task, attempt, client, settled>>

\* message_stop, or an error: both release what is held and end the answer.
PassEnd ==
    /\ Reading
    /\ \E e \in {"message_stop", "error"} :
          /\ Follows(e)
          /\ Finish(Append(held, Ev(e)), e = "error", e = "message_stop")

\* The answer has thought and nothing else: once more, or give up.
Recover ==
    /\ Reading /\ Follows("no_output") /\ ~committed
    /\ IF attempt = 1
       THEN /\ task' = "ask" /\ source' = "dropped"
            /\ capture' = Closing
            /\ UNCHANGED <<mode, attempt, held, committed, sent, client, settled>>
       ELSE Finish(<<Ev("no_output")>>, TRUE, FALSE)

\* The source ends too early or breaks, a frame cannot be parsed, or what is
\* held has grown too large.
BreakOff ==
    /\ Reading /\ source # "ending"
    /\ Finish(<<>>, FALSE, FALSE)

\* Slip: what the first attempt has thought is still held.
AskedKeeping ==
    /\ mode = "stream" /\ task = "ask" /\ client
    /\ task' = "read" /\ attempt' = 2 /\ source' = "begin"
    /\ committed' = FALSE
    /\ UNCHANGED <<mode, held, sent, client, capture, settled>>

\* The request for the second attempt: what was held of the first is gone.
Asked ==
    /\ mode = "stream" /\ task = "ask" /\ client
    /\ task' = "read" /\ attempt' = 2 /\ source' = "begin"
    /\ held' = <<>> /\ committed' = FALSE
    /\ UNCHANGED <<mode, sent, client, capture, settled>>

AskFails ==
    /\ mode = "stream" /\ task = "ask" /\ client
    /\ Finish(<<Ev("error")>>, TRUE, FALSE)

Leave ==
    /\ client /\ client' = FALSE
    /\ UNCHANGED <<mode, task, attempt, source, held, committed, sent, capture, settled>>

\* The task sees that its client has left, at its next wait or send.
Notice ==
    /\ mode = "stream" /\ task # "done" /\ ~client
    /\ Finish(<<>>, TRUE, FALSE)

-----------------------------------------------------------------------------
(* json_response. *)

\* The collected answer of an attempt; one that failed early has no record.
Answer ==
    /\ mode = "json" /\ task = "read" /\ client
    /\ \E e \in {"message_stop", "error", "no_output"} :
          /\ capture' \in {Append(capture, [of |-> attempt])} \cup (IF e = "error" THEN {capture} ELSE {})
          /\ IF e = "no_output" /\ attempt = 1
             THEN attempt' = 2 /\ UNCHANGED <<task, sent, settled>>
             ELSE /\ task' = "done"
                  /\ sent' = <<[Ev(e) EXCEPT !.used = Attempts(capture')]>>
                  /\ settled' = Settle(capture', e = "message_stop")
                  /\ UNCHANGED attempt
    /\ UNCHANGED <<mode, source, held, committed, client>>

\* The handler is dropped with its client; so is the attempt it waits for.
Abandoned ==
    /\ mode = "json" /\ task = "read" /\ ~client
    /\ task' = "done"
    /\ settled' = Settle(capture, FALSE)
    /\ UNCHANGED <<mode, attempt, source, held, committed, sent, client, capture>>

RecoveryNext ==
    \/ Pass \/ PassEnd \/ Recover \/ BreakOff \/ Asked \/ AskFails \/ Leave \/ Notice
    \/ Answer \/ Abandoned

RecoverySpec == RecoveryInit /\ [][RecoveryNext]_recoveryVars

-----------------------------------------------------------------------------

Ends == {i \in DOMAIN sent : sent[i].e \in {"message_stop", "error", "no_output"}}

\* The client sees one message of one attempt, begun before it goes on and
\* ended once; nothing of an attempt that was thrown away.
OneMessage ==
    /\ \A i, j \in DOMAIN sent : sent[i].of = sent[j].of
    /\ \A i \in DOMAIN sent : sent[i].e = "message_start" => i = 1
    /\ Ends \subseteq {Len(sent)}
    /\ mode = "stream" /\ Len(sent) > 1 => sent[1].e = "message_start"
    /\ task = "done" /\ client => Ends # {}

\* Both attempts are paid for in one record, whoever ends the request, and
\* the usage the client is shown is the usage that is recorded.
RecoverySettledOnce ==
    /\ Len(settled) <= 1 /\ (settled # <<>> <=> task = "done")
    /\ \A i, j \in DOMAIN capture : capture[i].of = capture[j].of => i = j
    /\ settled # <<>> => /\ settled[1].of = Attempts(capture)
                         /\ \A i \in DOMAIN sent : sent[i].used # {} => sent[i].used = settled[1].of
    /\ settled # <<>> /\ settled[1].ok => attempt \in settled[1].of /\ (attempt = 2 => 1 \in settled[1].of)

RecoveryTypeOK ==
    /\ mode \in {"stream", "json"} /\ task \in {"read", "ask", "done"} /\ attempt \in {1, 2}
    /\ source \in {"begin", "started", "visible", "ending", "dropped"}
    /\ Len(held) <= MaxPassed + 2 /\ committed \in BOOLEAN /\ client \in BOOLEAN
    /\ Attempts(capture) \subseteq {1, 2}

=============================================================================
