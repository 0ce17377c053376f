---------------------------- MODULE SseProtocol ----------------------------
(***************************************************************************)
(* What a client may rely on when it reads a streamed message: the order   *)
(* the events of SseStateManager and of WebSearchSseEmitter keep           *)
(* (anthropic/stream.rs, anthropic/websearch_loop.rs).  An event has a     *)
(* field e, its kind, and if it is about a block i, the block's number.    *)
(***************************************************************************)
EXTENDS Integers, Sequences, FiniteSets

At(log, e) == {i \in DOMAIN log : log[i].e = e}
Of(log, e, b) == {i \in At(log, e) : log[i].i = b}

\* A block is started, filled and stopped, in this order, and the blocks are
\* numbered as they start.
BlockInOrder(log, b) ==
    /\ Cardinality(Of(log, "start", b)) = 1 /\ Cardinality(Of(log, "stop", b)) <= 1
    /\ \A i \in Of(log, "start", b), j \in Of(log, "delta", b) : i < j
    /\ \A j \in Of(log, "delta", b), k \in Of(log, "stop", b) : j < k
    /\ \A i \in Of(log, "start", b), k \in Of(log, "stop", b) : i < k
    /\ \A i \in Of(log, "start", b), k \in Of(log, "start", b + 1) : i < k

\* Only calls overlap with other blocks, and not with text that came before.
OnlyCallsOverlap(log) ==
    \A i, j \in At(log, "start") :
        i < j /\ (log[i].what = "text" \/ "tool" \notin {log[i].what, log[j].what}) =>
            \E k \in Of(log, "stop", log[i].i) : k < j

\* One message_start, first; one message_delta when all blocks are stopped and
\* message_stop behind it; or an error last, never both.
InProtocol(log) ==
    /\ At(log, "message_start") = {1}
    /\ \A i \in At(log, "delta") \cup At(log, "stop") : Of(log, "start", log[i].i) # {}
    /\ \A i \in At(log, "start") : BlockInOrder(log, log[i].i)
    /\ OnlyCallsOverlap(log)
    /\ \A i \in At(log, "message_delta") :
          /\ At(log, "message_delta") = {i} /\ i = Len(log) - 1
          /\ At(log, "message_stop") = {i + 1}
          /\ \A j \in At(log, "start") : Of(log, "stop", log[j].i) # {}
    /\ At(log, "message_delta") = {} => At(log, "message_stop") = {}
    /\ \A i \in At(log, "error") : i = Len(log) /\ At(log, "message_delta") = {}

=============================================================================
