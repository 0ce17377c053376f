----------------------------- MODULE MCReplies -----------------------------
(***************************************************************************)
(* What becomes of an upstream reply: the two decoders, the task that asks *)
(* once more for a reply that only thinks, the loop that searches the web, *)
(* what calls these more than once (the execution bridge, the identity     *)
(* guard, the compaction), or holds the answer back (structured output),   *)
(* and the interfaces that translate it.  Each takes what the one inside   *)
(* may say as given, and is checked on its own (part says which one        *)
(* moves).                                                                 *)
(***************************************************************************)
EXTENDS Replies, OutputRecovery, SearchLoop, ClientApis, ExecutionBridge, IdentityGuard, StructuredReply,
        Compaction

VARIABLE part

\* How many events of each kind of reply.
EventBounds == [tags |-> 4, plain |-> 5, native |-> 5, tools |-> 4, ends |-> 4]

\* One tool of a namespace, and two of the same name.
DeclaredTools ==
    {[flat |-> "ns__exec", name |-> "exec", kind |-> "custom"],
     [flat |-> "a__run", name |-> "run", kind |-> "custom"],
     [flat |-> "b__run", name |-> "run", kind |-> "custom"]}

\* What the upstream says in a round with the execution tools.
BlocksOfRound ==
    {<<>>, <<"text">>, <<"exec">>, <<"text", "exec">>, <<"exec", "client">>, <<"client">>,
     <<"search", "text">>, <<"search", "exec">>}

\* Answers to a request for structured output: two texts around a call.
AnswersInPieces ==
    LET block(what, s) == [what |-> what, s |-> s]
        pieces == {<<>>, <<"words">>, <<"fit">>, <<"other fit">>, <<"unfit">>}
    IN  {<<>>} \cup {<<block("thinking", <<>>), block("text", p), block("tool", <<>>), block("text", q)>> :
                        p \in pieces, q \in pieces}

Conversations == [1 .. 3 -> {0, 2, 4}] \cup {<<>>, <<4>>}

PartsOf == {"reply", "recovery", "search", "apis", "bridge", "guard", "strict", "compact"}

\* The parts that are one record each.
Records == <<bridge, guard, strict, compact>>

Init ==
    /\ part \in PartsOf
    /\ ReplyInit /\ RecoveryInit /\ SearchInit /\ ApiInit
    /\ BridgeInit /\ GuardInit /\ StrictInit /\ CompactInit
    /\ part # "bridge" => ~bridge.stream /\ ~bridge.format
    /\ part # "guard" => ~guard.stream
    /\ part # "strict" => ~strict.stream /\ ~strict.shown
    /\ part # "compact" => compact.given = <<>>
    /\ part # "reply" => flavour = "ends" /\ ~live.thinks
    /\ part # "recovery" => mode = "json"
    /\ part # "search" => form = [stream |-> FALSE, at_once |-> FALSE, result |-> FALSE]

Next ==
    /\ UNCHANGED part
    /\ \/ part = "reply" /\ ReplyNext /\ UNCHANGED <<recoveryVars, searchVars, apiVars, Records>>
       \/ part = "recovery" /\ RecoveryNext /\ UNCHANGED <<replyVars, searchVars, apiVars, Records>>
       \/ part = "search" /\ SearchNext /\ UNCHANGED <<replyVars, recoveryVars, apiVars, Records>>
       \/ part = "apis" /\ ApiNext /\ UNCHANGED <<replyVars, recoveryVars, searchVars, Records>>
       \/ /\ UNCHANGED <<replyVars, recoveryVars, searchVars, apiVars>>
          /\ \/ part = "bridge" /\ BridgeNext /\ UNCHANGED <<guard, strict, compact>>
             \/ part = "guard" /\ GuardNext /\ UNCHANGED <<bridge, strict, compact>>
             \/ part = "strict" /\ StrictNext /\ UNCHANGED <<bridge, guard, compact>>
             \/ part = "compact" /\ CompactNext /\ UNCHANGED <<bridge, guard, strict>>

Spec == Init /\ [][Next]_<<part, replyVars, recoveryVars, searchVars, apiVars, Records>>

\* A client reads one message, in the order the protocol promises, whoever
\* writes it and wherever the upstream breaks off; and the parts are well typed.
RepliesWellFormed ==
    CASE part = "reply"    -> ReplyTypeOK /\ WellFormed
      [] part = "recovery" -> RecoveryTypeOK /\ OneMessage
      [] part = "search"   -> SearchTypeOK /\ SearchWellFormed
      [] part = "apis"     -> ApiTypeOK /\ ChatWellFormed /\ ResponsesWellFormed
      [] part = "bridge"   -> BridgeTypeOK /\ BridgeWellFormed
      [] part = "guard"    -> GuardTypeOK /\ GuardWellFormed
      [] part = "strict"   -> StrictTypeOK /\ StrictWellFormed
      [] part = "compact"  -> CompactTypeOK

\* A streamed answer and a whole one say the same, on every interface.
RepliesSame ==
    CASE part = "reply"  -> SameAnswer
      [] part = "search" -> SearchSameAnswer
      [] part = "apis"   -> TranslationsSame
      [] part = "bridge" -> BridgeSame
      [] part = "strict" -> StrictSame
      [] OTHER           -> TRUE

\* Every request is settled once, with all that was used for it.
RepliesSettledOnce ==
    CASE part = "reply"    -> UsageSettledOnce
      [] part = "recovery" -> RecoverySettledOnce
      [] part = "search"   -> SearchSettledOnce
      [] part = "bridge"   -> BridgeSettledOnce
      [] part = "guard"    -> GuardSettledOnce
      [] part = "compact"  -> SummarySound
      [] OTHER             -> TRUE

=============================================================================
