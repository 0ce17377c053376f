-------------------------- MODULE RequestConverter --------------------------
(***************************************************************************)
(* From the messages of a client to what the upstream is sent              *)
(* (src/anthropic/converter.rs).  A client sends its whole conversation    *)
(* with every request; the upstream knows questions and answers in turn,   *)
(* one result for every tool call, and pictures beside the text.  The      *)
(* state is the conversation; a request is the conversion of what there is *)
(* of it.  Wording, schemas and sizes are left out; what a text piece says *)
(* is kept as far as two of them are compared.                             *)
(***************************************************************************)
EXTENDS Integers, SequencesExt

CONSTANTS
    Pictures,        \* pictures, by their base64
    Turns,           \* flavour |-> the messages a client may add
    Declared,        \* tools the request declares
    NameOf,          \* tool call |-> the tool it calls
    MaxMessages      \* bound: the length of a conversation

ASSUME ConverterAssumption == MaxMessages \in Nat /\ Pictures \cap {"a", "b"} = {}

VARIABLES
    conversation,    \* the client's messages: role and blocks
    kind,            \* which messages it is made of
    keepsThinking    \* model_keeps_prior_thinking of the model asked for

convertVars == <<conversation, kind, keepsThinking>>

\* A block: id of a tool call or result, arg what it says or the picture.
Block(what, id, arg) == [what |-> what, id |-> id, arg |-> arg]
From(role, blocks) == [role |-> role, blocks |-> blocks]
AllBlocks(messages) == FlattenSeq([i \in DOMAIN messages |-> messages[i].blocks])

-----------------------------------------------------------------------------
(* The messages before they are converted.                                  *)

\* System messages become reminders of the user; those without text go.
Reminders(messages) ==
    [i \in DOMAIN messages |->
        IF messages[i].role = "system"
        THEN From("user", <<Block("text", 0, "reminder")>>) ELSE messages[i]]

NormalizeSystem(messages) ==
    Reminders(SelectSeq(messages, LAMBDA m : m.role # "system" \/ m.blocks # <<>>))

LastUser(messages) == SelectLastInSeq(messages, LAMBDA m : m.role = "user")

\* An answer at the end is not continued but given again.
DropPrefill(messages) == SubSeq(messages, 1, LastUser(messages))

\* The messages of the user at the end are one, the current one.
MergeFrom(messages, start) ==
    Append(SubSeq(messages, 1, start - 1), From("user", AllBlocks(SubSeq(messages, start, Len(messages)))))

MergeTrailing(messages) ==
    MergeFrom(messages, SelectLastInSeq(messages, LAMBDA m : m.role # "user") + 1)

-----------------------------------------------------------------------------
(* What a message of the user becomes: text, results, pictures.             *)

Text(what, arg, n) == [what |-> what, arg |-> arg, n |-> n]
ToolResult(id, text) == [id |-> id, text |-> text]
NoUserMessage == [role |-> "user", text |-> <<>>, results |-> <<>>, images |-> <<>>]

\* extract_kiro_image: attached once, later mentioned only, with where it was
\* first: the result of a call, or 0 for the message itself.
Attach(acc, picture, origin) ==
    IF picture \in DOMAIN acc.seen
    THEN [acc |-> acc, text |-> Text("omitted", "", acc.seen[picture])]
    ELSE [acc |-> [acc EXCEPT !.seen = (picture :> origin) @@ @, !.images = Append(@, picture)],
          text |-> Text("attached", "", Len(acc.images) + 1)]

\* One block (process_message_content, extract_tool_result_content).
ReadImage(shown) ==
    IF shown.text.what = "attached" THEN shown.acc
    ELSE [shown.acc EXCEPT !.text = Append(@, shown.text)]
ReadResult(shown, id) ==
    [shown.acc EXCEPT !.results = Append(@, ToolResult(id, shown.text))]

ReadBlock(acc, b) ==
    CASE b.what = "text" -> [acc EXCEPT !.text = Append(@, Text("text", b.arg, 0))]
      [] b.what = "image" -> ReadImage(Attach(acc, b.arg, b.id))
      [] b.what = "result" /\ b.arg \in Pictures -> ReadResult(Attach(acc, b.arg, b.id), b.id)
      [] b.what = "result" /\ b.arg \notin Pictures ->
           ReadResult([acc |-> acc, text |-> Text("text", b.arg, 0)], b.id)
      [] OTHER -> acc

\* merge_user_messages; the pictures seen so far are passed on.
ReadMessages(run, seen) ==
    FoldLeft(ReadBlock, NoUserMessage @@ [seen |-> seen], AllBlocks(run))

Sent(acc) == [f \in DOMAIN NoUserMessage |-> acc[f]]

-----------------------------------------------------------------------------
(* What an answer becomes: paragraphs and tool calls.                       *)

Blocks(m, what) == SelectSeq(m.blocks, LAMBDA b : b.what = what)

\* convert_assistant_message: thinking is a paragraph if it is kept; a blank
\* stands where nothing is left but calls, or what was dropped.
Whats(blocks) == [i \in DOMAIN blocks |-> blocks[i].what]
Ids(blocks) == [i \in DOMAIN blocks |-> blocks[i].id]

Answer(said, uses, blank) ==
    [role |-> "assistant", uses |-> uses, text |-> IF said = <<>> /\ blank THEN <<"blank">> ELSE said]

ConvertAssistant(m, keep) ==
    Answer(Whats(SelectSeq(m.blocks, LAMBDA b : b.what = "text" \/ (b.what = "thinking" /\ keep))),
           Ids(Blocks(m, "use")), m.blocks # <<>>)

\* merge_assistant_messages: of several, the blanks are left out.
Unblank(text) == IF text = <<"blank">> THEN <<>> ELSE text
Joined(said, uses) == Answer(said, uses, uses # <<>>)

MergeAnswers(each) ==
    IF Len(each) = 1 THEN each[1]
    ELSE Joined(FlattenSeq([i \in DOMAIN each |-> Unblank(each[i].text)]),
                FlattenSeq([i \in DOMAIN each |-> each[i].uses]))

MergeAssistant(run, keep) == MergeAnswers([i \in DOMAIN run |-> ConvertAssistant(run[i], keep)])

\* A message of the user that is more than results starts a turn.
StartsTurn(m) == m.role = "user" /\ \E i \in DOMAIN m.blocks : m.blocks[i].what # "result"

\* Answers of turns that are over (finished_assistant_turns), of the messages
\* as the client sent them.
AnswersUpTo(messages, n) ==
    Len(SelectSeq(SubSeq(messages, 1, n), LAMBDA m : m.role = "assistant"))

\* Slip: system messages start turns too.
FinishedBySystem(messages) ==
    AnswersUpTo(messages, SelectLastInSeq(messages, LAMBDA m : StartsTurn(m) \/ m.role = "system"))

FinishedTurns(messages) == AnswersUpTo(messages, SelectLastInSeq(messages, StartsTurn))

-----------------------------------------------------------------------------
(* The history (build_history).                                             *)

\* Messages in a row of one role.
Runs(messages) ==
    FoldLeft(LAMBDA runs, m :
                 IF runs # <<>> /\ Last(runs)[1].role = m.role
                 THEN Append(Front(runs), Append(Last(runs), m)) ELSE Append(runs, <<m>>),
             <<>>, messages)

AddUser(acc, read) == [acc EXCEPT !.history = Append(@, Sent(read)), !.seen = read.seen]

AddRun(acc, run) ==
    IF run[1].role = "user" THEN AddUser(acc, ReadMessages(run, acc.seen))
    ELSE [acc EXCEPT !.history = Append(@, MergeAssistant(run, acc.ordinal >= acc.finished)),
                     !.ordinal = @ + Len(run)]

BuildHistory(messages, finished) ==
    FoldLeft(AddRun, [history |-> <<>>, seen |-> <<>>, ordinal |-> 0, finished |-> finished],
             Runs(messages))

-----------------------------------------------------------------------------
(* Calls and their results.                                                 *)

UsesIn(history) ==
    UNION {ToSet(history[i].uses) : i \in {i \in DOMAIN history : history[i].role = "assistant"}}
ResultsIn(history) ==
    FlattenSeq([i \in DOMAIN history |->
                   IF history[i].role = "user" THEN history[i].results ELSE <<>>])
IdsOf(results) == {results[i].id : i \in DOMAIN results}

\* Results that are sent again with other content, as text
\* (resent_tool_result_notes).
First(results, id) == results[SelectInSeq(results, LAMBDA r : r.id = id)]
Notes(again) == [i \in DOMAIN again |-> Text("again", again[i].text.arg, again[i].id)]

ResentNotes(earlier, results) ==
    Notes(SelectSeq(results, LAMBDA r : r.id \in IdsOf(earlier) /\ First(earlier, r.id).text # r.text))

Pairing(open, kept) == [results |-> kept, orphans |-> open \ IdsOf(kept)]
FirstOfEach(open, results) ==
    FoldLeft(LAMBDA acc, r : IF r.id \in open \ IdsOf(acc) THEN Append(acc, r) ELSE acc, <<>>, results)

\* Slip: a call that an earlier result answered may be answered again.
PairAny(history, results) == Pairing(UsesIn(history), FirstOfEach(UsesIn(history), results))

\* validate_tool_pairing: the results of the current message that answer an
\* open call, the first of each; and the calls that stay open.
PairOpen(open, results) == Pairing(open, FirstOfEach(open, results))
PairResults(history, results) ==
    PairOpen(UsesIn(history) \ IdsOf(ResultsIn(history)), results)

Interrupted(id) == ToolResult(id, Text("interrupted", "", 0))

OpenUse(acc, id) ==
    IF id \in acc.orphans
    THEN [acc EXCEPT !.pending = Append(@, Interrupted(id)), !.orphans = @ \ {id}] ELSE acc

AnswerOpen(acc, m) ==
    [acc EXCEPT !.history = Append(@, [m EXCEPT !.results = @ \o acc.pending]), !.pending = <<>>]

\* Slip: what stays open is answered in the current message.
PairInCurrent(history, orphans) ==
    FoldLeft(LAMBDA acc, m : IF m.role = "assistant" THEN FoldLeft(OpenUse, acc, m.uses) ELSE acc,
             [history |-> history, pending |-> <<>>, orphans |-> orphans], history)

\* pair_orphaned_tool_uses: a call that stays open gets a result in the next
\* message of the user, maybe the current one.
PairOrphans(history, orphans) ==
    FoldLeft(LAMBDA acc, m :
                 IF m.role = "assistant"
                 THEN [FoldLeft(OpenUse, acc, m.uses) EXCEPT !.history = Append(@, m)]
                 ELSE AnswerOpen(acc, m),
             [history |-> <<>>, pending |-> <<>>, orphans |-> orphans], history)

\* validate_compaction_tool_sequence: every call answered once, afterwards.
PendUse(acc, id) ==
    [acc EXCEPT !.ok = @ /\ id \notin acc.met, !.met = @ \cup {id}, !.pending = @ \cup {id}]
PendResult(acc, r) == [acc EXCEPT !.ok = @ /\ r.id \in acc.pending, !.pending = @ \ {r.id}]

PendAll(history, results) ==
    FoldLeft(LAMBDA acc, m : IF m.role = "assistant" THEN FoldLeft(PendUse, acc, m.uses)
                             ELSE FoldLeft(PendResult, acc, m.results),
             [ok |-> TRUE, met |-> {}, pending |-> {}],
             Append(history, [NoUserMessage EXCEPT !.results = results]))

\* Slip: a call that no result answers is let through.
CompactionOpen(history, results) == PendAll(history, results).ok

CompactionSequence(history, results) ==
    PendAll(history, results).ok /\ PendAll(history, results).pending = {}

-----------------------------------------------------------------------------
(* The request (convert_request_with_purpose).                              *)

Refused(reason) == [ok |-> FALSE, reason |-> reason]

\* Every tool of the history is defined, by a placeholder if need be.
WithTools(history, current) ==
    [ok |-> TRUE, history |-> history, current |-> current,
     tools |-> Declared \cup {NameOf[id] : id \in UsesIn(history)}]

\* The current message, with the results that answer the history.
WithOrphans(current, paired, answered) ==
    WithTools(answered.history, [current EXCEPT !.results = paired \o answered.pending])
Paired(history, current, pairing) ==
    WithOrphans(current, pairing.results, PairOrphans(history, pairing.orphans))

ToRequest(history, current, purpose) ==
    IF history # <<>> /\ Last(history).role = "user" THEN Refused("sequence")
    ELSE IF purpose = "generate"
    THEN Paired(history,
                [current EXCEPT !.text = ResentNotes(ResultsIn(history), current.results) \o @],
                PairResults(history, current.results))
    ELSE IF CompactionSequence(history, current.results) THEN WithTools(history, current)
    ELSE Refused("sequence")

Current(built, m, purpose) == ToRequest(built.history, Sent(ReadMessages(<<m>>, built.seen)), purpose)

ConvertMerged(messages, finished, purpose) ==
    Current(BuildHistory(Front(messages), finished), Last(messages), purpose)

ConvertNormalized(messages, finished, purpose) ==
    IF LastUser(messages) = 0 THEN Refused("empty")
    ELSE LET kept == DropPrefill(messages)
         IN  ConvertMerged(IF purpose = "generate" THEN MergeTrailing(kept) ELSE kept, finished, purpose)

Convert(messages, purpose) ==
    ConvertNormalized(NormalizeSystem(messages),
                      IF keepsThinking THEN 0 ELSE FinishedTurns(messages), purpose)

-----------------------------------------------------------------------------

ConvertInit ==
    /\ conversation = <<>>
    /\ kind \in DOMAIN Turns
    /\ keepsThinking \in (IF kind = "thinking" THEN BOOLEAN ELSE {TRUE})

\* The client's next message, or an answer it has kept.
Say(m) ==
    /\ Len(conversation) < MaxMessages
    /\ conversation' = Append(conversation, m)
    /\ UNCHANGED <<kind, keepsThinking>>

ConvertNext == \E m \in Turns[kind] : Say(m)

ConvertSpec == ConvertInit /\ [][ConvertNext]_convertVars

-----------------------------------------------------------------------------
(* Properties.                                                              *)

Whole(request) == Append(request.history, request.current)

\* A client that keeps the order of the protocol: calls have ids of their own,
\* and the results of a message answer calls of the answer before, each once;
\* calls may stay without a result.
RunIds(run, what) == Ids(SelectSeq(AllBlocks(run), LAMBDA b : b.what = what))

TidyRuns(runs) ==
    /\ \A i, j \in DOMAIN runs :
          i # j => ToSet(RunIds(runs[i], "use")) \cap ToSet(RunIds(runs[j], "use")) = {}
    /\ \A i \in DOMAIN runs :
          /\ IsInjective(RunIds(runs[i], "use")) /\ IsInjective(RunIds(runs[i], "result"))
          /\ \A id \in ToSet(RunIds(runs[i], "result")) : i > 1 /\ id \in ToSet(RunIds(runs[i - 1], "use"))

Tidy(messages) == TidyRuns(Runs(NormalizeSystem(messages)))

\* Every picture is sent once, and every mention is right: the number in a
\* result leads to its picture, and what is omitted has been sent.
Shows(blocks, id) ==
    {blocks[j].arg : j \in {j \in DOMAIN blocks : blocks[j].id = id /\ blocks[j].what \in {"result", "image"}}}

PicturesSent(all, sent, blocks) ==
    /\ IsInjective(sent)
    /\ \A i \in DOMAIN all : all[i].role = "user" => \A r \in ToSet(all[i].results) :
         /\ r.text.what = "attached" => all[i].images[r.text.n] \in Shows(blocks, r.id)
         /\ r.text.what = "omitted" => Shows(blocks, r.id) \cap Shows(blocks, r.text.n) \cap ToSet(sent) # {}

ImagesIn(all) == FlattenSeq([i \in DOMAIN all |-> IF all[i].role = "user" THEN all[i].images ELSE <<>>])

OneToOne(results, uses) == IsInjective(Ids(results)) /\ IdsOf(results) = ToSet(uses)

Acceptable(all, tools) ==
    /\ \A i \in DOMAIN all : (all[i].role = "user") = (i % 2 = 1)
    /\ {NameOf[id] : id \in UsesIn(all)} \subseteq tools
    /\ \A i \in DOMAIN all : all[i].role = "assistant" /\ kind # "thinking" => all[i].text # <<>>
    /\ UsesIn(all) \subseteq IdsOf(ResultsIn(all))
    /\ IsInjective(Ids(Last(all).results))
    /\ PicturesSent(all, ImagesIn(all), AllBlocks(conversation))

AcceptedRequest(request) ==
    /\ request.ok = (LastUser(NormalizeSystem(conversation)) # 0)
    /\ request.ok /\ NormalizeSystem(conversation)[1].role = "user" =>
        /\ Acceptable(Whole(request), request.tools)
        /\ Tidy(conversation) => \A i \in DOMAIN request.history :
             request.history[i].role = "assistant" =>
                 OneToOne(Whole(request)[i + 1].results, request.history[i].uses)

\* A compaction is sent only if every call has its one result and no result
\* comes before its call.
AcceptedCompaction(request) ==
    request.ok =>
        /\ OneToOne(ResultsIn(Whole(request)), SetToSeq(UsesIn(request.history)))
        /\ \A i \in DOMAIN request.history :
             request.history[i].role = "user" =>
                 IdsOf(request.history[i].results) \subseteq UsesIn(SubSeq(request.history, 1, i))

\* What the upstream accepts (the comments at converter.rs:2481, 1425, 754):
\* questions and answers in turn, no tool it was not told of, an answer never
\* empty, a result for every call; and, for a client that keeps the order, it
\* is the only one and in the next message, calls that were interrupted
\* included.  No conversation with a message of the user is refused.  (An
\* answer of several messages with nothing but dropped thinking is empty; a
\* conversation has to begin with the user.)
RequestAccepted ==
    /\ AcceptedRequest(Convert(conversation, "generate"))
    /\ AcceptedCompaction(Convert(conversation, "compact"))

StableAfter(before, request, answered) ==
    before.ok /\ request.ok =>
        IF answered
        THEN /\ IsPrefix(Append(before.history, before.current), request.history)
             /\ Len(request.history) = Len(before.history) + 2
        ELSE /\ request.history = before.history
             /\ IsPrefix(before.current.text, request.current.text)
             /\ IsPrefix(before.current.images, request.current.images)

\* The last message is the user's and follows an answer.
Answered(source) ==
    Len(source) > 1 /\ Last(source).role = "user" /\ source[Len(source) - 1].role = "assistant"

\* A message keeps the form it was first sent in (converter.rs:910): what a
\* request adds comes after all that the one before has sent, so that the
\* upstream finds its prefix again; for a client that keeps the order and a
\* model that keeps all thinking.
HistoryStable ==
    conversation # <<>> /\ keepsThinking /\ Tidy(conversation) =>
        StableAfter(Convert(Front(conversation), "generate"), Convert(conversation, "generate"),
                    Last(conversation).blocks # <<>> /\ Answered(NormalizeSystem(conversation)))

\* Thinking that should be sent: of its turn, or of any if the model keeps it.
ThinkingDue ==
    {i \in DOMAIN conversation :
        /\ conversation[i].role = "assistant" /\ Blocks(conversation[i], "thinking") # <<>>
        /\ keepsThinking \/ \A j \in i + 1 .. Len(conversation) : ~StartsTurn(conversation[j])
        /\ \E j \in i + 1 .. Len(conversation) :
              conversation[j].role # "assistant" /\ conversation[j].blocks # <<>>}

ThinkingIn(history) ==
    SelectSeq(FlattenSeq([i \in DOMAIN history |->
                  IF history[i].role = "assistant" THEN history[i].text ELSE <<>>]),
              LAMBDA t : t = "thinking")

ThinkingSent(request) == request.ok => Len(ThinkingIn(request.history)) = Cardinality(ThinkingDue)

\* Thinking is sent back within its turn, however many results and reminders
\* came since, and dropped after it unless the model keeps it
\* (finished_assistant_turns and the ordinals build_history compares).
ThinkingOfTurn == ThinkingSent(Convert(conversation, "generate"))

=============================================================================
