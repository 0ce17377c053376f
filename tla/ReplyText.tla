----------------------------- MODULE ReplyText -----------------------------
(***************************************************************************)
(* What the streamed and the collected answer to one upstream reply share  *)
(* (anthropic/stream.rs): the letters of a reply's text, the thinking tags *)
(* and tool calls written as text, the accumulator of tool arguments.      *)
(*                                                                         *)
(* Text is a sequence of letters: "w" a word, "sp" blank with a line break,*)
(* "o1" "o2" the halves of <thinking>, "c1" "c2" those of </thinking>,     *)
(* "iv" a well-formed <invoke> block of a declared tool on a line of its   *)
(* own, "fl" a stray token repeated until the repeat guard trips.  Tool    *)
(* arguments come in fragments: "l" then "r" make a JSON object, any other *)
(* non-empty run is not one.                                               *)
(***************************************************************************)
EXTENDS Integers, SequencesExt

CONSTANTS
    ToolIds,    \* tool_use_ids the upstream uses: numbered from 1, sorted as the ids
    Rewritten   \* those whose arguments are rewritten, hence never streamed

ASSUME ToolsAssumption ==
    /\ IsFiniteSet(ToolIds) /\ ToolIds = 1 .. Cardinality(ToolIds) /\ 1 \in ToolIds
    /\ Rewritten \subseteq ToolIds

\* The id of a call the answer makes up from an <invoke> block.
Synthetic == 0

Blank(s) == \A i \in DOMAIN s : s[i] = "sp"
Words(s) == SelectSeq(s, LAMBDA x : x # "sp")
InOrder(S) == FlattenSeq([t \in ToolIds |-> IF t \in S THEN <<t>> ELSE <<>>])

\* The first position at which P holds, 0 if there is none.
First(s, P(_)) ==
    LET at == {i \in DOMAIN s : P(i)}
    IN  IF at = {} THEN 0 ELSE CHOOSE i \in at : \A j \in at : i <= j

Before(s, i) == SubSeq(s, 1, i - 1)
From(s, i) == SubSeq(s, i, Len(s))
Trimmed(s) == LET i == First(s, LAMBDA j : s[j] # "sp") IN IF i = 0 THEN <<>> ELSE From(s, i)

ClosesAt(s, i) == i < Len(s) /\ s[i] = "c1" /\ s[i + 1] = "c2"

\* A reply thinks only if the tag is the first thing in it.
StartTag(s) == Len(s) >= 2 /\ s[1] = "o1" /\ s[2] = "o2"

\* A closing tag counts if a line break follows it ...
EndTag(s) == First(s, LAMBDA i : ClosesAt(s, i) /\ i + 2 <= Len(s) /\ s[i + 2] = "sp")

\* ... or, where the text ends or a tool call begins, if only blanks do.
EndTagAtEnd(s) == First(s, LAMBDA i : ClosesAt(s, i) /\ Blank(From(s, i + 2)))

\* Where the group of <invoke> blocks at the end of the text begins.
Group(s) ==
    LET last == SelectLastInSeq(s, LAMBDA x : x \notin {"iv", "sp"})
    IN  First(s, LAMBDA i : i > last /\ s[i] = "iv")
Held(s) == IF Group(s) = 0 THEN <<>> ELSE From(s, Group(s))
Released(s) == IF Group(s) = 0 THEN s ELSE Before(s, Group(s))
Calls(s) == [n \in 1 .. Cardinality({i \in DOMAIN s : s[i] = "iv"}) |-> "iv"]

\* The text in front of the flood of stray tokens.
Flooded(s) == \E i \in DOMAIN s : s[i] = "fl"
Unflooded(s) == IF Flooded(s) THEN Before(s, First(s, LAMBDA j : s[j] = "fl")) ELSE s

-----------------------------------------------------------------------------
(* ToolJsonAccumulator. *)

NoCall == [seen |-> FALSE, named |-> FALSE, frags |-> <<>>]
NoCalls == [t \in ToolIds |-> NoCall]

Fragment(f) == IF f = "none" THEN <<>> ELSE <<f>>

\* The arguments of a call, once it is stopped, are parsed as a whole.
Pushed(acc, ev) ==
    [acc EXCEPT ![ev.id] =
        IF ev.stop THEN NoCall
        ELSE [seen |-> TRUE, named |-> @.named \/ ev.named, frags |-> @.frags \o Fragment(ev.frag)]]

Arguments(acc, ev) == acc[ev.id].frags \o Fragment(ev.frag)
Invalid(acc, ev) == ev.stop /\ Arguments(acc, ev) \notin {<<>>, <<"l", "r">>}

\* At the end a call without arguments is recovered, one with some was cut.
Truncated(acc) == \E t \in ToolIds : acc[t].frags # <<>>
Recovered(acc) == InOrder({t \in ToolIds : acc[t].seen})

=============================================================================
