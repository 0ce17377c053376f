----------------------------- MODULE MCRequests ----------------------------
(***************************************************************************)
(* What becomes of a request before it is sent: its conversion             *)
(* (RequestConverter) and the metering of its prompt (PromptCache); the    *)
(* credential of its conversation (SessionAffinity), the models of that    *)
(* credential (ModelCache) and the HTTP client of its proxy (ClientCache). *)
(* They share no state: each is checked on its own (part says which one    *)
(* moves).                                                                 *)
(***************************************************************************)
EXTENDS RequestConverter, PromptCache, SessionAffinity, ModelCache, ClientCache, TLC

VARIABLE part

\* The parts that do not move begin in one way only.
Init ==
    /\ part \in {"convert", "cache", "affinity", "models", "clients"}
    /\ ConvertInit /\ CacheInit /\ AffinityInit /\ ModelInit /\ ClientInit
    /\ part # "cache" => setup = CHOOSE s \in Setups : TRUE
    /\ part # "convert" => kind = "tools"

Rest(p) ==
    /\ p # "convert" => UNCHANGED convertVars
    /\ p # "cache" => UNCHANGED cacheVars
    /\ p # "affinity" => UNCHANGED affinityVars
    /\ p # "models" => UNCHANGED modelVars
    /\ p # "clients" => UNCHANGED clientVars

Next ==
    /\ UNCHANGED part
    /\ \/ part = "convert" /\ ConvertNext
       \/ part = "cache" /\ CacheNext
       \/ part = "affinity" /\ AffinityNext
       \/ part = "models" /\ ModelNext
       \/ part = "clients" /\ ClientNext
    /\ Rest(part)

Spec ==
    Init /\ [][Next]_<<part, convertVars, cacheVars, affinityVars, modelVars, clientVars>>

(* The tables keep their capacities and their places, and the snapshot on   *)
(* disk lacks nothing but what waits to be written.                         *)
TablesKept ==
    TableBounded /\ SnapshotCurrent /\ AffinityTypeOK /\ ModelTypeOK /\ ClientsAccounted

(* What is evicted from a full table has had its turn: prefixes             *)
(* (record_entry) and bindings of conversations (SessionAffinity::bind).    *)
EvictsInTurn == EvictsAlive /\ EvictsFairly

-----------------------------------------------------------------------------
(* Conversations: calls with their results and interruptions, pictures,     *)
(* thinking; with reminders between them.                                   *)

U(blocks) == From("user", blocks)
A(blocks) == From("assistant", blocks)
S(blocks) == From("system", blocks)
Words == Block("text", 0, "")
Use(i) == Block("use", i, "")
Res(i, says) == Block("result", i, says)
Picture(p) == Block("image", 0, p)
Thought == Block("thinking", 0, "")

MCTurns ==
    [tools |-> {U(<<Words>>), U(<<Res(1, "a")>>), U(<<Res(1, "b"), Words>>), U(<<Res(2, "a")>>),
                A(<<Words>>), A(<<Use(1)>>), A(<<Words, Use(1), Use(2)>>), S(<<Words>>)},
     pictures |-> {U(<<Picture("p")>>), U(<<Res(1, "p")>>), U(<<Res(1, "q"), Picture("p")>>),
                   U(<<Res(2, "p"), Words>>), A(<<Use(1)>>), A(<<Use(2)>>), S(<<>>)},
     thinking |-> {U(<<Words>>), U(<<Res(1, "a")>>), A(<<Thought>>), A(<<Thought, Use(1)>>),
                   A(<<Words>>), S(<<Words>>), S(<<>>)}]

MCNameOf == [i \in {1, 2} |-> IF i = 1 THEN "read" ELSE "write"]

-----------------------------------------------------------------------------
(* Prompts: marked blocks, the automatic breakpoint, calls and results that *)
(* count as one, the mark of an answer that is dropped, an order that is    *)
(* wrong, another model.                                                    *)

B(what, says, tokens, mark) == [what |-> what, says |-> says, tokens |-> tokens, mark |-> mark]
Prompt(model, fixed, messages, auto) ==
    [model |-> model, fixed |-> fixed, messages |-> messages, auto |-> auto]
Ground(mark) == <<B("system", "ground", 2, mark)>>
Q(says, mark) == U(<<B("text", says, 3, mark)>>)

Both == Prompt("m", Ground(Long), <<Q("q1", Short)>>, 0)
Another == Prompt("m", Ground(Long), <<Q("q2", 0)>>, 0)
Automatic == Prompt("m", Ground(0), <<Q("q1", 0), A(<<B("thinking", "t", 1, 0)>>), Q("q3", 0)>>, Short)
Calls ==
    Prompt("m", Ground(0),
           <<Q("q1", 0), A(<<B("use", "u1", 1, 0), B("use", "u2", 1, 0)>>),
             U(<<B("result", "r1", 1, 0), B("result", "r2", 1, Short)>>)>>, 0)
Prefilled == Prompt("m", Ground(0), <<Q("q1", 0), A(<<B("text", "a", 1, Short)>>)>>, 0)
Wrong == Prompt("m", Ground(Short), <<Q("q1", Long)>>, 0)
Elsewhere == Prompt("n", Ground(Long), <<Q("q1", Short)>>, 0)

Who(name, key, session) == [name |-> name, key |-> key, session |-> session]
Asks(who, prompts) == [who : {who}, what : prompts]
Main == Who("a", 0, "")

Setup(hasShared, hasDisk, asks, most) ==
    [shared |-> hasShared, disk |-> hasDisk, asks |-> asks, most |-> most]

\* One user with every prompt, and another who begins alike; users with keys
\* and sessions; a store that is shared; a snapshot on disk.
MCSetups ==
    {Setup(FALSE, FALSE, Asks(Main, {Both, Calls, Automatic, Wrong, Prefilled})
                             \cup Asks(Who("b", 0, ""), {Another}), 2),
     Setup(FALSE, FALSE, Asks(Main, {Both}) \cup Asks(Who("c", 1, ""), {Elsewhere})
                             \cup Asks(Who("d", 1, "s"), {Both}) \cup Asks(Who("e", 0, "s"), {Both}), 2),
     Setup(TRUE, FALSE, Asks(Main, {Both, Automatic}), 3),
     Setup(FALSE, TRUE, Asks(Main, {Automatic, Prefilled}), 3)}

Perms == Permutations(Meters)

=============================================================================
