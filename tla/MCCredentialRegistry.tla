------------------------ MODULE MCCredentialRegistry ------------------------
(* Instances of CredentialRegistry small enough for TLC: the Admin API and  *)
(* restarts, or the deduplication tool and kills.                          *)
EXTENDS CredentialRegistry, TLC

CONSTANTS a, b, t1, t2

VARIABLE part

First(l) == [login |-> l, gen |-> 0]
MCEmpty == {<<>>}
MCOne == {<<>>, <<First(a)>>}
\* Early versions wrote an account again at every start.
MCDuplicates == {<<First(a), First(a)>>, <<First(a), First(b), First(b)>>, <<First(a)>>}

\* The deduplication tool and kills at any point; nothing is deleted.
Tool == INSTANCE CredentialRegistry WITH
            MaxId <- 5, MaxGen <- 1, InitialFiles <- MCDuplicates, Rotations <- {TRUE},
            Lenient <- FALSE, Deletes <- FALSE, Kills <- TRUE, WriteFails <- TRUE

MCInit ==
    \/ part = "api" /\ Init
    \/ part = "tool" /\ Tool!Init

MCNext ==
    /\ UNCHANGED part
    /\ \/ part = "api" /\ Next
       \/ part = "tool" /\ Tool!Next

MCSpec == MCInit /\ [][MCNext]_<<part, vars>>

\* The Admin API alone.
ApiSpec == (part = "api" /\ Init) /\ [][Next /\ UNCHANGED part]_<<part, vars>>

\* The properties of CredentialRegistry, each in its part.
ApiNoTokenTwice == part = "api" => NoTokenTwice
ApiStatsFollow == part = "api" => StatsFollowAccount
IdsKept == IF part = "tool" THEN Tool!TypeOK /\ Tool!IdsNotReused ELSE TypeOK

MCSymmetry == Permutations(Tasks)

=============================================================================
