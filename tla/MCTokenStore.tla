---------------------------- MODULE MCTokenStore ----------------------------
(***************************************************************************)
(* Instances of TokenStore small enough for TLC: three tasks at work while *)
(* only the disk fails, or while the process crashes.                      *)
(***************************************************************************)
EXTENDS TokenStore, TLC

CONSTANTS t1, t2, t3

VARIABLE part

\* New logins, replaced tokens and deletions; the process may crash at any
\* point and restarts from the file.
Store == INSTANCE TokenStore WITH
            Ops <- {"ensure", "query", "relogin", "token", "delete"},
            Rotates <- FALSE, Crashes <- TRUE

MCInit ==
    \/ part = "refresh" /\ Init
    \/ part = "crash" /\ Store!Init

MCNext ==
    /\ UNCHANGED part
    /\ \/ part = "refresh" /\ Next
       \/ part = "crash" /\ Store!Next

MCSpec == MCInit /\ [][MCNext]_<<part, vars>>

\* The tasks alone.
RefreshSpec == (part = "refresh" /\ Init) /\ [][Next /\ UNCHANGED part]_<<part, vars>>

(* Without crashes the token in use implements LoginRegister (RegisterSpec   *)
(* of TokenStore); the other part shows the register no token.              *)
Shown == INSTANCE LoginRegister WITH
    Tokens <- Token \cup {NoToken},
    current <- [c \in Creds |-> IF part = "refresh" /\ mem[c].live THEN mem[c].token ELSE NoToken]

RegisterKept == Shown!Spec

MCSymmetry == Permutations(Tasks)

=============================================================================
