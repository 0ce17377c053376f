--------------------------- MODULE LoginRegister ---------------------------
(***************************************************************************)
(* What the token store promises of each credential, locks, upstream and   *)
(* files aside: the token in use only moves forward.  A refresh replaces   *)
(* it by a later token of the same login, an administrator by a newer      *)
(* login; it never falls back to a token or a login that was replaced.     *)
(***************************************************************************)
EXTENDS Integers

CONSTANTS Creds, Tokens, NoToken    \* tokens are records [login, acc, ref]

VARIABLE current    \* the token in use of each credential

Later(old, new) ==
    new.login = old.login /\ new.acc > old.acc /\ new.ref >= old.ref

Init == current \in [Creds -> Tokens]

Refresh(c) ==
    \E t \in Tokens : Later(current[c], t) /\ current' = [current EXCEPT ![c] = t]

Install(c) ==
    \E t \in Tokens : /\ current[c] # NoToken /\ t.login > current[c].login
                      /\ current' = [current EXCEPT ![c] = t]

Remove(c) == current' = [current EXCEPT ![c] = NoToken]

Next == \E c \in Creds : Refresh(c) \/ Install(c) \/ Remove(c)

Spec == Init /\ [][Next]_current

=============================================================================
