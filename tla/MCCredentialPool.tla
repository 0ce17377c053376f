-------------------------- MODULE MCCredentialPool --------------------------
(* Instances of CredentialPool small enough for TLC. *)
EXTENDS CredentialPool, TLC

CONSTANTS r1, r2, m1, m2, g1

MCPriority == [c \in Creds |-> 1]          \* ties are broken by the id
MCGroups == [c \in Creds |-> IF c = 1 THEN {g1} ELSE {}]

Plain == [model |-> m1, group |-> NoGroup]
Other == [model |-> m2, group |-> NoGroup]
Grouped == [model |-> m1, group |-> g1]

OnePlain == {Plain}
TwoModels == {Plain, Other}
TwoGroups == {Plain, Grouped}

MCSymmetry == Permutations(Requests)

=============================================================================
