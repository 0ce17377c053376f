----------------------------- MODULE MCRecovery -----------------------------
(***************************************************************************)
(* What comes to its end whatever fails, each on its own (part says        *)
(* which): tasks when answers get lost, logins are revoked, other programs *)
(* rotate the tokens and the process crashes (TokenStore), requests when   *)
(* the credentials fail under them (Pool).                                 *)
(***************************************************************************)
EXTENDS TokenStore

CONSTANTS m1, NoModel, NoGroup, Requests

VARIABLES cred, currentId, req, sweep, part

\* Token failures, superseded refreshes and healing while the other request
\* and an administrator keep interfering.
Pool == INSTANCE CredentialPool WITH
            Creds <- {1, 2}, Priority <- [c \in {1, 2} |-> 1], InvertPriority <- FALSE,
            MaxPriority <- 1, Models <- {m1}, Groups <- {}, GroupsOf <- [c \in {1, 2} |-> {}],
            Unsupported <- {}, Scopes <- {[model |-> m1, group |-> NoGroup]},
            MaxFailures <- 1, MaxHealRounds <- 1, RpmLimit <- 0,
            LoadedReasons <- {}, LoadedRounds <- {}, Balanced <- FALSE, Sticky <- FALSE,
            HealEnabled <- TRUE, HasFile <- FALSE,
            TokenOutcomes <- {"ready", "superseded", "failed"},
            CallOutcomes <- {"auth"}, AdminOps <- {"enable"}

poolVars == <<cred, currentId, req, sweep>>
allVars == <<poolVars, vars, part>>

MCInit ==
    part \in {"pool", "store"} /\ Pool!Init /\ Init

MCNext ==
    /\ UNCHANGED part
    /\ \/ part = "pool" /\ Pool!Next /\ UNCHANGED vars
       \/ part = "store" /\ Next /\ UNCHANGED poolVars

\* The fairness of CredentialPool and of TokenStore.
PoolStep(r) == part = "pool" /\ Pool!RequestStep(r) /\ UNCHANGED <<vars, part>>
StoreStep(A) == part = "store" /\ A /\ UNCHANGED <<poolVars, part>>

MCFairness ==
    /\ \A r \in Requests : WF_allVars(PoolStep(r))
    /\ \A t \in Tasks : /\ WF_allVars(StoreStep(TaskStep(t)))
                        /\ SF_allVars(StoreStep(Acquire(t) \/ Relogin(t)))
                        /\ SF_allVars(StoreStep(Persist(t)))

MCSpec == MCInit /\ [][MCNext]_allVars /\ MCFairness

(* EveryRequestEnds of the pool: a request is not tried for ever.           *)
EveryRequestEnds == Pool!EveryRequestEnds

(* EveryTaskEnds of the troubled store: no lock is kept or awaited for ever. *)
StoreTasksEnd == part = "store" => EveryTaskEnds

=============================================================================
