-------------------------- MODULE MCProviderRetry --------------------------
(* Instances of ProviderRetry small enough for TLC: several calls on the    *)
(* same credentials, or a single one that gets every answer.                *)
EXTENDS ProviderRetry, TLC

CONSTANTS c1, c2, r1, r2

VARIABLE part

Says(status, marks) == [status |-> status, marks |-> marks, delay |-> FALSE]
Delayed(status, marks) == [status |-> status, marks |-> marks, delay |-> TRUE]

\* Every rule, and bodies on which several rules apply.
MCEverything ==
    {Says(200, {}), Says(0, {}), Says(0, {"timeout"}), Says(500, {"unavailable"}),
     Says(402, {"quota"}), Says(402, {}), Says(400, {"suspended"}), Says(403, {"suspended"}),
     Says(500, {"suspended"}), Says(401, {}), Says(403, {"bearer"}), Says(429, {}),
     Says(429, {"account"}), Delayed(429, {"account"}), Delayed(429, {}), Says(500, {"invalid"}),
     Says(524, {}), Says(500, {}), Says(401, {"unread"}), Says(404, {}), Says(302, {})}

\* What may throttle or suspend a credential under another call.
MCRates == {Says(200, {}), Says(429, {}), Says(429, {"account"}), Says(403, {"suspended"})}

\* One call, on every path.
Solo == INSTANCE ProviderRetry WITH
            Calls <- {r1}, Paths <- {"api", "mcp", "traced"}, Answers <- MCEverything,
            MaxFailures <- 2, TotalRetries <- 4, OwnProxy <- {c1}, BadEndpoint <- {c2},
            RefreshOutcomes <- {"ok", "limited", "failed"},
            ResolveOutcomes <- {"answered", "limited", "failed"},
            MaxStale <- 1, Relogins <- TRUE

MCInit ==
    \/ part = "several" /\ Init
    \/ part = "solo" /\ Solo!Init

MCNext ==
    /\ UNCHANGED part
    /\ \/ part = "several" /\ Next
       \/ part = "solo" /\ Solo!Next

MCSpec == MCInit /\ [][MCNext]_<<part, vars>>

\* The properties of ProviderRetry, each in its part.
CallTypeOK == IF part = "solo" THEN Solo!TypeOK ELSE TypeOK
CallStaleForgiven == part = "several" => StaleTokenForgiven
CallHasArn == part = "several" => ResolvedHasArn
CallVerdict ==
    [][IF part = "solo" THEN Solo!BlamesOwnFault ELSE TellsBackOff]_<<part, vars>>

MCSymmetry == Permutations({r1, r2})

=============================================================================
