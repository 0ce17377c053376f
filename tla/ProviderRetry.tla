---------------------------- MODULE ProviderRetry ----------------------------
(***************************************************************************)
(* One call of the upstream: the retry loop of KiroProvider for the model  *)
(* API and for MCP, with the order in which it looks at an answer, what it *)
(* reports of the credential, the forced refresh of a rejected token, the  *)
(* resolution of profileArn and the trace of its attempts.                 *)
(*                                                                         *)
(* Of a credential only what these calls read and write is kept; the pool  *)
(* is modelled in CredentialPool.  A token is current or stale: the        *)
(* upstream may reject those given out so far, and a refresh gives a       *)
(* current one.                                                            *)
(***************************************************************************)
EXTENDS Integers, FiniteSets, Sequences

CONSTANTS
    Creds, Calls, NoCred,
    Paths,                  \* "api", "mcp", and "traced": call_mcp_with_trace
    Answers,                \* what the upstream may answer
    MaxFailures,            \* MAX_FAILURES_PER_CREDENTIAL, 3 in the code
    RetriesPerCredential,   \* MAX_RETRIES_PER_CREDENTIAL, 3 in the code
    TotalRetries,           \* MAX_TOTAL_RETRIES, 4 in the code
    Failover,               \* account_throttle_failover
    Retry429,               \* model_api_429_retry_enabled
    DetectSuspended,        \* suspended_detection_enabled
    OwnProxy,               \* credentials with a proxy of their own
    BadEndpoint,            \* credentials that name an unknown endpoint
    Profiled,               \* credentials whose ARN has to be asked for
    RefreshOutcomes, ResolveOutcomes,
    MaxStale,               \* bound: times a credential's tokens are rejected
    Relogins                \* an administrator may log a credential in again

VARIABLES
    entry,      \* what the calls know of each credential
    resolved,   \* profile_resolution_attempted
    profile,    \* upstream: credentials whose account has an Enterprise profile
    call,       \* the calls in progress
    staled,     \* history: times the upstream stopped accepting a token
    blamed      \* history: the credentials a failure was counted for

vars == <<entry, resolved, profile, call, staled, blamed>>

Marks == {"quota", "suspended", "bearer", "account", "invalid", "gateway",
          "unavailable", "timeout", "unread"}

\* Status 0 is no answer at all; delay is a valid Retry-After; the marks are what
\* the classifiers of the endpoint find in the body, if it can be read.
Answer == [status : 0..599, marks : SUBSET Marks, delay : BOOLEAN]

ASSUME CallAssumption ==
    /\ IsFiniteSet(Creds) /\ Creds # {} /\ NoCred \notin Creds
    /\ OwnProxy \cup BadEndpoint \cup Profiled \subseteq Creds
    /\ Paths \subseteq {"api", "mcp", "traced"} /\ Answers \subseteq Answer
    /\ {MaxFailures, RetriesPerCredential, TotalRetries} \subseteq Nat \ {0}
    /\ {Failover, Retry429, DetectSuspended, Relogins} \subseteq BOOLEAN
    /\ RefreshOutcomes \subseteq {"ok", "limited", "failed"}
    /\ ResolveOutcomes \subseteq {"answered", "limited", "failed"}
    /\ MaxStale \in Nat

Entry == [state : {"enabled", "failures", "terminal"}, fails : 0..MaxFailures,
          throttled : BOOLEAN, arn : BOOLEAN, stale : BOOLEAN]

Idle == [pc |-> "idle", path |-> "api", attempt |-> 0, cred |-> NoCred, arn |-> FALSE,
         stale |-> FALSE, refreshed |-> {}, last |-> "none", traced |-> 0,
         result |-> "none", saw |-> {}]

Budget == IF Cardinality(Creds) * RetriesPerCredential < TotalRetries
          THEN Cardinality(Creds) * RetriesPerCredential ELSE TotalRetries

Available == {c \in Creds : entry[c].state = "enabled" /\ ~entry[c].throttled}

Init ==
    /\ entry = [c \in Creds |-> [state |-> "enabled", fails |-> 0, throttled |-> FALSE,
                                 arn |-> c \notin Profiled, stale |-> FALSE]]
    /\ profile \in SUBSET Profiled
    /\ resolved = {}
    /\ call = [r \in Calls |-> Idle]
    /\ staled = [c \in Creds |-> 0] /\ blamed = {}

-----------------------------------------------------------------------------
(* How an answer is read: the first rule that applies decides. *)

\* Slip: a suspension is looked for before a bad request is.
RulesSwapped(path, a) ==
    LET api == path = "api"
        has(mark) == mark \in a.marks
    IN  << <<a.status = 0 /\ api /\ has("timeout"), "reject">>,
           <<a.status = 0, "network">>,
           <<a.status \in 200..299, "success">>,
           <<api /\ has("unread"), "reject">>,
           <<api /\ a.status >= 500 /\ has("unavailable"), "reject">>,
           <<a.status = 402 /\ has("quota"), "terminal">>,
           <<DetectSuspended /\ has("suspended"), "terminal">>,
           <<a.status = 400, "reject">>,
           <<a.status \in {401, 403}, "auth">>,
           <<a.status = 429 /\ has("account") /\ Failover, "throttled">>,
           <<a.status = 429 /\ api /\ (has("account") \/ ~Retry429), "limited">>,
           <<api /\ (has("invalid") \/ has("gateway") \/ a.status = 524), "reject">>,
           <<a.status = 429 /\ a.delay, "limited">>,
           <<a.status \in {408, 429} \/ a.status >= 500, "transient">>,
           <<a.status \in 400..499, "reject">>,
           <<TRUE, "transient">> >>

Rules(path, a) ==
    LET api == path = "api"
        has(mark) == mark \in a.marks
    IN  << <<a.status = 0 /\ api /\ has("timeout"), "reject">>,
           <<a.status = 0, "network">>,
           <<a.status \in 200..299, "success">>,
           <<api /\ has("unread"), "reject">>,
           <<api /\ a.status >= 500 /\ has("unavailable"), "reject">>,
           <<a.status = 402 /\ has("quota"), "terminal">>,
           <<a.status = 400, "reject">>,
           <<DetectSuspended /\ has("suspended"), "terminal">>,
           <<a.status \in {401, 403}, "auth">>,
           <<a.status = 429 /\ has("account") /\ Failover, "throttled">>,
           <<a.status = 429 /\ api /\ (has("account") \/ ~Retry429), "limited">>,
           <<api /\ (has("invalid") \/ has("gateway") \/ a.status = 524), "reject">>,
           <<a.status = 429 /\ a.delay, "limited">>,
           <<a.status \in {408, 429} \/ a.status >= 500, "transient">>,
           <<a.status \in 400..499, "reject">>,
           <<TRUE, "transient">> >>

Verdict(path, a) ==
    LET rules == Rules(path, a)
        first == CHOOSE i \in DOMAIN rules :
                    rules[i][1] /\ \A j \in 1..(i - 1) : ~rules[j][1]
    IN  rules[first][2]

-----------------------------------------------------------------------------
(* The loop. *)

Traced(k) == [k EXCEPT !.traced = @ + 1]   \* emit_attempt
Ended(k, result) ==
    [Idle EXCEPT !.pc = "done", !.path = k.path, !.attempt = k.attempt, !.result = result,
                 !.traced = k.traced, !.saw = k.saw]

\* Slip: a retry that costs no attempt.
NextTurnUncounted(k, last) ==
    [k EXCEPT !.pc = "acquire", !.last = last, !.cred = NoCred]

\* Slip: the error of the last attempt is wrapped in a generic one.
NextTurnGeneric(k, last) ==
    IF k.attempt + 1 < Budget
    THEN [k EXCEPT !.pc = "acquire", !.attempt = @ + 1, !.last = last, !.cred = NoCred]
    ELSE Ended(k, "failed")

(* The next attempt; after the last one the call fails with what it kept.   *)
NextTurn(k, last) ==
    IF k.attempt + 1 < Budget
    THEN [k EXCEPT !.pc = "acquire", !.attempt = @ + 1, !.last = last, !.cred = NoCred]
    ELSE Ended([k EXCEPT !.last = last], IF last = "429" THEN "limited" ELSE "failed")

Begin(r, path) ==
    /\ call[r].pc \in {"idle", "done"}
    /\ call' = [call EXCEPT ![r] = [Idle EXCEPT !.pc = "acquire", !.path = path]]
    /\ UNCHANGED <<entry, resolved, profile, staled, blamed>>

(* acquire_context: a selection, or a 429 while one only cools down.        *)
Acquire(r) ==
    /\ call[r].pc = "acquire" /\ Available # {}
    /\ \E c \in Available :
         call' = [call EXCEPT ![r].pc = "arn", ![r].cred = c, ![r].arn = entry[c].arn,
                              ![r].stale = entry[c].stale]
    /\ UNCHANGED <<entry, resolved, profile, staled, blamed>>

AcquireFails(r) ==
    /\ call[r].pc = "acquire" /\ Available = {}
    /\ call' = [call EXCEPT ![r] =
                  IF \E c \in Creds : entry[c].state = "enabled"
                  THEN Ended(Traced(@), "limited") ELSE Ended(@, "none")]
    /\ UNCHANGED <<entry, resolved, profile, staled, blamed>>

\* try_self_heal; when it is due is CredentialPool's matter.
Heal(r) ==
    /\ call[r].pc = "acquire" /\ Available = {}
    /\ \E c \in Creds : entry[c].state = "failures"
    /\ entry' = [c \in Creds |-> IF entry[c].state = "failures"
                                 THEN [entry[c] EXCEPT !.state = "enabled", !.fails = 0]
                                 ELSE entry[c]]
    /\ UNCHANGED <<resolved, profile, call, staled, blamed>>

\* Slip: asking once is enough, whatever came of it.
ResolveOnce(r) ==
    LET c == call[r].cred
    IN  /\ call[r].pc = "arn"
        /\ IF call[r].arn \/ c \in resolved
           THEN /\ call' = [call EXCEPT ![r].pc = "send"] /\ UNCHANGED <<entry, resolved>>
           ELSE \E outcome \in ResolveOutcomes :
                  LET found == outcome = "answered" /\ c \in profile
                  IN  /\ call' = [call EXCEPT ![r] =
                                   IF outcome = "limited"
                                   THEN Ended(Traced(@), "limited")
                                   ELSE [@ EXCEPT !.pc = "send", !.arn = found]]
                      /\ entry' = [entry EXCEPT ![c].arn = @ \/ found]
                      /\ resolved' = resolved \cup {c}
        /\ UNCHANGED <<profile, staled, blamed>>

(* ensure_profile_arn: the account's profiles are asked for until there is  *)
(* an answer; an entry that has an ARN by now is not asked about.           *)
Resolve(r) ==
    LET c == call[r].cred
    IN  /\ call[r].pc = "arn"
        /\ IF call[r].arn \/ c \in resolved
           THEN /\ call' = [call EXCEPT ![r].pc = "send"] /\ UNCHANGED <<entry, resolved>>
           ELSE \E outcome \in IF entry[c].arn THEN {"answered"} ELSE ResolveOutcomes :
                  LET found == entry[c].arn \/ (outcome = "answered" /\ c \in profile)
                  IN  /\ call' = [call EXCEPT ![r] =
                                   IF outcome = "limited"
                                   THEN Ended(Traced(@), "limited")
                                   ELSE [@ EXCEPT !.pc = "send", !.arn = found]]
                      /\ entry' = [entry EXCEPT ![c].arn = found]
                      /\ resolved' = IF outcome = "answered" THEN resolved \cup {c}
                                     ELSE resolved
        /\ UNCHANGED <<profile, staled, blamed>>

-----------------------------------------------------------------------------
(* Reports. *)

Failed(e) ==
    IF e.state # "enabled" THEN e
    ELSE [e EXCEPT !.fails = @ + 1,
                   !.state = IF e.fails + 1 >= MaxFailures THEN "failures" ELSE @]

Blame(c) == blamed' = IF entry[c].state = "enabled" THEN blamed \cup {c} ELSE blamed

Terminal(e) ==
    IF e.state # "enabled" THEN e ELSE [e EXCEPT !.state = "terminal", !.fails = MaxFailures]

Succeeded(e) == [e EXCEPT !.fails = 0, !.throttled = FALSE]

\* What a report leaves available decides between failover and giving up.
OnOrOut(e, c, k) ==
    IF \E d \in Creds : LET f == IF d = c THEN e ELSE entry[d]
                        IN  f.state = "enabled" /\ ~f.throttled
    THEN NextTurn(k, "other") ELSE Ended(k, "exhausted")

Send(r) ==
    LET c == call[r].cred
    IN  /\ call[r].pc = "send"
        /\ IF c \in BadEndpoint
           THEN /\ call' = [call EXCEPT ![r] = NextTurn(Traced(@), "other")]
                /\ entry' = [entry EXCEPT ![c] = Failed(@)] /\ Blame(c)
           ELSE /\ call' = [call EXCEPT ![r].pc = "sent"]
                /\ UNCHANGED <<entry, blamed>>
        /\ UNCHANGED <<resolved, profile, staled>>

\* client_for cannot build a client: the model API path leaves no trace of it.
NoClient(r) ==
    /\ call[r].pc = "send" /\ call[r].cred \in OwnProxy \ BadEndpoint
    /\ call' = [call EXCEPT ![r] = IF @.path = "api" THEN Ended(@, "no client")
                                   ELSE Ended(Traced(@), "failed")]
    /\ UNCHANGED <<entry, resolved, profile, staled, blamed>>

\* A token the upstream has stopped accepting gets a 401, any other any answer.
Possible(k) ==
    IF k.stale THEN {[status |-> 401, marks |-> {"bearer"}, delay |-> FALSE]} ELSE Answers

\* Slip: one refresh for the whole call.
RefreshesOncePerCall(k, a) == "bearer" \in a.marks /\ k.refreshed = {}

\* A token the answer calls invalid is refreshed once for each credential.
Refreshes(k, a) == "bearer" \in a.marks /\ k.cred \notin k.refreshed

(* The answer is read and acted on; a rejected token is first refreshed,    *)
(* once for a credential, and the body of a traced MCP call is read first.  *)
Receive(r, a) ==
    LET c == call[r].cred
        verdict == Verdict(call[r].path, a)
        seen == [call[r] EXCEPT !.saw = @ \cup {IF a.status = 429 THEN "429" ELSE "other"}]
        k == Traced(seen)
        Becomes(next) == call' = [call EXCEPT ![r] = next]
        Reported(e) == entry' = [entry EXCEPT ![c] = e]
    IN  /\ call[r].pc = "sent" /\ a \in Possible(call[r])
        /\ \/ /\ verdict = "success"
              /\ IF k.path = "traced"
                 THEN Becomes([seen EXCEPT !.pc = "body"]) /\ UNCHANGED <<entry, blamed>>
                 ELSE Becomes(Ended(k, "served")) /\ Reported(Succeeded(entry[c]))
                                                  /\ UNCHANGED blamed
           \/ /\ verdict = "terminal"
              /\ Becomes(OnOrOut(Terminal(entry[c]), c, k)) /\ Reported(Terminal(entry[c]))
              /\ UNCHANGED blamed
           \/ /\ verdict = "auth" /\ Refreshes(k, a)
              /\ Becomes([k EXCEPT !.pc = "refresh", !.refreshed = @ \cup {c}])
              /\ UNCHANGED <<entry, blamed>>
           \/ /\ verdict = "auth" /\ ~Refreshes(k, a)
              /\ Becomes(OnOrOut(Failed(entry[c]), c, k)) /\ Reported(Failed(entry[c]))
              /\ Blame(c)
           \/ /\ verdict = "throttled"
              /\ Becomes(IF Available \subseteq {c} THEN Ended(k, "limited")
                         ELSE NextTurn(k, "429"))
              /\ Reported([entry[c] EXCEPT !.throttled = TRUE]) /\ UNCHANGED blamed
           \/ /\ verdict = "network"
              /\ Becomes(NextTurn(k, "other"))
              /\ IF c \in OwnProxy THEN Reported(Failed(entry[c])) /\ Blame(c)
                 ELSE UNCHANGED <<entry, blamed>>
           \/ /\ verdict = "transient"
              /\ Becomes(NextTurn(k, IF a.status = 429 THEN "429" ELSE "other"))
              /\ UNCHANGED <<entry, blamed>>
           \/ /\ verdict \in {"limited", "reject"}
              /\ Becomes(Ended(k, IF verdict = "limited" THEN "limited" ELSE "failed"))
              /\ UNCHANGED <<entry, blamed>>
        /\ UNCHANGED <<resolved, profile, staled>>

(* force_refresh_token_for, then another attempt or the report of a failure. *)
Refreshed(r, outcome) ==
    LET c == call[r].cred
    IN  /\ call[r].pc = "refresh"
        /\ \/ /\ outcome = "ok"
              /\ call' = [call EXCEPT ![r] = NextTurn(@, @.last)]
              /\ entry' = [entry EXCEPT ![c].stale = FALSE]
              /\ UNCHANGED blamed
           \/ /\ outcome = "limited"
              /\ call' = [call EXCEPT ![r] = Ended(@, "limited")]
              /\ UNCHANGED <<entry, blamed>>
           \/ /\ outcome = "failed"
              /\ call' = [call EXCEPT ![r] = OnOrOut(Failed(entry[c]), c, @)]
              /\ entry' = [entry EXCEPT ![c] = Failed(@)]
              /\ Blame(c)
        /\ UNCHANGED <<resolved, profile, staled>>

\* call_mcp_with_trace: only a body the caller accepts is a success.
ReadBody(r, accepted) ==
    LET c == call[r].cred
    IN  /\ call[r].pc = "body"
        /\ call' = [call EXCEPT ![r] =
                      IF accepted THEN Ended(Traced(@), "served")
                      ELSE Ended(Traced(@), "failed")]
        /\ entry' = IF accepted THEN [entry EXCEPT ![c] = Succeeded(@)] ELSE entry
        /\ UNCHANGED <<resolved, profile, staled, blamed>>

-----------------------------------------------------------------------------
(* Meanwhile. *)

CoolsDown(c) ==
    /\ entry[c].throttled
    /\ entry' = [entry EXCEPT ![c].throttled = FALSE]
    /\ UNCHANGED <<resolved, profile, call, staled, blamed>>

\* The upstream stops accepting the tokens given out for c.
GoesStale(c) ==
    /\ staled[c] < MaxStale /\ ~entry[c].stale
    /\ staled' = [staled EXCEPT ![c] = @ + 1]
    /\ entry' = [entry EXCEPT ![c].stale = TRUE]
    /\ call' = [r \in Calls |-> IF call[r].cred = c THEN [call[r] EXCEPT !.stale = TRUE]
                                ELSE call[r]]
    /\ UNCHANGED <<resolved, profile, blamed>>

\* A balance or model lookup asks for the profiles too, and tells no call of it.
LookUp(c) ==
    /\ c \in profile /\ ~entry[c].arn
    /\ entry' = [entry EXCEPT ![c].arn = TRUE]
    /\ UNCHANGED <<resolved, profile, call, staled, blamed>>

\* replace_idc_relogin_credentials: the account may have a profile by now.
Relogin(c) ==
    /\ Relogins /\ c \in Profiled
    /\ entry' = [entry EXCEPT ![c] = [state |-> "enabled", fails |-> 0, throttled |-> FALSE,
                                      arn |-> FALSE, stale |-> FALSE]]
    /\ profile' \in {profile, profile \cup {c}}
    /\ UNCHANGED <<resolved, call, staled, blamed>>

Step(r) ==
    \/ Acquire(r) \/ AcquireFails(r) \/ Heal(r) \/ Resolve(r) \/ Send(r) \/ NoClient(r)
    \/ \E a \in Answers \cup {[status |-> 401, marks |-> {"bearer"}, delay |-> FALSE]} :
          Receive(r, a)
    \/ \E outcome \in RefreshOutcomes : Refreshed(r, outcome)
    \/ \E accepted \in BOOLEAN : ReadBody(r, accepted)

Next ==
    \/ \E r \in Calls : Step(r) \/ \E path \in Paths : Begin(r, path)
    \/ \E c \in Creds : CoolsDown(c) \/ GoesStale(c) \/ LookUp(c) \/ Relogin(c)

Spec == Init /\ [][Next]_vars

-----------------------------------------------------------------------------
(* Properties. *)

PCs == {"idle", "acquire", "arn", "send", "sent", "refresh", "body", "done"}

(* Every variable stays in its type; each attempt is in the trace once, in  *)
(* order, when the next one starts, and a call ends with its last attempt   *)
(* traced unless no credential was selected or no client could be built.    *)
TypeOK ==
    /\ entry \in [Creds -> Entry] /\ resolved \subseteq Creds /\ profile \subseteq Creds
    /\ \A r \in Calls :
          /\ call[r].pc \in PCs /\ call[r].attempt < Budget
          /\ call[r].traced =
                IF \/ call[r].pc = "refresh"
                   \/ call[r].pc = "done" /\ call[r].result \notin {"none", "no client"}
                THEN call[r].attempt + 1 ELSE call[r].attempt

(* A token the upstream stopped accepting never costs its credential a      *)
(* failure the first time, however many calls were using it: each of them   *)
(* refreshes before it blames.                                              *)
StaleTokenForgiven == \A c \in Creds : staled[c] <= 1 => c \notin blamed

(* A credential is marked only by what is its own fault: the request's      *)
(* faults and the upstream's overload leave every record as it was, whatever *)
(* else the body of the answer says.                                        *)
BlamesOwnFault ==
    \A r \in Calls, a \in Answers :
        Receive(r, a) /\ entry' # entry
          => \/ a.status \notin {400, 408, 500, 503, 524}
             \/ "suspended" \in a.marks /\ a.status # 400
OnlyItsOwnFault == [][BlamesOwnFault]_vars

(* A call that was only ever answered 429 tells its client to back off,     *)
(* unless other calls have meanwhile taken every credential out of service. *)
TellsBackOff ==
    \A r \in Calls :
        call[r].pc # "done" /\ call'[r].pc = "done" /\ call'[r].saw = {"429"}
          => call'[r].result = "limited" \/ Available' = {}
               \/ call'[r].result = "no client"
BackOffIsTold == [][TellsBackOff]_vars

(* Once an account's profiles were asked for, its entry has the real ARN if *)
(* there is one: a transient failure does not pin the placeholder until the *)
(* next restart (ensure_profile_arn).  A new login breaks this.             *)
ResolvedHasArn == \A c \in resolved \cap profile : entry[c].arn

=============================================================================
