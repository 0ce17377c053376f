--------------------------- MODULE CredentialPool ---------------------------
(***************************************************************************)
(* The credential scheduler of MultiTokenManager: the health record of     *)
(* every upstream credential, the concurrent requests that pick, use and   *)
(* report on credentials, the controlled self-healing, and the             *)
(* administrator's operations on the same records.                         *)
(*                                                                         *)
(* One action is one critical section of the `entries` mutex, so the       *)
(* interleavings of Next are those of the lock: a request reads the pool,  *)
(* lets go of it across every await, and comes back to a pool that other   *)
(* requests and the administrator have changed.                            *)
(*                                                                         *)
(* Time is three expiry events (a 429 cooldown ends, the self-healing      *)
(* interval elapses, the oldest RPM timestamp leaves its window); what the *)
(* upstream and the token service answer is a choice among CallOutcomes    *)
(* and TokenOutcomes.                                                      *)
(***************************************************************************)
EXTENDS Integers, FiniteSets

CONSTANTS
    Creds,          \* credential ids (0 is the "no credential" of current_id)
    Priority,       \* the priority of each credential
    InvertPriority, \* invert_priority
    MaxPriority,    \* u32::MAX
    Models, Groups, \* what a request may name
    NoModel,        \* an MCP request names no model
    NoGroup,        \* a client key bound to no group sees every credential
    GroupsOf,       \* the groups of each credential
    Unsupported,    \* <<credential, model>> the model cache rules out
    Requests,       \* concurrent callers of acquire_context
    Scopes,         \* the [model, group] pairs they ask for
    MaxFailures,    \* MAX_FAILURES_PER_CREDENTIAL, 3 in the code
    MaxHealRounds,  \* self_heal_max_consecutive_rounds, 0 = unlimited
    RpmLimit,       \* account_rpm_limit, 0 = the limiter is off
    LoadedReasons,  \* why a credential of the file may be disabled
    LoadedRounds,   \* self-healing rounds the credential file may hold
    Balanced,       \* load_balancing_mode is "balanced"
    Sticky,         \* session affinity is on
    HealEnabled,    \* self_heal_enabled
    HasFile,        \* credentials_path is set and other programs write the file
    TokenOutcomes, CallOutcomes, AdminOps   \* what the environment may do

VARIABLES
    cred,           \* entries: the health record of each credential
    currentId,      \* current_id
    req,            \* the requests in progress
    sweep           \* a disabling the administrator has under way

vars == <<cred, currentId, req, sweep>>

Reasons == {"Manual", "TooManyFailures", "Suspended", "TooManyRefreshFailures",
            "QuotaExceeded", "InvalidRefreshToken", "InvalidConfig"}

AnyScope == [model : Models \cup {NoModel}, group : Groups \cup {NoGroup}]

ASSUME CredsAssumption ==
    /\ Creds \subseteq Nat \ {0} /\ IsFiniteSet(Creds)
    /\ MaxPriority \in Nat /\ Priority \in [Creds -> 0..MaxPriority]
    /\ GroupsOf \in [Creds -> SUBSET Groups]
    /\ Unsupported \subseteq Creds \X Models

ASSUME ScopesAssumption ==
    /\ Scopes \subseteq AnyScope
    /\ NoModel \notin Models /\ NoGroup \notin Groups

ASSUME LimitsAssumption ==
    /\ MaxFailures \in Nat \ {0} /\ MaxHealRounds \in Nat /\ RpmLimit \in Nat
    /\ LoadedRounds \subseteq Nat /\ LoadedReasons \subseteq Reasons
    /\ MaxHealRounds > 0 => \A n \in LoadedRounds : n <= MaxHealRounds

ASSUME SettingsAssumption ==
    /\ {Balanced, Sticky, HealEnabled, HasFile, InvertPriority} \subseteq BOOLEAN
    /\ TokenOutcomes \subseteq {"ready", "superseded", "limited", "failed", "invalid"}
    /\ CallOutcomes \subseteq {"success", "auth", "refreshed", "quota",
                               "suspended", "throttled", "other"}
    /\ AdminOps \subseteq {"disable", "enable", "reset", "relogin", "token",
                           "unthrottle", "recover", "bulk", "audit", "delete"}

-----------------------------------------------------------------------------
(* The health record.  `burnt` is a history variable: the failed calls the  *)
(* pool accepted as evidence against the credential since something last    *)
(* spoke for it (a success, a rotated token, a recovered quota, an          *)
(* administrator).  Nothing reads it but the properties.                    *)

Entry == [live : BOOLEAN, disabled : BOOLEAN, reason : Reasons \cup {"None"},
          fails : 0..MaxFailures, refreshFails : 0..MaxFailures,
          rounds : Nat, healModel : Models \cup {NoModel}, cooling : BOOLEAN,
          throttled : BOOLEAN, window : Nat, burnt : Nat]

ClearStreak(e) == [e EXCEPT !.rounds = 0, !.cooling = FALSE, !.healModel = NoModel]

DisableFor(e, why) == [e EXCEPT !.disabled = TRUE, !.reason = why]

Enable(e) == [e EXCEPT !.disabled = FALSE, !.reason = "None", !.fails = 0]

\* reset_health: an administrator's reset, or a new IdC login.
ResetHealth(e) ==
    [ClearStreak(Enable(e)) EXCEPT
        !.refreshFails = 0, !.throttled = FALSE, !.window = 0, !.burnt = 0]

\* report_success_for_request: a success counts even for a disabled
\* credential, but ends only the streak of its own model.
OnSuccess(e, model) ==
    LET cleared == [e EXCEPT !.fails = 0, !.refreshFails = 0,
                             !.throttled = FALSE, !.burnt = 0]
    IN  IF e.rounds > 0 /\ e.healModel = model THEN ClearStreak(cleared)
                                               ELSE cleared

\* Slip: a late failure is counted against a disabled credential too.
OnFailureUnguarded(e) ==
    LET counted == [e EXCEPT !.fails = @ + 1, !.burnt = @ + 1]
    IN  IF counted.fails >= MaxFailures THEN DisableFor(counted, "TooManyFailures")
                                        ELSE counted

\* report_failure_for_request: the call that reaches the threshold disables.
OnFailure(e) ==
    LET counted == [e EXCEPT !.fails = @ + 1, !.burnt = @ + 1]
    IN  CASE e.disabled -> e
          [] ~e.disabled /\ counted.fails >= MaxFailures
                -> DisableFor(counted, "TooManyFailures")
          [] OTHER -> counted

\* Slip: a late quota or suspension report overwrites the reason.
OnTerminalUnguarded(e, why) ==
    [ClearStreak(DisableFor(e, why)) EXCEPT !.fails = MaxFailures]

\* report_quota_exhausted_for_request and report_suspended_for_request.
OnTerminal(e, why) ==
    IF e.disabled THEN e
    ELSE [ClearStreak(DisableFor(e, why)) EXCEPT !.fails = MaxFailures]

\* report_refresh_failure.
OnRefreshFailure(e) ==
    LET counted == [e EXCEPT !.refreshFails = @ + 1]
    IN  CASE e.disabled -> e
          [] ~e.disabled /\ counted.refreshFails >= MaxFailures
                -> ClearStreak(DisableFor(counted, "TooManyRefreshFailures"))
          [] OTHER -> counted

\* report_refresh_token_invalid.
OnTokenInvalid(e) ==
    IF e.disabled THEN e ELSE ClearStreak(DisableFor(e, "InvalidRefreshToken"))

\* Slip: a reload that forgets the refresh failures.
OnReloadKeepingFailures(e) == [Enable(e) EXCEPT !.burnt = 0]

\* try_reload_credential_from_file: a rotated token revives the credential,
\* whatever it was disabled for.
OnReload(e) == [Enable(e) EXCEPT !.refreshFails = 0, !.burnt = 0]

\* Slip: healing that is not counted as a round.
OnHealUncounted(e, model) == [Enable(e) EXCEPT !.cooling = TRUE, !.healModel = model]

\* Slip: healing that leaves the failure count at the threshold.
OnHealKeepingFailures(e, model) ==
    [e EXCEPT !.disabled = FALSE, !.reason = "None", !.rounds = @ + 1,
              !.cooling = TRUE, !.healModel = model]

\* try_self_heal, for one credential.
OnHeal(e, model) ==
    [Enable(e) EXCEPT !.rounds = @ + 1, !.cooling = TRUE, !.healModel = model]

LoadedEntry(disabled, why, rounds, model) ==
    [live |-> TRUE, disabled |-> disabled, reason |-> why, fails |-> 0,
     refreshFails |-> 0, rounds |-> rounds, healModel |-> model,
     cooling |-> FALSE, throttled |-> FALSE, window |-> 0, burnt |-> 0]

LoadedStreaks == [rounds : LoadedRounds, model : Models \cup {NoModel}]

\* What the constructor makes of one record of the credential file.
LoadedEntries ==
    {LoadedEntry(FALSE, "None", 0, NoModel)}
      \cup {LoadedEntry(TRUE, why, 0, NoModel) : why \in LoadedReasons}
      \cup {LoadedEntry(FALSE, "None", s.rounds, s.model) : s \in LoadedStreaks}
      \cup {LoadedEntry(TRUE, "TooManyFailures", s.rounds, s.model) : s \in LoadedStreaks}

-----------------------------------------------------------------------------
(* Who may serve a request.                                                 *)

InGroup(c, scope) == scope.group = NoGroup \/ scope.group \in GroupsOf[c]

Serves(c, scope) == InGroup(c, scope) /\ <<c, scope.model>> \notin Unsupported

RpmExceeded(e) == RpmLimit > 0 /\ e.window >= RpmLimit

\* The enabled credentials of a scope, cooling down or not.
EnabledFor(pool, scope) ==
    {c \in Creds : pool[c].live /\ ~pool[c].disabled /\ Serves(c, scope)}

\* entry_available_for_request.
AvailableFor(pool, scope) ==
    {c \in EnabledFor(pool, scope) : ~pool[c].throttled /\ ~RpmExceeded(pool[c])}

AllEnabled(pool) == {c \in Creds : pool[c].live /\ ~pool[c].disabled}

\* min_by_key on a key, then on the id.
IsLeast(key, c, S) ==
    \A d \in S : key[c] < key[d] \/ (key[c] = key[d] /\ c <= d)

PriorityKey == [c \in Creds |-> IF InvertPriority THEN MaxPriority - Priority[c]
                                                 ELSE Priority[c]]

IsBest(c, S) == IsLeast(PriorityKey, c, S)

InFlight(c) == Cardinality({r \in Requests : req[r].guard /\ req[r].cred = c})

\* Balanced mode takes any of the least loaded candidates: the smooth
\* weighted rotation among them is left open here.
Selectable(c, S) ==
    IF Balanced THEN \A d \in S : InFlight(c) <= InFlight(d) ELSE IsBest(c, S)

\* The reports move current_id to the best of S, and leave it when S is empty.
SwitchCurrentTo(S) ==
    IF S = {} THEN UNCHANGED currentId
    ELSE \E c \in S : IsBest(c, S) /\ currentId' = c

-----------------------------------------------------------------------------
Idle(scope, result) ==
    [pc |-> "idle", scope |-> scope, cred |-> 0, guard |-> FALSE,
     left |-> 0, result |-> result]

Finished(r, result) == [req EXCEPT ![r] = Idle(req[r].scope, result)]

\* Slip: a superseded or failed refresh that costs no attempt.
NextAttemptUncounted(r) ==
    [req EXCEPT ![r].pc = "select", ![r].cred = 0, ![r].guard = FALSE]

\* Another turn of the acquisition loop after a counted attempt.
NextAttempt(r) ==
    IF req[r].left > 1
    THEN [req EXCEPT ![r].pc = "select", ![r].cred = 0, ![r].guard = FALSE,
                     ![r].left = @ - 1]
    ELSE Finished(r, "noToken")

Retried(r) == [req EXCEPT ![r].pc = "select", ![r].cred = 0, ![r].guard = FALSE]

NoSweep == [left |-> {}, why |-> "None", current |-> 0, switch |-> FALSE]

InitialCurrent ==
    IF AllEnabled(cred) = {} THEN currentId = 0
    ELSE currentId \in AllEnabled(cred) /\ IsBest(currentId, AllEnabled(cred))

Init ==
    /\ cred \in [Creds -> LoadedEntries]
    /\ \E scope \in Scopes : req = [r \in Requests |-> Idle(scope, "none")]
    /\ currentId \in Creds \cup {0} /\ InitialCurrent
    /\ sweep = NoSweep

(* acquire_context_impl: three attempts for every credential of the group. *)
Begin(r, scope) ==
    LET total == Cardinality({c \in Creds : cred[c].live /\ InGroup(c, scope)})
    IN  /\ req[r].pc = "idle"
        /\ req' = [req EXCEPT ![r] =
                    [pc |-> "select", scope |-> scope, cred |-> 0, guard |-> FALSE,
                     left |-> IF total = 0 THEN 1 ELSE total * MaxFailures,
                     result |-> "none"]]
        /\ UNCHANGED <<cred, currentId, sweep>>

(* sticky_candidate: the session's credential, when it is still available; *)
(* its in-flight guard is taken under a second lock.                        *)
PickSticky(r) ==
    /\ Sticky /\ req[r].pc = "select"
    /\ \E c \in AvailableFor(cred, req[r].scope) :
           req' = [req EXCEPT ![r].pc = "sticky", ![r].cred = c]
    /\ UNCHANGED <<cred, currentId, sweep>>

ClaimSticky(r) ==
    /\ req[r].pc = "sticky"
    /\ req' = [req EXCEPT ![r].pc = "chosen", ![r].guard = cred[req[r].cred].live]
    /\ UNCHANGED <<cred, currentId, sweep>>

(* select_next_credential_impl: choice and in-flight claim under one lock. *)
Pick(r) ==
    LET S == AvailableFor(cred, req[r].scope)
    IN  /\ req[r].pc \in {"select", "reselect"}
        /\ \E c \in S :
               /\ Selectable(c, S)
               /\ req' = [req EXCEPT ![r].pc = "chosen", ![r].cred = c, ![r].guard = TRUE]
        /\ UNCHANGED <<cred, currentId, sweep>>

PickNone(r) ==
    /\ req[r].pc \in {"select", "reselect"}
    /\ AvailableFor(cred, req[r].scope) = {}
    /\ req' = [req EXCEPT ![r].pc = IF @ = "select" THEN "heal" ELSE "none"]
    /\ UNCHANGED <<cred, currentId, sweep>>

Healable(c, scope) ==
    LET e == cred[c]
    IN  /\ e.live /\ e.disabled /\ e.reason = "TooManyFailures"
        /\ Serves(c, scope)
        /\ e.rounds > 0 => e.healModel = scope.model
        /\ MaxHealRounds > 0 => e.rounds < MaxHealRounds
        /\ ~e.cooling

(* try_self_heal: every credential of the scope that may be revived, at once. *)
Heal(r) ==
    LET scope == req[r].scope
        healed == {c \in Creds : HealEnabled /\ Healable(c, scope)}
    IN  /\ req[r].pc = "heal"
        /\ cred' = [c \in Creds |-> IF c \in healed THEN OnHeal(cred[c], scope.model)
                                                   ELSE cred[c]]
        /\ req' = [req EXCEPT ![r].pc = IF healed = {} THEN "none" ELSE "reselect"]
        /\ UNCHANGED <<currentId, sweep>>

(* No candidate: a 429 while an enabled credential is only waiting for its *)
(* cooldown or its RPM window, "all disabled" otherwise.                    *)
GiveUp(r) ==
    LET S == EnabledFor(cred, req[r].scope)
        waiting == \/ S # {} /\ \A c \in S : cred[c].throttled \/ RpmExceeded(cred[c])
                   \/ \E c \in S : cred[c].throttled
    IN  /\ req[r].pc = "none"
        /\ req' = Finished(r, IF waiting THEN "limited" ELSE "exhausted")
        /\ UNCHANGED <<cred, currentId, sweep>>

(* The pick becomes current_id, outside the lock it was made under. *)
Choose(r) ==
    /\ req[r].pc = "chosen"
    /\ req' = [req EXCEPT ![r].pc = "token"]
    /\ currentId' = req[r].cred
    /\ UNCHANGED <<cred, sweep>>

-----------------------------------------------------------------------------
(* try_ensure_token and handle_token_refresh_error. *)

UpdateLive(c, e) == cred' = IF cred[c].live THEN [cred EXCEPT ![c] = e] ELSE cred

TokenReady(r) ==
    LET c == req[r].cred
    IN  /\ "ready" \in TokenOutcomes /\ req[r].pc = "token"
        /\ UpdateLive(c, [cred[c] EXCEPT !.refreshFails = 0])
        /\ req' = [req EXCEPT ![r].pc = "record"]
        /\ UNCHANGED <<currentId, sweep>>

TokenSuperseded(r) ==
    /\ "superseded" \in TokenOutcomes /\ req[r].pc = "token"
    /\ req' = NextAttempt(r)
    /\ UNCHANGED <<cred, currentId, sweep>>

TokenLimited(r) ==
    /\ "limited" \in TokenOutcomes /\ req[r].pc = "token"
    /\ req' = Finished(r, "limited")
    /\ UNCHANGED <<cred, currentId, sweep>>

\* A failed refresh: `e` is what the report makes of the record.
TokenReport(r, e) ==
    LET c == req[r].cred
        newlyDisabled == cred[c].live /\ ~cred[c].disabled /\ e.disabled
    IN  /\ req[r].pc = "token"
        /\ UpdateLive(c, e)
        /\ IF newlyDisabled THEN SwitchCurrentTo(AllEnabled(cred')) ELSE UNCHANGED currentId
        /\ req' = IF AllEnabled(cred') = {} THEN Finished(r, "exhausted") ELSE NextAttempt(r)
        /\ UNCHANGED sweep

TokenFailed(r) ==
    "failed" \in TokenOutcomes /\ TokenReport(r, OnRefreshFailure(cred[req[r].cred]))

TokenInvalid(r) ==
    "invalid" \in TokenOutcomes /\ TokenReport(r, OnTokenInvalid(cred[req[r].cred]))

(* invalid_grant, but the file holds another token: adopt it and try again, *)
(* without counting the attempt.                                            *)
TokenReloaded(r) ==
    LET c == req[r].cred
    IN  /\ HasFile /\ "invalid" \in TokenOutcomes /\ req[r].pc = "token"
        /\ UpdateLive(c, OnReload(cred[c]))
        /\ req' = Retried(r)
        /\ UNCHANGED <<currentId, sweep>>

\* Slip: recording the request without a second look at the window.
RecordUnchecked(r) ==
    LET c == req[r].cred
    IN  /\ req[r].pc = "record"
        /\ cred' = [cred EXCEPT ![c].window = @ + 1]
        /\ req' = [req EXCEPT ![r].pc = "call"]
        /\ UNCHANGED <<currentId, sweep>>

(* record_request: the RPM slot is taken only now, and may be gone. *)
Record(r) ==
    LET c == req[r].cred
        granted == cred[c].live /\ ~RpmExceeded(cred[c])
        slots == IF RpmLimit = 0 THEN 0 ELSE cred[c].window + 1
    IN  /\ req[r].pc = "record"
        /\ cred' = IF granted THEN [cred EXCEPT ![c].window = slots] ELSE cred
        /\ req' = IF granted THEN [req EXCEPT ![r].pc = "call"] ELSE Retried(r)
        /\ UNCHANGED <<currentId, sweep>>

-----------------------------------------------------------------------------
(* What the provider reports of an upstream call.  Its next attempt, on the *)
(* same or another credential, is a new acquisition: another Begin.         *)

CallSucceeds(r) ==
    LET c == req[r].cred
    IN  /\ "success" \in CallOutcomes /\ req[r].pc = "call"
        /\ UpdateLive(c, OnSuccess(cred[c], req[r].scope.model))
        /\ req' = [req EXCEPT ![r].pc = "stream"]
        /\ UNCHANGED <<currentId, sweep>>

\* The guard lives until the last chunk of the response.
StreamEnds(r) ==
    /\ req[r].pc = "stream"
    /\ req' = Finished(r, "served")
    /\ UNCHANGED <<cred, currentId, sweep>>

CallReport(r, e) ==
    LET c == req[r].cred
        newlyDisabled == cred[c].live /\ ~cred[c].disabled /\ e.disabled
    IN  /\ req[r].pc = "call"
        /\ UpdateLive(c, e)
        /\ IF newlyDisabled THEN SwitchCurrentTo(AvailableFor(cred', req[r].scope))
                            ELSE UNCHANGED currentId
        /\ req' = Finished(r, "failed")
        /\ UNCHANGED sweep

CallFails(r) ==
    "auth" \in CallOutcomes /\ CallReport(r, OnFailure(cred[req[r].cred]))

CallQuota(r) ==
    "quota" \in CallOutcomes /\ CallReport(r, OnTerminal(cred[req[r].cred], "QuotaExceeded"))

CallSuspended(r) ==
    "suspended" \in CallOutcomes /\ CallReport(r, OnTerminal(cred[req[r].cred], "Suspended"))

\* report_account_throttled_for_request: disabled or not, the cooldown starts.
CallThrottled(r) ==
    "throttled" \in CallOutcomes
      /\ CallReport(r, [cred[req[r].cred] EXCEPT !.throttled = TRUE])

\* A rejected bearer token, refreshed by force: the provider tries again.
CallRefreshed(r) ==
    "refreshed" \in CallOutcomes
      /\ CallReport(r, [cred[req[r].cred] EXCEPT !.refreshFails = 0])

\* Client errors, timeouts and upstream overload say nothing of the credential.
CallOther(r) ==
    "other" \in CallOutcomes /\ CallReport(r, cred[req[r].cred])

-----------------------------------------------------------------------------
(* The administrator.  SetEntry is a handler that changes one record. *)

SetEntry(c, e) == cred' = [cred EXCEPT ![c] = e] /\ UNCHANGED <<currentId, req, sweep>>

(* set_disabled(id, true) and disable_quota_exceeded of the Admin service   *)
(* look at the pool once (which is current, which are enabled), disable     *)
(* what they chose one record at a time whatever became of it meanwhile,    *)
(* and move current_id at the end if they hit the current they saw.         *)
SweepBegin(S, why) ==
    /\ sweep = NoSweep
    /\ sweep' = [left |-> S, why |-> why, current |-> currentId, switch |-> FALSE]
    /\ UNCHANGED <<cred, currentId, req>>

AdminDisable(c) ==
    "disable" \in AdminOps /\ cred[c].live /\ SweepBegin({c}, "Manual")

BulkDisable ==
    "bulk" \in AdminOps
      /\ \E S \in SUBSET AllEnabled(cred) : SweepBegin(S, "QuotaExceeded")

SweepStep(c) ==
    /\ c \in sweep.left
    /\ sweep' = IF cred[c].live /\ c = sweep.current
                THEN [sweep EXCEPT !.left = @ \ {c}, !.switch = TRUE]
                ELSE [sweep EXCEPT !.left = @ \ {c}]
    /\ UpdateLive(c, ClearStreak(DisableFor(cred[c], sweep.why)))
    /\ UNCHANGED <<currentId, req>>

\* switch_to_next.
SweepEnd ==
    /\ sweep # NoSweep /\ sweep.left = {}
    /\ sweep' = NoSweep
    /\ IF sweep.switch THEN SwitchCurrentTo(AllEnabled(cred) \ {currentId})
                       ELSE UNCHANGED currentId
    /\ UNCHANGED <<cred, req>>

\* set_disabled(id, false).
AdminEnable(c) ==
    /\ "enable" \in AdminOps /\ cred[c].live
    /\ SetEntry(c, [ClearStreak(Enable(cred[c])) EXCEPT
                        !.refreshFails = 0, !.throttled = FALSE, !.burnt = 0])

\* reset_and_enable.
AdminReset(c) ==
    /\ "reset" \in AdminOps /\ cred[c].live /\ cred[c].reason # "InvalidConfig"
    /\ SetEntry(c, ResetHealth(cred[c]))

\* replace_idc_relogin_credentials, seen from the pool.
AdminRelogin(c) ==
    /\ "relogin" \in AdminOps /\ cred[c].live
    /\ cred' = [cred EXCEPT ![c] = ResetHealth(@)]
    /\ SwitchCurrentTo(AllEnabled(cred'))
    /\ UNCHANGED <<req, sweep>>

\* update_refresh_token: only for a disabled credential, which stays disabled.
AdminSetToken(c) ==
    /\ "token" \in AdminOps /\ cred[c].live /\ cred[c].disabled
    /\ SetEntry(c, [cred[c] EXCEPT !.refreshFails = 0])

AdminClearThrottle(c) ==
    /\ "unthrottle" \in AdminOps /\ cred[c].live
    /\ SetEntry(c, [cred[c] EXCEPT !.throttled = FALSE])

\* recover_quota_exceeded, called by the balance scheduler.
RecoverQuota(c) ==
    /\ "recover" \in AdminOps /\ cred[c].live
    /\ cred[c].disabled /\ cred[c].reason = "QuotaExceeded"
    /\ SetEntry(c, [ClearStreak(Enable(cred[c])) EXCEPT
                        !.refreshFails = 0, !.throttled = FALSE, !.burnt = 0])

\* batch_mark_suspended, on what the log audit found.  Its choice of the next
\* current credential reads the plain priority, inverted or not.
AuditSuspend(S) ==
    /\ "audit" \in AdminOps
    /\ cred' = [c \in Creds |->
                  IF c \in S /\ cred[c].live /\ cred[c].reason # "Suspended"
                  THEN [ClearStreak(DisableFor(cred[c], "Suspended")) EXCEPT !.fails = MaxFailures]
                  ELSE cred[c]]
    /\ LET next == AvailableFor(cred', [model |-> NoModel, group |-> NoGroup])
       IN  IF next # {} /\ \E c \in S : /\ c = currentId /\ cred[c].live
                                        /\ cred[c].reason # "Suspended"
           THEN \E c \in next : IsLeast(Priority, c, next) /\ currentId' = c
           ELSE UNCHANGED currentId
    /\ UNCHANGED <<req, sweep>>

\* delete_credential: the sections that follow the removal only settle current_id.
AdminDelete(c) ==
    /\ "delete" \in AdminOps /\ cred[c].live
    /\ cred' = [cred EXCEPT ![c] = [LoadedEntry(FALSE, "None", 0, NoModel)
                                      EXCEPT !.live = FALSE]]
    /\ IF \A d \in Creds : ~cred'[d].live THEN currentId' = 0
       ELSE IF currentId = c THEN SwitchCurrentTo(AllEnabled(cred')) ELSE UNCHANGED currentId
    /\ UNCHANGED <<req, sweep>>

-----------------------------------------------------------------------------
(* Time. *)

ThrottleEnds(c) == cred[c].throttled /\ SetEntry(c, [cred[c] EXCEPT !.throttled = FALSE])

HealIntervalElapses(c) == cred[c].cooling /\ SetEntry(c, [cred[c] EXCEPT !.cooling = FALSE])

WindowSlides(c) == cred[c].window > 0 /\ SetEntry(c, [cred[c] EXCEPT !.window = @ - 1])

Select(r) == PickSticky(r) \/ ClaimSticky(r) \/ Pick(r) \/ PickNone(r)
               \/ Heal(r) \/ GiveUp(r) \/ Choose(r)

Token(r) == TokenReady(r) \/ TokenSuperseded(r) \/ TokenLimited(r) \/ TokenFailed(r)
              \/ TokenInvalid(r) \/ TokenReloaded(r) \/ Record(r)

Call(r) == CallSucceeds(r) \/ StreamEnds(r) \/ CallFails(r) \/ CallQuota(r)
             \/ CallSuspended(r) \/ CallThrottled(r) \/ CallRefreshed(r) \/ CallOther(r)

RequestStep(r) == Select(r) \/ Token(r) \/ Call(r)

Admin(c) == AdminDisable(c) \/ AdminEnable(c) \/ AdminReset(c) \/ AdminRelogin(c)
              \/ AdminSetToken(c) \/ AdminClearThrottle(c) \/ RecoverQuota(c)
              \/ SweepStep(c) \/ AdminDelete(c)

Clock(c) == ThrottleEnds(c) \/ HealIntervalElapses(c) \/ WindowSlides(c)

Next ==
    \/ \E r \in Requests : RequestStep(r) \/ \E scope \in Scopes : Begin(r, scope)
    \/ \E c \in Creds : Admin(c) \/ Clock(c)
    \/ BulkDisable \/ SweepEnd
    \/ \E S \in SUBSET Creds : AuditSuspend(S)

Spec == Init /\ [][Next]_vars

(* The async runtime keeps polling a started request, so each goes on. *)
FairSpec == Spec /\ \A r \in Requests : WF_vars(RequestStep(r))

-----------------------------------------------------------------------------
(* Properties. *)

Request == [pc : {"idle", "select", "reselect", "heal", "none", "sticky", "chosen",
                  "token", "record", "call", "stream"},
            scope : Scopes, cred : Creds \cup {0}, guard : BOOLEAN, left : Nat,
            result : {"none", "noToken", "limited", "exhausted", "served", "failed"}]

Sweep == [left : SUBSET Creds, why : {"None", "Manual", "QuotaExceeded"},
          current : Creds \cup {0}, switch : BOOLEAN]

(* Every variable stays in its type; a request past its selection holds a  *)
(* credential id.                                                          *)
TypeOK ==
    /\ cred \in [Creds -> Entry]
    /\ currentId \in Creds \cup {0}
    /\ req \in [Requests -> Request]
    /\ sweep \in Sweep
    /\ \A r \in Requests :
          req[r].pc \in {"sticky", "chosen", "token", "record", "call", "stream"}
            => req[r].cred \in Creds

(* No enabled credential stands at a threshold: whichever of the nine ways  *)
(* brought it back (healing, a reloaded token, an administrator, a reset    *)
(* quota), its next failure is judged from a count below the limit, so a    *)
(* single stale failure cannot take a credential straight out again.        *)
EnabledBelowThreshold ==
    \A c \in Creds : cred[c].live /\ ~cred[c].disabled =>
        cred[c].fails < MaxFailures /\ cred[c].refreshFails < MaxFailures

(* Self-healing cannot loop on a dead credential: between two signs that it *)
(* works (or an administrator's word), the pool accepts at most MaxFailures *)
(* failures per healing round and MaxHealRounds rounds, whatever the        *)
(* requests in flight report late (try_self_heal, "no endless 403 loop").   *)
HealBudget ==
    MaxHealRounds > 0 =>
        \A c \in Creds : cred[c].burnt <= MaxFailures * (MaxHealRounds + 1)

(* The inductive invariant behind the two properties above.  It ties the    *)
(* reason to the flag, says that a healable credential has tokens that      *)
(* still refresh, and accounts every burnt failure of a healable or enabled *)
(* credential to a completed healing round or to the running count.         *)
BudgetKept(e) ==
    /\ e.rounds <= MaxHealRounds
    /\ e.burnt <= MaxFailures * (MaxHealRounds + 1)
    /\ e.reason \in {"None", "TooManyFailures"}
          => e.burnt <= MaxFailures * e.rounds + e.fails

EntryHealthy(e) ==
    /\ e.disabled <=> e.reason # "None"
    /\ ~e.disabled => e.fails < MaxFailures
    /\ e.reason \in {"None", "TooManyFailures"} => e.refreshFails < MaxFailures
    /\ MaxHealRounds > 0 => BudgetKept(e)

PoolHealthy == \A c \in Creds : EntryHealthy(cred[c])

(* Request traffic never overrules why a credential is out: a step of a     *)
(* request takes a disabled credential back only from TooManyFailures, and  *)
(* never replaces one reason by another (a late failure of a suspended      *)
(* account must not make it healable).  DisabledReason, try_self_heal.      *)
ReasonsKept ==
    \A c \in Creds :
       cred[c].disabled /\ cred[c].reason # "TooManyFailures"
         /\ cred'[c].reason # cred[c].reason
       => req' = req

TrafficKeepsReasons == [][ReasonsKept]_vars

(* Requests that were all shown the same free RPM slot before their token   *)
(* arrived cannot all take it: a credential never has more calls in its     *)
(* window than the limit (record_request).                                  *)
RpmRespected ==
    RpmLimit > 0 => \A c \in Creds : cred[c].window <= RpmLimit

(* Every request leaves the acquisition loop, whatever the administrator    *)
(* and the other requests do to the pool meanwhile.                         *)
EveryRequestEnds == \A r \in Requests : req[r].pc # "idle" ~> req[r].pc = "idle"

=============================================================================
