# Formal model of kiro-rs

kiro-rs is a proxy that serves the Anthropic (and OpenAI) API from a pool of
upstream Kiro credentials. This directory holds TLA+ models of its stateful
parts, the TLC configurations that check them on small instances, and TLAPS
proofs, for every value of the constants, of the properties of its shared state
(the credential pool, the tokens, the registry, the retries, client keys and
groups, settings and counters on disk, proxies, the tables) and of its replies: one
message in the order the protocol promises, settled once, in every layer. Paths below
are relative to the repository, as in `src/kiro/token_manager.rs`;
`PROJECT.json` maps every definition to its lines.

    tlc -workers 4 -config PoolHealth.cfg MCCredentialPool    # model-check a run
    for m in *Proofs.tla; do tlapm $m; done                   # check the proofs

Contents: [the system](#the-system), [modules](#modules), [runs](#runs),
[fairness](#fairness), [proofs](#proofs), [disagreements](#disagreements),
[not modelled](#not-modelled), [plan](#plan).

## The system

### Components, their state and operations

**Credential scheduler and health** (`MultiTokenManager`, `src/kiro/token_manager.rs`).
State: `entries` (for each credential whether and why it is disabled, failure
counters, self-healing rounds and their model, 429 cooldown, RPM window,
in-flight count), `current_id`. Operations: `acquire_context` with its loop
(sticky, balanced or priority selection, healing when nothing is left, giving
up), the reports of the provider (success, failure, quota, suspension,
throttling, refresh failure, invalid token), the administrator's enable,
disable, reset, delete, bulk quota disabling and log audit, the recovery of
quotas. *Hard:* a request lets go of the `entries` lock across every await and
reports about a record that others have changed; there are nine ways to bring a
credential back; three independent counters decide about it. *Correct when:* a
credential that is out stays out for the reason it went out until someone
entitled speaks for it; healing cannot loop on a dead account; an enabled
credential starts below its thresholds; limits hold under concurrency; every
acquisition ends.

**Token refresh and credential file** (same file). State: tokens in `entries`,
the credential file, `refresh_lock` (asynchronous), `persist_lock`. Operations:
`try_ensure_token`, `force_refresh_token_for`, read-only queries,
`merge_refreshed_credentials`, `persist_credentials`,
`try_reload_credential_from_file`, `replace_idc_relogin_credentials`,
`update_refresh_token`. *Hard:* refresh tokens rotate and may be spent once;
other programs write the same file; the process may die anywhere. *Correct
when:* no spent token is presented; the file never falls back; a new login is
never replaced by an old one; no lock is kept for ever.

**Credential registry** (same file, `src/kiro/credential_dedup.rs`). State:
which token has which id, `next_id`, the credential file, `kiro_stats.json`, the
`.id-watermark` file. Operations: start, `add_credential`,
`update_refresh_token`, `delete_credential`, the deduplication tool. *Hard:*
validation is awaited between the duplicate check and the insertion; several files
are written one after the other; ids are recomputed at a start. *Correct when:* no
token is held twice; ids and what is counted under them stay with one account.

**Upstream call and retries** (`KiroProvider`, `src/kiro/provider.rs`,
`src/kiro/endpoint/mod.rs`). State: per call the attempt, the credential and its
copy of token and ARN, the credentials already refreshed, the last error;
`profile_resolution_attempted`. Operations: two retry loops, sixteen rules for
reading an answer, forced refresh, ARN resolution, a trace of every attempt.
*Hard:* the order of the rules decides who is to blame; concurrent calls meet one
stale token; the loops leave at some twenty places. *Correct when:* a credential
pays only for its own faults; a 429 reaches the client as one; every attempt is
traced once.

**Client keys and account groups** (`src/admin/client_keys.rs`, `groups.rs`,
`handlers.rs`). State: keys with limits and what was used of them, the system key
(in `config.json` too), group names in a registry, in credentials and in keys,
three files. *Hard:* a request is admitted under one state of its key and
settled under another; renaming or deleting a group is several writes to several
files. *Correct when:* a request pays with its own key; a void secret opens
nothing; a key uses exactly the credentials it was given.

**Settings and counters on disk** (`src/model/config.rs`, `token_manager.rs`,
`src/admin/service.rs`). State: values in memory and in `config.json`;
`stats_dirty`, the counters and `kiro_stats.json`. *Hard:* four disciplines of
locking and order for one file; a debounced save racing immediate ones. *Correct
when:* memory, file and what was acknowledged agree; counters move forward only.

**Proxies** (`src/admin/proxy_pool.rs`, `src/kiro/proxy_link.rs`,
`src/admin/proxy.rs`). State: the pool, links and copies in the credentials, the
generations that tell a rotation its reading is old. *Hard:* probes and
rotations work outside the locks while an administrator edits. *Correct when:* a
proxy switched off stays off; copies follow their entry; a rotation replaces only
what it judged.

**Binary update** (`src/admin/binary_update.rs`, `service.rs`). State: the
executable, its backup, staged copies, the label of the version to return to.
*Hard:* files are renamed one by one and the process may die between them.

**Request conversion** (`src/anthropic/converter.rs`). *Hard:* a client sends its
whole conversation each time, in any shape; the upstream accepts alternating
turns with paired calls and results. *Correct when:* every conversation becomes
one the upstream accepts, and what was sent of it before stays as it was.

**Tables and caches** (`cache_metering.rs`, `session_affinity.rs`, the model
cache in `token_manager.rs`, `ClientCache` in `provider.rs`). *Hard:* bounded
maps with expiry, several locks per operation, fetches that outlive an
invalidation. *Correct when:* nothing stale is stored, bounds hold, eviction takes
whose turn it is, a prefix is read only by who wrote it.

**Replies** (`src/anthropic/`: `stream.rs`, `handlers.rs`, `output_recovery.rs`,
`websearch_loop.rs`, `openai.rs`, `responses.rs`, `code_execution.rs`,
`identity_guard.rs`, `structured_output.rs`, `responses_compaction.rs`). State:
which content blocks are open, tags half read, calls half received, usage captured
and not settled yet. *Hard:* the upstream mixes text, tags, native reasoning and
calls in any order and may break off; each answer exists twice, streamed and
whole; several layers retry or replace an answer; the client leaves at any time.
*Correct when:* every stream is well formed; both forms of an answer say the same;
usage is settled exactly once.

### How they interact

A client's key admits a request and limits it to the credentials of a group. The
request is converted, its prompt metered, and the provider called; each attempt
acquires a context from the scheduler, which selects a credential (perhaps the one
the conversation had before), has its token refreshed when it is about to expire,
and takes an RPM slot. The client for the credential's proxy sends it. The answer
becomes a report to the scheduler, perhaps after a forced refresh; a good one is
decoded, passed through the layers the request asks for, translated for the API
the client speaks, and settled: usage to the records and the client key, credits
to the credential. The Admin API and background tasks (balances, proxies,
updates) change the same records at any time. Token changes, enabling, disabling,
adding and deleting write the one credential file, under `persist_lock`; other
programs may write it too. Everything shared is behind `parking_lot` locks, which
are never held across an await; `refresh_lock`, `config_write_lock` and the
semaphores are tokio's.

`PROJECT.json` lists the hazards at the line where each bites, with the
properties that cover it.

## Modules

| module | what | checked in | proofs in |
| --- | --- | --- | --- |
| `CredentialPool` | scheduler and health | `MCCredentialPool`, `MCRecovery` | `CredentialPoolProofs` |
| `LoginRegister` | what the token store promises (abstract) | `MCTokenStore` | `TokenStoreProofs` |
| `TokenStore` | refresh, persist, reload, new login, crash | `MCTokenStore`, `MCRecovery` | `TokenStoreProofs` |
| `CredentialRegistry` | ids, additions, deletions, counters, deduplication | `MCCredentialRegistry` | `CredentialRegistryProofs` |
| `ProviderRetry` | an upstream call and what it reports | `MCProviderRetry` | `ProviderRetryProofs` |
| `ClientKeys`, `AccountGroups` | who may use what | `MCServices` | `ServicesProofs` |
| `RuntimeConfig`, `StatsSaver` | settings and counters on disk | `MCServices` | `ServicesProofs` |
| `ProxyPool` | proxies, probes, rotations | `MCServices` | `ServicesProofs` |
| `BinaryUpdate` | the service replaces its executable | `MCServices` | `ServicesProofs` |
| `ModelCache` | models per credential | `MCRequests` | `TableProofs` |
| `RequestConverter` | conversation to request | `MCRequests` | – |
| `PromptCache`, `SessionAffinity`, `ClientCache` | bounded tables | `MCRequests` | `TableProofs` |
| `SseProtocol` | order of the events a client may rely on (abstract) | `MCReplies` | `LiveReplyProofs` |
| `ReplyText`, `LiveReply`, `WholeReply`, `Replies` | the two decoders of a reply | `MCReplies` | `LiveReplyProofs` |
| `OutputRecovery`, `SearchLoop`, `ExecutionBridge`, `IdentityGuard`, `StructuredReply`, `Compaction`, `ClientApis` | layers around a reply | `MCReplies` | `RepliesProofs` |

The modules overlap on purpose and each keeps of the neighbours only what its own
properties need. `CredentialPool` takes the result of a refresh and of a call as
a choice (`TokenOutcomes`, `CallOutcomes`); `TokenStore` is where those refreshes
come from and `ProviderRetry` is where those reports come from. `TokenStore`
holds credentials with a fixed id; `CredentialRegistry` gives and takes ids, and
has the file written in one step. `ProviderRetry` keeps three states of health of
a record (enabled, disabled by failures, terminally disabled). `SearchLoop` and
the other layers take an inner answer that `SseProtocol` allows.

An MC module of several parts has a variable `part` that says which of them
moves; the others stutter in their initial states, so a run is the union of its
parts' state spaces and not their product. Parts share no state in the code
either, or are two instances of one module with other constants
(`several`/`solo` of `MCProviderRetry`, `api`/`tool` of `MCCredentialRegistry`,
`refresh`/`crash` of `MCTokenStore`, `pool`/`store` of `MCRecovery`).

Operators named in a `Slip:` comment (`OnFailureUnguarded`, `MergeBlindly`, ...)
are not part of any specification. Each is a plausible bug, a variant of the
definition that follows it: put in that definition's place, it makes TLC refute
the property that guards against it. `PROJECT.json` pairs them under `mutants`.

### CredentialPool

| variable | code |
| --- | --- |
| `cred` | `CredentialEntry` and the fields of its `KiroCredentials` that decide about health: `failure_count` (`fails`), `refresh_failure_count`, `self_heal_rounds`, `self_heal_model`, `last_self_heal_at` (`cooling`), `rate_limited_until` (`throttled`), RPM timestamps (`window`: how many are in the window) |
| `currentId` | `current_id` |
| `req` | the local variables of one `acquire_context_impl` and of the attempt that uses its context |
| `sweep` | the disabling an administrator has under way (`disable_quota_exceeded`, `set_disabled` in `service.rs`) |
| `cred[c].burnt` | history: failures accepted since something last spoke for the credential; read by properties only |

One action is one critical section of the `entries` mutex; the interleavings of
`Next` are those of the lock. `Begin`, `PickSticky`/`ClaimSticky`, `Pick`,
`PickNone`, `Heal`, `GiveUp`, `Choose` are `acquire_context_impl`; `TokenReady`
and its siblings are `try_ensure_token` followed by
`handle_token_refresh_error`; `Record` is the RPM slot taken after the token
arrived; `CallSucceeds` and its siblings are the `report_*_for_request`
functions; `Admin...`, `BulkDisable`, `SweepStep`, `SweepEnd`, `RecoverQuota`,
`AuditSuspend` are the Admin API. A handler that finds no record of the id does
nothing, as in the code (`UpdateLive`). The report updates `current_id` inside
the same section. Time is three events: a cooldown ends, the healing interval
elapses, a timestamp leaves the RPM window. Which of several equally loaded
candidates balanced mode takes is left open, so every result of the smooth
weighted rotation is included.

### LoginRegister and TokenStore

A token is `[login, acc, ref]`: the login it descends from, the number of
refreshes of that login, the generation of its refresh token. `issued` is the
identity provider, which accepts only the last generation it issued.

| variable | code |
| --- | --- |
| `mem` | the entry's token, whether it is about to expire (`fresh`), `disabled`, and whether the reason is an invalid refresh token |
| `file` | the credential file |
| `task` | the local variables of one operation |
| `refreshLock`, `persistLock` | `refresh_lock`, `persist_lock`; the task that holds it |
| `issued`, `revoked` | the identity provider (external) |
| `acked` | history: the last login an Admin handler answered OK for |

A step ends where the code awaits or lets go of a lock: `Acquire` re-reads the
record under the refresh lock, `Answer`/`AnswerFails`/`Refuse` are the three kinds
of outcome of the HTTP call, `Merge` is `merge_refreshed_credentials`, `Persist`
takes the snapshot *under* the persist lock and `Write` replaces the file (a
complete file renamed over the old one, so a crash leaves one or the other).
`ReadFile`, `Match`, `Adopt` are the three visits of
`try_reload_credential_from_file`; `Report` is `report_refresh_token_invalid`.
`Relogin` updates memory under the refresh lock and writes the file after it, as
the code does. `OtherRefreshes`, `Revoke`, `Expire` and `Restart` are the world.
A lost answer and an answer whose token has already expired are one branch of
`Answer`: in both the rotated token is gone.

`LoginRegister` is the promise: the token in use only moves to a later token of
the same login or to a newer login. `TokenStore!Register` maps `mem` to it.

### CredentialRegistry

`entries` maps ids to a token and to the logins its counters count (`users`);
`file` is the credential file, `loose` the token that the file holds without an
id (a hand-written or old file), `statsFile` is `kiro_stats.json`, `watermark`
the sidecar file. `owners` (history) remembers which logins the file has held
under each id. `AddStart`, `AddValidate`, `AddInsert`, `Persist` are
`add_credential` (check, awaited refresh, id, second check under the lock,
write); `Replace` is `update_refresh_token`, whose check and update are one
critical section; `Delete`, `Persist`, `DropStats` are `delete_credential`;
`Startup` and `Stop` are the constructor and the end of the process;
`DedupMark` and `DedupReplace` are the deduplication tool, which writes the
watermark first and may be killed between its steps.

The provider is generous in its habits: each refresh may or may not rotate
(`Rotations`), and with `Lenient` it accepts tokens it has rotated away.

### ProviderRetry

`Rules` is the order in which the code looks at an answer, for the model API and
for MCP; `Verdict` is the first that applies. An answer is a status, whether it
carries a valid Retry-After, and the marks the classifiers of the endpoint find
in the body, so an answer can match several rules. `Receive` acts on the
verdict: report, forced refresh, next attempt or end. `Resolve` is
`ensure_profile_arn`; `Refreshed` is the end of `force_refresh_token_for`;
`ReadBody` is the body check of `call_mcp_with_trace`. `arn` and `stale` of a
call are its own copies, made when it acquired the context; `GoesStale` is the
upstream no longer accepting the tokens given out so far, which a refresh in
another call does not repair for this one. `traced` counts `emit_attempt`.

### ClientKeys and AccountGroups

Every operation of `ClientKeyManager` is one critical section of its `RwLock`
that includes the write of the key file, so `keys` stands for both. Secrets are
numbered in the order they were drawn. Key 0 is the system key: `apiKey` is its
copy in `config.json`, `rotation` one whose `config.json` is not written yet, and
`RestartKeys` runs `load` and `sync_system_key` on whatever a stop left, or the
operator wrote. `visit` is a request between its admission and its settlement;
`ceiling` and `revoked` are history.

`AccountGroups` has the three places a name occurs: `registry`, `member` (with its
file `memberFile`), `bind`. The handlers change them one after the other, which is
`chore`; one administrator at a time. `grants` is the promise: the credentials
each key was given. A stop in the middle of a rename leaves what it leaves, and
`grants` is taken anew from it.

### RuntimeConfig and StatsSaver

One setting stands for each discipline of `RuntimeConfig` (the module's header
lists them): memory first or file first, and under which lock. `Load` and `Save`
are `update_config_file`, the read and the write of the whole file under
`config_write_lock` (`holder`). `told` is what administrators were told, `met` the
settings of which two updates have overlapped.

In `StatsSaver` a counter is the number of updates it has seen. `Count` is the
change under the `entries` lock, `Mark` what the caller does next (save, or set
`dirty` and save when `due`), `Snapshot`, `WriteStats` and `ClearFlag` the steps of
`save_stats` under `stats_save_lock` (`saving`).

### ProxyPool

`proxies` is the pool, `egress` the link and the copy each credential has.
`checker` is the background task (probe, judge, apply, migrate), `admin` one
administrator whose operation may be several steps, and `moved` the credentials
(and the global proxy) whose generation moved since the checker read them.
`rotating` holds the two switches. A failed write of the pool takes the change
back; a failed write of the linked copies leaves them `behind`.

### BinaryUpdate

`disk` maps names to what the files hold; the file of the running process follows
renames, as `current_exe` does. `job` is each worker's place in
`pull_update_image`, `apply_image_update`, `rollback_image_update` or the
scheduler's turn; `UpdateFaults` says what may fail at each.

### RequestConverter, PromptCache and the other tables

`RequestConverter` builds conversations message by message (`conversation`, `kind`)
and says of each what `Convert` makes of it, both for an answer and for a
compaction. `PromptCache` has one action per lock of a metered request's walk
(`meter`): a probe for each prefix, the shared store, the write of its
breakpoints; beside it a sweep, expiry, the snapshot on disk and a stop. A hash is
what it is the hash of; the breakpoints a walk has left are a set, of which it takes
the least (`Later`). `SessionAffinity` splits `bind` where the code reads the
clock before it takes the lock. `ClientCache` follows the global proxy late, as
the code does, at the next use; a key waits in the queue once (`ClientsAccounted`), so
the `retain` of `set_global_proxy` drops one (`RemoveFirst`). `ModelCache` has the
fetch in its steps (cache, lock, permit, generation, request, store) against
changes that are announced after they are made.

### Replies and the layers around them

`SseProtocol` is an automaton over events; every other module's stream is checked
against it. Text is a sequence of letters: a word, a blank, half a tag, a call
written as text, a flood. `LiveReply` is `StreamContext` with `SseStateManager`,
`WholeReply` the collected answer, and `Replies` feeds one upstream reply to both,
with errors, a break or a client that leaves after any event, and the settlement
that follows. The layers keep of the inner answer what they decide by:

| module | layer | state |
| --- | --- | --- |
| `OutputRecovery` | asks once more for a reply that only thinks | events held back, attempt, usage captured and settled |
| `SearchLoop` | web search rounds | round, retries, searches, what was streamed, credits |
| `ExecutionBridge` | emulated code execution | round, what it said, what was streamed |
| `IdentityGuard` | classification and review calls | call under way, usage of each |
| `StructuredReply` | validation, with a grace period | whether the stream was begun |
| `Compaction` | summary with its retries | request as cut, answer |
| `ClientApis` | chat completions and Responses | translated events, open items |

## Runs

| run | parts and instance | shows | distinct states |
| --- | --- | --- | --- |
| `pool_health` | 1 credential, 2 requests of 2 models, `MaxFailures` 2, one healing round, every report, every operation of the administrator, no shared file | `TypeOK`, `PoolHealthy`, `HealBudget`, `TrafficKeepsReasons` | 1,010,070 |
| `pool_failover` | 2 credentials, one in a group, balanced, sticky, RPM limit 1, shared file, deletion and reset | `RpmRespected`, `EnabledBelowThreshold` | 2,883,945 |
| `token_refresh` | refresh: 1 credential, 3 tasks, 3 logins, writes may fail; crash: the same beside crashes and restarts | `TypeOK`, `NeverPresentsSpentToken`, `FileMovesForward`, `AcknowledgedLoginKept`, `RegisterKept` (refinement) | |
| `recovery` | store: 2 tasks, answers get lost, logins are revoked, another program refreshes, crashes; pool: 2 credentials, 2 requests, refreshes fail or are superseded, healing, an administrator who re-enables | `StoreTasksEnd`, `EveryRequestEnds` | |
| `token_relogin` | 2 tasks, a revoked login | `NewLoginNotOverwritten` is violated | – |
| `registry` | api: 2 accounts, ids 1..2, 2 rotations, 2 Admin calls, restarts; tool: ids 1..5, copies in the file, kills, failing writes | `ApiNoTokenTwice`, `ApiStatsFollow`, `IdsKept` | 2,171,782 |
| `registry_reuse` | one deletion and a restart | `HistoryNotInherited` is violated | – |
| `retry_calls` | several: 2 calls on 2 credentials, throttling, suspensions, stale tokens, profiles; solo: 1 call, 3 paths, 21 answers | `CallTypeOK`, `CallStaleForgiven`, `CallHasArn`, `CallVerdict` | |
| `services` | 2 requests on 2 keys; 2 accounts, 2 keys, 2 group names; 2 updates of 3 settings; 3 savers; 2 addresses, 3 proxies, a checker and 2 operations; 3 releases, one update worker | `ServicesTypeOK`, `ClientRightsKept`, `SettingsAgree`, `StatsReachFile`, `StatsForward`, `ProxiesKept`, `RotationJudges`, `UpdatesRecoverable` | 1,484,376 |
| `requests` | conversations of 5 messages with 2 pictures; 2 metered requests on a table of 3; 4 proxies for 2 clients; 3 conversations for 2 places; 3 fetches for one permit | `RequestAccepted`, `HistoryStable`, `ThinkingOfTurn`, `HitsOwnPrefix`, `CacheAccounted`, `TablesKept`, `EvictsInTurn`, `ModelsFresh` | |
| `replies` | upstream replies of 4 or 5 events with 2 calls, in five flavours; every layer around them | `RepliesWellFormed`, `ThinkingSigned`, `RepliesSame`, `RepliesSettledOnce` | |
| `round_truncated` | a request that searches at most once | `RoundsAreWhole` is violated | – |

### Bounds, and why they are enough

- *Credentials.* Records do not read each other except through selection and
  `current_id`; one suffices for the rules of a record, two for everything that
  concerns a choice, failover, or a report about a credential no longer current.
- *Requests, tasks, calls.* Two actors give every order of two critical sections;
  `token_refresh` has three because its races need a refresh in flight, a forced
  refresh queued behind it, and a writer; the savers are three because a save can
  hide a second one from a third.
- *Thresholds.* The code's `MaxFailures` of 3 is 2 or 1 here: 2 has a state
  between none and the threshold. `MaxHealRounds` 1 has a first round and a
  refused second; `LoadedRounds` adds a file that already holds a round.
- *`HasFile`.* `pool_health` has no shared credential file: with one,
  `TrafficKeepsReasons` is false (see below). `pool_failover` has it, so
  `EnabledBelowThreshold` covers a reload too.
- *Logins, refreshes, rotations.* `MaxLogins`, `MaxRefreshes`, `MaxGen`, `MaxId`
  and `MaxStale` bound counters; an action that would pass a bound is disabled,
  and for a task of `TokenStore` that is always an error it may have anyway. Two
  of a kind are needed to tell old from new, three logins to have one
  acknowledged, one in flight and one written.
- *The crash part does not rotate.* A crash between the answer of a provider
  that rotates and the write loses the token, whatever the program does. What is
  checked there is about logins.
- *`MaxId` 2 in the api part.* Additions stop at the bound, but ids are reused
  after a deletion and a restart, which is what `ApiStatsFollow` is about.
- *Answers.* `MCEverything` has an answer for every rule and ones to which two
  apply (a 400 and a 500 that mention a suspension, a 429 for the account with a
  delay). `MCRates` has what changes credentials under another call.
- *Keys and groups.* Three secrets on two ids let an id and a plaintext come back;
  two names let a rename meet a name that exists elsewhere.
- *Proxies.* Two addresses and three ids: one to leave, one to go to, one added by
  a rotation; two operations of the administrator put one between the checker's
  reading and its writing and one after.
- *Updates.* One worker, and no update in the seconds before an exit
  (`"hurry"` is off): with either, `UpdatesRecoverable` is false (see
  [disagreements](#disagreements)).
- *Conversations and replies.* Five messages have a turn with a call, its result,
  the turn after it and one that is merged; four or five events have a block
  opened, interrupted by a call and resumed. Two rounds, two calls and a search
  more than allowed reach every exit of the loops.
- *Tables* hold one or two less than there is to put into them.
- *Deadlock* is checked in the pool runs, in `token_refresh`, `token_relogin` and
  in `retry_calls`. The other runs may stop where a bound leaves nothing to do.

### What each property is about

`TypeOK` in `TokenStore` includes that only a task at work under a lock holds it;
in `CredentialRegistry` that no id at or above the counter is in use; in
`ProviderRetry` that every attempt is in the trace once when the next one starts
and that the loop stays within its budget, hence ends.

`PoolHealthy` is the invariant from which the properties of the pool follow (see
[proofs](#proofs)). `HealBudget` is the "no endless 403 loop" of
`try_self_heal`: between two signs that a credential works, at most
`MaxFailures * (MaxHealRounds + 1)` failures are spent on it, however late the
requests in flight report. `TrafficKeepsReasons`: a request's step takes back
only what was disabled by failures, and never replaces one reason by another.
`RpmRespected`: requests that saw the same free slot cannot all take it.

`NeverPresentsSpentToken`: refreshes are serialised and each re-reads the
record. `FileMovesForward`: two persists cannot put a spent token over a rotated
one. `AcknowledgedLoginKept`: what the Admin API acknowledged survives a crash.
`RegisterKept`: the answer of a refresh never replaces a token installed
meanwhile.

`ApiNoTokenTwice`: two credentials never hold one token, although the check of
`add_credential` is separated from the insertion by an await. `IdsKept`:
with the watermark, the deduplication tool and its interruptions never make an id
change hands. `ApiStatsFollow`: an inherited id does not bring counters
with it.

`CallVerdict`: for a single call, bad requests, timeouts and overload leave every
record as it was, unless the body says that the account is suspended; for several,
a call that was only ever answered 429 ends as a 429 for its client.
`CallStaleForgiven`: a token rejected once costs its credential no failure,
however many calls were using it. `CallHasArn`: a transient failure of the
profile query does not pin the placeholder (`Relogins` is off, see below).

`ClientRightsKept` is two invariants. `KeysKept`: a key overruns its limit by no
more than the requests in flight, a request pays with its own key though keys and
ids come and go, and a secret that was told to be void opens nothing, after starts
and failed writes too. `GroupsKept`: no reference dangles and every key uses
exactly what it was given.
`SettingsAgree`: memory, file and what was told agree when a setting's updates
have ended; for the settings without a lock, unless two updates met.
`StatsReachFile` and `StatsForward`: nothing counted is forgotten, and no save
goes back. `ProxiesKept`: what an administrator switched off stays off, a verdict
is about the address the entry has, and links and copies agree; `RotationJudges`:
a rotation replaces only what it read. `UpdatesRecoverable`: wherever an
update is stopped there is a whole executable, if perhaps under its other name, and a
rollback returns to the version announced.

`RequestAccepted`: alternating turns, every call answered once and in place for a
client that keeps the order (`Tidy`), pictures counted once. `HistoryStable`: a longer
conversation does not change what
was sent of the shorter. `ThinkingOfTurn`: thinking goes with its turn.
`HitsOwnPrefix`: what a request reads was written by the same user, model and
prefix. `CacheAccounted`: one hit or one miss per lookup, and the parts of a usage
add up to the real size. `TablesKept`: every table within its capacity, a miss has one
reason, the snapshot is not older than what it says, no client outlives its place in
the queue. `EvictsInTurn`:
what makes room in a full table has had its turn. `ModelsFresh`: a list fetched
before an announced change is not stored after it.

`RepliesWellFormed`: each stream keeps the order of `SseProtocol`; `ThinkingSigned`:
a thinking block with text ends with one signature; `RepliesSame`: streamed and
whole answers, and their translations, say the same; `RepliesSettledOnce`: usage
is recorded once and credits charged once, however reply, layers and client end.

## Fairness

`CredentialPool!FairSpec` asks weak fairness of the steps of every request: the
tokio runtime polls a woken task, a critical section under a `parking_lot` mutex
is short and never awaits, and the outgoing HTTP calls have timeouts. Nothing is
asked of the administrator, of `Begin`, or of time. `EveryRequestEnds` holds
under it because every retry that is not counted needs a state that is used up
(an RPM slot) or a rotated token; the run has neither uncounted source and shows
that the counted ones, with healing and interference, end.

`TokenStore!FairSpec` asks weak fairness of every task's steps, and strong
fairness of the steps that take a lock: tokio's mutex is a FIFO queue and
parking_lot's is eventually fair, so a task that finds the lock free again and
again gets it. `StoreTasksEnd` then says that no path of an operation keeps a
lock. `MCRecovery` repeats both for its parts.

The other specifications state no liveness; `ProviderRetry` ends because
`attempt` grows with every turn and stays below `Budget`.

## Proofs

TLAPS proves the theorems below for every value of the constants: any number of
credentials, tasks, calls, keys and proxies, any thresholds and bounds, and every
choice of faults and operations that a stated hypothesis does not exclude. The
assumptions on the constants (`CredsAssumption`, `CallAssumption`, ...) stand in
the modules that declare them and are evaluated by TLC in each run.

| module | theorem | statement |
| --- | --- | --- |
| `CredentialPoolProofs` | `TypeCorrect` | `Spec => []TypeOK` |
| | `PoolStaysHealthy` | `Spec => []PoolHealthy` |
| | `EnabledCredentialsBelowThreshold` | `Spec => []EnabledBelowThreshold` |
| | `HealingIsBounded` | `Spec => []HealBudget` |
| | `RpmLimitHolds` | `Spec => []RpmRespected` |
| | `TrafficNeverOverrules` | `ASSUME HasFile = FALSE PROVE Spec => TrafficKeepsReasons` |
| `TokenStoreProofs` | `StoreTypeCorrect` | `Spec => []TypeOK` |
| | `SpentTokensNeverPresented` | `ASSUME Quiet, ~Loses PROVE Spec => []NeverPresentsSpentToken` |
| | `FileNeverRegresses` | `ASSUME Steady PROVE Spec => FileMovesForward` |
| | `AcknowledgedLoginsSurvive` | `ASSUME Steady PROVE Spec => []AcknowledgedLoginKept` |
| | `ImplementsRegister` | `ASSUME Quiet PROVE Spec => RegisterSpec` |
| | `RegisterStaysKept` | `ASSUME Quiet PROVE MCSpec => RegisterKept` |
| `CredentialRegistryProofs` | `RegistryTypes` | `Spec => [](BaseInv /\ TypeOK)` |
| | `NoTokenHeldTwice` | `FilesDistinct => (MCSpec => []ApiNoTokenTwice)` |
| | `CountersFollowAccount` | `~Kills /\ ~WriteFails => (MCSpec => []ApiStatsFollow)` |
| | `IdsStayWithAccounts` | `~Deletes => (Spec => [](IdsNotReused /\ HistoryNotInherited))` |
| `ProviderRetryProofs` | `CallsTraced` | `Spec => []TypeOK` |
| | `StaleTokensForgiven` | `RejectsOnlyStale => (MCSpec => []CallStaleForgiven)` |
| | `AskedAccountsHaveArn` | `~Relogins => (MCSpec => []CallHasArn)` |
| | `AnswersJudged` | `PlainRateLimits => (MCSpec => CallVerdict)` |
| `ServicesProofs` | `OneKeyPerSecret` | `KeySpec => []KeyTypeOK` |
| | `KeysStayKept` | `KeySpec => []KeysKept` |
| | `GroupsStayKept` | `GroupSpec => []GroupsKept` |
| | `ClientRightsStayKept` | `Spec => []ClientRightsKept`, of `MCServices` |
| | `ServicesTypesHold` | `Spec => []ServicesTypeOK` |
| | `ConfigTypeCorrect` | `ConfigSpec => []ConfigTypeOK` |
| | `SettingsStayInAgreement` | `ConfigSpec => []SettingsAgree` |
| | `StatsTypeCorrect` | `StatsSpec => []StatsTypeOK` |
| | `StatsReachTheFile` | `StatsSpec => []StatsReachFile` |
| | `StatsOnlyMoveForward` | `StatsSpec => StatsForward` |
| | `UpdatesStayRecoverable` | `ASSUME OneUpdate PROVE UpdateSpec => []UpdatesRecoverable` |
| | `ProxyInvariant` | `ProxySpec => []ProxyInv` |
| | `ProxiesStayKept` | `ProxySpec => []ProxiesKept` |
| | `RotationReplacesWhatItJudged` | `ProxySpec => RotationJudges` |
| `TableProofs` | `HitsAreOwn` | `ASSUME UsersApart PROVE Spec => []HitsOwnPrefix` |
| | `LookupsAndUsageAdd` | `Spec => []CacheAccounted` |
| | `TablesStayKept` | `ASSUME "write" \notin CacheFaults PROVE Spec => []TablesKept` |
| | `EvictedInTurn` | `Spec => EvictsInTurn` |
| | `TableStaysBounded` | `CacheSpec => []TableBounded` |
| | `PrefixesEvictedAlive` | `CacheSpec => EvictsAlive` |
| | `BindingsEvictedFairly` | `AffinitySpec => []AffinityTypeOK /\ EvictsFairly` |
| | `ModelsStayFresh` | `ModelSpec => []ModelsFresh` |
| `LiveReplyProofs` | `StreamsWellFormed` | `ReplySpec => [](ReplyTypeOK /\ WellFormed)` |
| | `StreamsSettledOnce` | `ReplySpec => []UsageSettledOnce` |
| `RepliesProofs` | `OneMessageEverywhere` | `Spec => []RepliesWellFormed`, of `MCReplies` |
| | `ThinkingStaysSigned` | `Spec => []ThinkingSigned` |
| | `AllSettledOnce` | `Spec => []RepliesSettledOnce` |

### The hypotheses

They are what the code needs; each is also a way to find a
[disagreement](#disagreements).

- `HasFile = FALSE`: a reload re-enables whatever it meets.
- `Quiet == ~Crashes /\ (HasFile => ~Revokes /\ ~Loses /\ ~Others)`: nothing takes
  the process down, and where there is a file to reload, nothing makes the
  provider refuse a token. `token_relogin` is a counterexample when a login
  may be revoked.
- `Steady == ~Revokes /\ ~Others /\ (~Rotates \/ (~Loses /\ ~Crashes)) /\ (Crashes => HasFile)`:
  crashes and lost answers may occur, as long as they spend no refresh token, and
  there is a file to restart from. Writes may fail in all of these.
- `FilesDistinct`: the files of the first start hold no token twice themselves.
- `~Kills /\ ~WriteFails`: deletion writes the credential file before
  `kiro_stats.json`; a stop or a failing write in between leaves counters to an id
  that may come back.
- `~Deletes`: a deletion is what `registry_reuse` refutes the property with. The
  theorem is about everything else: additions, replacements, starts, kills,
  failing writes and the deduplication tool.
- `RejectsOnlyStale`: a 401 or 403 comes for a stale token or for a suspended
  account that the detection recognises, refreshes succeed or are limited, and no
  credential has an endpoint that cannot be built or a proxy of its own. A
  credential rejected for another reason *should* pay.
- `~Relogins`: a new login clears the ARN for good.
- `PlainRateLimits`: a 429 carries no mark of something else (suspension, an
  unreadable body, an invalid model, a gateway), for these have rules
  of their own, and no credential has an unusable endpoint or a proxy of its own. It
  concerns the second half of `CallVerdict` (several calls); the first, that
  a single call marks a credential only for its own fault, needs none.
- `UsersApart`: a key, or a session under a key, belongs to one user, and of the
  users of the main key without a session each begins in words of its own. The code
  knows no more of them than that: two users who begin alike with the main key share
  their prefixes. `MCSetups` satisfies it, with users who share a system prompt, a
  session name and the key of a session.
- `"write" \notin CacheFaults`: a write of the snapshot that fails is not repeated
  before the next change. It concerns `SnapshotCurrent` only; the rest of `TablesKept`
  does not depend on it, as `TableStaysBounded` shows for the prefixes.
- `PromptsAssumption` (in `PromptCache`, evaluated by TLC): the blocks of a prompt are a
  sequence, a block has a size, blocks that say the same have the same, and a breakpoint
  lives for one of the two lifetimes. The first and the last would need induction over
  the sequences a prompt is put together from; the sizes are what the code's hash and
  token count are computed from, block by block. That prefixes which say the same are
  as long, and longer ones no shorter, is proved from it (`AskedOK`, `TokensGrow`).
- `DeclaredAssumption` (in `ClientApis`), `AnswersAssumption` (in `StructuredReply`) and
  their like in the other layers: bounds are numbers, and the mark of "nothing" is not
  a call. They are met by every configuration and exclude nothing the code does. The
  theorems about replies have no other hypothesis.
- `OneUpdate`: one worker, and no update between `schedule_self_exit` and the exit.
  The code excludes neither; with either the statement is false.

### Arguments

**Pool.** `HealBudget` is not inductive: nothing in it says how many of the
failures a credential has left. The invariant is `PoolHealthy` with types. For a
record that is enabled or may be healed,

    burnt <= MaxFailures * rounds + fails

so every failure is accounted to a finished round or to the running count; a
round that finishes moves `MaxFailures` from the count to the rounds, and a
record out for any other reason leaves the accounting, because only what resets
`burnt` can bring it back. Two clauses keep this going: `disabled` holds exactly
when there is a reason (otherwise a report could find an enabled record that is
healable), and a healable record's refresh counter is below the threshold
(healing does not reset it, so `EnabledBelowThreshold` would fail after it).
Records are independent, so the proof is mostly about one record: `Good(e)` says
that `e` is well typed and healthy, one lemma for each operator (`FailureGood`,
`HealGood`, ...) that it preserves it, and `OneRecord`, `OneLiveRecord` lift this
to the pool. `SweepOK` is added because a disabling in progress must have a reason.
`RpmRespected` is inductive beside it: `Record` compares again under the lock, and
nothing else adds to a window.

**Token store.** `Inv` says what each place in an operation knows of its local
variables (`TaskOK`) and who holds the locks (`LocksOK`); with it, at most one
task is between the answer of the provider and the merge. `RegisterInv` adds
`AgesOK` (no token is ahead of the provider, and an answer is a later token of the
login it was asked with), `NothingRefused` (so no task ever gets to adopt a token
from the file), and `LatestOK`: *the last token issued is in memory, or held by the
task at `merge` whose `sent` is what memory holds.* Without the second alternative
it is not inductive: between `Answer` and `Merge` memory holds a spent token, and
only the refresh lock keeps others from sending it. The step simulation maps
`Merge` to `Refresh`, a new login or token to `Install`, a deletion to `Remove`,
everything else to a stutter. `OrderInv` carries the two theorems about the file:
the file's token, an image about to be written and memory's token are in order of
issue, none is ahead of the provider, nobody adopts a token from the file, and the
login acknowledged last is in the file or, without one, in memory.

**Registry.** `BaseInv`: ids in use are below the counter, ids just drawn are above
the watermark and unlike each other, the server and the tool run one at a time.
`OwnInv`: what the file ever held under an id is in it still or behind the
watermark, and the running server knows all of the file. `TokInv`: every token
held anywhere was issued, and a rotated token just given to an addition is its
alone, which is why comparing the submitted token under the lock is enough.
`StatsInv`: the file is current or a persist is under way; what `kiro_stats.json`
has for an id nobody holds is about to be dropped or behind the watermark.

**Retries.** `BaseInv`: an enabled record is below the limit, and each place of a
call fixes its bookkeeping: an attempt is below the budget and traced when it ends,
a call at work has a credential, one that refreshes or reads a body has seen
something else than a 429. `StaleInv`: until a token of a credential went stale
nobody has a stale one or refreshed it; after the first time, a call that refreshed
it is at the refresh, or entry and call have a fresh one. `VerdictMeans` states
what the first applicable of the sixteen rules says of the answer; `AnswersJudged`
needs nothing else of them.

**Keys and groups.** `KeyInv`: ids and secrets are drawn in order, so what is new
is unlike all that was; the secret in `config.json` is not revoked and at most the
system key's; the secret a rotation replaces is already no key's. `GroupInv` says
for each step of a rename or deletion how far registry, credentials and keys are
apart: in a rename the registry is ahead of the credentials and these of the keys, and
a key still bound to the old name was given what carries the new one. After a
failed write nothing is promised until a start.

**Saved state.** `ConfigInv`: only the holder of `config_write_lock` is between
reading and writing, what it read is the file, and at each place an update knows
what its setting was before and will be after (`WorkOK`), alone with it where a lock
guards it or no two have met. `SaverInv`: counters on disk are behind those in
memory, with the copy of a save in between (`CopyOK`); what the file lacks is
marked dirty, or belongs to an update on its way to a save, or to a save that failed
or that a later count overtook (`LackOK`).

**Updates.** `UpdateInv` follows the executable of the running process: it is in its
place (`Own(Exe(0))`) unless an exit is pending or a job is between two renames, and
then `PlaceOK` says where: the backup at `in` and `note`, the parked file at
`restore`, while at `forget` the backup is in its place. So every rename
that fails can be undone, and a kill leaves one of three names whole (`SomeWhole`).
`BackupWhole` is what a rollback needs before it parks the executable. Only a staged
file is ever half copied (`CopiesStaged`), because with one worker nobody
renames it meanwhile. `LabelOK`: the note names the release in the backup except at
`in` and `note`, where it is about to be replaced.

**Proxies.** `PoolOK`: ids below the counter, addresses once, a proxy switched
off by hand is neither on nor to be switched on. `LinksOK`, while nothing rotates:
a link leads to an entry, and its copy is the entry's address unless a failed write
or the administrator's operation under way (`Pending`) accounts for it. `Judged`:
what the checker read of a setting or of the global proxy is still so, unless its
generation moved.

**Models.** `ApartOK`: no two fetches of one credential at work hold the same
lock, and a lock changes only when its credential goes. `FlightOK`: the generation
and the epoch a fetch carries are behind the current ones, or what it fetched with is
what there is, or a change is made and not announced yet.

**Prompt cache.** `CacheFits`: entries, snapshot and what is being written are
finite and within the hard limit; that is enough for `EvictsAlive`, because a table
over the limit is first freed of what has expired (`ExpireThins`) and then of the
longest unused (`ShrinkThins`), so what is marked as evicted was alive.
`HitsOwnPrefix` is about a request that is done and says nothing of the tables it
read. `CacheInv` says it of everything a request can read: every entry of the
table, of the shared store, of the snapshot and of a file being written is `Honest`,
the prefix of somebody of the setup who wrote it with that size; and a walk carries
a breakpoint of its own prompt and a size it wrote itself (`WalkOf`). A hit leads from
the prefix to whoever wrote it (`HitIsOwn`): same prefix, same seed, and by the cases of
`isolation_seed` the same user (`SeedsDiffer`). Under `UsersApart` only, which is why
`ReadOK` has it as a premise, and the rest of the invariant holds without. `TombsOK`
keeps tombstones and entries apart: whatever is written loses its tombstone, whatever
is buried has left the table. `SnapshotOK` strengthens `SnapshotCurrent` to the time a
file is being written: unless something was changed since, the file in the air agrees
with the table on what is alive, and time only shortens both (`AgreeLater`).

**What is counted and reported.** `CountsOK`: hits, misses and the breakpoints that are
still to be looked up make up what the requests so far owe. The sum over the requests is
a cardinality (`Units`: as many pairs as a sum counts; `SumCounts`), so when one walk
moves on, one set changes by what that walk had left (`LooksMoved`), and `SettledCounts`
has one more counted for one less left. `LooksOK`: a walk looks no further than its
next breakpoint and has read no more than one of its breakpoints covers, because a
hit is as long as the asker's own prefix (`PrefixSizes`) and sizes grow with prefixes; so
of the usage at its end, read <= covered <= whole (`UsageIs`). The rest is about the
split alone: a share `a * b / c`, rounded, of `b <= c` is at most `a`, all of it for
`b = c` and nothing for `b = 0` (`ShareIs`, from products that grow with a factor,
`TimesMore`), the token of input comes from what was written or, if there is none, from
what was read (`DividedIs`), and the limit moves tokens to the input only (`SplitIs`).
`CacheAccounted` itself is not inductive: it says nothing of what a walk has read.

**Conversations and clients.** `AffinityInv` adds what a binder carries between the
clock and the lock: a time that is not ahead of the clock, so whatever it finds
expired is (`RoomMade`). `ClientsOK`: the queue holds every client but the global
proxy's, each once, and at most `ClientCap`; `Follow` takes a key out of it (`Leaves`)
and `Insert` drops the oldest before it adds one (`NewestKept`).

**Live replies.** `WellFormed` judges the whole log by the automaton of `SseProtocol`.
`Running(log, n, K, open)` is what a log on its way promises: its `n` blocks are numbered
as they come, each is started once and with its kind, all but those in `open` are
stopped once, and only calls overlap. What one more event does to it is a lemma each
(`RunningStart`, `RunningDelta`, `RunningStop`, `RunningEnds`, `RunningFails`), and
`RunningInProtocol` leads back to the automaton. The context of a stream is tied to its
log in three steps, each needed by the next. `Core`: the log is `Running` with just the
blocks the context believes open, and a closed thinking block is signed once. `Sound`:
besides calls at most one text and one thinking block are open, those the context
remembers, and an open thinking block has no signature yet. `Attentive`: while
thinking comes between tags no call is held, and before the tag no text is open; or
text could start beside thinking. Every operator of `LiveReply` has a lemma that a
sound context goes over into a sound one and what else it changes (`Goes`, `Keeps`). Its
loops over letters, blocks and calls are folds; `FoldExists` and `FoldUnrolls` turn a
fold into a function of the number of steps, and what holds at every step is shown by
the least step at which it would not (`LeastOf`, from the well-foundedness of `<`).
`ReplyInv`: while the stream is open its context is attentive; after that its log is in
the protocol, signed, and its usage is recorded once with the credits reported.

**The layers around a reply.** One invariant each.

- *Recovery* (`RecoveryInv`): what was said of an attempt, held back or sent, begins with
  `message_start` and is all of this attempt; what says its usage comes last and says
  that of the attempts captured. Nothing is sent before the attempt is committed, so
  the second starts on an empty stream.
- *Compaction* (`CompactInv`): at most three requests, the tools taken away last, outputs
  cut exactly in those asked with a bound; what is told as used is what was paid, except
  for an error response.
- *Identity guard* (`GuardInv`): the calls captured are a prefix of classify, answer,
  review; at each place the log is `Running` with none or one block of text, or as far
  behind a complete message as the queue is long; in doubt, nothing was shown.
- *Execution bridge* (`BridgeInv`): the log is `Running` with as many blocks as were
  emitted of the content, of the same kinds; in `publish` this holds of the log with the
  queue behind it, so wherever the client leaves, what it has is a prefix.
- *Searches* (`SearchInv`): between rounds the emitter has its text open or nothing
  (`Rests`), in a search the block of the search (`Seeks`), so that an error can close
  what there is (`FailMessage`). The credits used are those paid, except after the
  end, where they may lack the round that was being read.
- *Structured output* (`StrictInv`): while it delivers, the log with the queue behind it
  is a whole message or an error, and a refusal by status leaves no log.
- *Both translations* (`ApiInv`): the stream they read says which blocks were seen and
  which are open (`LogOK`, `Open`); the guard of `Receive`, that the protocol allows the
  event, says which block it can be about (`OpenIfAllowed`). Responses: every item below
  `next` was added once and first, the finished ones are done once and last. `PlacesHeld`
  counts: items finished and blocks holding a place together make up `next - 1`, no place
  is held twice, and `next` with the blocks still without a place is bounded by the blocks
  seen, which is what keeps indices within their type. Items finish in order unless
  blocks overlap (`ItemsInOrder`, `Overlaps`). Chat completions: calls are numbered as they
  come, one for each block of a call, and arguments follow a call that was named
  (`CallsOK`); the role comes once and first (`RoleOK`); an error is the end, or a reason
  and the mark of the end are (`EndOK`).

**All parts.** They share no state, so a step of the composition is a step or a
stutter of each (`PartsStep`).

### Only model-checked

- Liveness (`EveryRequestEnds`, `StoreTasksEnd`), which the prover does not handle.
- `RequestAccepted`, `HistoryStable`, `ThinkingOfTurn`: they relate the results of a
  chain of passes over a conversation of any length (pairing, merging, trimming), most of
  them recursive, and what one pass leaves is what the next one looks for. `RepliesSame`
  likewise compares two computations, one over the whole reply and one event by event.
- `IdsKept` and `CallTypeOK` as the runs check them speak of two instances of a
  module each; `RegistryTypes`, `IdsStayWithAccounts` and `CallsTraced` are the same
  statements about the module. `RegisterStaysKept` shows that such a property of the
  run follows where no second instance is involved.

## Disagreements

What the code does against what a comment or a test says of it. Three have a run.

- **A reload undoes a new login** (run `token_relogin`). A request whose old token
  was refused reads the file after a new login has updated memory and before it
  is written; `try_reload_credential_from_file` takes the file's older token for
  a rotated one and puts it back, although
  `replace_idc_relogin_credentials` says that an old refresh in flight cannot
  overwrite the login.
- **An id is given again after a deletion** (run `registry_reuse`). Deleting the
  credential with the highest id and restarting gives its id, and the traces and
  usage kept by id, to the next account. The deduplication tool avoids exactly
  this with its watermark; `delete_credential` does not.

- **A truncated round counts as complete** (run `round_truncated`). A web search
  round whose body is cut inside a frame ends like a whole one, because
  `decode_round` never asks the decoder whether bytes are left
  (`websearch_loop.rs:386`); the other two readers of a body do
  (`handlers.rs:1538`, `2273`).

The others were met while modelling, or found by turning on the constant or stating
the property named; they have no run of their own.

### Credentials, tokens, calls

- With `HasFile = TRUE`, `TrafficKeepsReasons` is refuted: a reload re-enables a
  credential whatever it was disabled for, so one an administrator disabled
  while its refresh was in flight comes back (`token_manager.rs:2950`).
- `disable_quota_exceeded` (`service.rs:1297`) works from a snapshot: an account
  suspended meanwhile becomes `QuotaExceeded`, which the scheduler later recovers
  by itself. Property: a step of `SweepStep` never changes a `Suspended` reason.
- `try_self_heal` (`token_manager.rs:2596`) answers no to the request that comes
  second, when the first has just healed the pool; it fails with "all credentials
  are disabled" while one is enabled. Property: `GiveUp` with `exhausted` only
  when no credential of the scope is enabled.
- `report_refresh_token_invalid` (`token_manager.rs:3660`) names the credential
  and not the token: a login installed between the refusal and the report is
  marked `InvalidRefreshToken`. Property: `Report` only marks a token that was
  refused.
- A provider that rotates and still accepts old tokens lets two overlapping
  additions of one token both be inserted, with different rotated tokens. The
  second check of `add_credential` (`token_manager.rs:4637`, commented as closing
  this race) compares the submitted token only. Property: no two entries of one
  login, in the `api` part.
- A call whose context was made before the ARN was found is sent with the
  placeholder, because the set of resolved ids is read apart from it
  (`provider.rs:263`). Property: a call in `sent` on a profiled account has `arn`.
- A new login clears the ARN (`token_manager.rs:5122`) and not
  `profile_resolution_attempted`; no call asks again until a restart, unless a
  balance or model lookup happens to. `CallHasArn` with `Relogins = TRUE`.
- All attempts of a call may fall on one credential: nothing counts attempts per
  credential, against "at most `MAX_RETRIES_PER_CREDENTIAL` for each"
  (`provider.rs:811`, which also speaks of a hard limit of 9 where the constant is
  4).
- The generic error branch of the acquisition in the provider cannot be reached:
  `acquire_context` returns rate limits and "no credential" errors only.
- `batch_mark_suspended` (`token_manager.rs:3355`) ignores `invert_priority` when it
  moves `current_id`. The model does the same (`AuditSuspend`).
- An IdC or social login whose `update_refresh_token` fails leaves an enabled account
  disabled; expired login sessions that the clock finds are not removed.
- A request in flight on a deleted credential writes its trace after the purge; a
  balance asked for before an invalidation is stored after it. A forced refresh of
  the models may return a list whose fetch began earlier.

### Keys, groups, files

- A key deleted between `verify` and `group_of` gives its request no group, which
  means every credential (`middleware.rs:201`, against "严格隔离" at
  `client_keys.rs:67`).
- After a failing write of `config.json` a rotated system key is back at the next start.
- `client_api_keys.json`, `config.json` and `kiro_stats.json` are written with
  `fs::write`, which is not atomic. Ids of client keys are reused after a deletion
  and a restart.
- `groups.rs:6` says that names are validated; `missing`, which would, is not called.
  A forced deletion whose persist fails leaves memory cleared; a rename that fails
  takes back the registry only (`handlers.rs:2209`); a stop in mid-rename strands keys.
- `set_global_proxy` (`service.rs:2295`, whose comment speaks of avoiding half
  updates) and `set_quota_reset_recovery_enabled` change memory and file under no
  common lock; two overlapping calls can leave them apart. `SettingsAgree` excepts
  exactly these (`met`).
- `axum::serve` has no graceful shutdown and the updater calls `process::exit`
  (`binary_update.rs:471`), so the save of the counters on `Drop` does not run.

### Proxies

- The alignment after a rotation writes bindings it read earlier with no look at the
  generations, over an administrator's later manual choice (`proxy_link.rs:151`;
  comment near `token_manager.rs:4718`).
- A deletion between its count of users and an alignment leaves a link to a deleted
  proxy (`proxy.rs:167`); the alignment may also list a retired address again.
- A proxy already disabled by the prober and then disabled by an administrator is
  enabled by the next good probe.
- Two concurrent updates of a proxy can leave the copies at the older address; a
  failed write of the copies leaves them old until a restart.

### Binary update

- Two overlapping updates can lose the backup, or every executable. An update begun in
  the two seconds before the exit makes the backup the new version, so that a rollback
  goes to the wrong one.
- A copy cut short is used again unverified, because only `staged.exists()` is asked
  (`service.rs:2633`, "已下载并校验").
- `install_binary` removes the old backup first: a rename that then fails leaves the
  label without a backup ("保证任何一步失败都能回滚"). A kill between the two renames
  leaves no executable in its place, and one before the write of the configuration
  a label of the wrong version.

### Requests and tables

- Merging several assistant messages of dropped thinking only gives empty content;
  a conversation that begins with an assistant message breaks the alternation;
  untidy results are filtered only while they are current; a second, different
  result for one id is dropped silently; a result sent again whose picture is "#1"
  too counts as unchanged. The properties say where they except these (`Tidy`, a first
  message of the user).
- Prompt cache: a hit in Redis renews the key's expiry only ("滑动续期"; the
  `FakeRemoteStore` of the tests differs); a remote hit fills the local table with the
  breakpoint's lifetime; a flush clears `dirty` before its write, which is not
  atomic; `miss_no_seed` is dead code.

### Replies

- The sniffer of calls written as text also runs after a refusal or `max_tokens` in a
  stream and not in a whole answer (`handlers.rs:1846`: the rules are fully the same).
  The two also differ on: `ContentLengthExceeded` with a full context or a stop
  sequence; a refusal with an open tool block; an unclosed `<thinking>`; thinking ended
  at `</thinking>` without a line break; a redacted block after text; a flood.
- `<thinking>` directly followed by the end or by a call leaves an empty thinking block
  without signature; a `tool_use` may start while a tag's thinking block is open.
- A request that is not streamed leaves no usage record when its client goes away;
  the usage of a search round being decoded is then charged to the credential and not
  recorded. Text of earlier search rounds is in the stream and not in the whole answer.
- A client that closes right after `message_stop` makes a delivered request settle as
  an error in the identity guard (`identity_guard.rs:902`).
- When a compaction's retry ends in an error response, the usage of the paid first
  attempt is not told to the client.
- In a streamed Responses answer the `output` of `response.completed` is in the order
  items finished, which is not their `output_index` when text comes while a call is
  open.
- `hold_if_structured` and `rewrite_sse_events` appear unreachable.

## Not modelled

- *Quota alerts* (`process_round` over a watch channel, delivery retried, the state
  of thresholds kept in memory when its save fails) and *login sessions*: stateful,
  not modelled yet. *The event stream decoder*: `Replies` takes its verdict (a frame,
  an error, bytes left at the end) as the upstream's choice.
- *Formats and text:* the translation of OpenAI and Responses requests into messages,
  queries and citations of searches, names and schemas of tools, headers, machine ids,
  images, token estimates, the parsing of credential files. Their properties are about
  characters.
- *Pure I/O and records:* the trace database, usage log, observations, balances and
  imports, the browser front end, the separate programs under `tools/` other than
  what `CredentialRegistry` has of the deduplication.
- *Refresh protocols.* The four ways to refresh (social, IdC, external
  IdP, API key) are one: success, rotation, refusal, error.
- *Durations.* Delays, jitter and intervals are events that may happen at any
  time after they become possible.
- *Weights* of smooth weighted round robin: any of the best candidates may be taken.
- In `ProviderRetry`, `Resolve` is one step although the code awaits the query
  between the check and the write (hazard at `token_manager.rs:4109`).
- In `CredentialRegistry`, writing the credential file is one step; `TokenStore`
  has its parts. In `ClientKeys`, a request's group is left out (hazard at
  `middleware.rs:201`).

`PROJECT.json` says for every component what of it is left out.

## Plan

Next theorems, each in the proof module it is named with:

1. `RequestConverter`: that no pass undoes the one before it, for any conversation; then
   `RequestAccepted` from the last one.
2. `IdsKept` and `CallTypeOK` for the instances of their runs.
3. `RepliesSame` for the translations, where whole and streamed answers go through the
   same blocks.

Next modules:

1. `Decoder` — frames cut at any byte, resynchronisation, error limit, against a
   reference definition over bounded inputs.
2. Quota alerts — thresholds crossed once, deliveries retried, a failing save.
3. `ProviderRetry` with the lookup of the ARN in two steps.
4. A composition of `CredentialPool` and `ProviderRetry`: the reports of the call
   as the pool's `CallOutcomes`.
