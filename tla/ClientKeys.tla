----------------------------- MODULE ClientKeys -----------------------------
(***************************************************************************)
(* The client keys (src/admin/client_keys.rs) and the requests admitted    *)
(* under them: authentication, limits, settlement, and what an             *)
(* administrator does to a key meanwhile.  Key 0 is the system key, which  *)
(* config.json holds too; a start makes the two agree.                     *)
(*                                                                         *)
(* Every operation of the manager is one critical section of its RwLock    *)
(* and writes the key file before it lets go: keys stands for both.  A     *)
(* secret is a number, the order in which secrets were drawn.  The two     *)
(* billing modes differ in what used counts.                               *)
(***************************************************************************)
EXTENDS Integers, FiniteSets

CONSTANTS
    Visits,                  \* requests to the API
    Limits,                  \* limits an administrator sets
    Unlimited,
    MaxKeys, MaxSecrets,     \* bounds: ids and secrets ever given
    MaxUse,                  \* bound: what a counter reaches
    KeyFaults                \* "config": config.json may not be writable;
                             \* "stop": the process stops and starts

ASSUME KeysAssumption ==
    /\ IsFiniteSet(Visits)
    /\ Limits \subseteq Nat /\ Unlimited \notin Nat
    /\ {MaxKeys, MaxSecrets, MaxUse} \subseteq Nat \ {0}

VARIABLES
    keys,        \* entries: a function on the ids in use
    nextKey,     \* next_id
    apiKey,      \* config.json, apiKey
    visit,       \* the local variables of a request
    rotation,    \* a rotated system key whose config.json is not written yet
    drawn,       \* the last secret drawn
    revoked,     \* history: secrets an administrator was told are void
    ceiling      \* history: the largest limit under which a request was
                 \* admitted since the counter was last zero

keyVars == <<keys, nextKey, apiKey, visit, rotation, drawn, revoked, ceiling>>

NoRotation == 0
KeyIds == 0..MaxKeys
Secrets == 1..MaxSecrets
Visit == [pc : {"idle", "serving"}, key : KeyIds, serial : Secrets \cup {0}]

\* serial is the secret the key was created with: it tells apart keys that
\* have the same id at different times.
Key == [secret : Secrets, serial : Secrets, disabled : BOOLEAN,
        max : Limits \cup {Unlimited}, used : 0..MaxUse]

NewKey(s, max) == [secret |-> s, serial |-> s, disabled |-> FALSE, max |-> max, used |-> 0]

\* HashMap insert and remove.
With(f, id, k) == [i \in DOMAIN f \cup {id} |-> IF i = id THEN k ELSE f[i]]
Without(f, ids) == [i \in DOMAIN f \ ids |-> f[i]]

\* load: the id after the greatest in use.
Following(f) == {id \in {i + 1 : i \in DOMAIN f} : \A i \in DOMAIN f : i < id}

-----------------------------------------------------------------------------
(* A start: load, then sync_system_key.                                     *)

\* Slip: the entries that hold the same plaintext stay.
SyncedKeeping(f, s) ==
    With(f, 0, IF 0 \in DOMAIN f THEN [f[0] EXCEPT !.secret = s] ELSE NewKey(s, Unlimited))

Synced(f, s) ==
    LET old == IF 0 \in DOMAIN f THEN {f[0].secret} ELSE {}
        clash == {id \in DOMAIN f \ {0} : f[id].secret \in old \cup {s}}
        entry == IF 0 \notin DOMAIN f THEN NewKey(s, Unlimited)
                 ELSE [f[0] EXCEPT !.secret = s, !.disabled = @ /\ f[0].secret = s]
    IN With(Without(f, clash), 0, entry)

Absent == [pc |-> "idle", key |-> 0, serial |-> 0]

KeyInit ==
    /\ drawn = 1 /\ apiKey = 1
    /\ keys = Synced(<<>>, apiKey)
    /\ nextKey = 1
    /\ visit = [v \in Visits |-> Absent]
    /\ rotation = NoRotation
    /\ revoked = {}
    /\ ceiling = [id \in KeyIds |-> 0]

\* The process stops at any point and starts again; the operator may have
\* put another value into config.json, be it one that a client key holds.
RestartKeys ==
    /\ "stop" \in KeyFaults
    /\ \E s \in {apiKey} \cup {keys[id].secret : id \in DOMAIN keys} :
         /\ apiKey' = s
         /\ keys' = Synced(keys, s)
         /\ revoked' = IF s = apiKey THEN revoked ELSE revoked \cup ({apiKey, keys[0].secret} \ {s})
    /\ nextKey' \in Following(keys)
    /\ visit' = [v \in Visits |-> Absent]
    /\ rotation' = NoRotation
    /\ UNCHANGED <<drawn, ceiling>>

-----------------------------------------------------------------------------
(* A request (auth_middleware).                                             *)

Unpaid(id) == {v \in Visits : visit[v].pc = "serving" /\ visit[v].key = id}

\* An unlimited key may use all that can be counted.
Allowance(k) == IF k.max = Unlimited THEN MaxUse ELSE k.max

Admit(v, id) ==
    /\ visit[v].pc = "idle"
    /\ visit' = [visit EXCEPT ![v] = [pc |-> "serving", key |-> id, serial |-> keys[id].serial]]
    /\ ceiling' = [ceiling EXCEPT ![id] = IF Allowance(keys[id]) > @ THEN Allowance(keys[id]) ELSE @]
    /\ UNCHANGED <<keys, nextKey, apiKey, rotation, drawn, revoked>>

\* Slip: a key at its limit is let in.
VerifyUnlimited(v, s) ==
    \E id \in DOMAIN keys : ~keys[id].disabled /\ keys[id].secret = s /\ Admit(v, id)

\* verify_and_touch_ex, when it answers Ok; a request it refuses is over.
Verify(v, s) ==
    \E id \in DOMAIN keys :
        /\ ~keys[id].disabled /\ keys[id].secret = s
        /\ keys[id].max # Unlimited => keys[id].used < keys[id].max
        /\ Admit(v, id)

\* record_usage, record_successful_call: a success is counted once; an error
\* or a cancelled stream is not.  A key that is gone is not charged.
Settle(v) ==
    /\ visit[v].pc = "serving"
    /\ \E paid \in 0..1, id \in {visit[v].key} :
         /\ id \in DOMAIN keys => keys[id].used + paid <= MaxUse
         /\ keys' = [i \in DOMAIN keys |-> IF i = id THEN [keys[i] EXCEPT !.used = @ + paid] ELSE keys[i]]
    /\ visit' = [visit EXCEPT ![v] = Absent]
    /\ UNCHANGED <<nextKey, apiKey, rotation, drawn, revoked, ceiling>>

-----------------------------------------------------------------------------
(* The administrator (src/admin/handlers.rs).                               *)

Edits(ids) == rotation = NoRotation /\ UNCHANGED <<apiKey, visit, rotation>> /\ ids \subseteq KeyIds

\* Slip: the id after the greatest in use.
CreateLowest ==
    \E id \in Following(keys), max \in Limits \cup {Unlimited} :
        /\ Edits({id}) /\ drawn < MaxSecrets
        /\ drawn' = drawn + 1
        /\ keys' = With(keys, id, NewKey(drawn', max))
        /\ ceiling' = [ceiling EXCEPT ![id] = 0]
        /\ UNCHANGED <<nextKey, revoked>>

\* create_client_key: the writes that follow the insertion come before its
\* secret is known to anyone.
CreateKey ==
    /\ Edits({nextKey}) /\ drawn < MaxSecrets
    /\ drawn' = drawn + 1 /\ nextKey' = nextKey + 1
    /\ \E max \in Limits \cup {Unlimited} : keys' = With(keys, nextKey, NewKey(drawn', max))
    /\ ceiling' = [ceiling EXCEPT ![nextKey] = 0]
    /\ UNCHANGED revoked

\* delete_client_key; delete refuses the system key.
DeleteKey(id) ==
    /\ Edits({id}) /\ id \in DOMAIN keys \ {0}
    /\ keys' = Without(keys, {id})
    /\ revoked' = revoked \cup {keys[id].secret}
    /\ UNCHANGED <<nextKey, drawn, ceiling>>

\* set_disabled; set_max_credits and the limit of calls in update_meta.
EditKey(id) ==
    /\ Edits({id}) /\ id \in DOMAIN keys
    /\ \/ \E max \in Limits \cup {Unlimited} : keys' = [keys EXCEPT ![id].max = max]
       \/ keys' = [keys EXCEPT ![id].disabled = ~@]
    /\ UNCHANGED <<nextKey, drawn, revoked, ceiling>>

\* reset_stats.
ResetKey(id) ==
    /\ Edits({id}) /\ id \in DOMAIN keys
    /\ keys' = [keys EXCEPT ![id].used = 0]
    /\ ceiling' = [ceiling EXCEPT ![id] = 0]
    /\ UNCHANGED <<nextKey, drawn, revoked>>

\* Slip: the system key's new secret is not written to config.json.
RotateUnsaved(id) ==
    /\ rotation = NoRotation /\ id \in DOMAIN keys /\ drawn < MaxSecrets
    /\ drawn' = drawn + 1
    /\ keys' = [keys EXCEPT ![id].secret = drawn']
    /\ revoked' = revoked \cup {keys[id].secret}
    /\ UNCHANGED <<nextKey, apiKey, visit, ceiling, rotation>>

\* rotate_client_key; the system key's new secret then goes to config.json,
\* and only then is the administrator told.
RotateKey(id) ==
    /\ rotation = NoRotation /\ id \in DOMAIN keys /\ drawn < MaxSecrets
    /\ drawn' = drawn + 1
    /\ keys' = [keys EXCEPT ![id].secret = drawn']
    /\ rotation' = IF id = 0 THEN keys[0].secret ELSE NoRotation
    /\ revoked' = IF id = 0 THEN revoked ELSE revoked \cup {keys[id].secret}
    /\ UNCHANGED <<nextKey, apiKey, visit, ceiling>>

\* persist_api_key: a failure is only logged, and the old secret comes back
\* at the next start.
PersistApiKey ==
    /\ rotation # NoRotation
    /\ \/ apiKey' = keys[0].secret /\ revoked' = revoked \cup {rotation}
       \/ "config" \in KeyFaults /\ UNCHANGED <<apiKey, revoked>>
    /\ rotation' = NoRotation
    /\ UNCHANGED <<keys, nextKey, visit, drawn, ceiling>>

KeyNext ==
    \/ \E v \in Visits : (\E s \in Secrets : Verify(v, s)) \/ Settle(v)
    \/ \E id \in KeyIds : DeleteKey(id) \/ EditKey(id) \/ ResetKey(id) \/ RotateKey(id)
    \/ CreateKey \/ PersistApiKey \/ RestartKeys

KeySpec == KeyInit /\ [][KeyNext]_keyVars

-----------------------------------------------------------------------------
(* Properties.                                                              *)

\* The types; the system key is always there (sync_system_key, delete), and a
\* secret opens one key: whatever is created, rotated or put into config.json,
\* the scan in verify_and_touch_ex has at most one answer.
KeyTypeOK ==
    /\ DOMAIN keys \subseteq KeyIds /\ 0 \in DOMAIN keys
    /\ \A id \in DOMAIN keys : keys[id] \in Key
    /\ \A i, j \in DOMAIN keys : keys[i].secret = keys[j].secret => i = j
    /\ nextKey \in 1..MaxKeys + 1 /\ drawn \in Secrets /\ apiKey \in Secrets
    /\ visit \in [Visits -> Visit]
    /\ rotation \in Secrets \cup {NoRotation}
    /\ revoked \subseteq Secrets
    /\ ceiling \in [KeyIds -> Nat]

\* Limits are checked at admission and charged at settlement
\* (verify_and_touch_ex, record_usage): requests together overrun the largest
\* limit they were admitted under by no more than there are requests.
OvershootBounded ==
    \A id \in DOMAIN keys :
        keys[id].used + Cardinality(Unpaid(id)) <= ceiling[id] + Cardinality(Visits)

\* A request pays with the key it was admitted under: the id it carries
\* through its life is not given to another key meanwhile.
PaysOwnKey ==
    \A v \in Visits :
        visit[v].pc = "serving" /\ visit[v].key \in DOMAIN keys
            => keys[visit[v].key].serial = visit[v].serial

\* A secret an administrator was told is void (deleted, rotated, replaced in
\* config.json) opens no key again, stops and starts included; but for a
\* system key whose successor config.json did not take (persist_api_key).
RevokedStaysRevoked ==
    \A id \in DOMAIN keys : keys[id].secret \notin revoked

\* Together: what is charged and to whom, and what opens nothing any more.
KeysKept == OvershootBounded /\ PaysOwnKey /\ RevokedStaysRevoked

=============================================================================
