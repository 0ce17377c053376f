------------------------- MODULE CredentialRegistry -------------------------
(***************************************************************************)
(* Which account has which credential id, in memory, in the credential     *)
(* file and in what is remembered by id: kiro_stats.json and the usage     *)
(* records.  Accounts are added and deleted by concurrent Admin calls, the *)
(* process is killed and restarted, and the offline deduplication tool     *)
(* edits the file in between.                                              *)
(*                                                                         *)
(* A token is a login and the number of times the provider has rotated it. *)
(* Writing the credential file is one step here; TokenStore has its parts. *)
(***************************************************************************)
EXTENDS Integers, FiniteSets, Functions

CONSTANTS
    Logins,         \* accounts at the identity provider
    MaxId, MaxGen,  \* bounds: ids given out, rotations of a login
    Tasks,          \* concurrent calls of the Admin API
    InitialFiles,   \* credential files the first start may find
    Rotations,      \* may a refresh rotate the token: subset of BOOLEAN
    Lenient,        \* the provider accepts tokens it has rotated away
    Deletes,        \* the Admin API deletes credentials
    Kills,          \* the process may be killed during an Admin call
    WriteFails      \* writing the credential file may fail

VARIABLES
    running,        \* the server process
    entries,        \* id -> [token, users]: users are the logins its counters count
    nextId,
    task,           \* the Admin calls in progress
    file,           \* the credential file: id -> token
    loose,          \* tokens the file holds without an id
    statsFile,      \* kiro_stats.json: id -> users
    watermark,      \* the .id-watermark sidecar, 0 when there is none
    tool,           \* the deduplication tool: the ids it will keep, none when it is off
    issued,         \* the provider: rotations of each login
    owners          \* history: the logins the file has held under each id

memory == <<running, entries, nextId, task>>
disk == <<file, loose, statsFile, watermark>>
vars == <<memory, disk, tool, issued, owners>>

Ids == 1..MaxId
Token == [login : Logins, gen : 0..MaxGen]

ASSUME RegistryAssumption ==
    /\ MaxId \in Nat \ {0} /\ MaxGen \in Nat
    /\ Rotations \subseteq BOOLEAN
    /\ {Lenient, Deletes, Kills, WriteFails} \subseteq BOOLEAN
    /\ \A f \in InitialFiles : DOMAIN f \subseteq Ids /\ \A i \in DOMAIN f : f[i] \in Token

Idle == [pc |-> "idle"]
\* The greatest of the numbers, 0 when there is none: a set of one.
Largest(S) == {x \in S \cup {0} : \A y \in S : y <= x}
Ends(t) == task' = [task EXCEPT ![t] = Idle]

(* Everything that writes the file remembers, for the history, who it held. *)
WriteFile(new) ==
    /\ file' = new
    /\ owners' = [i \in Ids |-> IF i \in DOMAIN new THEN owners[i] \cup {new[i].login}
                                ELSE owners[i]]

InMemory(e) == [i \in DOMAIN e |-> e[i].token]
SaveStats(e) == statsFile' = [i \in DOMAIN e |-> e[i].users]

Init ==
    /\ running = FALSE /\ entries = <<>> /\ nextId = 1
    /\ task = [t \in Tasks |-> Idle]
    /\ file \in InitialFiles
    /\ loose \in {{}} \cup {{[login |-> l, gen |-> 0]} : l \in Logins}
    /\ \A k \in loose, i \in DOMAIN file : file[i].login # k.login
    /\ statsFile = <<>> /\ watermark = 0 /\ tool = {}
    /\ issued = [l \in Logins |-> 0]
    /\ owners = [i \in Ids |-> IF i \in DOMAIN file THEN {file[i].login} ELSE {}]

-----------------------------------------------------------------------------
(* The process. *)

\* Slip: the counter is not moved past the id just given.
StartupReissuing == \E top \in Largest(DOMAIN file \cup {watermark}) :
    LET given == IF loose = {} THEN {} ELSE {top + 1}
        held == [i \in DOMAIN file \cup given |->
                    IF i \in given THEN CHOOSE k \in loose : TRUE ELSE file[i]]
    IN  /\ ~running /\ tool = {}
        /\ top + Cardinality(given) <= MaxId
        /\ running' = TRUE
        /\ nextId' = top + 1
        /\ entries' = [i \in DOMAIN held |->
                         [token |-> held[i],
                          users |-> IF i \in DOMAIN statsFile THEN statsFile[i] ELSE {}]]
        /\ IF loose = {} THEN UNCHANGED <<file, owners>> ELSE WriteFile(held)
        /\ loose' = {}
        /\ UNCHANGED <<task, statsFile, watermark, tool, issued>>

(* MultiTokenManager::new.  A credential without an id gets the next one    *)
(* and the file is written; counters are taken from kiro_stats.json by id.  *)
Startup == \E top \in Largest(DOMAIN file \cup {watermark}) :
    LET given == IF loose = {} THEN {} ELSE {top + 1}
        held == [i \in DOMAIN file \cup given |->
                    IF i \in given THEN CHOOSE k \in loose : TRUE ELSE file[i]]
    IN  /\ ~running /\ tool = {}
        /\ top + Cardinality(given) <= MaxId
        /\ running' = TRUE
        /\ nextId' = top + 1 + Cardinality(given)
        /\ entries' = [i \in DOMAIN held |->
                         [token |-> held[i],
                          users |-> IF i \in DOMAIN statsFile THEN statsFile[i] ELSE {}]]
        /\ IF loose = {} THEN UNCHANGED <<file, owners>> ELSE WriteFile(held)
        /\ loose' = {}
        /\ UNCHANGED <<task, statsFile, watermark, tool, issued>>

(* The process ends; counters not yet saved are lost unless it unwinds.     *)
Stop ==
    /\ running
    /\ Kills \/ \A t \in Tasks : task[t] = Idle
    /\ running' = FALSE /\ entries' = <<>> /\ nextId' = 1
    /\ task' = [t \in Tasks |-> Idle]
    /\ SaveStats(entries) \/ UNCHANGED statsFile
    /\ UNCHANGED <<file, loose, watermark, tool, issued, owners>>

(* A call served by a credential, counted in memory and, when the debounce  *)
(* interval has passed, in kiro_stats.json.                                 *)
Serve(i) ==
    /\ running /\ i \in DOMAIN entries
    /\ entries' = [entries EXCEPT ![i].users = @ \cup {entries[i].token.login}]
    /\ SaveStats(entries') \/ UNCHANGED statsFile
    /\ UNCHANGED <<running, nextId, task, file, loose, watermark, tool, issued, owners>>

Accepted(k) == Lenient \/ k.gen = issued[k.login]

\* The provider answers a refresh of k with the token k2.
Refreshes(k, k2) ==
    /\ Accepted(k)
    /\ \E rotates \in Rotations :
         IF rotates
         THEN /\ issued[k.login] < MaxGen
              /\ k2 = [k EXCEPT !.gen = issued[k.login] + 1]
              /\ issued' = [issued EXCEPT ![k.login] = @ + 1]
         ELSE k2 = k /\ UNCHANGED issued

\* A refresh of the credential's own token, and its write.
Refresh(i) ==
    /\ running /\ i \in DOMAIN entries
    /\ \E k \in Token :
         /\ Refreshes(entries[i].token, k)
         /\ entries' = [entries EXCEPT ![i].token = k]
    /\ WriteFile(InMemory(entries'))
    /\ UNCHANGED <<running, nextId, task, loose, statsFile, watermark, tool>>

-----------------------------------------------------------------------------
(* add_credential *)

\* The owner of a login knows the tokens issued, from exports and other programs,
\* but not the one an addition has just received and not yet stored.
Known(k) ==
    /\ k.gen <= issued[k.login]
    /\ \A t \in Tasks : task[t].pc = "insert" => task[t].got # k \/ task[t].sent = k

AddStart(t) ==
    /\ running /\ task[t] = Idle
    /\ \E k \in Token :
         /\ Known(k)
         /\ \A i \in DOMAIN entries : entries[i].token # k
         /\ task' = [task EXCEPT ![t] = [pc |-> "validate", sent |-> k]]
    /\ UNCHANGED <<running, entries, nextId, disk, tool, issued, owners>>

\* The token is refreshed outside the lock; then an id is drawn.
AddValidate(t) ==
    /\ task[t].pc = "validate" /\ nextId <= MaxId
    /\ \E k \in Token :
         /\ Refreshes(task[t].sent, k)
         /\ task' = [task EXCEPT ![t] = [pc |-> "insert", sent |-> task[t].sent,
                                         got |-> k, id |-> nextId]]
    /\ nextId' = nextId + 1
    /\ UNCHANGED <<running, entries, disk, tool, owners>>

AddRefused(t) ==
    /\ task[t].pc = "validate" /\ ~Accepted(task[t].sent)
    /\ Ends(t)
    /\ UNCHANGED <<running, entries, nextId, disk, tool, issued, owners>>

\* Slip: no second look at the entries once the lock is held.
AddInsertUnchecked(t) ==
    /\ task[t].pc = "insert"
    /\ entries' = [i \in DOMAIN entries \cup {task[t].id} |->
                     IF i = task[t].id THEN [token |-> task[t].got, users |-> {}]
                     ELSE entries[i]]
    /\ task' = [task EXCEPT ![t] = [pc |-> "persist", op |-> "add", sent |-> task[t].sent]]
    /\ UNCHANGED <<running, nextId, disk, tool, issued, owners>>

\* The submitted token is compared once more under the lock.
AddInsert(t) ==
    /\ task[t].pc = "insert"
    /\ IF \E i \in DOMAIN entries : entries[i].token = task[t].sent
       THEN Ends(t) /\ UNCHANGED entries
       ELSE /\ entries' = [i \in DOMAIN entries \cup {task[t].id} |->
                             IF i = task[t].id THEN [token |-> task[t].got, users |-> {}]
                             ELSE entries[i]]
            /\ task' = [task EXCEPT ![t] = [pc |-> "persist", op |-> "add", sent |-> task[t].sent]]
    /\ UNCHANGED <<running, nextId, disk, tool, issued, owners>>

-----------------------------------------------------------------------------
(* update_refresh_token: the check and the update are one critical section. *)
(* The credential is a disabled one; which are is CredentialPool's matter.   *)

Replace(t, i, k) ==
    /\ running /\ task[t] = Idle /\ i \in DOMAIN entries
    /\ k.login = entries[i].token.login /\ Known(k)
    /\ \A j \in DOMAIN entries \ {i} : entries[j].token # k
    /\ entries' = [entries EXCEPT ![i].token = k]
    /\ task' = [task EXCEPT ![t] = [pc |-> "persist", op |-> "replace"]]
    /\ UNCHANGED <<running, nextId, disk, tool, issued, owners>>

(* delete_credential: the entry, the file and kiro_stats.json, one after    *)
(* the other.                                                               *)
Delete(t, i) ==
    /\ Deletes /\ running /\ task[t] = Idle /\ i \in DOMAIN entries
    /\ entries' = Restrict(entries, DOMAIN entries \ {i})
    /\ task' = [task EXCEPT ![t] = [pc |-> "persist", op |-> "delete"]]
    /\ UNCHANGED <<running, nextId, disk, tool, issued, owners>>

\* When the write fails the call returns its error and goes no further.
Persist(t) ==
    /\ task[t].pc = "persist"
    /\ \/ /\ WriteFile(InMemory(entries))
          /\ IF task[t].op = "delete"
             THEN task' = [task EXCEPT ![t] = [pc |-> "stats"]]
             ELSE Ends(t)
       \/ WriteFails /\ Ends(t) /\ UNCHANGED <<file, owners>>
    /\ UNCHANGED <<running, entries, nextId, loose, statsFile, watermark, tool, issued>>

\* Slip: the counters of the deleted credential stay on disk.
KeepStats(t) ==
    /\ task[t].pc = "stats"
    /\ Ends(t)
    /\ UNCHANGED <<running, entries, nextId, disk, tool, issued, owners>>

DropStats(t) ==
    /\ task[t].pc = "stats"
    /\ SaveStats(entries)
    /\ Ends(t)
    /\ UNCHANGED <<running, entries, nextId, file, loose, watermark, tool, issued, owners>>

-----------------------------------------------------------------------------
(* The deduplication tool, run while the server is stopped. *)

Used(i) == i \in DOMAIN statsFile /\ statsFile[i] # {}

\* Of the ids that hold one token, one is kept; a used one if there is any.
Keeps(K) ==
    /\ K \subseteq DOMAIN file
    /\ \A i \in DOMAIN file : Cardinality({j \in K : file[j] = file[i]}) = 1
    /\ \A i \in K : Used(i) \/ \A j \in DOMAIN file : file[j] = file[i] => ~Used(j)

\* Slip: the ids are not put on record before they disappear.
DedupUnmarked ==
    /\ ~running /\ tool = {} /\ loose = {}
    /\ \E K \in SUBSET DOMAIN file :
         K # DOMAIN file /\ Keeps(K) /\ tool' = K
    /\ UNCHANGED <<memory, disk, issued, owners>>

(* First the watermark, then the file; the tool may be killed in between.   *)
DedupMark ==
    /\ ~running /\ tool = {} /\ loose = {}
    /\ \E K \in SUBSET DOMAIN file :
         K # DOMAIN file /\ Keeps(K) /\ tool' = K
    /\ watermark' \in Largest(DOMAIN file \cup {watermark})
    /\ UNCHANGED <<memory, file, loose, statsFile, issued, owners>>

DedupReplace ==
    /\ tool # {}
    /\ WriteFile(Restrict(file, tool)) \/ UNCHANGED <<file, owners>>
    /\ tool' = {}
    /\ UNCHANGED <<memory, loose, statsFile, watermark, issued>>

-----------------------------------------------------------------------------

Next ==
    \/ Startup \/ Stop \/ DedupMark \/ DedupReplace
    \/ \E i \in Ids : Serve(i) \/ Refresh(i)
    \/ \E t \in Tasks :
          \/ AddStart(t) \/ AddValidate(t) \/ AddRefused(t) \/ AddInsert(t)
          \/ Persist(t) \/ DropStats(t)
          \/ \E i \in Ids : Delete(t, i) \/ \E k \in Token : Replace(t, i, k)

Spec == Init /\ [][Next]_vars

-----------------------------------------------------------------------------
(* Properties. *)

(* Every variable stays in its type, and an id above the counter is never   *)
(* in use.                                                                  *)
TypeOK ==
    /\ running \in BOOLEAN /\ (~running => entries = <<>>)
    /\ DOMAIN entries \subseteq Ids
    /\ \A i \in DOMAIN entries : /\ entries[i].token \in Token
                                 /\ entries[i].users \subseteq Logins
    /\ DOMAIN file \subseteq Ids /\ \A i \in DOMAIN file : file[i] \in Token
    /\ running => \A i \in DOMAIN entries \cup DOMAIN file : i < nextId
    /\ issued \in [Logins -> 0..MaxGen]

(* No two credentials hold the same token, however additions, token updates *)
(* and refreshes interleave and whatever the provider's habits are          *)
(* (add_credential and update_refresh_token refuse duplicates).             *)
NoTokenTwice ==
    \A i, j \in DOMAIN entries : entries[i].token = entries[j].token => i = j

(* An id that the deduplication tool, or a crash, takes out of the file is  *)
(* never given to another account (issue151: removed ids are not reused     *)
(* after multiple restarts).                                                *)
IdsNotReused == \A i \in Ids : Cardinality(owners[i]) <= 1

(* What is counted for a credential was used by its own account, across     *)
(* deletions and restarts (delete_credential clears the remains of the      *)
(* deleted credential from kiro_stats.json).                                *)
StatsFollowAccount ==
    \A i \in DOMAIN entries : entries[i].users \subseteq {entries[i].token.login}

(* Ids come from a counter that only grows, so that traces, usage and       *)
(* counters kept by id are never inherited by another account.              *)
HistoryNotInherited ==
    \A i \in DOMAIN entries : owners[i] \subseteq {entries[i].token.login}

=============================================================================
